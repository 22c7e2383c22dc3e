------------------------------ MODULE VoipBook ------------------------------
(* The house's own telephone book: one indoor account per user, the ring      *)
(* groups and the door station (voip/normalize.ts), the installer's editor    *)
(* that replaces it as a whole, and the dial plan written for Asterisk        *)
(* (voip/asteriskConfig.ts).                                                  *)
EXTENDS Integers, Sequences, FiniteSets, Filtering

CONSTANTS
    Users,      \* the accounts there can be, numbers, in the order of the house
    Numbers,    \* the telephone numbers an installer may type
    MaxFresh,   \* bound: the identities and passwords made up
    MaxSaves,   \* bound: the editor opened, a password reset, the accounts saved
    None

BookAssumption ==
    /\ Users \subseteq Nat /\ Numbers \subseteq Nat \ {0} /\ None \notin Nat
    /\ MaxFresh \in Nat /\ MaxFresh >= 3 /\ MaxSaves \in Nat

VARIABLES
    house,      \* the book: see Book
    edit,       \* the copy in the installer's editor, or None
    put,        \* the user list being saved, with the house it was read beside, or None
    pbx,        \* what Asterisk was last given: the accounts and the dial plan
    behind,     \* the book was normalised since, and nothing written
    saves       \* how often so far

vars == <<house, edit, put, pbx, behind, saves>>

Home == 1                       \* "grp-woning", the group made when there is none
Range0(s) == {s[i] : i \in DOMAIN s}
IdsOf(list) == {r.id : r \in Range0(list)}
With(list, id) == CHOOSE r \in Range0(list) : r.id = id
Without(s, i) == Picked(s, DOMAIN s \ {i})

-----------------------------------------------------------------------------
(* normalizeVoip.                                                             *)

(* The users go by in their order: the first whose own note names an account  *)
(* without a user gets it.  The notes are all written anew below.             *)
Claims(h, i) ==
    {u \in h.users : h.link[u] = h.eps[i].id /\ \A j \in 1..i - 1 : h.eps[j].id # h.eps[i].id}
Linked(h) ==
    [h EXCEPT !.eps = [i \in DOMAIN h.eps |->
        IF h.eps[i].user = None /\ Claims(h, i) # {}
        THEN [h.eps[i] EXCEPT !.user = Least(Claims(h, i))] ELSE h.eps[i]]]

(* Accounts without a user are dropped, and all but the first of a user.      *)
OfUsers(h) == {i \in DOMAIN h.eps : h.eps[i].user \in h.users}
(* Mutant: a second account of a user is kept.                               *)
KeptAll(h) == Picked(h.eps, OfUsers(h))
Kept(h) == Picked(h.eps, {i \in OfUsers(h) : \A j \in 1..i - 1 : h.eps[j].user # h.eps[i].user})
Noted(h, eps) ==
    [h EXCEPT !.eps = eps,
              !.link = [u \in Users |-> IF \E e \in Range0(eps) : e.user = u
                                      THEN (CHOOSE e \in Range0(eps) : e.user = u).id ELSE None]]

UsedExts(h) == {r.ext : r \in Range0(h.eps) \cup Range0(h.groups)} \cup {h.door.ext}
NextExt(used, start) ==
    CHOOSE n \in start..start + Cardinality(used) :
        n \notin used /\ \A m \in start..n - 1 : m \in used

(* Numbers and passwords for those that have none.                            *)
Given(h, i) ==
    [h EXCEPT !.eps[i] = [h.eps[i] EXCEPT !.ext = IF @ = None THEN NextExt(UsedExts(h), 201) ELSE @,
                                          !.pw = IF @ = None THEN h.fresh ELSE @],
              !.fresh = IF h.eps[i].pw = None THEN h.fresh + 1 ELSE h.fresh]
Numbered(h) ==
    LET upTo[n \in 0..Len(h.eps)] == IF n = 0 THEN h ELSE Given(upTo[n - 1], n)
    IN  upTo[Len(h.eps)]

Known(h, members) == Picked(members, {k \in DOMAIN members : members[k] \in IdsOf(h.eps)})
Filled(h, i) ==
    [h EXCEPT !.groups[i] = [id |-> h.groups[i].id, members |-> Known(h, h.groups[i].members),
                             ext |-> IF h.groups[i].ext = None THEN NextExt(UsedExts(h), 900)
                                     ELSE h.groups[i].ext]]
Grouped(h) ==
    LET upTo[n \in 0..Len(h.groups)] == IF n = 0 THEN h ELSE Filled(upTo[n - 1], n)
    IN  upTo[Len(h.groups)]
Homed(h) ==
    IF h.groups # <<>> \/ h.eps = <<>> THEN h
    ELSE [h EXCEPT !.groups = <<[id |-> Home, ext |-> NextExt(UsedExts(h), 900),
                                 members |-> [i \in DOMAIN h.eps |-> h.eps[i].id]]>>]

Doored(h) ==
    [h EXCEPT !.door = [ext |-> IF h.door.ext = None THEN NextExt(UsedExts(h), 101) ELSE h.door.ext,
                        pw |-> IF h.door.pw = None THEN h.fresh ELSE h.door.pw,
                        group |-> IF h.door.group = None /\ h.groups # <<>> THEN h.groups[1].id
                                  ELSE h.door.group,
                        buttons |-> h.door.buttons],
              !.fresh = IF h.door.pw = None THEN h.fresh + 1 ELSE h.fresh]

NormalizeVoip(h) ==
    LET linked == Linked(h) IN Doored(Homed(Grouped(Numbered(Noted(linked, Kept(linked))))))

(* mergeVoipSecrets: an empty password keeps the one in use.                  *)
(* Mutant: an empty password is taken as new.                                 *)
NoMerge(next, prev) == next
Merged(next, prev) ==
    [next EXCEPT !.eps = [i \in DOMAIN next.eps |->
                    IF next.eps[i].pw = None /\ next.eps[i].id \in IdsOf(prev.eps)
                    THEN [next.eps[i] EXCEPT !.pw = With(prev.eps, next.eps[i].id).pw]
                    ELSE next.eps[i]],
                 !.door.pw = IF next.door.pw = None THEN prev.door.pw ELSE next.door.pw]
MergeVoipSecrets(next, prev) == Merged(next, prev)

-----------------------------------------------------------------------------
(* The dial plan.  A number rings a set of numbers; {}: the call waits.       *)
GroupDial(h, id) ==
    IF id \notin IdsOf(h.groups) THEN {}
    ELSE {With(h.eps, m).ext : m \in Range0(With(h.groups, id).members)}

IntercomRingTargets(door) ==
    LET all == <<door.group>> \o door.buttons
    IN  Picked(all, {i \in DOMAIN all : all[i] # None /\ \A j \in 1..i - 1 : all[j] # all[i]})
Usable(h) ==
    LET all == IntercomRingTargets(h.door)
    IN  Picked(all, {i \in DOMAIN all : GroupDial(h, all[i]) # {}})
ExtOf(h, id) == With(h.groups, id).ext

(* The extensions of the door's context, in order: <<number, what it rings>>. *)
(* Of two lines with one number the first counts (see Rings), so a number that *)
(* is taken need not be left out here.                                        *)
MonitorCallbackLines(h) == [i \in DOMAIN h.eps |-> <<h.eps[i].ext, {h.eps[i].ext}>>]
BuildDoorRingContext(h) ==
    LET rows == [i \in DOMAIN Usable(h) |-> <<ExtOf(h, Usable(h)[i]), GroupDial(h, Usable(h)[i])>>]
    IN  [lines |-> rows \o MonitorCallbackLines(h),
         other |-> IF rows = <<>> THEN {} ELSE rows[1][2]]

BuildAsteriskFiles(h) ==
    [accounts |-> {<<e.ext, e.pw>> : e \in Range0(h.eps)} \cup {<<h.door.ext, h.door.pw>>},
     door     |-> BuildDoorRingContext(h)]

(* What Asterisk does with a number the door dials: the first exact line,     *)
(* else the pattern.                                                          *)
Rings(plan, number) ==
    LET at == {i \in DOMAIN plan.lines : plan.lines[i][1] = number}
    IN  IF at = {} THEN plan.other ELSE plan.lines[CHOOSE i \in at : \A j \in at : i <= j][2]

-----------------------------------------------------------------------------
Book == [users |-> Users, link |-> [u \in Users |-> None], eps |-> <<>>, groups |-> <<>>,
         door |-> [ext |-> None, pw |-> None, group |-> None, buttons |-> <<>>], fresh |-> 2,
         typed |-> {}]               \* history: the numbers that were typed

Init ==
    /\ house = NormalizeVoip(Book)
    /\ pbx = BuildAsteriskFiles(house)
    /\ edit = None /\ put = None /\ behind = FALSE /\ saves = 0

(* GET /installer/house: the passwords of the book are not left out.          *)
Open ==
    /\ edit = None /\ saves < MaxSaves
    /\ edit' = house /\ saves' = saves + 1
    /\ UNCHANGED <<house, put, pbx, behind>>

(* What the installer can do to the copy: numbers and passwords are typed as  *)
(* they are on the device, or emptied; whether another has the number is      *)
(* shown, and saved all the same.                                             *)
Typing(c, n) == [c EXCEPT !.typed = @ \cup ({n} \ {None})]
Passwords == {None, house.fresh}
AddAccount(c, u) ==
    [c EXCEPT !.eps = Append(@, [id |-> house.fresh, user |-> u, ext |-> None, pw |-> None])]
DropAccount(c, i) == [c EXCEPT !.eps = Without(@, i)]
SetUser(c, i, u) == [c EXCEPT !.eps[i].user = u]
SetPassword(c, i, pw) == [c EXCEPT !.eps[i].pw = pw]
SetExt(c, i, n) == [Typing(c, n) EXCEPT !.eps[i].ext = n]
SetSipPassword(c, pw) == [c EXCEPT !.door.pw = pw]
SetSipExt(c, n) == [Typing(c, n) EXCEPT !.door.ext = n]
AddGroup(c, members, buttons) ==
    [c EXCEPT !.groups = Append(@, [id |-> house.fresh, ext |-> None, members |-> members]),
              !.door = [@ EXCEPT !.buttons = buttons]]
DropGroup(c, i) == [c EXCEPT !.groups = Without(@, i)]
EmptyGroup(c, i) == [c EXCEPT !.groups[i].members = <<>>]
SetDoorGroup(c, g) == [c EXCEPT !.door = [@ EXCEPT !.group = g, !.buttons = <<>>]]
Edits(c) ==
    {AddAccount(c, u) : u \in c.users}
    \cup {DropAccount(c, i) : i \in DOMAIN c.eps}
    \cup {SetUser(c, i, u) : i \in DOMAIN c.eps, u \in c.users \cup {None}}
    \cup {SetPassword(c, i, pw) : i \in DOMAIN c.eps, pw \in Passwords}
    \cup {SetExt(c, i, n) : i \in DOMAIN c.eps, n \in Numbers \cup {None}}
    \cup {SetSipPassword(c, pw) : pw \in Passwords}
    \cup {SetSipExt(c, n) : n \in Numbers \cup {None}}
    \cup {AddGroup(c, m, b) : m \in {<<>>} \cup {<<e.id>> : e \in Range0(c.eps)},
                              b \in {<<>>, <<house.fresh>>}}
    \cup {DropGroup(c, i) : i \in DOMAIN c.groups}
    \cup {EmptyGroup(c, i) : i \in DOMAIN c.groups}
    \cup {SetDoorGroup(c, g) : g \in IdsOf(c.groups) \cup {None}}

(* validateIntercomSemantics: the buttons' groups exist and differ.           *)
Valid(h) ==
    LET named == (IF h.door.group = None THEN <<>> ELSE <<h.door.group>>) \o h.door.buttons
    IN  /\ Range0(named) \subseteq IdsOf(h.groups)
        /\ \A i, j \in DOMAIN named : named[i] = named[j] => i = j

(* PUT /installer/house with an edited copy; users that are gone since have   *)
(* no password any more, and it is refused.                                   *)
Save(c) ==
    LET next == NormalizeVoip(MergeVoipSecrets([c EXCEPT !.fresh = house.fresh + 1], house))
    IN  /\ c.users \subseteq house.users /\ Valid(next) /\ next.fresh <= MaxFresh
        /\ house' = next /\ pbx' = BuildAsteriskFiles(next)
        /\ behind' = FALSE /\ edit' = None
        /\ UNCHANGED <<put, saves>>

Discard == edit # None /\ edit' = None /\ UNCHANGED <<house, put, pbx, behind, saves>>

(* POST /voip/endpoints/:id/password.                                         *)
ResetPassword(i) ==
    /\ house.fresh < MaxFresh /\ saves < MaxSaves
    /\ LET next == [house EXCEPT !.eps[i].pw = house.fresh, !.fresh = @ + 1]
       IN  house' = next /\ pbx' = BuildAsteriskFiles(next)
    /\ behind' = FALSE /\ saves' = saves + 1
    /\ UNCHANGED <<edit, put>>

(* PUT /users: the house is read before the hashing of a new password is      *)
(* awaited.                                                                   *)
PutUsers(U) ==
    /\ put = None /\ U # {} /\ saves < MaxSaves
    /\ put' = [users |-> U, of |-> house] /\ saves' = saves + 1
    /\ UNCHANGED <<house, edit, pbx, behind>>

(* The clone of that house is kept with the list, whatever was saved since;   *)
(* Asterisk hears nothing of it.                                              *)
Listed == [put.of EXCEPT !.users = put.users, !.link = [u \in Users |-> None],
                         !.fresh = house.fresh]
UsersPut ==
    /\ put # None
    /\ house' = NormalizeVoip(Listed) /\ put' = None
    /\ behind' = TRUE
    /\ UNCHANGED <<edit, pbx, saves>>

(* The process starts anew on the file, and a request under way is lost.      *)
Restart ==
    /\ house' = NormalizeVoip(house) /\ pbx' = BuildAsteriskFiles(house') /\ behind' = FALSE
    /\ put' = None
    /\ UNCHANGED <<edit, saves>>

Next ==
    \/ Open \/ Discard \/ UsersPut \/ Restart
    \/ edit # None /\ \E c \in Edits(edit) : Save(c)
    \/ \E i \in DOMAIN house.eps : ResetPassword(i)
    \/ \E U \in SUBSET Users : PutUsers(U)

-----------------------------------------------------------------------------
(* The state has its type.                                                    *)
TypesOK ==
    /\ house.users \subseteq Users /\ house.fresh \in 1..MaxFresh
    /\ \A e \in Range0(house.eps) : e.user \in Users /\ e.ext \in Nat /\ e.pw \in Nat
    /\ behind \in BOOLEAN /\ saves \in 0..MaxSaves

(* Who has a number, and is it one party's alone?                             *)
Holders(h, n) ==
    {<<"account", i>> : i \in {k \in DOMAIN h.eps : h.eps[k].ext = n}}
    \cup {<<"group", i>> : i \in {k \in DOMAIN h.groups : h.groups[k].ext = n}}
    \cup {<<"door", 0>> : i \in {k \in {0} : h.door.ext = n}}
Alone(h, n) == \A x, y \in Holders(h, n) : x = y

(* Whatever was saved, each indoor account belongs to one user of the house   *)
(* and is noted with it, two parties share a number only if the installer     *)
(* typed it for one of them, the groups name accounts there are, and          *)
(* normalising the book again changes nothing.                                *)
BookSound ==
    LET eps == Range0(house.eps)
    IN  /\ \A e \in eps : e.user \in house.users /\ house.link[e.user] = e.id
        /\ \A u \in Users : house.link[u] # None => \E e \in eps : e.user = u
        /\ \A n \in UsedExts(house) \ house.typed : Alone(house, n)
        /\ \A g \in Range0(house.groups) : Range0(g.members) \subseteq IdsOf(house.eps)
        /\ NormalizeVoip(house) = house

(* Knop 1 rings the door's group, a further button its own, a panel that      *)
(* called the door is called back alone, and any other number rings the       *)
(* first group that has someone in it: each at a number that is one party's,  *)
(* and once Asterisk was given the book as it is.                             *)
DialSound ==
    ~behind =>
      /\ \A e \in Range0(house.eps) : Alone(house, e.ext) =>
            Rings(pbx.door, e.ext) = {e.ext} /\ <<e.ext, e.pw>> \in pbx.accounts
      /\ \A g \in Range0(IntercomRingTargets(house.door)) :
            GroupDial(house, g) # {} /\ Alone(house, ExtOf(house, g)) =>
                Rings(pbx.door, ExtOf(house, g)) = GroupDial(house, g)
      /\ Usable(house) # <<>> => Rings(pbx.door, 0) = GroupDial(house, Usable(house)[1])

(* A password changes only when it is reset or typed; or goes back to the one *)
(* a copy had that is saved: the editor's, or the house read for a user list  *)
(* whose new password was being hashed.  One that is left empty stays.        *)
FromCopy(copy, id, pw) == id \in IdsOf(copy.eps) /\ With(copy.eps, id).pw = pw
SecretsKept ==
    LET saved == edit # None /\ edit' = None
        listed == put # None /\ put' = None
        door == house'.door.pw
    IN  /\ \/ door = house.door.pw
           \/ saved /\ door \in {edit.door.pw, house.fresh}
           \/ listed /\ door = put.of.door.pw
        /\ \A i \in DOMAIN house.eps :
              LET e == house.eps[i]
                  pw == With(house'.eps, e.id).pw
              IN  \/ e.id \notin IdsOf(house'.eps)
                  \/ pw = e.pw
                  \/ ResetPassword(i)
                  \/ saved /\ (pw = house.fresh \/ FromCopy(edit, e.id, pw))
                  \/ listed /\ FromCopy(put.of, e.id, pw)
PasswordsKept == [][SecretsKept]_vars
=============================================================================
