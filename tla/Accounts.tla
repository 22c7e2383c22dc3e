------------------------------ MODULE Accounts ------------------------------
(* The accounts of the house and what hangs on them: the refresh sessions and *)
(* the pairing codes of sessions.ts.  Accounts are edited by PUT /users,      *)
(* which hashes new passwords between reading the list and writing it, and  *)
(* sends back the list it fetched when it was opened.                         *)
EXTENDS Naturals, FiniteSets

CONSTANTS
    Users, Sids, Codes,
    Roles,      \* the first accounts: user -> role
    Wishes,     \* what is asked of an account: see Wished
    MaxPuts,    \* bound: PUTs of the list
    Gone, None

VARIABLES
    users,      \* house.json: user -> account or None
    sessions,   \* sessions.json: id -> session, None (not issued) or Gone
    codes,      \* pairCodes: code -> user or None
    edit,       \* a PUT /users between the read and the write
    login,      \* a POST /auth/login during its bcrypt.compare
    editor,     \* the list the open house editor fetched
    puts        \* the PUTs so far; a new password is the number of its PUT

vars == <<users, sessions, codes, edit, login, editor, puts>>

Account == [role : {"installer", "superuser", "user"}, enabled : BOOLEAN,
            pw : 0..MaxPuts]
Session == [user : Users, revoked : BOOLEAN, pw : 0..MaxPuts, loose : BOOLEAN]

AccountsAssumption ==
    /\ MaxPuts \in Nat /\ None \notin Account
    /\ Roles \in [DOMAIN Roles -> {"installer", "superuser", "user"}] /\ DOMAIN Roles \subseteq Users

TypesOK ==
    /\ users \in [Users -> Account \cup {None}]
    /\ sessions \in [Sids -> Session \cup {None, Gone}]
    /\ codes \in [Codes -> Users \cup {None}]
    /\ puts \in 0..MaxPuts

Init ==
    /\ users = [u \in Users |-> IF u \in DOMAIN Roles
                 THEN [role |-> Roles[u], enabled |-> TRUE, pw |-> 0]
                 ELSE None]
    /\ sessions = [s \in Sids |-> None]
    /\ codes = [c \in Codes |-> None]
    /\ edit = None /\ login = None /\ editor = None
    /\ puts = 0

-----------------------------------------------------------------------------
Enabled(u) == users[u] # None /\ users[u].enabled
Staff(u) == users[u] # None /\ users[u].role \in {"installer", "superuser"}
Stored(s) == sessions[s] \notin {None, Gone}
Live(s) == Stored(s) /\ ~sessions[s].revoked

(* issue: the new session is added and the revoked ones are thrown away.      *)
Issue(s, u, pw, loose) ==
    /\ sessions[s] = None
    /\ sessions' = [t \in Sids |->
         IF t = s THEN [user |-> u, revoked |-> FALSE, pw |-> pw, loose |-> loose]
         ELSE IF Stored(t) /\ sessions[t].revoked THEN Gone ELSE sessions[t]]

(* revokeAllForUser(u, keep) for every user of a set.                         *)
Revoked(gone, actor, keep) ==
    [s \in Sids |->
        IF Live(s) /\ sessions[s].user \in gone
        THEN IF s = keep /\ sessions[s].user = actor
             THEN [sessions[s] EXCEPT !.loose = TRUE]
             ELSE [sessions[s] EXCEPT !.revoked = TRUE]
        ELSE sessions[s]]

-----------------------------------------------------------------------------
(* POST /auth/login: authenticate reads the account, compares, and signs in   *)
(* whoever is there by the time the comparison is done.                       *)
LoginStarts(u) ==
    /\ login = None /\ Enabled(u)
    /\ login' = [user |-> u, pw |-> users[u].pw]
    /\ UNCHANGED <<users, sessions, codes, edit, editor, puts>>

LoginEnds(s) ==
    /\ login # None
    /\ login' = None
    /\ \/ Enabled(login.user)
          /\ Issue(s, login.user, login.pw, users[login.user].pw # login.pw)
       \/ ~Enabled(login.user) /\ UNCHANGED sessions
    /\ UNCHANGED <<users, codes, edit, editor, puts>>

(* POST /auth/pair/start and /auth/pair/claim; a code may also expire.        *)
PairStarts(c, by, u) ==
    /\ codes[c] = None /\ Enabled(by) /\ users[u] # None
    /\ by = u \/ Staff(by)
    /\ codes' = [codes EXCEPT ![c] = u]
    /\ UNCHANGED <<users, sessions, edit, login, editor, puts>>

PairClaims(c, s) ==
    /\ codes[c] # None
    /\ codes' = [codes EXCEPT ![c] = None]
    /\ \/ Enabled(codes[c]) /\ Issue(s, codes[c], users[codes[c]].pw, FALSE)
       \/ UNCHANGED sessions
    /\ UNCHANGED <<users, edit, login, editor, puts>>

(* refreshAccess accepts the token: the account must still be there and on.   *)
Refreshes(s) == Live(s) /\ Enabled(sessions[s].user)

(* POST /auth/logout and DELETE /auth/sessions/:id.                           *)
Revokes(s) ==
    /\ Live(s)
    /\ sessions' = [sessions EXCEPT ![s].revoked = TRUE]
    /\ UNCHANGED <<users, codes, edit, login, editor, puts>>

-----------------------------------------------------------------------------
(* What a client may ask of one account.                                      *)
Wished(list, w, u, pw) ==
    [list EXCEPT ![u] =
        IF w = "remove" THEN None
        ELSE IF @ = None
             THEN IF w = "add" THEN [role |-> "user", enabled |-> TRUE, pw |-> pw] ELSE None
        ELSE CASE w = "password"              -> [@ EXCEPT !.pw = pw]
               [] w \in {"disable", "enable"} -> [@ EXCEPT !.enabled = (w = "enable")]
               [] w \in {"installer", "superuser"} -> [@ EXCEPT !.role = w]
               [] OTHER                       -> @]

(* assertUsersMutation: whom a super user may not touch, and what is put back *)
(* of an installer's account.                                                 *)
Installers(list) == {u \in Users : list[u] # None /\ list[u].role = "installer"}
MayMutate(actor, role, previous, next) ==
    /\ role \in {"installer", "superuser"}
    /\ next[actor] # None
    /\ role = "installer" \/ Installers(previous) = Installers(next)
PutBackBy(role, previous, next) ==
    [u \in Users |->
        IF role = "superuser" /\ u \in Installers(previous) /\ next[u] # None
        THEN [next[u] EXCEPT !.role = "installer", !.pw = previous[u].pw]
        ELSE next[u]]

(* PUT /users: the list is read, and the one that will be written is made     *)
(* from it.  Hashing a new password comes between; without one it is all one  *)
(* step.                                                                      *)
Hashed == {"password", "add"}
PutOf(actor, w, u, pw) ==
    [actor |-> actor, role |-> users[actor].role, previous |-> users,
     next |-> Wished(users, w, u, pw), changed |-> {v \in {u} : w = "password"}]

PutStarts(actor, w, u) ==
    /\ edit = None /\ Enabled(actor) /\ Staff(actor)
    /\ w \in Hashed
    /\ puts < MaxPuts /\ puts' = puts + 1
    /\ edit' = PutOf(actor, w, u, puts')
    /\ UNCHANGED <<users, sessions, codes, login, editor>>

(* And from there: the checks, the write, and the devices of whoever is gone, *)
(* switched off or has a new password.  An account made since the list was    *)
(* read is lost, and its devices stay.                                        *)
Unseated(previous, next, changed) ==
    {u \in Users : previous[u] # None /\
        \/ next[u] = None
        \/ previous[u].enabled /\ ~next[u].enabled
        \/ previous[u].pw # next[u].pw
        \/ u \in changed}
UnseatedByAbsence(previous, next, changed) ==
    {u \in Users : previous[u] # None /\ (next[u] = None \/ ~next[u].enabled)}

UnseatedUsers(previous, next, changed) == Unseated(previous, next, changed)

Put(e, keep) ==
    LET next == PutBackBy(e.role, e.previous, e.next)
    IN  \/ /\ MayMutate(e.actor, e.role, e.previous, e.next)
           /\ users' = next
           /\ LET kept == Revoked(UnseatedUsers(e.previous, next, e.changed), e.actor, keep)
              IN  sessions' = [s \in Sids |->
                     IF Live(s) /\ e.previous[sessions[s].user] = None
                     THEN [kept[s] EXCEPT !.loose = TRUE] ELSE kept[s]]
        \/ /\ ~MayMutate(e.actor, e.role, e.previous, e.next)
           /\ UNCHANGED <<users, sessions>>

PutEnds(keep) ==
    /\ edit # None /\ edit' = None
    /\ Put(edit, keep)
    /\ UNCHANGED <<codes, login, editor, puts>>

PutAtOnce(actor, w, u, keep) ==
    /\ Enabled(actor) /\ Staff(actor)
    /\ w \in Wishes \ Hashed
    /\ Put(PutOf(actor, w, u, 0), keep)
    /\ UNCHANGED <<codes, edit, login, editor, puts>>

(* GET and PUT /installer/house: the editor's list replaces the accounts, at  *)
(* most one of them with a new password, the other hashes are those there are *)
(* (mergePasswordHashes), and a list with an account that has none is         *)
(* refused.  No session is revoked: those it ought to concern stay loose.     *)
EditorOpens ==
    /\ editor = None /\ editor' = users
    /\ UNCHANGED <<users, sessions, codes, edit, login, puts>>

EditorSaves(new) ==
    /\ editor # None /\ editor' = None
    /\ new # {} => puts < MaxPuts
    /\ puts' = IF new = {} THEN puts ELSE puts + 1
    /\ \/ /\ \A u \in Users \ new : editor[u] # None => users[u] # None
          /\ users' = [u \in Users |-> IF editor[u] = None THEN None
                ELSE [editor[u] EXCEPT !.pw = IF u \in new THEN puts' ELSE users[u].pw]]
          /\ sessions' = [s \in Sids |->
                IF Stored(s) /\ (sessions[s].user \in new \/ editor[sessions[s].user] = None)
                THEN [sessions[s] EXCEPT !.loose = TRUE] ELSE sessions[s]]
       \/ /\ \E u \in Users \ new : editor[u] # None /\ users[u] = None
          /\ UNCHANGED <<users, sessions>>
    /\ UNCHANGED <<codes, edit, login>>

Next ==
    \/ \E u \in Users : LoginStarts(u)
    \/ \E s \in Sids : LoginEnds(s) \/ Revokes(s)
    \/ \E c \in Codes : \/ \E by, u \in Users : PairStarts(c, by, u)
                        \/ \E s \in Sids : PairClaims(c, s)
    \/ \E actor, u \in Users, w \in Wishes : PutStarts(actor, w, u)
    \/ \E keep \in Sids \cup {None} :
            PutEnds(keep) \/ (\E actor, u \in Users, w \in Wishes : PutAtOnce(actor, w, u, keep))
    \/ EditorOpens \/ EditorSaves({}) \/ (\E u \in Users : EditorSaves({u}))

-----------------------------------------------------------------------------
(* Whoever gets a new password is signed out everywhere: a session that is    *)
(* still refreshed was obtained under the password of today, unless it is the *)
(* device the change was made from, its login was being checked meanwhile,    *)
(* the house editor made the change or a list that was written late lost it.  *)
CutOff == \A s \in Sids :
    Refreshes(s) => sessions[s].pw >= users[sessions[s].user].pw \/ sessions[s].loose
=============================================================================
