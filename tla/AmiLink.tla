------------------------------- MODULE AmiLink --------------------------------
(* The connection to Asterisk's manager interface (voip/ami.ts and the ensure,  *)
(* reload and watch of voip/manager.ts): who logs in, which client is `ami`,    *)
(* and what the reports that come in on it make of the list of registered       *)
(* phones.  A client's socket can be out while the next caller, seeing no       *)
(* connection, begins another one.  One phone; a reload is one command.         *)
EXTENDS Naturals, Sequences

CONSTANTS
    MaxClients,  \* bound: clients made
    MaxChanges,  \* bound: how often the phone registers or leaves
    MaxQueue,    \* bound: reports on one socket that were not handled yet
    None

AmiAssumption == {MaxClients, MaxChanges, MaxQueue} \subseteq Nat /\ None \notin 1..MaxClients

VARIABLES
    enabled,     \* voip.enabled
    pbx,         \* does Asterisk run?
    clients,     \* the AmiClients: the state of the socket, who waits for the login, its reports
    ami,         \* the one in use, or None
    reload,      \* amiReload: idle, waiting for its login or for its command
    via,         \* the client that command was sent on, or None
    contact,     \* is the phone registered with Asterisk?
    registered,  \* does the backend have it as registered?
    changes,
    overlapped,  \* history: did a login begin while another one was out?
    outrun       \* history: did the last chunk have a change behind the list?

vars == <<enabled, pbx, clients, ami, reload, via, contact, registered, changes, overlapped, outrun>>

Open(i) == clients[i].sock \in {"connecting", "up"}
UpSet == {i \in DOMAIN clients : clients[i].sock = "up"}

(* get connected: the socket of a client that is logging in counts, but       *)
(* `ami` is a client only after its login.                                    *)
Connected == ami # None /\ Open(ami)

TypesOK ==
    /\ enabled \in BOOLEAN /\ pbx \in BOOLEAN /\ overlapped \in BOOLEAN /\ outrun \in BOOLEAN
    /\ contact \in BOOLEAN /\ registered \in BOOLEAN /\ changes \in 0..MaxChanges
    /\ DOMAIN clients \subseteq 1..MaxClients
    /\ \A i \in DOMAIN clients :
        /\ clients[i].sock \in {"connecting", "up", "closed"}
        /\ clients[i].by \in {"watch", "reload"}
        /\ clients[i].list \in {"none", "asked", "sent", "had"}
        /\ Len(clients[i].reports) <= MaxQueue + 1
    /\ ami \in DOMAIN clients \cup {None}
    /\ reload \in {"idle", "login", "command"}
    /\ via \in DOMAIN clients \cup {None} /\ (via # None) = (reload = "command")

Init ==
    /\ enabled = TRUE /\ pbx = FALSE /\ clients = <<>> /\ ami = None
    /\ reload = "idle" /\ via = None
    /\ contact = FALSE /\ registered = FALSE /\ changes = 0 /\ overlapped = FALSE
    /\ outrun = FALSE

(* close(): the socket is destroyed, with all that was not read from it.      *)
Closed(cs, i) ==
    IF i = None THEN cs ELSE [cs EXCEPT ![i].sock = "closed", ![i].list = "none", ![i].reports = <<>>]

-----------------------------------------------------------------------------
(* ensureAmi without a connection: another client, also while one is out.     *)
LogsIn(by) ==
    /\ Len(clients) < MaxClients
    /\ clients' = Append(clients, [sock |-> "connecting", by |-> by, list |-> "none",
                                   reports |-> <<>>])
    /\ overlapped' = (overlapped \/ \E i \in DOMAIN clients : clients[i].sock = "connecting")

(* startVoipAmiWatch, every 8 s; a login may take 10 s.                       *)
WatchTicks ==
    /\ enabled /\ ~Connected
    /\ LogsIn("watch")
    /\ UNCHANGED <<enabled, pbx, ami, reload, via, contact, registered, changes, outrun>>

(* amiReload, after the configuration was written; its next attempt.          *)
Reload ==
    /\ enabled /\ reload = "idle"
    /\ \/ /\ Connected
          /\ reload' = "command" /\ via' = ami /\ UNCHANGED <<clients, overlapped>>
       \/ ~Connected /\ LogsIn("reload") /\ reload' = "login" /\ UNCHANGED via
    /\ UNCHANGED <<enabled, pbx, ami, contact, registered, changes, outrun>>

(* The login is answered: the client becomes `ami`, whatever was there, and   *)
(* asks for the contacts.                                                     *)
LoggedIn(i) ==
    /\ pbx /\ clients[i].sock = "connecting"
    /\ clients' = [clients EXCEPT ![i].sock = "up", ![i].list = "asked"]
    /\ ami' = i
    /\ IF clients[i].by = "reload" THEN reload' = "command" /\ via' = i
       ELSE UNCHANGED <<reload, via>>
    /\ UNCHANGED <<enabled, pbx, contact, registered, changes, overlapped, outrun>>

(* Mutant: what failed is forgotten and not closed.                           *)
GivenUpOpen(cs) == cs

(* catch of amiReload: `ami`, which may be another one by now.                *)
GivenUp(cs) == Closed(cs, ami)

(* Refused, or 10 s without an answer.                                        *)
LoginFails(i) ==
    /\ clients[i].sock = "connecting"
    /\ \/ /\ clients[i].by = "watch"
          /\ clients' = Closed(clients, i)
          /\ UNCHANGED <<ami, reload, via>>
       \/ /\ clients[i].by = "reload"
          /\ clients' = GivenUp(Closed(clients, i))
          /\ ami' = None /\ reload' = "idle" /\ UNCHANGED via
    /\ UNCHANGED <<enabled, pbx, contact, registered, changes, overlapped, outrun>>

(* "core reload" is answered; or its socket closed, or 8 s went by.           *)
CommandEnds ==
    /\ reload = "command"
    /\ reload' = "idle" /\ via' = None
    /\ \/ clients[via].sock = "up" /\ UNCHANGED <<clients, ami>>
       \/ clients' = GivenUp(clients) /\ ami' = None
    /\ UNCHANGED <<enabled, pbx, contact, registered, changes, overlapped, outrun>>

-----------------------------------------------------------------------------
(* Asterisk answers PJSIPShowContacts with the contacts of that moment.       *)
ListSent(i) ==
    /\ clients[i].sock = "up" /\ clients[i].list = "asked"
    /\ clients' = [clients EXCEPT ![i].list = "sent",
                                  ![i].reports = Append(@, [list |-> TRUE, is |-> contact])]
    /\ UNCHANGED <<enabled, pbx, ami, reload, via, contact, registered, changes, overlapped, outrun>>

(* A phone registers or leaves: every client that is logged in is told.       *)
ContactChanges ==
    /\ pbx /\ changes < MaxChanges
    /\ \A i \in UpSet : Len(clients[i].reports) < MaxQueue
    /\ changes' = changes + 1
    /\ contact' = ~contact
    /\ clients' = [i \in DOMAIN clients |->
                      IF i \in UpSet
                      THEN [clients[i] EXCEPT !.reports = Append(@, [list |-> FALSE, is |-> ~contact])]
                      ELSE clients[i]]
    /\ UNCHANGED <<enabled, pbx, ami, reload, via, registered, overlapped, outrun>>

(* Mutant: the list adds and never clears.                                    *)
AfterListAdds(r) == IF r.is THEN TRUE ELSE registered

(* syncRegisteredContacts: clear(), then what the list has.                   *)
AfterList(r) == r.is

(* What a chunk makes of the phone: the reports count in their order, but the *)
(* list is filled in last, when the await of its answer goes on.              *)
Lists(chunk) == {k \in DOMAIN chunk : chunk[k].list}
After(chunk) ==
    IF Lists(chunk) = {} THEN chunk[Len(chunk)].is
    ELSE AfterList(chunk[CHOOSE k \in Lists(chunk) : TRUE])

(* drain: the socket gives any number of blocks at once.  Each is the answer  *)
(* to a request that waits, or an event that is handled on the spot.          *)
Handles(i) ==
    /\ clients[i].sock = "up"
    /\ \E n \in 1..Len(clients[i].reports) :
        LET chunk == SubSeq(clients[i].reports, 1, n)
        IN  /\ registered' = After(chunk)
            /\ outrun' = (\E k \in Lists(chunk) : k < n)
            /\ clients' =
                [clients EXCEPT ![i].reports = SubSeq(@, n + 1, Len(@)),
                                ![i].list = IF Lists(chunk) = {} THEN @ ELSE "had"]
    /\ UNCHANGED <<enabled, pbx, ami, reload, via, contact, changes, overlapped>>

-----------------------------------------------------------------------------
(* The socket breaks: its close event empties what waits.  `ami` stays.       *)
Breaks(i) ==
    /\ clients[i].sock = "up"
    /\ clients' = Closed(clients, i)
    /\ UNCHANGED <<enabled, pbx, ami, reload, via, contact, registered, changes, overlapped, outrun>>

PbxStarts ==
    /\ ~pbx /\ pbx' = TRUE
    /\ UNCHANGED <<enabled, clients, ami, reload, via, contact, registered, changes, overlapped, outrun>>

(* Asterisk goes, with its sockets and the registrations it had.              *)
PbxStops ==
    /\ pbx /\ pbx' = FALSE /\ contact' = FALSE
    /\ clients' = [i \in DOMAIN clients |->
                      IF i \in UpSet THEN Closed(clients, i)[i] ELSE clients[i]]
    /\ UNCHANGED <<enabled, ami, reload, via, registered, changes, overlapped, outrun>>

(* syncVoipFromConfig.                                                        *)
Enable ==
    /\ ~enabled /\ enabled' = TRUE
    /\ UNCHANGED <<pbx, clients, ami, reload, via, contact, registered, changes, overlapped, outrun>>
Disable ==
    /\ enabled /\ enabled' = FALSE
    /\ clients' = Closed(clients, ami) /\ ami' = None
    /\ UNCHANGED <<pbx, reload, via, contact, registered, changes, overlapped, outrun>>

Next ==
    \/ WatchTicks \/ Reload \/ CommandEnds \/ ContactChanges
    \/ PbxStarts \/ PbxStops \/ Enable \/ Disable
    \/ \E i \in DOMAIN clients :
        LoggedIn(i) \/ LoginFails(i) \/ ListSent(i) \/ Handles(i) \/ Breaks(i)

-----------------------------------------------------------------------------
(* Each report is handled once: unless two logins overlapped, no client is    *)
(* open but `ami` or the one that is logging in; one that is given up, by a   *)
(* failed command, a failed attempt or a save that switches VoIP off, is      *)
(* closed and does not go on delivering door digits beside its successor.     *)
OneLink ==
    ~overlapped => \A i, j \in DOMAIN clients : Open(i) /\ Open(j) => i = j

(* Once the link has its list and has handled its reports, the phones shown   *)
(* as registered are the ones Asterisk has, whatever was missed while the     *)
(* link was down.  Left out until the next report: a change that came behind  *)
(* the list in one chunk, which the list, older, is filled in over.           *)
RegisteredCatchUp ==
    ~overlapped /\ ~outrun /\ Connected /\ clients[ami].list = "had" /\ clients[ami].reports = <<>>
        => registered = contact

LinkSound == OneLink /\ RegisteredCatchUp

(* Without that exception it fails: ensureAmi looks at `ami`, which is set    *)
(* only after the login, so that a second caller begins a second client, and  *)
(* the first to be ready is forgotten with its socket open.                   *)
AlwaysOneLink == \A i, j \in UpSet : i = j
=============================================================================
