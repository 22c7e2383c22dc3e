---------------------------- MODULE SpotifyLink ----------------------------
(* The household's Spotify account (media/spotify.ts, media/spotifyStore.ts*)
(* and their handlers in routes.ts): the app's credentials and the account *)
(* tokens in one file, the login nonces of ten minutes, and the requests   *)
(* for tokens that await Spotify while the store may change.  A token is   *)
(* named by the app it was given to.                                       *)
EXTENDS Integers, FiniteSets

CONSTANTS
    Apps,               \* the client ids a user may enter
    MaxLogins,          \* bound: logins started
    MaxCalls,           \* bound: requests for tokens under way together
    None

SpotifyAssumption == MaxLogins \in Nat /\ MaxCalls \in Nat /\ None \notin Apps

VARIABLES
    store,              \* the file: [app, tokens, fresh]
    nonces,             \* spotifyAuthStates
    logins,             \* nonces handed out
    calls,              \* requests that await accounts.spotify.com
    used,               \* history: nonces an exchange was made for
    linked,             \* history: what the last of link, unlink and refusal left
    crossed             \* history: the store changed under a request, or failed

vars == <<store, nonces, logins, calls, used, linked, crossed>>

Init ==
    /\ store = [app |-> None, tokens |-> None, fresh |-> FALSE]
    /\ nonces = {} /\ logins = 0 /\ calls = {} /\ used = {}
    /\ linked = FALSE /\ crossed = FALSE

(* write: a failure leaves file and cache as they were.                    *)
Writes(s) ==
    \/ store' = s /\ UNCHANGED crossed
    \/ store' = store /\ s # store /\ crossed' = TRUE

Cleared(s) == [s EXCEPT !.tokens = None, !.fresh = FALSE]

(* Mutant: new credentials keep the tokens of the app before.              *)
KeepsTokens(s, app) == [s EXCEPT !.app = app]

(* saveAppCredentials: the credentials first, then the tokens are dropped; *)
(* the second write may fail when the first did not.                       *)
Credentials(s, app) == Cleared([s EXCEPT !.app = app])

Half(s, app) == [s EXCEPT !.app = app]

SaveAppCredentials(app) ==
    /\ \/ store' = Credentials(store, app) /\ crossed' = (crossed \/ calls # {})
       \/ store' \in {store, Half(store, app)} /\ crossed' = TRUE
    /\ linked' = FALSE
    /\ UNCHANGED <<nonces, logins, calls, used>>

Disconnect ==
    /\ \/ store' = Cleared(store) /\ crossed' = (crossed \/ calls # {})
       \/ store' = store /\ crossed' = TRUE
    /\ linked' = FALSE
    /\ UNCHANGED <<nonces, logins, calls, used>>

(* GET login: only with credentials.                                       *)
Login ==
    /\ store.app # None /\ logins < MaxLogins
    /\ logins' = logins + 1 /\ nonces' = nonces \cup {logins + 1}
    /\ UNCHANGED <<store, calls, used, linked, crossed>>

Expires(n) ==
    /\ nonces' = nonces \ {n}
    /\ UNCHANGED <<store, logins, calls, used, linked, crossed>>

(* The callback and the pasted URL: the nonce is taken out before the      *)
(* exchange is awaited, so the two of them make one exchange.              *)
Callback(n) ==
    /\ n \in nonces /\ Cardinality(calls) < MaxCalls /\ store.app # None
    /\ nonces' = nonces \ {n}
    /\ used' = used \cup {n}
    /\ calls' = calls \cup {[op |-> "exchange", app |-> store.app, id |-> n]}
    /\ UNCHANGED <<store, logins, linked, crossed>>

(* getAccessToken of a search or of playing, when the cached one is old.   *)
Refresh ==
    /\ store.tokens # None /\ ~store.fresh /\ Cardinality(calls) < MaxCalls
    /\ \E id \in 1..MaxCalls :
          /\ \A c \in calls : c.op = "refresh" => c.id # id
          /\ calls' = calls \cup {[op |-> "refresh", app |-> store.tokens, id |-> id]}
    /\ UNCHANGED <<store, nonces, logins, used, linked, crossed>>

Ages ==
    /\ store.fresh /\ store' = [store EXCEPT !.fresh = FALSE]
    /\ UNCHANGED <<nonces, logins, calls, used, linked, crossed>>

(* The answer: tokens are merged into whatever the store is by then; a     *)
(* refresh that Spotify refuses clears it; any other failure leaves it.    *)
Granted(c) ==
    /\ calls' = calls \ {c}
    /\ Writes([store EXCEPT !.tokens = c.app, !.fresh = TRUE])
    /\ linked' = IF c.op = "exchange" THEN TRUE ELSE linked
    /\ UNCHANGED <<nonces, logins, used>>

Refused(c) ==
    /\ c.op = "refresh" /\ calls' = calls \ {c}
    /\ \/ store' = Cleared(store) /\ crossed' = (crossed \/ calls' # {})
       \/ store' = store /\ crossed' = TRUE
    /\ linked' = FALSE
    /\ UNCHANGED <<nonces, logins, used>>

Failed(c) ==
    /\ calls' = calls \ {c}
    /\ UNCHANGED <<store, nonces, logins, used, linked, crossed>>

(* The nonces are in memory, the store is a file.                          *)
Restart ==
    /\ nonces' = {} /\ calls' = {}
    /\ UNCHANGED <<store, logins, used, linked, crossed>>

Next ==
    \/ \E app \in Apps : SaveAppCredentials(app)
    \/ Disconnect \/ Login \/ Refresh \/ Ages \/ Restart
    \/ \E n \in nonces : Expires(n) \/ Callback(n)
    \/ \E c \in calls : Granted(c) \/ Refused(c) \/ Failed(c)

-----------------------------------------------------------------------------
TypesOK ==
    /\ store \in [app : Apps \cup {None}, tokens : Apps \cup {None}, fresh : BOOLEAN]
    /\ nonces \subseteq 1..logins /\ logins \in 0..MaxLogins
    /\ Cardinality(calls) <= MaxCalls

(* As long as no save, disconnect or refusal came while a request for      *)
(* tokens was out, and every write succeeded: the household is connected   *)
(* exactly when its last login was the last word, and with the tokens of   *)
(* the credentials it has; and no login is exchanged twice.                *)
LinkIsTheWish ==
    /\ ~crossed => /\ (store.tokens # None) = linked
                   /\ store.tokens \in {None, store.app}
    /\ used \cap nonces = {}
=============================================================================
