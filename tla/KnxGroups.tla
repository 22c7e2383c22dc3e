------------------------------- MODULE KnxGroups -------------------------------
(***************************************************************************)
(* Group telegrams over the KNX tunnel (src/backend/src/knxBus.ts): the    *)
(* cache of values that clients are shown, the two ways of writing (write  *)
(* is sent at once and cached at once; writeRaw waits its turn in the      *)
(* chain `outbound` and is cached once it was carried out), the reads that *)
(* fill the cache after a connect or a change of the house, and the window *)
(* in which a telegram counts as the echo of one's own write.              *)
(*                                                                         *)
(* KnxTunnel models how the tunnel comes and goes; here it is in one of    *)
(* four states, and may be dead before that is noticed.  What is on the    *)
(* bus is `bus`; telegrams arrive in the order they were on the bus.       *)
(***************************************************************************)
EXTENDS Naturals, Sequences

CONSTANTS
    GAs,       \* group addresses
    RawGAs,    \* those written by writeRaw (scenes, composite colours)
    MediaGAs,  \* those that only media devices use: never read
    Houses,    \* the sets of addresses that saved houses have
    Vals,      \* values
    MaxWire,   \* BOUND: no new telegram when so many are under way
    MaxChain,  \* BOUND: no new raw write when so many wait
    None

KnxGroupsAssumption ==
    /\ RawGAs \subseteq GAs /\ MediaGAs \subseteq GAs /\ Houses \subseteq SUBSET GAs
    /\ None \notin Vals
    /\ MaxWire \in Nat /\ MaxChain \in Nat

VARIABLES
    tunnel,   \* connection and busConnected: none, closing (a reconnect awaits the
              \* teardown of the last), in its handshake, or up
    alive,    \* does the tunnel that is up carry telegrams?
    wanted,   \* the addresses of the saved house
    asked,    \* groupAddresses: those of the house when the reconnect began
    points,   \* datapoints: the addresses bound to the tunnel
    cache,    \* cache: address to value, None when it has no entry
    mine,     \* selfWrites younger than 900 ms: address and byte (None: any)
    chain,    \* outbound: what waits or is under way, oldest first
    sent,     \* is the head of the chain with the library?
    unread,   \* addresses that running group reads still have to ask for
    bus,      \* the last value written on the bus
    wire,     \* telegrams on their way to the event handler
    unsure    \* history: addresses not asked for when the tunnel came up, or with a
              \* telegram missed since

vars == <<tunnel, alive, wanted, asked, points, cache, mine, chain, sent, unread, bus, wire, unsure>>

Telegram == [ga : GAs, val : Vals, evt : {"write", "response"}, own : BOOLEAN]
Item == [op : {"raw"}, ga : RawGAs, val : Vals] \cup [op : {"read"}, ga : GAs]

\* The state has its type; datapoints and reads belong to a tunnel.
TypesOK ==
    /\ tunnel \in {"none", "closing", "handshake", "up"}
    /\ alive \in BOOLEAN /\ sent \in BOOLEAN
    /\ wanted \subseteq GAs /\ asked \subseteq GAs /\ points \subseteq GAs
    /\ unread \subseteq points /\ unsure \subseteq GAs
    /\ cache \in [GAs -> Vals \cup {None}] /\ bus \in [GAs -> Vals]
    /\ mine \subseteq GAs \X (Vals \cup {None})
    /\ \A i \in DOMAIN chain : chain[i] \in Item
    /\ \A i \in DOMAIN wire : wire[i] \in Telegram
    /\ sent => chain # <<>>
    /\ tunnel \in {"none", "closing"} => points = {} /\ chain = <<>>
    /\ tunnel # "up" => unread = {}

Init ==
    /\ tunnel = "handshake" /\ alive = FALSE
    /\ wanted \in Houses /\ asked = wanted
    /\ points = {} /\ mine = {} /\ unread = {} /\ unsure = {}
    /\ cache = [ga \in GAs |-> None]
    /\ chain = <<>> /\ sent = FALSE /\ wire = <<>>
    /\ \E v \in Vals : bus = [ga \in GAs |-> v]
-------------------------------------------------------------------------------
(* The tunnel.                                                             *)

Connection == tunnel \in {"handshake", "up"}

\* MUTANT: the reads skip addresses that are in the cache.
ReadableUncached(gas, house) == {ga \in gas \ (MediaGAs \cap house) : cache[ga] = None}
\* scheduleGroupReads: addresses of the house for media only are command only.
Readable(gas, house) == gas \ (MediaGAs \cap house)

\* The handshake is done: the addresses asked for are bound and read, whatever was
\* saved since.  Addresses that a save bound during the handshake are read if their
\* 400 ms had not passed (soon), else those reads were given up (unsure); of those
\* saved during the teardown nothing is bound or read.
Connected ==
    \E soon \in SUBSET points :
        /\ tunnel = "handshake"
        /\ tunnel' = "up" /\ alive' = TRUE
        /\ points' = points \cup asked
        /\ unread' = Readable(asked \cup soon, wanted)
        /\ unsure' = wanted \ (asked \cup soon)
        /\ asked' = {}
        /\ UNCHANGED <<wanted, cache, mine, chain, sent, bus, wire>>

\* The gateway is gone and nobody noticed yet: nothing arrives any more.
Dies ==
    /\ tunnel = "up" /\ alive
    /\ alive' = FALSE
    /\ unsure' = unsure \cup {wire[i].ga : i \in DOMAIN wire}
    /\ wire' = <<>>
    /\ UNCHANGED <<tunnel, wanted, asked, points, cache, mine, chain, sent, unread, bus>>

\* MUTANT: the chain of the lost tunnel is kept.
DropKeepingChain ==
    /\ points' = {} /\ unread' = {}
    /\ UNCHANGED <<chain, sent>>
\* markDropped and teardownConnection: datapoints, chain and generation go;
\* the raw writes and the group reads of the old chain end or wait for ever.
DropChain ==
    /\ points' = {} /\ unread' = {}
    /\ chain' = <<>> /\ sent' = FALSE

Dropped ==
    /\ Connection
    /\ tunnel' = "none" /\ alive' = FALSE /\ asked' = {}
    /\ DropChain
    /\ wire' = <<>>
    /\ unsure' = unsure \cup {wire[i].ga : i \in DOMAIN wire}
    /\ UNCHANGED <<wanted, cache, mine, bus>>

\* A reconnect (KnxTunnel) takes the addresses of the house and awaits the teardown.
Reconnects ==
    /\ tunnel = "none"
    /\ tunnel' = "closing" /\ asked' = wanted
    /\ UNCHANGED <<alive, wanted, points, cache, mine, chain, sent, unread, bus, wire, unsure>>

\* connect: the handshake begins, with the addresses that were taken.
Connects ==
    /\ tunnel = "closing"
    /\ tunnel' = "handshake"
    /\ UNCHANGED <<alive, wanted, asked, points, cache, mine, chain, sent, unread, bus, wire, unsure>>

\* refreshGroupAddresses after a save: addresses that are gone lose datapoint
\* and entry, new ones get a datapoint and are read if the tunnel is up.  Without a
\* connection nothing is done.
Refresh(now) ==
    LET gone == points \ now
    IN /\ now # wanted
       /\ wanted' = now
       /\ IF Connection
          THEN /\ points' = now
               /\ cache' = [ga \in GAs |-> IF ga \in gone THEN None ELSE cache[ga]]
               /\ unread' = IF tunnel = "up" THEN (unread \ gone) \cup Readable(now \ points, now) ELSE {}
          ELSE UNCHANGED <<points, cache, unread>>
       /\ UNCHANGED <<tunnel, alive, asked, mine, chain, sent, bus, wire, unsure>>
-------------------------------------------------------------------------------
(* Writing and reading.                                                    *)

\* write: sent at once and cached at once, noted as one's own without a value.
\* On a tunnel that is dead or in its handshake it is lost.
Write(ga, v) ==
    /\ Connection /\ ga \notin RawGAs /\ Len(wire) < MaxWire
    /\ mine' = mine \cup {<<ga, None>>}
    /\ cache' = [cache EXCEPT ![ga] = v]
    /\ IF alive
       THEN /\ bus' = [bus EXCEPT ![ga] = v]
            /\ wire' = Append(wire, [ga |-> ga, val |-> v, evt |-> "write", own |-> TRUE])
            /\ UNCHANGED unsure
       ELSE /\ unsure' = unsure \cup {ga}
            /\ UNCHANGED <<bus, wire>>
    /\ UNCHANGED <<tunnel, alive, wanted, asked, points, chain, sent, unread>>

\* writeRaw up to its turn: noted as one's own when it is asked for.
WriteRaw(ga, v) ==
    /\ Connection /\ ga \in RawGAs /\ Len(chain) < MaxChain
    /\ mine' = mine \cup {<<ga, v>>}
    /\ chain' = Append(chain, [op |-> "raw", ga |-> ga, val |-> v])
    /\ UNCHANGED <<tunnel, alive, wanted, asked, points, cache, sent, unread, bus, wire, unsure>>

\* The loop of runGroupReads asks for a turn in the chain and awaits it.
QueueRead(ga) ==
    /\ tunnel = "up" /\ ga \in unread
    /\ \A i \in DOMAIN chain : chain[i].op # "read"
    /\ unread' = unread \ {ga}
    /\ chain' = IF ga \in points THEN Append(chain, [op |-> "read", ga |-> ga]) ELSE chain
    /\ UNCHANGED <<tunnel, alive, wanted, asked, points, cache, mine, sent, bus, wire, unsure>>

\* The turn of the head: a raw write is handed to the library; a read is sent,
\* and its answer, if the address has one, is on its way.
Turn ==
    LET item == Head(chain)
        answer == [ga |-> item.ga, val |-> bus[item.ga], evt |-> "response", own |-> FALSE]
    IN /\ chain # <<>> /\ ~sent /\ Len(wire) <= MaxWire
       /\ IF item.op = "raw"
          THEN sent' = TRUE /\ UNCHANGED <<chain, wire, unsure>>
          ELSE /\ chain' = Tail(chain) /\ UNCHANGED sent
               /\ \/ /\ alive
                     /\ wire' = Append(wire, answer)
                     /\ unsure' = unsure \ {item.ga}
                  \/ /\ unsure' = unsure \cup {item.ga}
                     /\ UNCHANGED wire
       /\ UNCHANGED <<tunnel, alive, wanted, asked, points, cache, mine, unread, bus>>

\* The library calls back: the raw write is on the bus, and in the cache.
RawDone ==
    LET ga == Head(chain).ga
        v == Head(chain).val
    IN /\ sent /\ alive /\ Len(wire) <= MaxWire
       /\ bus' = [bus EXCEPT ![ga] = v]
       /\ wire' = Append(wire, [ga |-> ga, val |-> v, evt |-> "write", own |-> TRUE])
       /\ cache' = [cache EXCEPT ![ga] = v]
       /\ chain' = Tail(chain) /\ sent' = FALSE
       /\ unsure' = IF \E i \in DOMAIN wire : wire[i].ga = ga THEN unsure \cup {ga} ELSE unsure \ {ga}
       /\ UNCHANGED <<tunnel, alive, wanted, asked, points, mine, unread>>

\* The library calls back with an error: not on the bus, not in the cache.
RawFails ==
    /\ sent
    /\ chain' = Tail(chain) /\ sent' = FALSE
    /\ UNCHANGED <<tunnel, alive, wanted, asked, points, cache, mine, unread, bus, wire, unsure>>
-------------------------------------------------------------------------------
(* Telegrams.                                                              *)

\* isSelfWrite: by value only when the write noted one.
IsSelfWrite(t) == \E w \in mine : w[1] = t.ga /\ w[2] \in {None, t.val}

\* The handler drops the echo of one's own write; an answer is never dropped.
Ignored(t) == t.evt = "write" /\ IsSelfWrite(t)

\* Somebody presses a wall switch, or a device reports its status.
Foreign(ga, v) ==
    /\ Len(wire) < MaxWire
    /\ bus' = [bus EXCEPT ![ga] = v]
    /\ IF alive
       THEN /\ wire' = Append(wire, [ga |-> ga, val |-> v, evt |-> "write", own |-> FALSE])
            /\ UNCHANGED unsure
       ELSE /\ unsure' = unsure \cup {ga}
            /\ UNCHANGED wire
    /\ UNCHANGED <<tunnel, alive, wanted, asked, points, cache, mine, chain, sent, unread>>

\* The event handler of connect.  History: a telegram of somebody else that
\* meets a write of ours of the same address leaves it unsure which was last;
\* one that is cached without that settles it.
Arrives ==
    LET t == Head(wire)
        crossing == \E i \in 2..Len(wire) : wire[i].ga = t.ga
    IN /\ wire # <<>>
       /\ wire' = Tail(wire)
       /\ cache' = IF Ignored(t) THEN cache ELSE [cache EXCEPT ![t.ga] = t.val]
       /\ unsure' = IF t.own THEN unsure
                    ELSE IF Ignored(t) \/ crossing THEN unsure \cup {t.ga}
                    ELSE unsure \ {t.ga}
       /\ UNCHANGED <<tunnel, alive, wanted, asked, points, mine, chain, sent, unread, bus>>

\* 900 ms after a write its telegrams count as somebody else's.
WindowCloses(w) ==
    /\ w \in mine
    /\ mine' = mine \ {w}
    /\ UNCHANGED <<tunnel, alive, wanted, asked, points, cache, chain, sent, unread, bus, wire, unsure>>

Next ==
    \/ Connected \/ Dies \/ Dropped \/ Reconnects \/ Connects
    \/ \E now \in Houses : Refresh(now)
    \/ \E ga \in GAs : QueueRead(ga) \/ \E v \in Vals : Write(ga, v) \/ WriteRaw(ga, v) \/ Foreign(ga, v)
    \/ Turn \/ RawDone \/ RawFails \/ Arrives
    \/ \E w \in mine : WindowCloses(w)

-------------------------------------------------------------------------------
Quiet == tunnel = "up" /\ alive /\ unread = {} /\ chain = <<>> /\ wire = <<>>

\* When nothing is under way clients are shown what is on the bus, through lost
\* tunnels, writes that never arrived and addresses that come and go: all but the
\* addresses that were saved while the tunnel was being made, and those of which a
\* telegram was since missed, not answered or crossed a write of our own: they are
\* left to the next telegram.
CacheFollowsBus ==
    Quiet => \A ga \in (wanted \ MediaGAs) \ unsure : cache[ga] = bus[ga]
===============================================================================
