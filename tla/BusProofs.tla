------------------------------ MODULE BusProofs ------------------------------
(* What holds around the KNX bus in every house, proved of the composition in  *)
(* BusParts: the value cache, the scene sessions and what they learn, the locks*)
(* of the climate devices, the logics of a ventilation unit, the programs of   *)
(* commands and scenes, the roles of addresses, and the type of all of them.   *)
(* Each component has an invariant of its own, which its Start lemma derives   *)
(* from its initial state, its Step lemma keeps over every action of it, and   *)
(* its Sound lemma turns into the property.                                    *)
EXTENDS BusParts, Naturals, Sequences, FiniteSets, WellFoundedInduction, TLAPS

(* A behaviour is one of the component that was chosen.                        *)
LEMMA InitOf ==
    Init =>
        /\ part = "groups" => Groups!Init
        /\ part = "roles" => Roles!Init
        /\ part = "listen" => Listen!Init
        /\ part = "contrast" => Contrast!Init
        /\ part = "locks" => Locks!Init
        /\ part = "commands" => Commands!Init
        /\ part = "vent" => Vent!Init
  BY DEF Init

LEMMA StepOf ==
    [Next]_allVars =>
        /\ part' = part
        /\ part = "groups" => [Groups!Next]_gVars
        /\ part = "roles" => [Roles!Next]_iVars
        /\ part = "listen" => [Listen!Next]_sVars
        /\ part = "contrast" => [Contrast!Next]_cVars
        /\ part = "locks" => [Locks!Next]_hVars
        /\ part = "commands" => [Commands!Next]_dVars
        /\ part = "vent" => [Vent!Next]_vVars
  BY DEF Next, allVars, gVars, iVars, sVars, cVars, hVars, dVars, vVars

------------------------------------------------------------------------------
(* The value cache: knxBus.ts.                                                *)
GroupKinds ==
    /\ gTunnel \in {"none", "closing", "handshake", "up"}
    /\ gAlive \in BOOLEAN /\ gSent \in BOOLEAN
    /\ gWanted \subseteq gGAs /\ gAsked \subseteq gGAs /\ gPoints \subseteq gGAs
    /\ gUnread \subseteq gPoints /\ gUnsure \subseteq gGAs
    /\ gCache \in [gGAs -> gVals \cup {None}] /\ gBus \in [gGAs -> gVals]
    /\ gMine \subseteq gGAs \X (gVals \cup {None})
    /\ \A w \in gMine : w[1] \notin gRawGAs => w[2] = None
    /\ gChain \in Seq(Groups!Item) /\ gWire \in Seq(Groups!Telegram)
    /\ \A i \in 1..Len(gWire) : gWire[i].own = TRUE => gWire[i].evt = "write"
    /\ gSent = TRUE => gChain # <<>> /\ Head(gChain).op = "raw"
    /\ gTunnel \in {"none", "closing"} => gPoints = {} /\ gChain = <<>>
    /\ gTunnel # "up" => gUnread = {} /\ gAlive = FALSE /\ gPoints \subseteq gWanted
    /\ gAlive = FALSE => gWire = <<>>

(* The last telegram of an address that is under way.                          *)
LastOf(ga, s, i) == s[i].ga = ga /\ \A j \in 1..Len(s) : j > i => s[j].ga # ga

(* An address that is to be read still, or of which nothing is promised.        *)
Owed(ga) ==
    \/ ga \in gUnread
    \/ \E i \in 1..Len(gChain) : gChain[i].op = "read" /\ gChain[i].ga = ga
    \/ ga \notin gWanted \cup gPoints \/ ga \in gMediaGAs

(* One whose own telegrams count as somebody else's.                           *)
Free(ga) == ga \notin gRawGAs /\ \A w \in gMine : w[1] # ga

(* Of one address, with the telegrams s under way: the last of them says what   *)
(* is on the bus.  While it is sure, the echo of an own write finds the cache   *)
(* right or is cached itself, and that of a raw write has no other before it;   *)
(* and what is not owed a read has a telegram under way or is cached right.     *)
GroupGood(ga, s, sure, b, c, owed, free, live) ==
    /\ \A i \in 1..Len(s) : LastOf(ga, s, i) => s[i].val = b
    /\ sure => \A i \in 1..Len(s) : LastOf(ga, s, i) /\ s[i].own = TRUE =>
                   /\ c = b \/ owed \/ free
                   /\ ga \in gRawGAs => \A j \in 1..Len(s) : s[j].ga = ga => j = i
    /\ live /\ sure /\ ~owed => c = b \/ \E i \in 1..Len(s) : s[i].ga = ga

GroupInv ==
    /\ GroupKinds
    /\ \A ga \in gGAs : GroupGood(ga, gWire, ga \notin gUnsure, gBus[ga], gCache[ga], Owed(ga), Free(ga), gAlive)

LEMMA GroupItems ==
    ASSUME Groups!KnxGroupsAssumption
    PROVE  /\ \A x \in Groups!Item : x.ga \in gGAs /\ x.op \in {"raw", "read"}
           /\ \A x \in Groups!Item : x.op = "raw" => x.val \in gVals /\ x.ga \in gRawGAs
           /\ \A x \in Groups!Telegram : x.ga \in gGAs /\ x.val \in gVals /\ x.own \in BOOLEAN
  BY DEF Groups!KnxGroupsAssumption, Groups!Item, Groups!Telegram

(* A queue that got longer, and one that lost its head.                        *)
LEMMA Longer ==
    ASSUME NEW S, NEW s \in Seq(S), NEW x \in S, NEW s2, s2 = Append(s, x)
    PROVE  /\ s2 \in Seq(S) /\ Len(s) \in Nat /\ Len(s2) = Len(s) + 1
           /\ \A i \in 1..Len(s) : s2[i] = s[i]
           /\ s2[Len(s) + 1] = x
  OBVIOUS

LEMMA Shorter ==
    ASSUME NEW S, NEW s \in Seq(S), s # <<>>, NEW s2, s2 = Tail(s)
    PROVE  /\ s2 \in Seq(S) /\ Len(s) \in Nat \ {0} /\ Len(s2) = Len(s) - 1
           /\ \A i \in 1..Len(s2) : s2[i] = s[i + 1]
           /\ s[1] = Head(s) /\ Head(s) \in S
  OBVIOUS

(* What is said of an address may be said with less.                           *)
LEMMA GroupWeaker ==
    ASSUME NEW ga, NEW s, NEW b, NEW c, NEW sure, NEW owed, NEW free, NEW live,
           NEW sure2, NEW owed2, NEW free2, NEW live2,
           GroupGood(ga, s, sure, b, c, owed, free, live),
           sure2 => sure, owed => owed2, free => free2, live2 => live
    PROVE  GroupGood(ga, s, sure2, b, c, owed2, free2, live2)
  BY DEF GroupGood

(* A telegram of another address is sent.                                      *)
LEMMA GroupBeside ==
    ASSUME NEW ga, NEW s \in Seq(Groups!Telegram), NEW b, NEW c, NEW sure, NEW owed, NEW free, NEW live,
           NEW x \in Groups!Telegram, x.ga # ga, NEW s2, s2 = Append(s, x),
           GroupGood(ga, s, sure, b, c, owed, free, live)
    PROVE  GroupGood(ga, s2, sure, b, c, owed, free, live)
<1>1. /\ Len(s) \in Nat /\ Len(s2) = Len(s) + 1 /\ (\A i \in 1..Len(s) : s2[i] = s[i])
      /\ s2[Len(s) + 1] = x
  BY Longer
<1>2. \A i \in 1..Len(s2) : s2[i].ga = ga => i \in 1..Len(s)
  BY <1>1
<1>3. \A i \in 1..Len(s) : LastOf(ga, s2, i) <=> LastOf(ga, s, i)
  BY <1>1, <1>2 DEF LastOf
<1>4. \A i \in 1..Len(s2) : LastOf(ga, s2, i) => i \in 1..Len(s) /\ LastOf(ga, s, i)
  BY <1>2, <1>3 DEF LastOf
<1>5. \A i \in 1..Len(s2) : LastOf(ga, s2, i) => s2[i].val = b
  BY <1>1, <1>4 DEF GroupGood
<1>6. ASSUME sure, NEW i \in 1..Len(s2), LastOf(ga, s2, i), s2[i].own = TRUE
      PROVE  /\ c = b \/ owed \/ free
             /\ ga \in gRawGAs => \A j \in 1..Len(s2) : s2[j].ga = ga => j = i
  BY <1>1, <1>2, <1>4, <1>6 DEF GroupGood
<1>7. (\E i \in 1..Len(s) : s[i].ga = ga) => \E i \in 1..Len(s2) : s2[i].ga = ga
  BY <1>1
<1> QED
  BY <1>5, <1>6, <1>7 DEF GroupGood

(* One of its own is sent, with what is now on the bus.                        *)
LEMMA GroupSent ==
    ASSUME NEW ga, NEW s \in Seq(Groups!Telegram), NEW b, NEW c, NEW sure, NEW owed, NEW free, NEW live,
           NEW x \in Groups!Telegram, x.ga = ga, x.val = b, NEW s2, s2 = Append(s, x),
           sure /\ x.own = TRUE => c = b /\ (ga \in gRawGAs => \A j \in 1..Len(s) : s[j].ga # ga)
    PROVE  GroupGood(ga, s2, sure, b, c, owed, free, live)
<1>1. /\ Len(s) \in Nat /\ Len(s2) = Len(s) + 1 /\ (\A i \in 1..Len(s) : s2[i] = s[i])
      /\ s2[Len(s) + 1] = x
  BY Longer
<1>2. \A i \in 1..Len(s2) : i \in 1..Len(s) \/ i = Len(s) + 1
  BY <1>1
<1>3. Len(s) + 1 \in 1..Len(s2) /\ \A i \in 1..Len(s) : Len(s) + 1 > i
  BY <1>1
<1>4. \A i \in 1..Len(s2) : LastOf(ga, s2, i) => i = Len(s) + 1
  BY <1>1, <1>2, <1>3 DEF LastOf
<1>5. ASSUME sure, x.own = TRUE, ga \in gRawGAs
      PROVE  \A j \in 1..Len(s2) : s2[j].ga = ga => j = Len(s) + 1
  BY <1>1, <1>2, <1>5
<1> QED
  BY <1>1, <1>3, <1>4, <1>5 DEF GroupGood

(* One of another address arrives.                                             *)
LEMMA GroupPassed ==
    ASSUME NEW ga, NEW s \in Seq(Groups!Telegram), NEW b, NEW c, NEW sure, NEW owed, NEW free, NEW live,
           s # <<>>, Head(s).ga # ga, NEW s2, s2 = Tail(s),
           GroupGood(ga, s, sure, b, c, owed, free, live)
    PROVE  GroupGood(ga, s2, sure, b, c, owed, free, live)
<1>1. /\ Len(s) \in Nat \ {0} /\ Len(s2) = Len(s) - 1 /\ (\A i \in 1..Len(s2) : s2[i] = s[i + 1])
      /\ s[1] = Head(s)
  BY Shorter
<1>2. \A i \in 1..Len(s2) : i + 1 \in 1..Len(s) /\ s2[i] = s[i + 1]
  BY <1>1
<1>3. \A j \in 1..Len(s) : s[j].ga = ga => j - 1 \in 1..Len(s2) /\ s2[j - 1] = s[j]
  BY <1>1
<1>4. ASSUME NEW i \in 1..Len(s2), LastOf(ga, s2, i) PROVE LastOf(ga, s, i + 1)
  <2>1. s[i + 1].ga = ga
    BY <1>2, <1>4 DEF LastOf
  <2>2. ASSUME NEW j \in 1..Len(s), j > i + 1 PROVE s[j].ga # ga
    <3>1. j - 1 \in 1..Len(s2) /\ j - 1 > i
      BY <1>1, <2>2
    <3>2. s2[j - 1] = s[j]
      BY <1>1, <3>1
    <3> QED
      BY <3>1, <3>2, <1>4 DEF LastOf
  <2> QED
    BY <2>1, <2>2 DEF LastOf
<1>5. \A i \in 1..Len(s2) : LastOf(ga, s2, i) => s2[i].val = b
  BY <1>2, <1>4 DEF GroupGood
<1>6. ASSUME sure, NEW i \in 1..Len(s2), LastOf(ga, s2, i), s2[i].own = TRUE
      PROVE  /\ c = b \/ owed \/ free
             /\ ga \in gRawGAs => \A j \in 1..Len(s2) : s2[j].ga = ga => j = i
  <2>1. LastOf(ga, s, i + 1) /\ s[i + 1].own = TRUE /\ i + 1 \in 1..Len(s)
    BY <1>2, <1>4, <1>6
  <2>2. c = b \/ owed \/ free
    BY <2>1, <1>6 DEF GroupGood
  <2>3. ASSUME ga \in gRawGAs, NEW j \in 1..Len(s2), s2[j].ga = ga PROVE j = i
    <3>1. j + 1 \in 1..Len(s) /\ s[j + 1].ga = ga
      BY <1>2, <2>3
    <3>2. j + 1 = i + 1
      BY <3>1, <2>1, <2>3, <1>6 DEF GroupGood
    <3> QED
      BY <3>2, <1>1
  <2> QED
    BY <2>2, <2>3
<1>7. (\E i \in 1..Len(s) : s[i].ga = ga) => \E i \in 1..Len(s2) : s2[i].ga = ga
  BY <1>3
<1> QED
  BY <1>5, <1>6, <1>7 DEF GroupGood

(* One of its own arrives, the last or one that others follow.                  *)
LEMMA GroupHeard ==
    ASSUME NEW ga, NEW s \in Seq(Groups!Telegram), NEW b, NEW c, NEW sure, NEW owed, NEW free, NEW live,
           NEW c2, NEW sure2,
           s # <<>>, Head(s).ga = ga, NEW s2, s2 = Tail(s),
           Head(s).own = TRUE => (sure2 <=> sure),
           Head(s).own # TRUE /\ sure2 => \A i \in 2..Len(s) : s[i].ga # ga,
           \/ c2 = c /\ ~free /\ (Head(s).own # TRUE => ~sure2)
           \/ c2 = Head(s).val /\ (Head(s).own = TRUE /\ ga \notin gRawGAs => free),
           GroupGood(ga, s, sure, b, c, owed, free, live)
    PROVE  GroupGood(ga, s2, sure2, b, c2, owed, free, live)
<1>1. /\ Len(s) \in Nat \ {0} /\ Len(s2) = Len(s) - 1 /\ (\A i \in 1..Len(s2) : s2[i] = s[i + 1])
      /\ s[1] = Head(s)
  BY Shorter
<1>2. \A i \in 1..Len(s2) : i + 1 \in 1..Len(s) /\ i + 1 \in 2..Len(s) /\ s2[i] = s[i + 1] /\ i + 1 # 1
  BY <1>1
<1>3. \A j \in 2..Len(s) : j - 1 \in 1..Len(s2) /\ s2[j - 1] = s[j]
  BY <1>1
<1> DEFINE crossing == \E i \in 2..Len(s) : s[i].ga = ga
<1>c. crossing <=> \E i \in 1..Len(s2) : s2[i].ga = ga
  <2>1. ASSUME crossing PROVE \E i \in 1..Len(s2) : s2[i].ga = ga
    <3>1. PICK j \in 2..Len(s) : s[j].ga = ga
      BY <2>1
    <3>2. j - 1 \in 1..Len(s2) /\ s2[j - 1].ga = ga
      BY <1>3, <3>1
    <3> QED
      BY <3>2
  <2>2. ASSUME NEW i \in 1..Len(s2), s2[i].ga = ga PROVE crossing
    BY <1>2, <2>2
  <2> QED
    BY <2>1, <2>2
<1>o. 1 \in 1..Len(s) /\ s[1].ga = ga
  BY <1>1
<1>4. ASSUME NEW i \in 1..Len(s2), LastOf(ga, s2, i) PROVE LastOf(ga, s, i + 1)
  <2>1. s[i + 1].ga = ga
    BY <1>2, <1>4 DEF LastOf
  <2>2. ASSUME NEW j \in 1..Len(s), j > i + 1 PROVE s[j].ga # ga
    <3>1. j - 1 \in 1..Len(s2) /\ j - 1 > i
      BY <1>1, <2>2
    <3>2. s2[j - 1] = s[j]
      BY <1>1, <3>1
    <3> QED
      BY <3>1, <3>2, <1>4 DEF LastOf
  <2> QED
    BY <2>1, <2>2 DEF LastOf
<1>5. \A i \in 1..Len(s2) : LastOf(ga, s2, i) => s2[i].val = b
  BY <1>2, <1>4 DEF GroupGood
<1>6. ASSUME sure2, NEW i \in 1..Len(s2), LastOf(ga, s2, i), s2[i].own = TRUE
      PROVE  /\ c2 = b \/ owed \/ free
             /\ ga \in gRawGAs => \A j \in 1..Len(s2) : s2[j].ga = ga => j = i
  <2>0. crossing
    BY <1>c, <1>6 DEF LastOf
  <2>1. Head(s).own = TRUE /\ sure
    BY <2>0, <1>6
  <2>2. LastOf(ga, s, i + 1) /\ s[i + 1].own = TRUE /\ i + 1 \in 1..Len(s)
    BY <1>2, <1>4, <1>6
  <2>3. ga \notin gRawGAs
    BY <2>1, <2>2, <1>o, <1>2 DEF GroupGood
  <2>4. c = b \/ owed \/ free
    BY <2>1, <2>2 DEF GroupGood
  <2>5. c2 = b \/ owed \/ free
    BY <2>1, <2>3, <2>4
  <2> QED
    BY <2>3, <2>5
<1>7. ASSUME live, sure2, ~owed PROVE c2 = b \/ \E i \in 1..Len(s2) : s2[i].ga = ga
  <2>1. CASE crossing
    BY <2>1, <1>c
  <2>2. CASE ~crossing
    <3>1. LastOf(ga, s, 1)
      BY <2>2, <1>1, <1>o DEF LastOf
    <3>2. s[1].val = b
      BY <3>1, <1>o DEF GroupGood
    <3>3. CASE c2 = c /\ ~free /\ (Head(s).own # TRUE => ~sure2)
      <4>1. Head(s).own = TRUE /\ sure
        BY <1>7, <3>3
      <4>2. c = b \/ owed \/ free
        BY <4>1, <3>1, <1>o, <1>1 DEF GroupGood
      <4> QED
        BY <4>2, <1>7, <3>3
    <3>4. CASE c2 = Head(s).val
      BY <3>2, <3>4, <1>1
    <3> QED
      BY <3>3, <3>4
  <2> QED
    BY <2>1, <2>2
<1> QED
  BY <1>5, <1>6, <1>7 DEF GroupGood

(* Nothing is under way.                                                       *)
LEMMA GroupSilent ==
    ASSUME NEW ga, NEW s, s = <<>>, NEW b, NEW c, NEW sure, NEW owed, NEW free, NEW live,
           live /\ sure /\ ~owed => c = b
    PROVE  GroupGood(ga, s, sure, b, c, owed, free, live)
<1>1. \A i \in 1..Len(s) : FALSE
  OBVIOUS
<1> QED
  BY <1>1 DEF GroupGood

LEMMA GroupStart == Groups!KnxGroupsAssumption /\ Groups!Init => GroupInv
<1> SUFFICES ASSUME Groups!KnxGroupsAssumption, Groups!Init PROVE GroupInv
  OBVIOUS
<1>1. GroupKinds
  <2>1. gWanted \subseteq gGAs
    BY DEF Groups!Init, Groups!KnxGroupsAssumption
  <2>2. gBus \in [gGAs -> gVals] /\ gCache \in [gGAs -> gVals \cup {None}]
    BY DEF Groups!Init
  <2>3. gAlive \in BOOLEAN /\ gSent \in BOOLEAN
    BY DEF Groups!Init
  <2>4. gChain = <<>> /\ gWire = <<>> /\ gChain \in Seq(Groups!Item) /\ gWire \in Seq(Groups!Telegram)
    BY DEF Groups!Init
  <2>5. \A i \in 1..Len(gWire) : FALSE
    BY <2>4
  <2> QED
    BY <2>1, <2>2, <2>3, <2>4, <2>5 DEF Groups!Init, GroupKinds
<1>2. ASSUME NEW ga \in gGAs
      PROVE GroupGood(ga, gWire, ga \notin gUnsure, gBus[ga], gCache[ga], Owed(ga), Free(ga), gAlive)
  <2>1. gWire = <<>> /\ ~gAlive
    BY DEF Groups!Init
  <2> QED
    BY <2>1, GroupSilent
<1> QED
  BY <1>1, <1>2 DEF GroupInv

(* Reads that wait in the chain stay there until their turn.                    *)
LEMMA OwedKept ==
    ASSUME NEW ga, NEW q \in Seq(Groups!Item), NEW q2,
           \/ \E x \in Groups!Item : q2 = Append(q, x)
           \/ q # <<>> /\ q2 = Tail(q) /\ ~(Head(q).op = "read" /\ Head(q).ga = ga)
           \/ q2 = q
    PROVE  (\E i \in 1..Len(q) : q[i].op = "read" /\ q[i].ga = ga)
             => \E i \in 1..Len(q2) : q2[i].op = "read" /\ q2[i].ga = ga
<1> SUFFICES ASSUME NEW i \in 1..Len(q), q[i].op = "read", q[i].ga = ga
             PROVE  \E j \in 1..Len(q2) : q2[j].op = "read" /\ q2[j].ga = ga
  OBVIOUS
<1>1. ASSUME NEW x \in Groups!Item, q2 = Append(q, x) PROVE \E j \in 1..Len(q2) : q2[j].op = "read" /\ q2[j].ga = ga
  <2>1. i \in 1..Len(q2) /\ q2[i] = q[i]
    BY <1>1
  <2> QED
    BY <2>1
<1>2. CASE q # <<>> /\ q2 = Tail(q) /\ ~(Head(q).op = "read" /\ Head(q).ga = ga)
  <2>1. Len(q) \in Nat /\ Len(q2) = Len(q) - 1 /\ (\A j \in 1..Len(q2) : q2[j] = q[j + 1]) /\ q[1] = Head(q)
    BY <1>2
  <2>2. i # 1
    BY <2>1, <1>2
  <2>3. i - 1 \in 1..Len(q2) /\ q2[i - 1] = q[i]
    BY <2>1, <2>2
  <2> QED
    BY <2>3
<1> QED
  BY <1>1, <1>2

LEMMA GroupTunnel ==
    ASSUME Groups!KnxGroupsAssumption, GroupInv,
           Groups!Connected \/ Groups!Dies \/ Groups!Dropped
           \/ Groups!Reconnects \/ Groups!Connects \/ \E now \in gHouses : Groups!Refresh(now)
    PROVE  GroupInv'
<1>k. GroupKinds
  BY DEF GroupInv
<1>g. ASSUME NEW ga \in gGAs
      PROVE GroupGood(ga, gWire, ga \notin gUnsure, gBus[ga], gCache[ga], Owed(ga), Free(ga), gAlive)
  BY DEF GroupInv
<1>e. \A s : s = <<>> => \A i \in 1..Len(s) : FALSE
  OBVIOUS
<1>1. CASE Groups!Connected
  <2>0. PICK soon \in SUBSET gPoints :
          /\ gTunnel = "handshake" /\ gTunnel' = "up" /\ gAlive' = TRUE
          /\ gPoints' = gPoints \cup gAsked
          /\ gUnread' = Groups!Readable(gAsked \cup soon, gWanted)
          /\ gUnsure' = gWanted \ (gAsked \cup soon) /\ gAsked' = {}
          /\ UNCHANGED <<gWanted, gCache, gMine, gChain, gSent, gBus, gWire>>
    BY <1>1 DEF Groups!Connected
  <2>1. gWire = <<>> /\ gPoints \subseteq gWanted
    BY <2>0, <1>k DEF GroupKinds
  <2>2. /\ gUnread' \subseteq gPoints'
        /\ \A ga \in gAsked \cup soon : ga \in gUnread' \/ ga \in gMediaGAs
    BY <2>0 DEF Groups!Readable
  <2>b. gAlive' \in BOOLEAN /\ gPoints' \subseteq gGAs /\ gUnsure' \subseteq gGAs
    BY <2>0, <1>k DEF GroupKinds
  <2>3. GroupKinds'
    BY <2>0, <2>1, <2>2, <2>b, <1>k DEF GroupKinds
  <2>4. ASSUME NEW ga \in gGAs
        PROVE GroupGood(ga, gWire', ga \notin gUnsure', gBus'[ga], gCache'[ga], Owed(ga)', Free(ga)', gAlive')
    <3>1. Owed(ga)' \/ ga \in gUnsure'
      BY <2>0, <2>1, <2>2 DEF Owed
    <3> QED
      BY <2>0, <2>1, <3>1, GroupSilent
  <2> QED
    BY <2>3, <2>4 DEF GroupInv
<1>2. CASE Groups!Dies \/ Groups!Dropped
  <2>1. /\ gAlive' = FALSE /\ gWire' = <<>> /\ gUnsure' = gUnsure \cup {gWire[i].ga : i \in DOMAIN gWire}
        /\ UNCHANGED <<gWanted, gCache, gMine, gBus>>
        /\ \/ gTunnel = "up" /\ UNCHANGED <<gTunnel, gAsked, gPoints, gChain, gSent, gUnread>>
           \/ /\ gTunnel' = "none" /\ gAsked' = {} /\ gPoints' = {}
              /\ gUnread' = {} /\ gChain' = <<>> /\ gSent' = FALSE
    BY <1>2 DEF Groups!Dies, Groups!Dropped, Groups!DropChain
  <2>2. gUnsure' \subseteq gGAs
    <3>1. \A i \in DOMAIN gWire : gWire[i] \in Groups!Telegram
      BY <1>k DEF GroupKinds
    <3> QED
      BY <2>1, <3>1, <1>k, GroupItems DEF GroupKinds
  <2>b. gAlive' \in BOOLEAN /\ gSent' \in BOOLEAN
    BY <2>1, <1>k DEF GroupKinds
  <2>c. gChain' \in Seq(Groups!Item)
    <3>1. gChain \in Seq(Groups!Item)
      BY <1>k DEF GroupKinds
    <3>2. CASE gChain' = gChain
      BY <3>1, <3>2
    <3>3. CASE gChain' = <<>>
      BY <3>3
    <3> QED
      BY <2>1, <3>2, <3>3
  <2>d. gWire' \in Seq(Groups!Telegram)
    BY <2>1
  <2>3. GroupKinds'
    <3>1. CASE gTunnel = "up" /\ UNCHANGED <<gTunnel, gAsked, gPoints, gChain, gSent, gUnread>>
      BY <2>1, <2>2, <2>b, <2>c, <2>d, <3>1, <1>k, <1>e DEF GroupKinds
    <3>2. CASE /\ gTunnel' = "none" /\ gAsked' = {} /\ gPoints' = {}
               /\ gUnread' = {} /\ gChain' = <<>> /\ gSent' = FALSE
      BY <2>1, <2>2, <2>b, <2>c, <2>d, <3>2, <1>k, <1>e DEF GroupKinds
    <3> QED
      BY <2>1, <3>1, <3>2
  <2>4. ASSUME NEW ga \in gGAs
        PROVE GroupGood(ga, gWire', ga \notin gUnsure', gBus'[ga], gCache'[ga], Owed(ga)', Free(ga)', gAlive')
    BY <2>1, GroupSilent
  <2> QED
    BY <2>3, <2>4 DEF GroupInv
<1>3. CASE Groups!Reconnects \/ Groups!Connects
  <2>1. /\ \/ gTunnel = "none" /\ gTunnel' = "closing" /\ gAsked' = gWanted
           \/ gTunnel = "closing" /\ gTunnel' = "handshake" /\ gAsked' = gAsked
        /\ UNCHANGED <<gAlive, gWanted, gPoints, gCache, gMine, gChain, gSent, gUnread, gBus, gWire, gUnsure>>
    BY <1>3 DEF Groups!Reconnects, Groups!Connects
  <2>2. GroupKinds'
    BY <2>1, <1>k DEF GroupKinds
  <2>3. ASSUME NEW ga \in gGAs
        PROVE GroupGood(ga, gWire', ga \notin gUnsure', gBus'[ga], gCache'[ga], Owed(ga)', Free(ga)', gAlive')
    BY <2>1, <1>g DEF Owed, Free
  <2> QED
    BY <2>2, <2>3 DEF GroupInv
<1>4. ASSUME NEW now \in gHouses, Groups!Refresh(now) PROVE GroupInv'
  <2>0. now \subseteq gGAs
    BY DEF Groups!KnxGroupsAssumption
  <2>1. /\ gWanted' = now /\ UNCHANGED <<gTunnel, gAlive, gAsked, gMine, gChain, gSent, gBus, gWire, gUnsure>>
        /\ ~Groups!Connection => UNCHANGED <<gPoints, gCache, gUnread>>
        /\ Groups!Connection =>
             /\ gPoints' = now
             /\ gCache' = [ga \in gGAs |-> IF ga \in gPoints \ now THEN None ELSE gCache[ga]]
             /\ gUnread' = (IF gTunnel = "up" THEN (gUnread \ (gPoints \ now)) \cup Groups!Readable(now \ gPoints, now) ELSE {})
    BY <1>4 DEF Groups!Refresh
  <2>2. gCache' \in [gGAs -> gVals \cup {None}]
    BY <2>1, <1>k DEF GroupKinds
  <2>3. gPoints' \subseteq now /\ gUnread' \subseteq gPoints'
    <3>1. CASE Groups!Connection
      BY <2>1, <1>k, <3>1 DEF GroupKinds, Groups!Readable
    <3>2. CASE ~Groups!Connection
      <4>1. gPoints = {}
        BY <3>2, <1>k DEF GroupKinds, Groups!Connection
      <4> QED
        BY <2>1, <1>k, <3>2, <4>1 DEF GroupKinds
    <3> QED
      BY <3>1, <3>2
  <2>4. GroupKinds'
    BY <2>0, <2>1, <2>2, <2>3, <1>k DEF GroupKinds, Groups!Connection
  <2>5. ASSUME NEW ga \in gGAs
        PROVE GroupGood(ga, gWire', ga \notin gUnsure', gBus'[ga], gCache'[ga], Owed(ga)', Free(ga)', gAlive')
    <3>1. Free(ga)' = Free(ga)
      BY <2>1 DEF Free
    <3>2. CASE gAlive = TRUE
      <4>1. gTunnel = "up" /\ Groups!Connection
        BY <3>2, <1>k DEF GroupKinds, Groups!Connection
      <4>2. CASE ga \in now /\ ga \in gWanted \cup gPoints
        <5>1. gCache'[ga] = gCache[ga]
          BY <4>1, <4>2, <2>1
        <5>2. Owed(ga) => Owed(ga)'
          BY <4>1, <4>2, <2>1 DEF Owed
        <5> QED
          BY <5>1, <5>2, <3>1, <2>1, <1>g, GroupWeaker
      <4>3. CASE ~(ga \in now /\ ga \in gWanted \cup gPoints)
        <5>1. Owed(ga)'
          BY <4>1, <4>3, <2>1 DEF Owed, Groups!Readable
        <5> QED
          BY <5>1, <3>1, <2>1, <1>g DEF GroupGood
      <4> QED
        BY <4>2, <4>3
    <3>3. CASE gAlive # TRUE
      <4>1. gWire = <<>>
        BY <3>3, <1>k DEF GroupKinds
      <4>2. ~gAlive
        BY <3>3, <1>k DEF GroupKinds
      <4> QED
        BY <4>1, <4>2, <2>1, GroupSilent
    <3> QED
      BY <3>2, <3>3
  <2> QED
    BY <2>4, <2>5 DEF GroupInv
<1> QED
  BY <1>1, <1>2, <1>3, <1>4

LEMMA GroupWrites ==
    ASSUME Groups!KnxGroupsAssumption, GroupInv, NEW at \in gGAs, NEW v \in gVals,
           Groups!Write(at, v) \/ Groups!WriteRaw(at, v) \/ Groups!Foreign(at, v)
    PROVE  GroupInv'
<1>k. GroupKinds
  BY DEF GroupInv
<1>g. ASSUME NEW ga \in gGAs
      PROVE GroupGood(ga, gWire, ga \notin gUnsure, gBus[ga], gCache[ga], Owed(ga), Free(ga), gAlive)
  BY DEF GroupInv
<1>w. gWire \in Seq(Groups!Telegram) /\ gChain \in Seq(Groups!Item)
  BY <1>k DEF GroupKinds
<1>1. CASE Groups!WriteRaw(at, v)
  <2>1. /\ gTunnel \in {"handshake", "up"} /\ at \in gRawGAs /\ gMine' = gMine \cup {<<at, v>>}
        /\ gChain' = Append(gChain, [op |-> "raw", ga |-> at, val |-> v])
        /\ UNCHANGED <<gTunnel, gAlive, gWanted, gAsked, gPoints, gCache, gSent, gUnread, gBus, gWire, gUnsure>>
    BY <1>1 DEF Groups!WriteRaw, Groups!Connection
  <2>2. [op |-> "raw", ga |-> at, val |-> v] \in Groups!Item
    BY <2>1 DEF Groups!Item
  <2>3. gChain' \in Seq(Groups!Item) /\ gChain' # <<>> /\ (gChain # <<>> => Head(gChain') = Head(gChain))
    <3>1. ASSUME NEW x \in Groups!Item, gChain' = Append(gChain, x)
          PROVE gChain' \in Seq(Groups!Item) /\ gChain' # <<>> /\ (gChain # <<>> => Head(gChain') = Head(gChain))
      BY <3>1, <1>w
    <3> QED
      BY <2>1, <2>2, <3>1
  <2>4. gMine' \subseteq gGAs \X (gVals \cup {None})
    BY <2>1, <1>k DEF GroupKinds
  <2>5. \A w \in gMine' : w[1] \notin gRawGAs => w[2] = None
    BY <2>1, <1>k DEF GroupKinds
  <2>6. GroupKinds'
    BY <2>1, <2>3, <2>4, <2>5, <1>k DEF GroupKinds
  <2>7. ASSUME NEW ga \in gGAs
        PROVE GroupGood(ga, gWire', ga \notin gUnsure', gBus'[ga], gCache'[ga], Owed(ga)', Free(ga)', gAlive')
    <3>1. Owed(ga) => Owed(ga)'
      <4>1. \E x \in Groups!Item : gChain' = Append(gChain, x)
        BY <2>1, <2>2
      <4>2. (\E i \in 1..Len(gChain) : gChain[i].op = "read" /\ gChain[i].ga = ga)
              => \E i \in 1..Len(gChain') : gChain'[i].op = "read" /\ gChain'[i].ga = ga
        BY <4>1, <1>w, OwedKept
      <4> QED
        BY <2>1, <4>2 DEF Owed
    <3>2. Free(ga) => Free(ga)'
      <4>1. \A w \in gMine' : w \in gMine \/ w[1] = at
        BY <2>1
      <4> QED
        BY <2>1, <4>1 DEF Free
    <3> QED
      BY <2>1, <3>1, <3>2, <1>g, GroupWeaker
  <2> QED
    BY <2>6, <2>7 DEF GroupInv
<1>2. CASE Groups!Write(at, v)
  <2> DEFINE x == [ga |-> at, val |-> v, evt |-> "write", own |-> TRUE]
  <2>1. /\ gTunnel \in {"handshake", "up"} /\ at \notin gRawGAs /\ gMine' = gMine \cup {<<at, None>>}
        /\ gCache' = [gCache EXCEPT ![at] = v]
        /\ UNCHANGED <<gTunnel, gAlive, gWanted, gAsked, gPoints, gChain, gSent, gUnread>>
        /\ gAlive = TRUE => gBus' = [gBus EXCEPT ![at] = v] /\ gWire' = Append(gWire, x) /\ UNCHANGED gUnsure
        /\ gAlive # TRUE => gUnsure' = gUnsure \cup {at} /\ UNCHANGED <<gBus, gWire>>
    BY <1>2, <1>k DEF Groups!Write, Groups!Connection, GroupKinds
  <2>2. x \in Groups!Telegram /\ x.ga = at /\ x.val = v /\ x.own = TRUE /\ x.evt = "write"
    BY DEF Groups!Telegram
  <2> HIDE DEF x
  <2>3. gCache' \in [gGAs -> gVals \cup {None}] /\ gCache'[at] = v /\ \A ga \in gGAs \ {at} : gCache'[ga] = gCache[ga]
    BY <2>1, <1>k DEF GroupKinds
  <2>4. gBus' \in [gGAs -> gVals] /\ (\A ga \in gGAs \ {at} : gBus'[ga] = gBus[ga]) /\ (gAlive = TRUE => gBus'[at] = v)
    BY <2>1, <1>k DEF GroupKinds
  <2>5. gMine' \subseteq gGAs \X (gVals \cup {None}) /\ \A w \in gMine' : w[1] \notin gRawGAs => w[2] = None
    BY <2>1, <1>k DEF GroupKinds
  <2>6. gWire' \in Seq(Groups!Telegram) /\ \A i \in 1..Len(gWire') : gWire'[i].own = TRUE => gWire'[i].evt = "write"
    <3>1. CASE gAlive = TRUE
      <4>1. /\ gWire' \in Seq(Groups!Telegram) /\ Len(gWire) \in Nat /\ Len(gWire') = Len(gWire) + 1
            /\ \A i \in 1..Len(gWire) : gWire'[i] = gWire[i]
            /\ gWire'[Len(gWire) + 1] = x
        BY <2>1, <2>2, <3>1, <1>w, Longer
      <4>2. \A i \in 1..Len(gWire') : i \in 1..Len(gWire) \/ i = Len(gWire) + 1
        BY <4>1
      <4> QED
        BY <4>1, <4>2, <2>2, <1>k DEF GroupKinds
    <3>2. CASE gAlive # TRUE
      BY <2>1, <3>2, <1>k DEF GroupKinds
    <3> QED
      BY <3>1, <3>2
  <2>7. GroupKinds'
    BY <2>1, <2>3, <2>4, <2>5, <2>6, <1>k DEF GroupKinds
  <2>8. ASSUME NEW ga \in gGAs
        PROVE GroupGood(ga, gWire', ga \notin gUnsure', gBus'[ga], gCache'[ga], Owed(ga)', Free(ga)', gAlive')
    <3>1. Owed(ga)' <=> Owed(ga)
      BY <2>1 DEF Owed
    <3>2. CASE ga # at
      <4>1. Free(ga) => Free(ga)'
        <5>1. \A w \in gMine' : w \in gMine \/ w[1] = at
          BY <2>1
        <5> QED
          BY <5>1, <3>2 DEF Free
      <4>2. GroupGood(ga, gWire', ga \notin gUnsure, gBus[ga], gCache[ga], Owed(ga), Free(ga), gAlive)
        <5>1. CASE gAlive = TRUE
          <6>1. gWire' = Append(gWire, x) /\ x.ga # ga
            BY <2>1, <2>2, <3>2, <5>1
          <6> QED
            BY <6>1, <2>2, <1>w, <1>g, GroupBeside
        <5>2. CASE gAlive # TRUE
          BY <2>1, <5>2, <1>g
        <5> QED
          BY <5>1, <5>2
      <4>3. gBus'[ga] = gBus[ga] /\ gCache'[ga] = gCache[ga] /\ (ga \notin gUnsure' => ga \notin gUnsure) /\ (gAlive' => gAlive)
        BY <2>1, <2>3, <2>4, <3>2, <1>k DEF GroupKinds
      <4>4. GroupGood(ga, gWire', ga \notin gUnsure', gBus[ga], gCache[ga], Owed(ga)', Free(ga)', gAlive')
        BY <4>1, <4>2, <4>3, <3>1 DEF GroupGood
      <4> QED
        BY <4>3, <4>4
    <3>3. CASE ga = at
      <4>1. CASE gAlive = TRUE
        <5>1. gBus'[ga] = v /\ gCache'[ga] = gBus'[ga] /\ x.val = gBus'[ga] /\ gWire' = Append(gWire, x) /\ x.ga = ga
              /\ ga \notin gRawGAs
          BY <2>1, <2>2, <2>3, <2>4, <3>3, <4>1
        <5> QED
          BY <5>1, <2>2, <1>w, GroupSent
      <4>2. CASE gAlive # TRUE
        <5>1. gWire' = <<>> /\ ~(ga \notin gUnsure')
          BY <2>1, <3>3, <4>2, <1>k DEF GroupKinds
        <5> QED
          BY <5>1, GroupSilent
      <4> QED
        BY <4>1, <4>2
    <3> QED
      BY <3>2, <3>3
  <2> QED
    BY <2>7, <2>8 DEF GroupInv
<1>3. CASE Groups!Foreign(at, v)
  <2> DEFINE x == [ga |-> at, val |-> v, evt |-> "write", own |-> FALSE]
  <2>1. /\ gBus' = [gBus EXCEPT ![at] = v]
        /\ UNCHANGED <<gTunnel, gAlive, gWanted, gAsked, gPoints, gCache, gMine, gChain, gSent, gUnread>>
        /\ gAlive = TRUE => gWire' = Append(gWire, x) /\ UNCHANGED gUnsure
        /\ gAlive # TRUE => gUnsure' = gUnsure \cup {at} /\ UNCHANGED gWire
    BY <1>3, <1>k DEF Groups!Foreign, GroupKinds
  <2>2. x \in Groups!Telegram /\ x.ga = at /\ x.val = v /\ x.own # TRUE /\ x.evt = "write"
    BY DEF Groups!Telegram
  <2> HIDE DEF x
  <2>4. gBus' \in [gGAs -> gVals] /\ (\A ga \in gGAs \ {at} : gBus'[ga] = gBus[ga]) /\ gBus'[at] = v
    BY <2>1, <1>k DEF GroupKinds
  <2>6. gWire' \in Seq(Groups!Telegram) /\ \A i \in 1..Len(gWire') : gWire'[i].own = TRUE => gWire'[i].evt = "write"
    <3>1. CASE gAlive = TRUE
      <4>1. /\ gWire' \in Seq(Groups!Telegram) /\ Len(gWire) \in Nat /\ Len(gWire') = Len(gWire) + 1
            /\ \A i \in 1..Len(gWire) : gWire'[i] = gWire[i]
            /\ gWire'[Len(gWire) + 1] = x
        BY <2>1, <2>2, <3>1, <1>w, Longer
      <4>2. \A i \in 1..Len(gWire') : i \in 1..Len(gWire) \/ i = Len(gWire) + 1
        BY <4>1
      <4> QED
        BY <4>1, <4>2, <2>2, <1>k DEF GroupKinds
    <3>2. CASE gAlive # TRUE
      BY <2>1, <3>2, <1>k DEF GroupKinds
    <3> QED
      BY <3>1, <3>2
  <2>u. gUnsure' \subseteq gGAs
    BY <2>1, <1>k DEF GroupKinds
  <2>7. GroupKinds'
    BY <2>1, <2>4, <2>6, <2>u, <1>k DEF GroupKinds
  <2>8. ASSUME NEW ga \in gGAs
        PROVE GroupGood(ga, gWire', ga \notin gUnsure', gBus'[ga], gCache'[ga], Owed(ga)', Free(ga)', gAlive')
    <3>1. (Owed(ga)' <=> Owed(ga)) /\ (Free(ga)' <=> Free(ga))
      BY <2>1 DEF Owed, Free
    <3>2. CASE ga # at
      <4>2. GroupGood(ga, gWire', ga \notin gUnsure, gBus[ga], gCache[ga], Owed(ga), Free(ga), gAlive)
        <5>1. CASE gAlive = TRUE
          <6>1. gWire' = Append(gWire, x) /\ x.ga # ga
            BY <2>1, <2>2, <3>2, <5>1
          <6> QED
            BY <6>1, <2>2, <1>w, <1>g, GroupBeside
        <5>2. CASE gAlive # TRUE
          BY <2>1, <5>2, <1>g
        <5> QED
          BY <5>1, <5>2
      <4>3. gBus'[ga] = gBus[ga] /\ gCache'[ga] = gCache[ga] /\ (ga \notin gUnsure' => ga \notin gUnsure) /\ (gAlive' => gAlive)
        BY <2>1, <2>4, <3>2, <1>k DEF GroupKinds
      <4>4. GroupGood(ga, gWire', ga \notin gUnsure', gBus[ga], gCache[ga], Owed(ga)', Free(ga)', gAlive')
        BY <4>2, <4>3, <3>1 DEF GroupGood
      <4> QED
        BY <4>3, <4>4
    <3>3. CASE ga = at
      <4>1. CASE gAlive = TRUE
        <5>1. x.val = gBus'[ga] /\ gWire' = Append(gWire, x) /\ x.ga = ga
          BY <2>1, <2>2, <2>4, <3>3, <4>1
        <5> QED
          BY <5>1, <2>2, <1>w, GroupSent
      <4>2. CASE gAlive # TRUE
        <5>1. gWire' = <<>> /\ ~(ga \notin gUnsure')
          BY <2>1, <3>3, <4>2, <1>k DEF GroupKinds
        <5> QED
          BY <5>1, GroupSilent
      <4> QED
        BY <4>1, <4>2
    <3> QED
      BY <3>2, <3>3
  <2> QED
    BY <2>7, <2>8 DEF GroupInv
<1> QED
  BY <1>1, <1>2, <1>3

LEMMA GroupQueues ==
    ASSUME Groups!KnxGroupsAssumption, GroupInv,
           (\E ga \in gGAs : Groups!QueueRead(ga)) \/ Groups!RawFails \/ (\E w \in gMine : Groups!WindowCloses(w)) \/ UNCHANGED gVars
    PROVE  GroupInv'
<1>k. GroupKinds
  BY DEF GroupInv
<1>g. ASSUME NEW ga \in gGAs
      PROVE GroupGood(ga, gWire, ga \notin gUnsure, gBus[ga], gCache[ga], Owed(ga), Free(ga), gAlive)
  BY DEF GroupInv
<1>w. gWire \in Seq(Groups!Telegram) /\ gChain \in Seq(Groups!Item)
  BY <1>k DEF GroupKinds
<1>1. ASSUME NEW at \in gGAs, Groups!QueueRead(at) PROVE GroupInv'
  <2>1. /\ gTunnel = "up" /\ at \in gUnread /\ gUnread' = gUnread \ {at}
        /\ gChain' = Append(gChain, [op |-> "read", ga |-> at])
        /\ UNCHANGED <<gTunnel, gAlive, gWanted, gAsked, gPoints, gCache, gMine, gSent, gBus, gWire, gUnsure>>
    BY <1>1, <1>k DEF Groups!QueueRead, GroupKinds
  <2>2. [op |-> "read", ga |-> at] \in Groups!Item
    BY DEF Groups!Item
  <2>3. /\ gChain' \in Seq(Groups!Item) /\ gChain' # <<>> /\ (gChain # <<>> => Head(gChain') = Head(gChain))
        /\ Len(gChain) + 1 \in 1..Len(gChain') /\ gChain'[Len(gChain) + 1] = [op |-> "read", ga |-> at]
    <3>1. ASSUME NEW x \in Groups!Item, gChain' = Append(gChain, x)
          PROVE /\ gChain' \in Seq(Groups!Item) /\ gChain' # <<>> /\ (gChain # <<>> => Head(gChain') = Head(gChain))
                /\ Len(gChain) + 1 \in 1..Len(gChain') /\ gChain'[Len(gChain) + 1] = x
      BY <3>1, <1>w
    <3> QED
      BY <2>1, <2>2, <3>1
  <2>6. GroupKinds'
    BY <2>1, <2>3, <1>k DEF GroupKinds
  <2>7. ASSUME NEW ga \in gGAs
        PROVE GroupGood(ga, gWire', ga \notin gUnsure', gBus'[ga], gCache'[ga], Owed(ga)', Free(ga)', gAlive')
    <3>1. Owed(ga) => Owed(ga)'
      <4>1. \E x \in Groups!Item : gChain' = Append(gChain, x)
        BY <2>1, <2>2
      <4>2. (\E i \in 1..Len(gChain) : gChain[i].op = "read" /\ gChain[i].ga = ga)
              => \E i \in 1..Len(gChain') : gChain'[i].op = "read" /\ gChain'[i].ga = ga
        BY <4>1, <1>w, OwedKept
      <4>3. \E i \in 1..Len(gChain') : gChain'[i].op = "read" /\ gChain'[i].ga = at
        BY <2>3
      <4> QED
        BY <2>1, <4>2, <4>3 DEF Owed
    <3>2. Free(ga)' <=> Free(ga)
      BY <2>1 DEF Free
    <3>3. GroupGood(ga, gWire, ga \notin gUnsure, gBus[ga], gCache[ga], Owed(ga)', Free(ga)', gAlive)
      BY <3>1, <3>2, <1>g DEF GroupGood
    <3> QED
      BY <2>1, <3>3
  <2> QED
    BY <2>6, <2>7 DEF GroupInv
<1>2. CASE Groups!RawFails
  <2>1. /\ gSent = TRUE /\ gChain # <<>> /\ Head(gChain).op = "raw" /\ gChain' = Tail(gChain) /\ gSent' = FALSE
        /\ UNCHANGED <<gTunnel, gAlive, gWanted, gAsked, gPoints, gCache, gMine, gUnread, gBus, gWire, gUnsure>>
    BY <1>2, <1>k DEF Groups!RawFails, GroupKinds
  <2>a. gChain' \in Seq(Groups!Item)
    BY <2>1, <1>w, Shorter
  <2>b. gSent' \in BOOLEAN /\ Head(gChain).op # "read"
    BY <2>1
  <2>2. gChain' \in Seq(Groups!Item) /\ gSent' \in BOOLEAN
    BY <2>a, <2>b
  <2>3. gTunnel # "none"
    BY <2>1, <1>k DEF GroupKinds
  <2>6. GroupKinds'
    BY <2>1, <2>2, <2>3, <1>k DEF GroupKinds
  <2>7. ASSUME NEW ga \in gGAs
        PROVE GroupGood(ga, gWire', ga \notin gUnsure', gBus'[ga], gCache'[ga], Owed(ga)', Free(ga)', gAlive')
    <3>1. Owed(ga) => Owed(ga)'
      <4>1. gChain # <<>> /\ gChain' = Tail(gChain) /\ ~(Head(gChain).op = "read" /\ Head(gChain).ga = ga)
        BY <2>1, <2>b
      <4>2. (\E i \in 1..Len(gChain) : gChain[i].op = "read" /\ gChain[i].ga = ga)
              => \E i \in 1..Len(gChain') : gChain'[i].op = "read" /\ gChain'[i].ga = ga
        BY <4>1, <1>w, OwedKept
      <4> QED
        BY <2>1, <4>2 DEF Owed
    <3>2. Free(ga)' <=> Free(ga)
      BY <2>1 DEF Free
    <3>3. GroupGood(ga, gWire, ga \notin gUnsure, gBus[ga], gCache[ga], Owed(ga)', Free(ga)', gAlive)
      BY <3>1, <3>2, <1>g DEF GroupGood
    <3> QED
      BY <2>1, <3>3
  <2> QED
    BY <2>6, <2>7 DEF GroupInv
<1>3. CASE (\E w \in gMine : Groups!WindowCloses(w)) \/ UNCHANGED gVars
  <2>1. gMine' \subseteq gMine /\ UNCHANGED <<gTunnel, gAlive, gWanted, gAsked, gPoints, gCache, gChain, gSent, gUnread, gBus, gWire, gUnsure>>
    BY <1>3 DEF Groups!WindowCloses, gVars
  <2>6. GroupKinds'
    BY <2>1, <1>k DEF GroupKinds
  <2>7. ASSUME NEW ga \in gGAs
        PROVE GroupGood(ga, gWire', ga \notin gUnsure', gBus'[ga], gCache'[ga], Owed(ga)', Free(ga)', gAlive')
    <3>1. (Owed(ga)' <=> Owed(ga)) /\ (Free(ga) => Free(ga)')
      BY <2>1 DEF Owed, Free
    <3>3. GroupGood(ga, gWire, ga \notin gUnsure, gBus[ga], gCache[ga], Owed(ga)', Free(ga)', gAlive)
      BY <3>1, <1>g DEF GroupGood
    <3> QED
      BY <2>1, <3>3
  <2> QED
    BY <2>6, <2>7 DEF GroupInv
<1> QED
  BY <1>1, <1>2, <1>3

LEMMA GroupTurn == ASSUME Groups!KnxGroupsAssumption, GroupInv, Groups!Turn PROVE GroupInv'
<1>k. GroupKinds
  BY DEF GroupInv
<1>g. ASSUME NEW ga \in gGAs
      PROVE GroupGood(ga, gWire, ga \notin gUnsure, gBus[ga], gCache[ga], Owed(ga), Free(ga), gAlive)
  BY DEF GroupInv
<1>w. gWire \in Seq(Groups!Telegram) /\ gChain \in Seq(Groups!Item)
  BY <1>k DEF GroupKinds
<1> DEFINE item == Head(gChain)
           x == [ga |-> item.ga, val |-> gBus[item.ga], evt |-> "response", own |-> FALSE]
<1>1. /\ gChain # <<>> /\ gSent # TRUE
      /\ UNCHANGED <<gTunnel, gAlive, gWanted, gAsked, gPoints, gCache, gMine, gUnread, gBus>>
      /\ item.op = "raw" => gSent' = TRUE /\ UNCHANGED <<gChain, gWire, gUnsure>>
      /\ item.op # "raw" =>
            /\ gChain' = Tail(gChain) /\ UNCHANGED gSent
            /\ \/ gAlive /\ gWire' = Append(gWire, x) /\ gUnsure' = gUnsure \ {item.ga}
               \/ gUnsure' = gUnsure \cup {item.ga} /\ UNCHANGED gWire
  BY DEF Groups!Turn
<1>2. item.ga \in gGAs
  BY <1>1, <1>w, GroupItems
<1>3. CASE item.op = "raw"
  <2>1. gSent' = TRUE /\ UNCHANGED <<gChain, gWire, gUnsure>> /\ gSent' \in BOOLEAN
    BY <1>1, <1>3
  <2>2. GroupKinds'
    BY <1>1, <1>3, <2>1, <1>k DEF GroupKinds
  <2>3. ASSUME NEW ga \in gGAs
        PROVE GroupGood(ga, gWire', ga \notin gUnsure', gBus'[ga], gCache'[ga], Owed(ga)', Free(ga)', gAlive')
    BY <1>1, <2>1, <1>g DEF Owed, Free
  <2> QED
    BY <2>2, <2>3 DEF GroupInv
<1>4. CASE item.op # "raw"
  <2>1. /\ gChain' = Tail(gChain) /\ gSent' = gSent
        /\ \/ gAlive = TRUE /\ gWire' = Append(gWire, x) /\ gUnsure' = gUnsure \ {item.ga}
           \/ gUnsure' = gUnsure \cup {item.ga} /\ gWire' = gWire
    BY <1>1, <1>4, <1>k DEF GroupKinds
  <2>2. gChain' \in Seq(Groups!Item)
    BY <1>1, <2>1, <1>w
  <2>3. x \in Groups!Telegram /\ x.ga = item.ga /\ x.val = gBus[item.ga] /\ x.own # TRUE
    BY <1>2, <1>k DEF Groups!Telegram, GroupKinds
  <2> HIDE DEF x
  <2>4. gWire' \in Seq(Groups!Telegram) /\ \A i \in 1..Len(gWire') : gWire'[i].own = TRUE => gWire'[i].evt = "write"
    <3>1. CASE gWire' = Append(gWire, x)
      <4>1. /\ gWire' \in Seq(Groups!Telegram) /\ Len(gWire) \in Nat /\ Len(gWire') = Len(gWire) + 1
            /\ \A i \in 1..Len(gWire) : gWire'[i] = gWire[i]
            /\ gWire'[Len(gWire) + 1] = x
        BY <2>3, <3>1, <1>w, Longer
      <4>2. \A i \in 1..Len(gWire') : i \in 1..Len(gWire) \/ i = Len(gWire) + 1
        BY <4>1
      <4> QED
        BY <4>1, <4>2, <2>3, <1>k DEF GroupKinds
    <3>2. CASE gWire' = gWire
      BY <3>2, <1>k DEF GroupKinds
    <3> QED
      BY <2>1, <3>1, <3>2
  <2>5. gUnsure' \subseteq gGAs
    BY <1>2, <2>1, <1>k DEF GroupKinds
  <2>a. gTunnel # "none" /\ (gAlive # TRUE => gWire' = <<>>)
    BY <1>1, <2>1, <1>k DEF GroupKinds
  <2>6. GroupKinds'
    BY <1>1, <2>1, <2>2, <2>4, <2>5, <2>a, <1>k DEF GroupKinds
  <2>7. ASSUME NEW ga \in gGAs
        PROVE GroupGood(ga, gWire', ga \notin gUnsure', gBus'[ga], gCache'[ga], Owed(ga)', Free(ga)', gAlive')
    <3>f. Free(ga)' <=> Free(ga)
      BY <1>1 DEF Free
    <3>1. CASE ga # item.ga
      <4>1. Owed(ga) => Owed(ga)'
        <5>2. (\E i \in 1..Len(gChain) : gChain[i].op = "read" /\ gChain[i].ga = ga)
              => \E i \in 1..Len(gChain') : gChain'[i].op = "read" /\ gChain'[i].ga = ga
          BY <1>1, <2>1, <3>1, <1>w, OwedKept
        <5> QED
          BY <1>1, <5>2 DEF Owed
      <4>2. GroupGood(ga, gWire', ga \notin gUnsure, gBus[ga], gCache[ga], Owed(ga), Free(ga), gAlive)
        <5>1. CASE gWire' = Append(gWire, x)
          BY <5>1, <2>3, <3>1, <1>w, <1>g, GroupBeside
        <5>2. CASE gWire' = gWire
          BY <5>2, <1>g
        <5> QED
          BY <2>1, <5>1, <5>2
      <4>3. ga \notin gUnsure' <=> ga \notin gUnsure
        BY <2>1, <3>1
      <4>4. GroupGood(ga, gWire', ga \notin gUnsure', gBus[ga], gCache[ga], Owed(ga)', Free(ga)', gAlive)
        BY <4>1, <4>2, <4>3, <3>f DEF GroupGood
      <4> QED
        BY <4>4, <1>1
    <3>2. CASE ga = item.ga
      <4>1. CASE gWire' = Append(gWire, x)
        <5>1. x.ga = ga /\ x.val = gBus'[ga]
          BY <1>1, <2>3, <3>2
        <5> QED
          BY <4>1, <5>1, <2>3, <1>w, GroupSent
      <4>2. CASE gUnsure' = gUnsure \cup {item.ga} /\ gWire' = gWire
        <5>1. ~(ga \notin gUnsure')
          BY <3>2, <4>2
        <5>2. GroupGood(ga, gWire, ga \notin gUnsure', gBus[ga], gCache[ga], Owed(ga)', Free(ga)', gAlive)
          BY <5>1, <1>g DEF GroupGood
        <5> QED
          BY <5>2, <4>2, <1>1
      <4> QED
        BY <2>1, <4>1, <4>2
    <3> QED
      BY <3>1, <3>2
  <2> QED
    BY <2>6, <2>7 DEF GroupInv
<1> QED
  BY <1>3, <1>4

LEMMA GroupRawDone == ASSUME Groups!KnxGroupsAssumption, GroupInv, Groups!RawDone PROVE GroupInv'
<1>k. GroupKinds
  BY DEF GroupInv
<1>g. ASSUME NEW ga \in gGAs
      PROVE GroupGood(ga, gWire, ga \notin gUnsure, gBus[ga], gCache[ga], Owed(ga), Free(ga), gAlive)
  BY DEF GroupInv
<1>w. gWire \in Seq(Groups!Telegram) /\ gChain \in Seq(Groups!Item)
  BY <1>k DEF GroupKinds
<1>o. ASSUME NEW ga \in gGAs
      PROVE  (\E i \in 1..Len(gChain) : gChain[i].op = "read" /\ gChain[i].ga = ga)
               => \E i \in 1..Len(gChain') : gChain'[i].op = "read" /\ gChain'[i].ga = ga
  <2>1. gChain # <<>> /\ gChain' = Tail(gChain) /\ Head(gChain).op = "raw"
    BY <1>k DEF Groups!RawDone, GroupKinds
  <2>2. SUFFICES ASSUME NEW i \in 1..Len(gChain), gChain[i].op = "read", gChain[i].ga = ga
                 PROVE  \E j \in 1..Len(gChain') : gChain'[j].op = "read" /\ gChain'[j].ga = ga
    OBVIOUS
  <2>3. /\ Len(gChain) \in Nat \ {0} /\ Len(gChain') = Len(gChain) - 1
        /\ (\A j \in 1..Len(gChain') : gChain'[j] = gChain[j + 1]) /\ gChain[1] = Head(gChain)
    BY <2>1, <1>w, Shorter
  <2>4. i # 1
    BY <2>1, <2>2, <2>3
  <2>5. i - 1 \in 1..Len(gChain') /\ gChain'[i - 1] = gChain[i]
    BY <2>3, <2>4
  <2> QED
    BY <2>2, <2>5
<1> DEFINE at == Head(gChain).ga
           v == Head(gChain).val
           x == [ga |-> at, val |-> v, evt |-> "write", own |-> TRUE]
<1>1. /\ gSent /\ gAlive = TRUE /\ gBus' = [gBus EXCEPT ![at] = v] /\ gWire' = Append(gWire, x)
      /\ gCache' = [gCache EXCEPT ![at] = v] /\ gChain' = Tail(gChain) /\ gSent' = FALSE
      /\ gUnsure' = (IF \E i \in DOMAIN gWire : gWire[i].ga = at THEN gUnsure \cup {at} ELSE gUnsure \ {at})
      /\ UNCHANGED <<gTunnel, gAlive, gWanted, gAsked, gPoints, gMine, gUnread>>
  BY <1>k DEF Groups!RawDone, GroupKinds
<1>2. gChain # <<>> /\ Head(gChain).op = "raw" /\ gTunnel = "up"
  BY <1>1, <1>k DEF GroupKinds
<1>3. at \in gGAs /\ v \in gVals
  BY <1>2, <1>w, GroupItems
<1>4. x \in Groups!Telegram /\ x.ga = at /\ x.val = v /\ x.evt = "write"
  BY <1>3 DEF Groups!Telegram
<1>h. Head(gChain).ga = at
  OBVIOUS
<1> HIDE DEF x, at, v
<1>a. gChain' \in Seq(Groups!Item)
  BY <1>1, <1>2, <1>w, Shorter
<1>b. gSent' \in BOOLEAN /\ Head(gChain).op # "read"
  BY <1>1, <1>2
<1>5. gChain' \in Seq(Groups!Item) /\ gSent' \in BOOLEAN
  BY <1>a, <1>b
<1>6. gWire' \in Seq(Groups!Telegram) /\ \A i \in 1..Len(gWire') : gWire'[i].own = TRUE => gWire'[i].evt = "write"
  <2>1. /\ gWire' \in Seq(Groups!Telegram) /\ Len(gWire) \in Nat /\ Len(gWire') = Len(gWire) + 1
        /\ \A i \in 1..Len(gWire) : gWire'[i] = gWire[i]
        /\ gWire'[Len(gWire) + 1] = x
    BY <1>1, <1>4, <1>w, Longer
  <2>2. \A i \in 1..Len(gWire') : i \in 1..Len(gWire) \/ i = Len(gWire) + 1
    BY <2>1
  <2> QED
    BY <2>1, <2>2, <1>4, <1>k DEF GroupKinds
<1>7. /\ gCache' \in [gGAs -> gVals \cup {None}] /\ gBus' \in [gGAs -> gVals] /\ gUnsure' \subseteq gGAs
      /\ gCache'[at] = v /\ gBus'[at] = v
      /\ \A ga \in gGAs \ {at} : gCache'[ga] = gCache[ga] /\ gBus'[ga] = gBus[ga]
  BY <1>1, <1>3, <1>k DEF GroupKinds
<1>8. GroupKinds'
  BY <1>1, <1>2, <1>5, <1>6, <1>7, <1>k DEF GroupKinds
<1>9. ASSUME NEW ga \in gGAs
      PROVE GroupGood(ga, gWire', ga \notin gUnsure', gBus'[ga], gCache'[ga], Owed(ga)', Free(ga)', gAlive')
  <2>f. Free(ga)' <=> Free(ga)
    BY <1>1 DEF Free
  <2>1. CASE ga # at
    <3>1. Owed(ga) => Owed(ga)'
      <4> QED
        BY <1>1, <1>o DEF Owed
    <3>2. GroupGood(ga, gWire', ga \notin gUnsure, gBus[ga], gCache[ga], Owed(ga), Free(ga), gAlive)
      BY <1>1, <1>4, <2>1, <1>w, <1>g, GroupBeside
    <3>3. ga \notin gUnsure' <=> ga \notin gUnsure
      BY <1>1, <2>1
    <3>4. GroupGood(ga, gWire', ga \notin gUnsure', gBus[ga], gCache[ga], Owed(ga)', Free(ga)', gAlive)
      BY <3>1, <3>2, <3>3, <2>f DEF GroupGood
    <3>5. gBus'[ga] = gBus[ga] /\ gCache'[ga] = gCache[ga] /\ gAlive' = gAlive
      BY <1>1, <1>7, <2>1
    <3> QED
      BY <3>4, <3>5
  <2>2. CASE ga = at
    <3>1. x.ga = ga /\ x.val = gBus'[ga] /\ gCache'[ga] = gBus'[ga] /\ gWire' = Append(gWire, x)
      BY <1>1, <1>4, <1>7, <2>2
    <3>2. ga \notin gUnsure' => \A j \in 1..Len(gWire) : gWire[j].ga # ga
      BY <1>1, <2>2, <1>w
    <3> QED
      BY <3>1, <3>2, <1>4, <1>w, GroupSent
  <2> QED
    BY <2>1, <2>2
<1> QED
  BY <1>8, <1>9 DEF GroupInv

LEMMA GroupArrives == ASSUME Groups!KnxGroupsAssumption, GroupInv, Groups!Arrives PROVE GroupInv'
<1>k. GroupKinds
  BY DEF GroupInv
<1>g. ASSUME NEW ga \in gGAs
      PROVE GroupGood(ga, gWire, ga \notin gUnsure, gBus[ga], gCache[ga], Owed(ga), Free(ga), gAlive)
  BY DEF GroupInv
<1>w. gWire \in Seq(Groups!Telegram) /\ gChain \in Seq(Groups!Item)
  BY <1>k DEF GroupKinds
<1> DEFINE t == Head(gWire)
           crossing == \E i \in 2..Len(gWire) : gWire[i].ga = t.ga
<1>1. /\ gWire # <<>> /\ gWire' = Tail(gWire)
      /\ gCache' = (IF Groups!Ignored(t) THEN gCache ELSE [gCache EXCEPT ![t.ga] = t.val])
      /\ gUnsure' = (IF t.own = TRUE THEN gUnsure
                    ELSE IF Groups!Ignored(t) \/ crossing THEN gUnsure \cup {t.ga} ELSE gUnsure \ {t.ga})
      /\ UNCHANGED <<gTunnel, gAlive, gWanted, gAsked, gPoints, gMine, gChain, gSent, gUnread, gBus>>
  <2>1. gWire # <<>> /\ t \in Groups!Telegram
    BY <1>w DEF Groups!Arrives
  <2>2. t.own \in BOOLEAN
    BY <2>1, GroupItems
  <2> QED
    BY <2>1, <2>2 DEF Groups!Arrives
<1>2. t \in Groups!Telegram /\ t.ga \in gGAs /\ t.val \in gVals
  BY <1>1, <1>w, GroupItems
<1>3. /\ gWire' \in Seq(Groups!Telegram) /\ Len(gWire) \in Nat \ {0} /\ Len(gWire') = Len(gWire) - 1
      /\ (\A i \in 1..Len(gWire') : gWire'[i] = gWire[i + 1]) /\ gWire[1] = t
  BY <1>1, <1>w, Shorter
<1>4. \A i \in 1..Len(gWire') : gWire'[i].own = TRUE => gWire'[i].evt = "write"
  <2>1. \A i \in 1..Len(gWire') : i + 1 \in 1..Len(gWire)
    BY <1>3
  <2> QED
    BY <2>1, <1>3, <1>k DEF GroupKinds
<1>5. t.own = TRUE => t.evt = "write"
  <2>1. 1 \in 1..Len(gWire)
    BY <1>3
  <2> QED
    BY <2>1, <1>3, <1>k DEF GroupKinds
<1>a. gAlive = TRUE
  BY <1>1, <1>k DEF GroupKinds
<1>6. GroupKinds'
  <2>1. gCache' \in [gGAs -> gVals \cup {None}] /\ gUnsure' \subseteq gGAs
    BY <1>1, <1>2, <1>k DEF GroupKinds
  <2> QED
    BY <1>1, <1>3, <1>4, <1>a, <2>1, <1>k DEF GroupKinds
<1>7. ASSUME NEW ga \in gGAs
      PROVE GroupGood(ga, gWire', ga \notin gUnsure', gBus'[ga], gCache'[ga], Owed(ga)', Free(ga)', gAlive')
  <2>o. (Owed(ga)' <=> Owed(ga)) /\ (Free(ga)' <=> Free(ga)) /\ gBus' = gBus /\ gAlive' = gAlive
    BY <1>1 DEF Owed, Free
  <2>1. CASE ga # t.ga
    <3>1. GroupGood(ga, gWire', ga \notin gUnsure, gBus[ga], gCache[ga], Owed(ga), Free(ga), gAlive)
      BY <1>1, <2>1, <1>w, <1>g, GroupPassed
    <3>2. gCache'[ga] = gCache[ga] /\ (ga \notin gUnsure' <=> ga \notin gUnsure)
      BY <1>1, <1>2, <2>1, <1>k DEF GroupKinds
    <3>3. GroupGood(ga, gWire', ga \notin gUnsure', gBus[ga], gCache[ga], Owed(ga)', Free(ga)', gAlive)
      BY <3>1, <3>2, <2>o DEF GroupGood
    <3> QED
      BY <3>2, <3>3, <2>o
  <2>2. CASE ga = t.ga
    <3>1. gCache'[ga] = IF Groups!Ignored(t) THEN gCache[ga] ELSE t.val
      BY <1>1, <2>2, <1>k DEF GroupKinds
    <3>2. Groups!Ignored(t) => ~Free(ga)
      BY <2>2 DEF Groups!Ignored, Groups!IsSelfWrite, Free
    <3>3. t.own = TRUE /\ ~Groups!Ignored(t) /\ ga \notin gRawGAs => Free(ga)
      <4>1. \A w \in gMine : w[1] = ga /\ ga \notin gRawGAs => w[2] = None
        BY <1>k DEF GroupKinds
      <4> QED
        BY <4>1, <1>5, <2>2 DEF Groups!Ignored, Groups!IsSelfWrite, Free
    <3>4. t.own = TRUE => (ga \notin gUnsure' <=> ga \notin gUnsure)
      BY <1>1
    <3>5. t.own # TRUE /\ ga \notin gUnsure' => ~Groups!Ignored(t) /\ \A i \in 2..Len(gWire) : gWire[i].ga # ga
      BY <1>1, <2>2
    <3>6. \/ gCache'[ga] = gCache[ga] /\ ~Free(ga) /\ (t.own # TRUE => ~(ga \notin gUnsure'))
          \/ gCache'[ga] = t.val /\ (t.own = TRUE /\ ga \notin gRawGAs => Free(ga))
      BY <3>1, <3>2, <3>3, <3>5
    <3>7. GroupGood(ga, gWire, ga \notin gUnsure, gBus[ga], gCache[ga], Owed(ga), Free(ga), gAlive)
      BY <1>g
    <3>8. GroupGood(ga, gWire', ga \notin gUnsure', gBus[ga], gCache'[ga], Owed(ga), Free(ga), gAlive)
      BY <1>1, <1>w, <2>2, <3>4, <3>5, <3>6, <3>7, GroupHeard
    <3>9. GroupGood(ga, gWire', ga \notin gUnsure', gBus[ga], gCache'[ga], Owed(ga)', Free(ga)', gAlive)
      BY <3>8, <2>o DEF GroupGood
    <3> QED
      BY <3>9, <2>o
  <2> QED
    BY <2>1, <2>2
<1> QED
  BY <1>6, <1>7 DEF GroupInv

LEMMA GroupStep == Groups!KnxGroupsAssumption /\ GroupInv /\ [Groups!Next]_gVars => GroupInv'
  BY GroupTunnel, GroupWrites, GroupQueues, GroupTurn, GroupRawDone, GroupArrives DEF Groups!Next

LEMMA GroupIsSound == GroupInv => Groups!CacheFollowsBus
<1> SUFFICES ASSUME GroupInv, Groups!Quiet, NEW ga \in (gWanted \ gMediaGAs) \ gUnsure PROVE gCache[ga] = gBus[ga]
  BY DEF Groups!CacheFollowsBus
<1>1. ga \in gGAs /\ gWire = <<>> /\ gChain = <<>> /\ gAlive /\ gUnread = {}
  BY DEF GroupInv, GroupKinds, Groups!Quiet
<1>2. GroupGood(ga, gWire, ga \notin gUnsure, gBus[ga], gCache[ga], Owed(ga), Free(ga), gAlive)
  BY <1>1 DEF GroupInv
<1>3. \A s : s = <<>> => \A i \in 1..Len(s) : FALSE
  OBVIOUS
<1>4. ~Owed(ga)
  BY <1>1, <1>3 DEF Owed
<1> QED
  BY <1>1, <1>2, <1>3, <1>4 DEF GroupGood

(* When nothing is under way, the cache shows what is on the bus for every     *)
(* address of the house that is sure, whatever houses are saved and however    *)
(* tunnels drop: handleTelegram, read, write and scheduleReads of knxBus.ts.   *)
THEOREM CacheAlwaysFollows == Spec => []CacheFollowsBus
<1> DEFINE Inv == /\ part = "groups" => GroupInv
<1>a. Groups!KnxGroupsAssumption
  BY BusAssumption
<1>1. Init => Inv
  BY <1>a, InitOf, GroupStart
<1>2. Inv /\ [Next]_allVars => Inv'
  BY <1>a, StepOf, GroupStep
<1>3. Inv => CacheFollowsBus
  BY <1>a, GroupIsSound DEF CacheFollowsBus
<1> QED
  BY <1>1, <1>2, <1>3, PTL DEF Spec

------------------------------------------------------------------------------
(* The sessions of the scene wizard: knxSceneLearn.ts.                        *)
Sessions == [room : sRooms, phase : {"wait_button", "busy"}]
Answers == [room : sRooms, says : {"learned", "timeout", "failed"}]

ListenKinds ==
    /\ sListen \in Sessions \cup {None} /\ sHeard \in Answers \cup {None}
    /\ sStarting \in Seq(sRooms) /\ sWizards \in Seq(sRooms)
    /\ sStray \subseteq sRooms /\ sOwn \in BOOLEAN /\ sCalm \in BOOLEAN
    /\ sOwn = TRUE => sListen # None

(* While nothing overlaps, one start is prepared or one wizard runs, and the   *)
(* session is the wizard's.                                                    *)
ListenOne ==
    sCalm = TRUE =>
        /\ sStarting # <<>> => Len(sStarting) = 1 /\ sListen = None /\ sWizards = <<>>
        /\ sWizards # <<>> => Len(sWizards) = 1 /\ sListen # None /\ sWizards[1] = sListen.room

ListenInv == ListenKinds /\ ListenOne /\ Listen!TimerOfSession

LEMMA ListenStart == Listen!SceneListenAssumption /\ Listen!Init => ListenInv
<1> SUFFICES ASSUME Listen!Init PROVE ListenInv
  OBVIOUS
<1>1. /\ sListen = None /\ sHeard = None /\ sStarting = <<>> /\ sWizards = <<>>
      /\ sStray = {} /\ sOwn = FALSE /\ sCalm = TRUE
  BY DEF Listen!Init
<1>2. sStarting \in Seq(sRooms) /\ sWizards \in Seq(sRooms)
  BY <1>1
<1>3. sOwn \in BOOLEAN /\ sCalm \in BOOLEAN
  BY <1>1
<1>4. ListenKinds
  BY <1>1, <1>2, <1>3 DEF ListenKinds
<1>5. ListenOne /\ Listen!TimerOfSession
  BY <1>1 DEF ListenOne, Listen!TimerOfSession, Listen!TimesOut
<1> QED
  BY <1>4, <1>5 DEF ListenInv

(* Taking a wizard out of their list.                                          *)
LEMMA WizardOut ==
    ASSUME NEW ws \in Seq(sRooms), NEW i \in DOMAIN ws,
           NEW left, left = [j \in 1..Len(ws) - 1 |-> IF j < i THEN ws[j] ELSE ws[j + 1]]
    PROVE  left \in Seq(sRooms) /\ (Len(ws) = 1 => left = <<>>)
<1>1. Len(ws) \in Nat /\ Len(ws) >= 1 /\ i \in 1..Len(ws)
  OBVIOUS
<1>2. \A j \in 1..Len(ws) - 1 : left[j] \in sRooms
  BY <1>1
<1>3. Len(ws) - 1 \in Nat
  BY <1>1
<1>4. left \in Seq(sRooms)
  BY <1>2, <1>3
<1>5. Len(ws) = 1 => left = <<>>
  <2>1. Len(ws) = 1 => DOMAIN left = {}
    BY <1>1
  <2>2. Len(ws) = 1 => Len(left) = 0
    BY <1>3
  <2> QED
    BY <2>2, <1>4
<1> QED
  BY <1>4, <1>5

LEMMA ListenStep == Listen!SceneListenAssumption /\ ListenInv /\ [Listen!Next]_sVars => ListenInv'
<1> SUFFICES ASSUME Listen!SceneListenAssumption, ListenInv, [Listen!Next]_sVars PROVE ListenInv'
  OBVIOUS
<1>k. ListenKinds /\ ListenOne /\ Listen!TimerOfSession
  BY DEF ListenInv
<1>n. \A s \in Sessions : s # None /\ s.room \in sRooms
  BY DEF Listen!SceneListenAssumption, Sessions
<1>1. ASSUME NEW r \in sRooms, Listen!StartListen(r) PROVE ListenInv'
  <2>1. /\ sListen' = None /\ sOwn' = FALSE /\ sHeard' = None /\ sStarting' = Append(sStarting, r)
        /\ sCalm' = (sCalm /\ sStarting = <<>> /\ sWizards = <<>>)
        /\ UNCHANGED <<sStray, sWizards>>
    BY <1>1 DEF Listen!StartListen, Listen!StopListen
  <2>2. sStarting' \in Seq(sRooms) /\ (sStarting = <<>> => Len(sStarting') = 1)
    BY <2>1, <1>k DEF ListenKinds
  <2>3. sCalm' \in BOOLEAN
    BY <2>1
  <2>4. sCalm' = TRUE => sCalm = TRUE /\ sStarting = <<>> /\ sWizards = <<>>
    BY <2>1, <1>k DEF ListenKinds
  <2> QED
    BY <2>1, <2>2, <2>3, <2>4, <1>k DEF ListenInv, ListenKinds, ListenOne, Listen!TimerOfSession, Listen!TimesOut
<1>2. ASSUME NEW r \in sRooms, Listen!StrayTimer(r) PROVE ListenInv'
  <2>1. sCalm # TRUE
    BY <1>2, <1>k DEF Listen!StrayTimer, Listen!TimerOfSession
  <2>a. /\ sStray' = sStray \ {r} /\ UNCHANGED <<sStarting, sWizards, sCalm>>
        /\ \/ sHeard' = [room |-> r, says |-> "timeout"] /\ sListen' = None /\ sOwn' = FALSE
           \/ UNCHANGED <<sListen, sHeard, sOwn>>
    BY <1>2 DEF Listen!StrayTimer
  <2>b. sOwn' \in BOOLEAN /\ sCalm' \in BOOLEAN /\ (sOwn' = TRUE => sListen' # None)
    BY <2>a, <1>k DEF ListenKinds
  <2>c. sListen' \in Sessions \cup {None} /\ sHeard' \in Answers \cup {None}
    BY <2>a, <1>k DEF ListenKinds, Answers
  <2>2. ListenKinds'
    BY <2>a, <2>b, <2>c, <1>k DEF ListenKinds
  <2>3. sCalm' # TRUE /\ sCalm' \in BOOLEAN
    BY <1>2, <2>1, <1>k DEF Listen!StrayTimer, ListenKinds
  <2> QED
    BY <2>2, <2>3 DEF ListenInv, ListenOne, Listen!TimerOfSession
<1>3. CASE Listen!OwnTimer
  <2>0. sOwn = TRUE /\ sListen \in Sessions
    BY <1>3, <1>k DEF Listen!OwnTimer, ListenKinds
  <2>1. CASE Listen!TimesOut(sListen)
    <3>1. /\ sHeard' = [room |-> sListen.room, says |-> "timeout"] /\ sListen' = None
          /\ sOwn' = FALSE /\ UNCHANGED <<sStray, sStarting, sWizards, sCalm>>
      BY <1>3, <2>1 DEF Listen!OwnTimer, Listen!EmitHeard, Listen!StopListen
    <3>2. sCalm = TRUE => sWizards = <<>> /\ sStarting = <<>>
      BY <2>0, <2>1, <1>k, <1>n DEF Listen!TimerOfSession, Listen!TimesOut, ListenOne
    <3>3. sHeard' \in Answers
      BY <3>1, <2>0, <1>n DEF Answers
    <3> QED
      BY <3>1, <3>2, <3>3, <1>k DEF ListenInv, ListenKinds, ListenOne, Listen!TimerOfSession, Listen!TimesOut
  <2>2. CASE ~Listen!TimesOut(sListen)
    <3>1. sOwn' = FALSE /\ UNCHANGED <<sListen, sHeard, sStray, sStarting, sWizards, sCalm>>
      BY <1>3, <2>2 DEF Listen!OwnTimer
    <3> QED
      BY <3>1, <2>2, <1>k DEF ListenInv, ListenKinds, ListenOne, Listen!TimerOfSession, Listen!TimesOut
  <2> QED
    BY <2>1, <2>2
<1>4. CASE Listen!Settled
  <2>0. sStarting # <<>> /\ Head(sStarting) \in sRooms /\ Tail(sStarting) \in Seq(sRooms)
    BY <1>4, <1>k DEF Listen!Settled, ListenKinds
  <2>1. /\ sStarting' = Tail(sStarting) /\ sOwn' = TRUE
        /\ sListen' = [room |-> Head(sStarting), phase |-> "wait_button"]
        /\ sStray' = (IF sOwn THEN sStray \cup {sListen.room} ELSE sStray)
        /\ UNCHANGED <<sHeard, sWizards, sCalm>>
    BY <1>4 DEF Listen!Settled
  <2>2. sListen' \in Sessions /\ sListen' # None
    BY <2>0, <2>1, <1>n DEF Sessions
  <2>3. sStray' \subseteq sRooms
    BY <2>1, <1>k, <1>n DEF ListenKinds
  <2>4. sCalm = TRUE => sOwn = FALSE /\ sWizards = <<>> /\ sStarting' = <<>>
    BY <2>0, <2>1, <1>k DEF ListenKinds, ListenOne
  <2>5. ListenKinds'
    BY <2>0, <2>1, <2>2, <2>3, <1>k DEF ListenKinds
  <2>6. ListenOne' /\ Listen!TimerOfSession'
    BY <2>1, <2>4, <1>k DEF ListenOne, Listen!TimerOfSession, Listen!TimesOut
  <2> QED
    BY <2>5, <2>6 DEF ListenInv
<1>5. CASE Listen!StartFails
  <2>0. sStarting # <<>> /\ Tail(sStarting) \in Seq(sRooms)
    BY <1>5, <1>k DEF Listen!StartFails, ListenKinds
  <2>1. sStarting' = Tail(sStarting) /\ UNCHANGED <<sListen, sHeard, sOwn, sStray, sWizards, sCalm>>
    BY <1>5 DEF Listen!StartFails
  <2>2. sCalm = TRUE => sStarting' = <<>>
    BY <2>0, <2>1, <1>k DEF ListenKinds, ListenOne
  <2> QED
    BY <2>0, <2>1, <2>2, <1>k DEF ListenInv, ListenKinds, ListenOne, Listen!TimerOfSession, Listen!TimesOut
<1>6. CASE Listen!ButtonPressed
  <2>0. sListen \in Sessions /\ sListen.phase = "wait_button"
    BY <1>6, <1>k DEF Listen!ButtonPressed, ListenKinds
  <2>1. /\ sListen' = [sListen EXCEPT !.phase = "busy"] /\ sWizards' = Append(sWizards, sListen.room)
        /\ UNCHANGED <<sHeard, sStarting, sOwn, sStray, sCalm>>
    BY <1>6 DEF Listen!ButtonPressed
  <2>2. sListen' \in Sessions /\ sListen'.room = sListen.room /\ sListen'.phase = "busy" /\ sListen' # None
    BY <2>0, <2>1, <1>n DEF Sessions
  <2>3. sListen # None /\ sListen.room \in sRooms
    BY <2>0, <1>n
  <2>4. sCalm = TRUE => sWizards = <<>> /\ sStarting = <<>>
    BY <2>0, <2>3, <1>k DEF ListenOne, Listen!TimerOfSession
  <2>5. sWizards' \in Seq(sRooms) /\ (sWizards = <<>> => Len(sWizards') = 1 /\ sWizards'[1] = sListen.room)
    BY <2>1, <2>3, <1>k DEF ListenKinds
  <2>6. ListenKinds'
    BY <2>1, <2>2, <2>5, <1>k DEF ListenKinds
  <2>7. ListenOne'
    BY <2>1, <2>2, <2>4, <2>5, <1>k DEF ListenOne
  <2>8. Listen!TimerOfSession'
    BY <2>1, <2>2, <1>k DEF Listen!TimerOfSession, Listen!TimesOut
  <2> QED
    BY <2>6, <2>7, <2>8 DEF ListenInv
<1>7. CASE Listen!Stop
  <2>1. /\ sListen' = None /\ sOwn' = FALSE /\ sCalm' = (sCalm /\ sWizards = <<>>)
        /\ UNCHANGED <<sStray, sHeard, sStarting, sWizards>>
    BY <1>7 DEF Listen!Stop, Listen!StopListen
  <2>2. sCalm' \in BOOLEAN
    BY <2>1
  <2>3. sCalm' = TRUE => sCalm = TRUE /\ sWizards = <<>>
    BY <2>1, <1>k DEF ListenKinds
  <2> QED
    BY <2>1, <2>2, <2>3, <1>k DEF ListenInv, ListenKinds, ListenOne, Listen!TimerOfSession, Listen!TimesOut
<1>8. ASSUME NEW i \in 1..sMaxStarts, Listen!WizardEnds(i) PROVE ListenInv'
  <2>0. i \in DOMAIN sWizards /\ sWizards[i] \in sRooms
    BY <1>8, <1>k DEF Listen!WizardEnds, ListenKinds
  <2>1. PICK says \in {"learned", "failed"} : Listen!EmitHeard(sWizards[i], says)
    BY <1>8 DEF Listen!WizardEnds
  <2>2. /\ sHeard' = [room |-> sWizards[i], says |-> says] /\ sListen' = None /\ sOwn' = FALSE
        /\ UNCHANGED <<sStray, sStarting, sCalm>>
    BY <1>8, <2>1 DEF Listen!WizardEnds, Listen!EmitHeard, Listen!StopListen
  <2>3. sWizards' \in Seq(sRooms) /\ (Len(sWizards) = 1 => sWizards' = <<>>)
    <3>1. sWizards' = [j \in 1..Len(sWizards) - 1 |-> IF j < i THEN sWizards[j] ELSE sWizards[j + 1]]
      BY <1>8 DEF Listen!WizardEnds
    <3>2. sWizards \in Seq(sRooms)
      BY <1>k DEF ListenKinds
    <3> QED
      BY <2>0, <3>1, <3>2, WizardOut
  <2>4. sWizards # <<>>
    BY <2>0, <1>k DEF ListenKinds
  <2>5. sHeard' \in Answers
    BY <2>0, <2>2 DEF Answers
  <2> QED
    BY <2>2, <2>3, <2>4, <2>5, <1>k DEF ListenInv, ListenKinds, ListenOne, Listen!TimerOfSession, Listen!TimesOut
<1>9. CASE UNCHANGED sVars
  BY <1>9, <1>k DEF sVars, ListenInv, ListenKinds, ListenOne, Listen!TimerOfSession, Listen!TimesOut
<1> QED
  BY <1>1, <1>2, <1>3, <1>4, <1>5, <1>6, <1>7, <1>8, <1>9 DEF Listen!Next

(* An answer ends the session of its room.                                     *)
LEMMA ListenAnswers ==
    Listen!SceneListenAssumption /\ ListenInv /\ [Listen!Next]_sVars => Listen!AnswerIsOfRoom
<1> SUFFICES ASSUME Listen!SceneListenAssumption, ListenInv, [Listen!Next]_sVars,
                    sHeard' # sHeard, sHeard' # None, sListen # None, sCalm = TRUE
             PROVE  sHeard'.room = sListen.room
  BY DEF Listen!AnswerIsOfRoom, ListenInv, ListenKinds
<1>k. ListenKinds /\ ListenOne /\ Listen!TimerOfSession
  BY DEF ListenInv
<1>1. ASSUME NEW r \in sRooms, Listen!StrayTimer(r) PROVE FALSE
  BY <1>1, <1>k DEF Listen!StrayTimer, Listen!TimerOfSession
<1>2. ASSUME NEW i \in 1..sMaxStarts, Listen!WizardEnds(i) PROVE sHeard'.room = sListen.room
  <2>1. PICK says \in {"learned", "failed"} : Listen!EmitHeard(sWizards[i], says)
    BY <1>2 DEF Listen!WizardEnds
  <2>2. sHeard'.room = sWizards[i]
    BY <2>1 DEF Listen!EmitHeard
  <2>3. i \in DOMAIN sWizards /\ sWizards # <<>> /\ sWizards \in Seq(sRooms)
    BY <1>2, <1>k DEF Listen!WizardEnds, ListenKinds
  <2>4. Len(sWizards) = 1 /\ sWizards[1] = sListen.room
    BY <2>3, <1>k DEF ListenOne
  <2>5. i = 1
    BY <2>3, <2>4
  <2> QED
    BY <2>2, <2>4, <2>5
<1>3. CASE Listen!OwnTimer
  BY <1>3 DEF Listen!OwnTimer, Listen!EmitHeard
<1>4. ASSUME NEW r \in sRooms, Listen!StartListen(r) PROVE FALSE
  BY <1>4 DEF Listen!StartListen
<1>5. CASE Listen!Settled \/ Listen!StartFails \/ Listen!ButtonPressed \/ Listen!Stop
  BY <1>5 DEF Listen!Settled, Listen!StartFails, Listen!ButtonPressed, Listen!Stop
<1> QED
  BY <1>1, <1>2, <1>3, <1>4, <1>5 DEF Listen!Next, sVars

LEMMA ListenIsSound == ListenInv => Listen!TimerOfSession /\ Listen!TypesOK
  BY DEF ListenInv, ListenKinds, Listen!TypesOK, Sessions, Answers

------------------------------------------------------------------------------
(* The wizard's test of a scene: knxSceneLearn.ts.                            *)
ContrastKinds ==
    /\ cScene \in [Contrast!Devices -> Contrast!Levels \cup {None}] /\ cTalks \subseteq Contrast!Devices /\ cForeign \subseteq cLights
    /\ cLevel \in [Contrast!Devices -> Contrast!Levels] /\ cSeen \in [Contrast!Devices -> Contrast!Levels \cup {None}]
    /\ cFresh \subseteq Contrast!Devices /\ cLearned \subseteq Contrast!Devices /\ cLate \subseteq Contrast!Devices
    /\ cMissed \subseteq Contrast!Devices /\ cPhase \in Contrast!Phases /\ cPass \subseteq cLights
    /\ cBefore \in [cShades -> Contrast!Levels \cup {None}]

(* Until the first recall the shades stay where they are; the lights that were  *)
(* put out are out, and are seen so.                                           *)
ContrastPut ==
    /\ cPhase \in {"start", "settle0", "button"} =>
         /\ cLearned = {}
         /\ \A s \in cShades : cSeen[s] \in {None, cLevel[s]}
    /\ cPhase \in {"settle0", "button"} =>
         \A l \in cLights \ cMissed : cLevel[l] = "0" /\ cSeen[l] = "0"
    /\ cPhase = "button" => \A s \in cShades : cBefore[s] \in {None, cLevel[s]}

(* After a recall the members are where the scene puts them, and what is no     *)
(* member and was up to date is where it was.                                  *)
ContrastFirst ==
    cPhase = "pass1" =>
        /\ cLearned = {}
        /\ \A d \in Contrast!InScene : cLevel[d] = cScene[d]
        /\ \A d \in Contrast!Devices \ (cLate \cup Contrast!InScene) : cSeen[d] = cLevel[d]
        /\ \A l \in cPass \ (cLate \cup Contrast!InScene) : cLevel[l] = "0"
        /\ \A s \in cShades \ (cLate \cup Contrast!InScene) : cBefore[s] \in {None, cLevel[s]}
        /\ (Contrast!InScene \cap cLights) \ (cLate \cup cMissed) \subseteq cPass

(* From the first test on: what is not learned yet is put to 0 by the scene     *)
(* and takes part in the second.                                               *)
ContrastLeft ==
    /\ cLearned \ cLate \subseteq Contrast!InScene
    /\ cPhase \in {"between", "settle100", "pass2"} =>
         \A l \in (Contrast!InScene \cap cLights) \ (cLate \cup cMissed) :
             l \in cLearned \/ (l \in cPass /\ cScene[l] = "0")

ContrastSecond ==
    /\ cPhase = "settle100" => \A l \in cPass \ cMissed : cLevel[l] = "100" /\ cSeen[l] = "100"
    /\ cPhase = "pass2" =>
         /\ \A d \in Contrast!InScene : cLevel[d] = cScene[d]
         /\ \A l \in cPass \ (cLate \cup Contrast!InScene) : cLevel[l] = "100" /\ cSeen[l] = "100"

ContrastInv ==
    /\ ContrastKinds /\ ContrastPut /\ ContrastFirst /\ ContrastLeft /\ ContrastSecond
    /\ Contrast!LearnsTheScene

LEMMA ContrastStart == Contrast!SceneContrastAssumption /\ Contrast!Init => ContrastInv
<1> SUFFICES ASSUME Contrast!SceneContrastAssumption, Contrast!Init PROVE ContrastInv
  OBVIOUS
<1>1. ContrastKinds
  BY DEF Contrast!Init, ContrastKinds, Contrast!Levels, Contrast!Phases
<1>2. ContrastPut
  BY DEF Contrast!Init, ContrastPut, Contrast!Devices
<1>3. ContrastFirst /\ ContrastLeft /\ ContrastSecond /\ Contrast!LearnsTheScene
  BY DEF Contrast!Init, ContrastFirst, ContrastLeft, ContrastSecond, Contrast!LearnsTheScene
<1> QED
  BY <1>1, <1>2, <1>3 DEF ContrastInv

LEMMA ContrastStep == Contrast!SceneContrastAssumption /\ ContrastInv /\ [Contrast!Next]_cVars => ContrastInv'
<1> SUFFICES ASSUME Contrast!SceneContrastAssumption, ContrastInv, [Contrast!Next]_cVars PROVE ContrastInv'
  OBVIOUS
<1>k. ContrastKinds /\ ContrastPut /\ ContrastFirst /\ ContrastLeft /\ ContrastSecond /\ Contrast!LearnsTheScene
  BY DEF ContrastInv
<1>n. None \notin Contrast!Levels /\ (\A s \in cShades : s \notin cLights) /\ cLights \subseteq Contrast!Devices /\ cShades \subseteq Contrast!Devices
  BY DEF Contrast!SceneContrastAssumption, Contrast!Devices
<1>1. CASE Contrast!PutOut
  <2>1. cPhase = "start" /\ cPhase' = "settle0" /\ Contrast!SetSentinel(cLights, "0")
        /\ UNCHANGED <<cScene, cTalks, cForeign, cPass, cBefore, cLearned, cLate>>
    BY <1>1 DEF Contrast!PutOut, Contrast!setting
  <2>2. PICK ok \in {cLights \ cForeign, {}} :
          /\ cLevel' = [d \in Contrast!Devices |-> IF d \in ok THEN "0" ELSE cLevel[d]]
          /\ cSeen' = [d \in Contrast!Devices |-> IF d \in ok THEN "0" ELSE cSeen[d]]
          /\ cFresh' = cFresh \cup ok
          /\ cMissed' = cMissed \cup (cLights \ ok)
    BY <2>1 DEF Contrast!SetSentinel
  <2>3. ok \subseteq cLights
    OBVIOUS
  <2>4. ContrastKinds'
    BY <2>1, <2>2, <2>3, <1>k, <1>n DEF ContrastKinds, Contrast!Levels, Contrast!Phases
  <2>5. ContrastPut'
    BY <2>1, <2>2, <2>3, <1>k, <1>n DEF ContrastPut, ContrastKinds
  <2>6. ContrastLeft'
    BY <2>1, <1>k DEF ContrastLeft, Contrast!InScene
  <2> QED
    BY <2>1, <2>4, <2>5, <2>6 DEF ContrastInv, ContrastFirst, ContrastSecond, Contrast!LearnsTheScene
<1>2. CASE Contrast!Listen
  <2>1. /\ cPhase = "settle0" /\ cPhase' = "button" /\ cBefore' = [s \in cShades |-> cSeen[s]]
        /\ UNCHANGED <<cScene, cTalks, cForeign, cLevel, cSeen, cFresh, cPass, cLearned, cLate, cMissed>>
    BY <1>2 DEF Contrast!Listen, Contrast!setting
  <2>4. ContrastKinds'
    BY <2>1, <1>k, <1>n DEF ContrastKinds, Contrast!Phases
  <2>5. ContrastPut'
    BY <2>1, <1>k, <1>n DEF ContrastPut
  <2>6. ContrastLeft'
    BY <2>1, <1>k DEF ContrastLeft, Contrast!InScene
  <2> QED
    BY <2>1, <2>4, <2>5, <2>6 DEF ContrastInv, ContrastFirst, ContrastSecond, Contrast!LearnsTheScene
<1>3. CASE Contrast!Button
  <2>1. /\ cPhase = "button" /\ cPhase' = "pass1" /\ cPass' = {l \in cLights : Contrast!AtSentinel(l, "0")}
        /\ cLate' = cLate \cup {d \in Contrast!Devices : cSeen[d] # cLevel[d]}
        /\ cLevel' = [d \in Contrast!Devices |-> IF cScene[d] = None THEN cLevel[d] ELSE cScene[d]]
        /\ cFresh' = {} /\ UNCHANGED <<cScene, cTalks, cForeign, cSeen, cBefore, cLearned, cMissed>>
    BY <1>3 DEF Contrast!Button, Contrast!setting, Contrast!Recall
  <2>2. cLate' \subseteq Contrast!Devices /\ cPass' \subseteq cLights
    BY <2>1, <1>k DEF ContrastKinds
  <2>3. cLevel' \in [Contrast!Devices -> Contrast!Levels]
    BY <2>1, <1>k DEF ContrastKinds
  <2>4. ContrastKinds'
    BY <2>1, <2>2, <2>3, <1>k DEF ContrastKinds, Contrast!Phases
  <2>5. Contrast!InScene' = Contrast!InScene
    BY <2>1 DEF Contrast!InScene
  <2>6. \A d \in Contrast!Devices : d \in Contrast!InScene <=> cScene[d] # None
    BY DEF Contrast!InScene
  <2>7. \A d \in Contrast!Devices \ (cLate' \cup Contrast!InScene) : cSeen[d] = cLevel[d] /\ cLevel'[d] = cLevel[d]
    BY <2>1, <2>6
  <2>8. \A l \in cPass' \ (cLate' \cup Contrast!InScene) : cLevel'[l] = "0"
    <3> SUFFICES ASSUME NEW l \in cPass' \ (cLate' \cup Contrast!InScene) PROVE cLevel'[l] = "0"
      OBVIOUS
    <3>1. l \in Contrast!Devices /\ (cSeen[l] = "0" \/ cSeen[l] = None)
      BY <2>1, <2>2, <1>n DEF Contrast!AtSentinel
    <3>2. cLevel[l] \in Contrast!Levels
      BY <3>1, <1>k DEF ContrastKinds
    <3> QED
      BY <3>1, <3>2, <2>7, <1>n
  <2>9. \A s \in cShades \ (cLate' \cup Contrast!InScene) : cBefore[s] \in {None, cLevel'[s]}
    BY <2>1, <2>7, <1>k, <1>n DEF ContrastPut
  <2>10. (Contrast!InScene \cap cLights) \ (cLate' \cup cMissed) \subseteq cPass'
    BY <2>1, <1>k DEF ContrastPut, Contrast!AtSentinel
  <2>11. cLearned' = {} /\ \A d \in Contrast!InScene : cLevel'[d] = cScene[d]
    BY <2>1, <2>6, <1>k DEF ContrastPut, Contrast!InScene
  <2>12. ContrastFirst'
    BY <2>1, <2>5, <2>7, <2>8, <2>9, <2>10, <2>11 DEF ContrastFirst
  <2> QED
    BY <2>1, <2>4, <2>11, <2>12 DEF ContrastInv, ContrastPut, ContrastLeft, ContrastSecond, Contrast!LearnsTheScene
<1>4. CASE Contrast!Pass1Ends
  <2>1. /\ cPhase = "pass1" /\ cPhase' = "between" /\ cLearned' = Contrast!Hits("0") \cup Contrast!Moved
        /\ cPass' = cPass \ Contrast!Hits("0") /\ cMissed' = cMissed \cup Contrast!Silent
        /\ UNCHANGED <<cScene, cTalks, cForeign, cLevel, cSeen, cFresh, cBefore, cLate>>
    BY <1>4 DEF Contrast!Pass1Ends, Contrast!setting
  <2>2. Contrast!Hits("0") \subseteq cPass /\ Contrast!Moved \subseteq cShades /\ Contrast!Silent \subseteq Contrast!Devices
    BY DEF Contrast!Hits, Contrast!Moved, Contrast!Silent
  <2>3. ContrastKinds'
    BY <2>1, <2>2, <1>k, <1>n DEF ContrastKinds, Contrast!Phases
  <2>4. Contrast!InScene' = Contrast!InScene
    BY <2>1 DEF Contrast!InScene
  <2>5. ASSUME NEW l \in Contrast!Hits("0"), l \notin cLate PROVE l \in Contrast!InScene
    <3>1. l \in cPass /\ l \in Contrast!Devices /\ cSeen[l] # "0"
      BY <1>k, <1>n DEF Contrast!Hits, Contrast!AtSentinel, ContrastKinds
    <3> QED
      BY <3>1, <2>1, <2>5, <1>k DEF ContrastFirst
  <2>6. ASSUME NEW s \in Contrast!Moved, s \notin cLate PROVE s \in Contrast!InScene
    <3>1. s \in cShades /\ s \in Contrast!Devices /\ cBefore[s] # None /\ cSeen[s] # cBefore[s]
      BY <1>n DEF Contrast!Moved
    <3> QED
      BY <3>1, <2>1, <2>6, <1>k DEF ContrastFirst
  <2>7. ASSUME NEW l \in (Contrast!InScene \cap cLights) \ (cLate \cup cMissed') PROVE l \in cLearned' \/ (l \in cPass' /\ cScene[l] = "0")
    <3>1. l \in cPass /\ l \notin Contrast!Silent /\ l \in Contrast!Devices
      BY <2>1, <2>7, <1>k, <1>n DEF ContrastFirst
    <3>2. cSeen[l] = cLevel[l] /\ l \in cFresh /\ cLevel[l] = cScene[l] /\ cLevel[l] \in Contrast!Levels
      BY <3>1, <2>1, <1>k DEF Contrast!Silent, ContrastFirst, ContrastKinds
    <3>3. l \in Contrast!Hits("0") <=> ~(cSeen[l] = "0" \/ cSeen[l] = None)
      BY <3>1, <3>2 DEF Contrast!Hits, Contrast!AtSentinel
    <3> QED
      BY <3>1, <3>2, <3>3, <2>1, <1>n
  <2>8. ContrastLeft'
    BY <2>1, <2>4, <2>5, <2>6, <2>7 DEF ContrastLeft
  <2> QED
    BY <2>1, <2>3, <2>8 DEF ContrastInv, ContrastPut, ContrastFirst, ContrastSecond, Contrast!LearnsTheScene
<1>5. CASE Contrast!PutFull
  <2>1. cPhase = "between" /\ cPhase' = "settle100" /\ Contrast!SetSentinel(cPass, "100")
        /\ UNCHANGED <<cScene, cTalks, cForeign, cPass, cBefore, cLearned, cLate>>
    BY <1>5 DEF Contrast!PutFull, Contrast!setting
  <2>2. PICK ok \in {cPass \ cForeign, {}} :
          /\ cLevel' = [d \in Contrast!Devices |-> IF d \in ok THEN "100" ELSE cLevel[d]]
          /\ cSeen' = [d \in Contrast!Devices |-> IF d \in ok THEN "100" ELSE cSeen[d]]
          /\ cFresh' = cFresh \cup ok
          /\ cMissed' = cMissed \cup (cPass \ ok)
    BY <2>1 DEF Contrast!SetSentinel
  <2>3. ok \subseteq cPass /\ cPass \subseteq Contrast!Devices
    BY <1>k, <1>n DEF ContrastKinds
  <2>4. ContrastKinds'
    BY <2>1, <2>2, <2>3, <1>k DEF ContrastKinds, Contrast!Levels, Contrast!Phases
  <2>5. ContrastSecond'
    BY <2>1, <2>2, <2>3 DEF ContrastSecond
  <2>6. ContrastLeft'
    BY <2>1, <2>2, <1>k DEF ContrastLeft, Contrast!InScene
  <2> QED
    BY <2>1, <2>4, <2>5, <2>6 DEF ContrastInv, ContrastPut, ContrastFirst, Contrast!LearnsTheScene
<1>6. CASE Contrast!SecondRecall
  <2>1. /\ cPhase = "settle100" /\ cPhase' = "pass2" /\ cPass' = Contrast!Put(cPass)
        /\ cLate' = cLate \cup {d \in cPass : cSeen[d] # cLevel[d]}
        /\ cLevel' = [d \in Contrast!Devices |-> IF cScene[d] = None THEN cLevel[d] ELSE cScene[d]]
        /\ cFresh' = {} /\ UNCHANGED <<cScene, cTalks, cForeign, cSeen, cBefore, cLearned, cMissed>>
    BY <1>6 DEF Contrast!SecondRecall, Contrast!setting, Contrast!Recall
  <2>2. cPass \subseteq Contrast!Devices /\ Contrast!Put(cPass) \subseteq cPass
    BY <1>k, <1>n DEF ContrastKinds, Contrast!Put
  <2>3. cLevel' \in [Contrast!Devices -> Contrast!Levels]
    BY <2>1, <1>k DEF ContrastKinds
  <2>4. ContrastKinds'
    BY <2>1, <2>2, <2>3, <1>k DEF ContrastKinds, Contrast!Phases
  <2>5. Contrast!InScene' = Contrast!InScene /\ \A d \in Contrast!Devices : d \in Contrast!InScene <=> cScene[d] # None
    BY <2>1 DEF Contrast!InScene
  <2>6. \A l \in cPass' : cSeen[l] = "100"
    BY <2>1 DEF Contrast!Put, Contrast!AtSentinel
  <2>7. \A l \in cPass' \ (cLate' \cup Contrast!InScene) : cLevel'[l] = "100" /\ cSeen'[l] = "100"
    BY <2>1, <2>2, <2>5, <2>6
  <2>8. \A d \in Contrast!InScene : cLevel'[d] = cScene[d]
    BY <2>1, <2>5 DEF Contrast!InScene
  <2>9. ASSUME NEW l \in (Contrast!InScene \cap cLights) \ (cLate' \cup cMissed) PROVE l \in cLearned \/ (l \in cPass' /\ cScene[l] = "0")
    <3>1. l \notin cLate
      BY <2>1, <2>9
    <3>2. l \in cLearned \/ (l \in cPass /\ cScene[l] = "0")
      BY <3>1, <2>1, <2>9, <1>k DEF ContrastLeft
    <3>3. l \in cPass => l \in cPass'
      BY <2>1, <2>9, <1>k DEF ContrastSecond, Contrast!Put, Contrast!AtSentinel
    <3> QED
      BY <3>2, <3>3
  <2>10. cLearned' \ cLate' \subseteq Contrast!InScene'
    BY <2>1, <2>5, <1>k DEF ContrastLeft
  <2>11. ContrastLeft'
    BY <2>1, <2>5, <2>9, <2>10 DEF ContrastLeft
  <2>12. ContrastSecond'
    BY <2>1, <2>5, <2>7, <2>8 DEF ContrastSecond
  <2> QED
    BY <2>1, <2>4, <2>11, <2>12 DEF ContrastInv, ContrastPut, ContrastFirst, Contrast!LearnsTheScene
<1>7. CASE Contrast!Fails
  <2>1. /\ cPhase' = "failed" /\ cLearned' = {}
        /\ UNCHANGED <<cScene, cTalks, cForeign, cLevel, cSeen, cFresh, cPass, cBefore, cLate, cMissed>>
    BY <1>7 DEF Contrast!Fails, Contrast!setting
  <2>2. ContrastKinds'
    BY <2>1, <1>k DEF ContrastKinds, Contrast!Phases
  <2> QED
    BY <2>1, <2>2 DEF ContrastInv, ContrastPut, ContrastFirst, ContrastLeft, ContrastSecond, Contrast!LearnsTheScene
<1>8. CASE Contrast!Pass2Ends
  <2>1. /\ cPhase = "pass2" /\ cPhase' = "done" /\ cLearned' = cLearned \cup Contrast!Hits("100")
        /\ cMissed' = cMissed \cup (cPass \cap Contrast!Silent)
        /\ UNCHANGED <<cScene, cTalks, cForeign, cFresh, cPass, cBefore, cLate>>
    BY <1>8 DEF Contrast!Pass2Ends, Contrast!setting
  <2>2. PICK ok \in {(cLights \ cLearned') \ cForeign, {}} :
          /\ cLevel' = [d \in Contrast!Devices |-> IF d \in ok THEN "0" ELSE cLevel[d]]
          /\ cSeen' = [d \in Contrast!Devices |-> IF d \in ok THEN "0" ELSE cSeen[d]]
    BY <1>8 DEF Contrast!Pass2Ends
  <2>3. Contrast!Hits("100") \subseteq cPass /\ cPass \subseteq Contrast!Devices /\ cPass \subseteq cLights
    BY <1>k, <1>n DEF Contrast!Hits, ContrastKinds
  <2>4. ContrastKinds'
    BY <2>1, <2>2, <2>3, <1>k DEF ContrastKinds, Contrast!Levels, Contrast!Phases
  <2>5. Contrast!InScene' = Contrast!InScene
    BY <2>1 DEF Contrast!InScene
  <2>6. ASSUME NEW l \in Contrast!Hits("100"), l \notin cLate PROVE l \in Contrast!InScene
    <3>1. l \in cPass /\ cSeen[l] # "100"
      BY DEF Contrast!Hits, Contrast!AtSentinel
    <3> QED
      BY <3>1, <2>1, <2>6, <1>k DEF ContrastSecond
  <2>7. ASSUME NEW l \in (Contrast!InScene \cap cLights) \ (cLate \cup cMissed') PROVE l \in cLearned'
    <3>1. l \in cLearned \/ (l \in cPass /\ cScene[l] = "0")
      BY <2>1, <2>7, <1>k DEF ContrastLeft
    <3>2. CASE l \in cPass /\ cScene[l] = "0"
      <4>1. l \notin Contrast!Silent /\ l \in Contrast!Devices
        BY <2>1, <2>3, <2>7, <3>2
      <4>2. cSeen[l] = cLevel[l] /\ l \in cFresh /\ cLevel[l] = cScene[l]
        BY <4>1, <2>1, <2>7, <1>k DEF Contrast!Silent, ContrastSecond
      <4>3. l \in Contrast!Hits("100")
        BY <4>2, <3>2 DEF Contrast!Hits, Contrast!AtSentinel
      <4> QED
        BY <4>3, <2>1
    <3> QED
      BY <3>1, <3>2, <2>1
  <2>8. cLearned' \ cLate' \subseteq Contrast!InScene'
    BY <2>1, <2>5, <2>6, <1>k DEF ContrastLeft
  <2>9. ContrastLeft'
    BY <2>1, <2>8 DEF ContrastLeft
  <2>10. Contrast!LearnsTheScene'
    BY <2>1, <2>5, <2>7, <2>8 DEF Contrast!LearnsTheScene
  <2> QED
    BY <2>1, <2>4, <2>9, <2>10 DEF ContrastInv, ContrastPut, ContrastFirst, ContrastSecond
<1>9. ASSUME NEW d \in Contrast!Devices, Contrast!Report(d) PROVE ContrastInv'
  <2>1. /\ cPhase \notin {"done", "failed"} /\ cSeen' = [cSeen EXCEPT ![d] = cLevel[d]]
        /\ cFresh' = cFresh \cup {d}
        /\ UNCHANGED <<cScene, cTalks, cForeign, cLevel, cPhase, cPass, cBefore, cLearned, cLate, cMissed>>
    BY <1>9 DEF Contrast!Report, Contrast!setting
  <2>2. ContrastKinds'
    BY <2>1, <1>k DEF ContrastKinds
  <2>3. \A e \in Contrast!Devices : cSeen'[e] = IF e = d THEN cLevel[e] ELSE cSeen[e]
    BY <2>1, <1>k DEF ContrastKinds
  <2>4. Contrast!InScene' = Contrast!InScene
    BY <2>1 DEF Contrast!InScene
  <2>p. cPass \subseteq Contrast!Devices
    BY <1>k, <1>n DEF ContrastKinds
  <2>5. ContrastPut'
    BY <2>1, <2>3, <1>k, <1>n DEF ContrastPut
  <2>6. ContrastFirst'
    BY <2>1, <2>3, <2>4, <1>k DEF ContrastFirst
  <2>7. ContrastLeft' /\ Contrast!LearnsTheScene'
    BY <2>1, <2>4, <1>k DEF ContrastLeft, Contrast!LearnsTheScene
  <2>8. ContrastSecond'
    BY <2>1, <2>3, <2>4, <2>p, <1>k DEF ContrastSecond
  <2> QED
    BY <2>2, <2>5, <2>6, <2>7, <2>8 DEF ContrastInv
<1>10. CASE UNCHANGED cVars
  BY <1>10, <1>k DEF cVars, ContrastInv, ContrastKinds, ContrastPut, ContrastFirst, ContrastLeft,
     ContrastSecond, Contrast!LearnsTheScene, Contrast!InScene
<1> QED
  BY <1>1, <1>2, <1>3, <1>4, <1>5, <1>6, <1>7, <1>8, <1>9, <1>10 DEF Contrast!Next

LEMMA ContrastIsSound == ContrastInv => Contrast!LearnsTheScene /\ Contrast!TypesOK
  BY DEF ContrastInv, ContrastKinds, Contrast!TypesOK

(* A session that did not overlap another has its own timer and no other, and  *)
(* the test keeps exactly the devices that the scene sets, at what it sets them*)
(* to, for every set of lights and shades: startListen and runWizard of        *)
(* knxSceneLearn.ts.                                                           *)
THEOREM LearningAlwaysSound == Spec => []LearningSound
<1> DEFINE Inv == /\ part = "listen" => ListenInv
                  /\ part = "contrast" => ContrastInv
<1>a. Listen!SceneListenAssumption /\ Contrast!SceneContrastAssumption
  BY BusAssumption
<1>1. Init => Inv
  BY <1>a, InitOf, ListenStart, ContrastStart
<1>2. Inv /\ [Next]_allVars => Inv'
  <2> SUFFICES ASSUME Inv, [Next]_allVars PROVE Inv'
    OBVIOUS
  <2>1. part' = "listen" => ListenInv'
    BY <1>a, StepOf, ListenStep
  <2>2. part' = "contrast" => ContrastInv'
    BY <1>a, StepOf, ContrastStep
  <2> QED
    BY <2>1, <2>2
<1>3. Inv => LearningSound
  BY <1>a, ListenIsSound, ContrastIsSound DEF LearningSound
<1> QED
  BY <1>1, <1>2, <1>3, PTL DEF Spec

(* What a client is told is about the room of the session that runs: emitHeard *)
(* of knxSceneLearn.ts.                                                        *)
THEOREM AnswersAlwaysItsRoom == Spec => AnswersItsRoom
<1> DEFINE Inv == part = "listen" => ListenInv
<1>a. Listen!SceneListenAssumption
  BY BusAssumption
<1>1. Init => Inv
  BY <1>a, InitOf, ListenStart
<1>2. Inv /\ [Next]_allVars => Inv'
  BY <1>a, StepOf, ListenStep
<1>3. Inv /\ [Next]_allVars => [part = "listen" => Listen!AnswerIsOfRoom]_sVars
  BY <1>a, StepOf, ListenAnswers
<1> QED
  BY <1>1, <1>2, <1>3, PTL DEF Spec, AnswersItsRoom

------------------------------------------------------------------------------
(* The locks of climate devices: hvacSwitchLock.ts.                           *)
LockInv == Locks!TypesOK /\ Locks!LocksSurvive

LEMMA LockStart == Locks!Init => LockInv
  BY DEF Locks!Init, LockInv, Locks!TypesOK, Locks!LocksSurvive, Locks!LockStates

LEMMA ArmedKinds ==
    ASSUME NEW locks \in [hClimates -> Locks!LockStates]
    PROVE  /\ Locks!Armed(locks) \in [hClimates -> Locks!LockStates]
           /\ \A d \in hClimates : Locks!Armed(locks)[d] = "armed" <=> locks[d] = "armed"
  BY DEF Locks!Armed, Locks!LockStates

(* A save brings the file up to date, or leaves the device that changed out.   *)
LEMMA PersistsKeeps ==
    ASSUME LockInv, hHeld' \in [hClimates -> Locks!LockStates], NEW changed \in SUBSET hClimates,
           \A d \in hClimates \ changed : hHeld'[d] = "armed" <=> hHeld[d] = "armed",
           Locks!Persists(changed, hHeld')
    PROVE  LockInv'
<1>1. CASE hFile' = Locks!Armed(hHeld') /\ hUnsaved' = {}
  BY <1>1, ArmedKinds DEF LockInv, Locks!TypesOK, Locks!LocksSurvive
<1>2. CASE hFile' = hFile /\ hUnsaved' = hUnsaved \cup changed
  BY <1>2 DEF LockInv, Locks!TypesOK, Locks!LocksSurvive
<1> QED
  BY <1>1, <1>2 DEF Locks!Persists

LEMMA LockStep == LockInv /\ [Locks!Next]_hVars => LockInv'
<1> SUFFICES ASSUME LockInv, [Locks!Next]_hVars PROVE LockInv'
  OBVIOUS
<1>k. hHeld \in [hClimates -> Locks!LockStates] /\ hFile \in [hClimates -> Locks!LockStates]
  BY DEF LockInv, Locks!TypesOK
<1>1. ASSUME NEW d \in hClimates, Locks!Arm(d) PROVE LockInv'
  <2>1. hHeld' = [hHeld EXCEPT ![d] = "armed"] /\ Locks!Persists({d}, hHeld')
    BY <1>1 DEF Locks!Arm
  <2>2. hHeld' \in [hClimates -> Locks!LockStates]
    BY <2>1, <1>k DEF Locks!LockStates
  <2>3. \A e \in hClimates \ {d} : hHeld'[e] = "armed" <=> hHeld[e] = "armed"
    BY <2>1, <1>k
  <2> QED
    BY <2>1, <2>2, <2>3, PersistsKeeps
<1>2. ASSUME NEW d \in hClimates, Locks!TimeOver(d) PROVE LockInv'
  BY <1>2, <1>k DEF Locks!TimeOver, LockInv, Locks!TypesOK, Locks!LocksSurvive, Locks!LockStates
<1>3. CASE Locks!Prune
  <2>1. hHeld' = Locks!Armed(hHeld) /\ Locks!Persists({d \in hClimates : hHeld[d] = "over"}, hHeld')
    BY <1>3 DEF Locks!Prune
  <2>2. hHeld' \in [hClimates -> Locks!LockStates] /\ \A d \in hClimates : hHeld'[d] = "armed" <=> hHeld[d] = "armed"
    BY <2>1, <1>k, ArmedKinds
  <2> QED
    BY <2>1, <2>2, PersistsKeeps
<1>4. CASE Locks!ClearAll
  <2>1. hHeld' = [d \in hClimates |-> "none"] /\ Locks!Persists(hClimates, hHeld')
    BY <1>4 DEF Locks!ClearAll
  <2>2. hHeld' \in [hClimates -> Locks!LockStates]
    BY <2>1 DEF Locks!LockStates
  <2> QED
    BY <2>1, <2>2, PersistsKeeps
<1>5. CASE Locks!Restart
  BY <1>5, <1>k, ArmedKinds DEF Locks!Restart, LockInv, Locks!TypesOK, Locks!LocksSurvive
<1>6. CASE UNCHANGED hVars
  BY <1>6 DEF hVars, LockInv, Locks!TypesOK, Locks!LocksSurvive
<1> QED
  BY <1>1, <1>2, <1>3, <1>4, <1>5, <1>6 DEF Locks!Next

LEMMA LockIsSound == LockInv => Locks!LocksSurvive
  BY DEF LockInv

------------------------------------------------------------------------------
(* The logics of a ventilation unit: wtwRuntime.ts.                           *)
VentKinds ==
    /\ vModel \in vModels /\ vHouse \in SUBSET vLogics /\ vUnit \in Vent!Stands /\ vWish \in Vent!Stands
    /\ vStatus \in Vent!Stands \cup {None}
    /\ vSensor \in [vSensors -> BOOLEAN \cup {None}]
    /\ vRuns \in [vLogics -> Vent!Stands \cup {"", None}]
    /\ vTiming \subseteq Vent!Keys /\ vHeld \subseteq Vent!Keys /\ vCalm \in BOOLEAN

(* Of one logic, with the values vs, the minutes t and h, and the durations d:  *)
(* minutes are counted for the clauses of its start while it does not run, and  *)
(* of its end while it does; it has none and does not run when the house has    *)
(* not had it since it was last at rest; and while the house has it they are    *)
(* of clauses that are met, those that are met have them, and its end is not    *)
(* met yet.                                                                    *)
VentGood(l, in, gone, run, vs, t, h, d) ==
    LET Clock(side, c) == Vent!Key(l, side, c) \in t \/ Vent!Key(l, side, c) \in h
    IN  /\ \A c \in vSetup[l].when : Clock("when", c) => ~run /\ ~vSetup[l].rise
        /\ \A c \in vSetup[l].untilWhen : Clock("until", c) => run /\ vSetup[l].end = "untilStatus"
        /\ ~in /\ ~gone =>
             /\ ~run
             /\ \A c \in vSetup[l].when : ~Clock("when", c)
             /\ \A c \in vSetup[l].untilWhen : ~Clock("until", c)
        /\ in /\ ~gone =>
             /\ \A c \in vSetup[l].when : Clock("when", c) => vs[c.sensor] = c.want
             /\ \A c \in vSetup[l].untilWhen : Clock("until", c) => vs[c.sensor] = c.want
             /\ run /\ vSetup[l].end = "untilStatus" =>
                  /\ \A c \in vSetup[l].untilWhen : vs[c.sensor] = c.want => Clock("until", c)
                  /\ IF vSetup[l].untilJoin = "and"
                     THEN vSetup[l].untilWhen # {} => \E c \in vSetup[l].untilWhen : Vent!Key(l, "until", c) \notin h
                     ELSE \A c \in vSetup[l].untilWhen : Vent!Key(l, "until", c) \notin h
             /\ run /\ vSetup[l].end = "duration" => d

VentMinutes ==
    \A l \in vLogics : VentGood(l, l \in vHouse, l \in vOut, Vent!Running(l), vSensor, vTiming, vHeld, l \in vDue)

(* In calm at most one logic runs, and it will leave the unit as wished.        *)
VentAlone ==
    vCalm = TRUE =>
        /\ \A k, l \in vLogics : Vent!Running(k) /\ Vent!Running(l) => k = l
        /\ vModel # "mv_scene" => \A l \in vLogics : Vent!Running(l) => Vent!Target(l) = vWish

VentPut == vCalm = TRUE /\ vModel # "mv_scene" /\ (\A l \in vLogics : ~Vent!Running(l)) => vUnit = vWish

VentInv == VentKinds /\ VentMinutes /\ VentAlone /\ VentPut

(* What a logic is configured with, and which keys its clauses have.            *)
LEMMA VentConfigs ==
    ASSUME Vent!VentLogicAssumption
    PROVE  \A l \in vLogics :
             /\ vSetup[l].stand \in Vent!Stands /\ vSetup[l].after \in Vent!Stands \cup {"previous"}
             /\ vSetup[l].end \in {"duration", "untilStatus"}
             /\ \A c \in vSetup[l].when : c.sensor \in vSensors /\ c.want \in BOOLEAN
             /\ \A c \in vSetup[l].untilWhen : c.sensor \in vSensors /\ c.want \in BOOLEAN /\ c.timed
<1>1. ASSUME NEW l \in vLogics PROVE vSetup[l] \in Vent!Config
  BY DEF Vent!VentLogicAssumption
<1>2. ASSUME NEW S \in Vent!Config
      PROVE  /\ S.stand \in Vent!Stands /\ S.after \in Vent!Stands \cup {"previous"}
             /\ S.end \in {"duration", "untilStatus"}
             /\ S.when \subseteq Vent!Clause /\ S.untilWhen \subseteq Vent!Clause
  BY DEF Vent!Config
<1>3. \A c \in Vent!Clause : c.sensor \in vSensors /\ c.want \in BOOLEAN
  BY DEF Vent!Clause
<1>4. \A l \in vLogics : \A c \in vSetup[l].untilWhen : c.timed
  BY DEF Vent!VentLogicAssumption
<1> QED
  BY <1>1, <1>2, <1>3, <1>4

LEMMA VentKeys ==
    /\ \A l, side, c, l2, side2, c2 :
          Vent!Key(l, side, c) = Vent!Key(l2, side2, c2) => l = l2 /\ side = side2 /\ c = c2
    /\ \A l \in vLogics : Vent!KeysOf(l) \subseteq Vent!Keys
    /\ \A l, side, c : Vent!Key(l, side, c)[3] = c
    /\ \A l : \A k \in Vent!KeysOf(l) :
          \/ \E c \in vSetup[l].when : k = Vent!Key(l, "when", c)
          \/ \E c \in vSetup[l].untilWhen : k = Vent!Key(l, "until", c)
    /\ \A l : \A c \in vSetup[l].when : Vent!Key(l, "when", c) \in Vent!KeysOf(l)
    /\ \A l : \A c \in vSetup[l].untilWhen : Vent!Key(l, "until", c) \in Vent!KeysOf(l)
<1>1. \A l, side, c, l2, side2, c2 :
          Vent!Key(l, side, c) = Vent!Key(l2, side2, c2) => l = l2 /\ side = side2 /\ c = c2
  BY DEF Vent!Key
<1>2. \A l \in vLogics : Vent!KeysOf(l) \subseteq Vent!Keys
  BY DEF Vent!Keys
<1>3. \A l, side, c : Vent!Key(l, side, c)[3] = c
  BY DEF Vent!Key
<1>4. \A l : \A k \in Vent!KeysOf(l) :
          \/ \E c \in vSetup[l].when : k = Vent!Key(l, "when", c)
          \/ \E c \in vSetup[l].untilWhen : k = Vent!Key(l, "until", c)
  BY DEF Vent!KeysOf
<1>5. \A l : \A c \in vSetup[l].when : Vent!Key(l, "when", c) \in Vent!KeysOf(l)
  BY DEF Vent!KeysOf
<1>6. \A l : \A c \in vSetup[l].untilWhen : Vent!Key(l, "until", c) \in Vent!KeysOf(l)
  BY DEF Vent!KeysOf
<1> QED
  BY <1>1, <1>2, <1>3, <1>4, <1>5, <1>6

LEMMA VentUntilMet ==
    ASSUME NEW l \in vLogics, NEW vs
    PROVE  /\ Vent!UntilMet(l, vs) \subseteq Vent!KeysOf(l)
           /\ \A c \in vSetup[l].when : Vent!Key(l, "when", c) \notin Vent!UntilMet(l, vs)
           /\ \A c \in vSetup[l].untilWhen :
                Vent!Key(l, "until", c) \in Vent!UntilMet(l, vs)
                    <=> vSetup[l].end = "untilStatus" /\ vs[c.sensor] = c.want
<1>1. \A k : k \in Vent!UntilMet(l, vs) <=>
         vSetup[l].end = "untilStatus"
         /\ \E c \in vSetup[l].untilWhen : vs[c.sensor] = c.want /\ k = Vent!Key(l, "until", c)
  BY DEF Vent!UntilMet
<1>2. Vent!UntilMet(l, vs) \subseteq Vent!KeysOf(l)
  BY <1>1, VentKeys
<1>3. \A c \in vSetup[l].when : Vent!Key(l, "when", c) \notin Vent!UntilMet(l, vs)
  BY <1>1, VentKeys
<1>4. \A c \in vSetup[l].untilWhen :
         Vent!Key(l, "until", c) \in Vent!UntilMet(l, vs)
             <=> vSetup[l].end = "untilStatus" /\ vs[c.sensor] = c.want
  BY <1>1, VentKeys
<1> QED
  BY <1>2, <1>3, <1>4

(* The minutes of another logic are left alone.                                *)
LEMMA VentSame ==
    ASSUME NEW l, NEW in, NEW gone, NEW run, NEW vs, NEW t, NEW h, NEW d, NEW t2, NEW h2,
           VentGood(l, in, gone, run, vs, t, h, d),
           \A k \in Vent!KeysOf(l) : (k \in t2 <=> k \in t) /\ (k \in h2 <=> k \in h)
    PROVE  VentGood(l, in, gone, run, vs, t2, h2, d)
<1>1. \A c \in vSetup[l].when : (Vent!Key(l, "when", c) \in t2 <=> Vent!Key(l, "when", c) \in t)
                            /\ (Vent!Key(l, "when", c) \in h2 <=> Vent!Key(l, "when", c) \in h)
  BY VentKeys
<1>2. \A c \in vSetup[l].untilWhen : (Vent!Key(l, "until", c) \in t2 <=> Vent!Key(l, "until", c) \in t)
                            /\ (Vent!Key(l, "until", c) \in h2 <=> Vent!Key(l, "until", c) \in h)
  BY VentKeys
<1> QED
  BY <1>1, <1>2 DEF VentGood

(* A logic at rest.                                                            *)
LEMMA VentRest ==
    ASSUME NEW l, NEW in, NEW gone, NEW vs, NEW t, NEW h, NEW d, NEW run, run = FALSE,
           \A k \in Vent!KeysOf(l) : k \notin t /\ k \notin h
    PROVE  VentGood(l, in, gone, run, vs, t, h, d)
<1>1. \A c \in vSetup[l].when : Vent!Key(l, "when", c) \notin t /\ Vent!Key(l, "when", c) \notin h
  BY VentKeys
<1>2. \A c \in vSetup[l].untilWhen : Vent!Key(l, "until", c) \notin t /\ Vent!Key(l, "until", c) \notin h
  BY VentKeys
<1> QED
  BY <1>1, <1>2 DEF VentGood

(* A logic that has just been started.                                         *)
LEMMA VentFresh ==
    ASSUME NEW l \in vLogics, NEW in, NEW gone, NEW vs, NEW t, NEW h, NEW d, NEW run, run = TRUE, in = TRUE,
           vSetup[l].end = "duration" => d = TRUE,
           \A k \in Vent!KeysOf(l) : k \notin h /\ (k \in t <=> k \in Vent!UntilMet(l, vs))
    PROVE  VentGood(l, in, gone, run, vs, t, h, d)
<1>1. \A c \in vSetup[l].when : Vent!Key(l, "when", c) \notin t /\ Vent!Key(l, "when", c) \notin h
  BY VentKeys, VentUntilMet
<1>2. \A c \in vSetup[l].untilWhen :
         /\ Vent!Key(l, "until", c) \notin h
         /\ Vent!Key(l, "until", c) \in t <=> vSetup[l].end = "untilStatus" /\ vs[c.sensor] = c.want
  BY VentKeys, VentUntilMet
<1> QED
  BY <1>1, <1>2 DEF VentGood

(* A telegram: the clauses it is about.                                        *)
LEMMA VentTicked ==
    ASSUME NEW l \in vLogics, NEW s
    PROVE  /\ \A c \in vSetup[l].when :
                Vent!Key(l, "when", c) \in Vent!Ticked(s)
                    <=> l \in vHouse /\ c.sensor = s /\ ~Vent!Running(l) /\ ~vSetup[l].rise
           /\ \A c \in vSetup[l].untilWhen :
                Vent!Key(l, "until", c) \in Vent!Ticked(s)
                    <=> l \in vHouse /\ c.sensor = s /\ Vent!Running(l) /\ vSetup[l].end = "untilStatus"
<1>1. \A k : k \in Vent!Ticked(s) <=>
         \E m \in vHouse :
            \/ \E c \in Vent!About(m, "when", s) : ~Vent!Running(m) /\ ~vSetup[m].rise /\ k = Vent!Key(m, "when", c)
            \/ \E c \in Vent!About(m, "until", s) :
                  Vent!Running(m) /\ vSetup[m].end = "untilStatus" /\ k = Vent!Key(m, "until", c)
  BY DEF Vent!Ticked
<1>2. \A m, c : (c \in Vent!About(m, "when", s) <=> c \in vSetup[m].when /\ c.sensor = s)
              /\ (c \in Vent!About(m, "until", s) <=> c \in vSetup[m].untilWhen /\ c.sensor = s)
  BY DEF Vent!About
<1>3. \A c \in vSetup[l].when :
                Vent!Key(l, "when", c) \in Vent!Ticked(s)
                    <=> l \in vHouse /\ c.sensor = s /\ ~Vent!Running(l) /\ ~vSetup[l].rise
  BY <1>1, <1>2, VentKeys
<1>4. \A c \in vSetup[l].untilWhen :
                Vent!Key(l, "until", c) \in Vent!Ticked(s)
                    <=> l \in vHouse /\ c.sensor = s /\ Vent!Running(l) /\ vSetup[l].end = "untilStatus"
  BY <1>1, <1>2, VentKeys
<1> QED
  BY <1>3, <1>4

LEMMA VentTickedKeys ==
    ASSUME NEW s PROVE \A k \in Vent!Ticked(s) : \E m \in vHouse : k \in Vent!KeysOf(m)
  BY DEF Vent!Ticked, Vent!About, Vent!KeysOf

LEMMA VentTelegram ==
    ASSUME Vent!VentLogicAssumption, VentKinds, NEW l \in vLogics, NEW s \in vSensors, NEW v \in BOOLEAN,
           NEW gone, NEW d, NEW vs, vs = [vSensor EXCEPT ![s] = v],
           NEW unmet, unmet = {k \in Vent!Ticked(s) : k[3].want # v},
           NEW met, met = {k \in Vent!Ticked(s) : k[3].want = v /\ k[3].timed},
           VentGood(l, l \in vHouse, gone, Vent!Running(l), vSensor, vTiming, vHeld, d)
    PROVE  VentGood(l, l \in vHouse, gone, Vent!Running(l), vs, (vTiming \ unmet) \cup (met \ vHeld), vHeld \ unmet, d)
<1> DEFINE t == (vTiming \ unmet) \cup (met \ vHeld)
           h == vHeld \ unmet
<1>a. \A r \in vSensors : vs[r] = IF r = s THEN v ELSE vSensor[r]
  BY DEF VentKinds
<1>1. ASSUME NEW c \in vSetup[l].when
      PROVE  LET k == Vent!Key(l, "when", c)
                 tick == l \in vHouse /\ c.sensor = s /\ ~Vent!Running(l) /\ ~vSetup[l].rise
             IN  /\ k \in unmet <=> tick /\ c.want # v
                 /\ k \in met <=> tick /\ c.want = v /\ c.timed
  BY VentTicked, VentKeys
<1>2. ASSUME NEW c \in vSetup[l].untilWhen
      PROVE  LET k == Vent!Key(l, "until", c)
                 tick == l \in vHouse /\ c.sensor = s /\ Vent!Running(l) /\ vSetup[l].end = "untilStatus"
             IN  /\ k \in unmet <=> tick /\ c.want # v
                 /\ k \in met <=> tick /\ c.want = v
  BY VentTicked, VentKeys, VentConfigs
<1>3. ASSUME NEW c \in vSetup[l].when
      PROVE  /\ Vent!Key(l, "when", c) \in t \/ Vent!Key(l, "when", c) \in h => ~Vent!Running(l) /\ ~vSetup[l].rise
             /\ l \notin vHouse /\ ~gone => Vent!Key(l, "when", c) \notin t /\ Vent!Key(l, "when", c) \notin h
             /\ l \in vHouse /\ ~gone /\ (Vent!Key(l, "when", c) \in t \/ Vent!Key(l, "when", c) \in h) => vs[c.sensor] = c.want
  BY <1>1, <1>a, VentConfigs DEF VentGood
<1>4. ASSUME NEW c \in vSetup[l].untilWhen
      PROVE  /\ Vent!Key(l, "until", c) \in t \/ Vent!Key(l, "until", c) \in h => Vent!Running(l) /\ vSetup[l].end = "untilStatus"
             /\ l \notin vHouse /\ ~gone => Vent!Key(l, "until", c) \notin t /\ Vent!Key(l, "until", c) \notin h
             /\ l \in vHouse /\ ~gone /\ (Vent!Key(l, "until", c) \in t \/ Vent!Key(l, "until", c) \in h) => vs[c.sensor] = c.want
             /\ l \in vHouse /\ ~gone /\ Vent!Running(l) /\ vSetup[l].end = "untilStatus" /\ vs[c.sensor] = c.want
                  => Vent!Key(l, "until", c) \in t \/ Vent!Key(l, "until", c) \in h
             /\ Vent!Key(l, "until", c) \notin vHeld => Vent!Key(l, "until", c) \notin h
  BY <1>2, <1>a, VentConfigs DEF VentGood
<1>5. l \notin vHouse /\ ~gone => ~Vent!Running(l)
  BY DEF VentGood
<1>6. l \in vHouse /\ ~gone /\ Vent!Running(l) /\ vSetup[l].end = "untilStatus" =>
         IF vSetup[l].untilJoin = "and"
         THEN vSetup[l].untilWhen # {} => \E c \in vSetup[l].untilWhen : Vent!Key(l, "until", c) \notin h
         ELSE \A c \in vSetup[l].untilWhen : Vent!Key(l, "until", c) \notin h
  BY <1>4 DEF VentGood
<1>7. l \in vHouse /\ ~gone /\ Vent!Running(l) /\ vSetup[l].end = "duration" => d
  BY DEF VentGood
<1> HIDE DEF t, h
<1>8. VentGood(l, l \in vHouse, gone, Vent!Running(l), vs, t, h, d)
  BY <1>3, <1>4, <1>5, <1>6, <1>7 DEF VentGood
<1> QED
  BY <1>8 DEF t, h

(* A start, with the minutes as the telegram left them.                        *)
LEMMA VentStarts ==
    ASSUME Vent!VentLogicAssumption, VentKinds, VentAlone, VentPut,
           NEW l \in vHouse, ~Vent!Running(l), NEW vs, NEW t, NEW h,
           vs \in [vSensors -> BOOLEAN \cup {None}], t \subseteq Vent!Keys, h \subseteq Vent!Keys,
           \A m \in vLogics : VentGood(m, m \in vHouse, m \in vOut, Vent!Running(m), vs, t, h, m \in vDue),
           Vent!Start(l, vs, t, h), vSensor' = vs
    PROVE  VentInv'
<1>l. l \in vLogics /\ vRuns[l] = None
  BY DEF VentKinds, Vent!Running
<1> DEFINE ok == Vent!Wrote(vSetup[l].stand)
           quiet == (\A k \in vLogics : ~Vent!Running(k)) /\ (vModel = "mv_scene" \/ vStatus = vUnit)
<1>1. /\ Vent!Write(vSetup[l].stand) /\ vHeld' = h \ Vent!KeysOf(l)
      /\ vTiming' = (t \ Vent!KeysOf(l)) \cup (IF ok THEN Vent!UntilMet(l, vs) ELSE {})
      /\ vOut' = vOut \ {l}
      /\ vRuns' = (IF ok THEN [vRuns EXCEPT ![l] = Vent!ReadStand] ELSE vRuns)
      /\ vDue' = (IF ok /\ vSetup[l].end = "duration" THEN vDue \cup {l} ELSE vDue)
      /\ vWish' = (IF vSetup[l].after = "previous" THEN vWish ELSE vSetup[l].after)
      /\ UNCHANGED <<vModel, vHouse, vRegistered, vStatus>>
  BY DEF Vent!Start, Vent!TimersAtStart
<1>c. vCalm' = (vCalm /\ quiet /\ ok)
  BY DEF Vent!Start
<1>d. vCalm' \in BOOLEAN /\ (vCalm' = TRUE => vCalm = TRUE /\ quiet /\ ok)
  BY <1>c DEF VentKinds
<1>2. vUnit' \in Vent!Stands
  BY <1>1, <1>l, VentConfigs DEF Vent!Write, VentKinds
<1>3. Vent!ReadStand \in Vent!Stands \cup {""}
  BY DEF Vent!ReadStand, Vent!ReadDuco, Vent!ReadModbus, Vent!ReadMv, VentKinds, Vent!Stands
<1>n. Vent!ReadStand # None
  BY <1>3 DEF Vent!VentLogicAssumption
<1>4. Vent!UntilMet(l, vs) \subseteq Vent!KeysOf(l) /\ Vent!KeysOf(l) \subseteq Vent!Keys
  BY <1>l, VentUntilMet, VentKeys
<1>5. VentKinds'
  <2>1. vWish' \in Vent!Stands
    BY <1>1, <1>l, VentConfigs DEF VentKinds
  <2>2. vRuns' \in [vLogics -> Vent!Stands \cup {"", None}]
    BY <1>1, <1>3, <1>l DEF VentKinds
  <2>3. vTiming' \subseteq Vent!Keys /\ vHeld' \subseteq Vent!Keys
    BY <1>1, <1>4
  <2>4. vModel' \in vModels /\ vHouse' \in SUBSET vLogics /\ vStatus' \in Vent!Stands \cup {None} /\ vSensor' \in [vSensors -> BOOLEAN \cup {None}]
    BY <1>1 DEF VentKinds
  <2> QED
    BY <1>d, <1>2, <2>1, <2>2, <2>3, <2>4 DEF VentKinds
<1>6. \A m \in vLogics \ {l} : vRuns'[m] = vRuns[m] /\ (Vent!Running(m))' = Vent!Running(m) /\ (m \in vDue' <=> m \in vDue) /\ (m \in vOut' <=> m \in vOut)
  BY <1>1 DEF VentKinds, Vent!Running
<1>7. vRuns'[l] = IF ok THEN Vent!ReadStand ELSE None
  BY <1>1, <1>l DEF VentKinds
<1>8. VentMinutes'
  <2> SUFFICES ASSUME NEW m \in vLogics
               PROVE  VentGood(m, m \in vHouse, m \in vOut', vRuns'[m] # None, vs, vTiming', vHeld', m \in vDue')
    BY <1>1 DEF VentMinutes, Vent!Running
  <2>1. CASE m # l
    <3>1. \A k \in Vent!KeysOf(m) : k \notin Vent!KeysOf(l)
      BY <2>1, VentKeys
    <3>2. \A k \in Vent!KeysOf(m) : (k \in vTiming' <=> k \in t) /\ (k \in vHeld' <=> k \in h)
      BY <3>1, <1>1, <1>4
    <3>3. VentGood(m, m \in vHouse, m \in vOut, Vent!Running(m), vs, vTiming', vHeld', m \in vDue)
      BY <3>2, VentSame
    <3> QED
      BY <3>3, <2>1, <1>6 DEF Vent!Running
  <2>2. CASE m = l
    <3>1. CASE ok
      <4>1. \A k \in Vent!KeysOf(l) : k \notin vHeld' /\ (k \in vTiming' <=> k \in Vent!UntilMet(l, vs))
        BY <1>1, <3>1, <1>4
      <4>2. (vRuns'[l] # None) = TRUE /\ (l \in vHouse) = TRUE /\ (vSetup[l].end = "duration" => (l \in vDue') = TRUE)
        BY <1>1, <1>7, <1>n, <3>1
      <4> QED
        BY <4>1, <4>2, <1>l, <2>2, VentFresh
    <3>2. CASE ~ok
      <4>1. \A k \in Vent!KeysOf(l) : k \notin vHeld' /\ k \notin vTiming'
        BY <1>1, <3>2
      <4>2. (vRuns'[l] # None) = FALSE
        BY <1>7, <3>2
      <4> QED
        BY <4>1, <4>2, <2>2, VentRest
    <3> QED
      BY <3>1, <3>2
  <2> QED
    BY <2>1, <2>2
<1>9. ASSUME vCalm' = TRUE
      PROVE  /\ \A k \in vLogics : Vent!Running(k)' => k = l
             /\ vModel # "mv_scene" => Vent!Target(l)' = vWish'
  <2>1. vCalm = TRUE /\ ok /\ \A k \in vLogics : ~Vent!Running(k)
    BY <1>9, <1>d
  <2>2. vModel # "mv_scene" => vStatus = vUnit
    BY <1>9, <1>d
  <2>3. \A k \in vLogics : Vent!Running(k)' => k = l
    BY <1>6, <2>1
  <2>4. vModel # "mv_scene" => vUnit = vWish
    BY <2>1 DEF VentPut
  <2>5. vModel # "mv_scene" => Vent!ReadStand = vStatus
    BY <2>2 DEF Vent!ReadStand, Vent!ReadDuco, Vent!ReadModbus, Vent!ReadMv, VentKinds, Vent!VentLogicAssumption
  <2>6. vModel # "mv_scene" => Vent!Target(l)' = vWish'
    BY <2>1, <2>2, <2>4, <2>5, <1>1, <1>7 DEF Vent!Target
  <2> QED
    BY <2>3, <2>6
<1>10. VentAlone'
  BY <1>1, <1>9 DEF VentAlone
<1>11. VentPut'
  <2> SUFFICES ASSUME vCalm' = TRUE, \A k \in vLogics : ~Vent!Running(k)' PROVE FALSE
    BY DEF VentPut
  <2>1. ok
    BY <1>d
  <2>2. Vent!Running(l)'
    BY <2>1, <1>7, <1>n DEF Vent!Running
  <2> QED
    BY <2>2, <1>l
<1> QED
  BY <1>5, <1>8, <1>10, <1>11 DEF VentInv

(* The end of a run.                                                           *)
LEMMA VentEnds ==
    ASSUME Vent!VentLogicAssumption, VentInv, NEW l \in vLogics, Vent!End(l)
    PROVE  VentInv'
<1>k. VentKinds /\ VentMinutes /\ VentAlone /\ VentPut
  BY DEF VentInv
<1>1. /\ Vent!Running(l) /\ vRuns' = [vRuns EXCEPT ![l] = None] /\ vDue' = vDue \ {l}
      /\ vHeld' = vHeld \ Vent!KeysOf(l) /\ vTiming' = vTiming \ Vent!KeysOf(l) /\ vOut' = vOut \ {l}
      /\ UNCHANGED <<vModel, vHouse, vRegistered, vStatus, vSensor, vWish>>
  BY DEF Vent!End
<1>a. vUnit' \in Vent!Stands /\ vCalm' \in BOOLEAN
      /\ (vCalm' = TRUE => vCalm = TRUE /\ (\A k \in vLogics \ {l} : ~Vent!Running(k))
                          /\ (Vent!Wrote(Vent!Target(l)) \/ Vent!Target(l) = ""))
  <2>2. CASE \E k \in vLogics \ {l} : Vent!Running(k)
    <3>1. UNCHANGED <<vUnit, vCalm>>
      BY <2>2 DEF Vent!End
    <3>2. vCalm # TRUE
      BY <1>1, <2>2, <1>k DEF VentAlone
    <3>3. vCalm' \in BOOLEAN /\ vCalm' # TRUE
      BY <3>1, <3>2, <1>k DEF VentKinds
    <3> QED
      BY <3>1, <3>3, <1>k DEF VentKinds
  <2>3. CASE ~ \E k \in vLogics \ {l} : Vent!Running(k)
    <3>1. Vent!Write(Vent!Target(l))
      BY <2>3 DEF Vent!End
    <3>2. vCalm' = (vCalm /\ (Vent!Wrote(Vent!Target(l)) \/ Vent!Target(l) = ""))
      BY <2>3 DEF Vent!End
    <3>3. vUnit' \in Vent!Stands
      BY <3>1, <1>k DEF Vent!Write, Vent!Pressable, Vent!DucoStands, Vent!ModbusStands, Vent!MvStands, VentKinds
    <3>4. vCalm' \in BOOLEAN /\ (vCalm' = TRUE => vCalm = TRUE /\ (Vent!Wrote(Vent!Target(l)) \/ Vent!Target(l) = ""))
      BY <3>2, <1>k DEF VentKinds
    <3> QED
      BY <3>3, <3>4, <2>3
  <2> QED
    BY <2>2, <2>3
<1>4. VentKinds'
  <2>1. vRuns' \in [vLogics -> Vent!Stands \cup {"", None}]
    BY <1>1, <1>k DEF VentKinds
  <2>2. vTiming' \subseteq Vent!Keys /\ vHeld' \subseteq Vent!Keys
    BY <1>1, <1>k DEF VentKinds
  <2>3. vModel' \in vModels /\ vHouse' \in SUBSET vLogics /\ vWish' \in Vent!Stands /\ vStatus' \in Vent!Stands \cup {None} /\ vSensor' \in [vSensors -> BOOLEAN \cup {None}]
    BY <1>1, <1>k DEF VentKinds
  <2> QED
    BY <1>a, <2>1, <2>2, <2>3 DEF VentKinds
<1>5. \A m \in vLogics \ {l} : vRuns'[m] = vRuns[m] /\ (Vent!Running(m))' = Vent!Running(m) /\ (m \in vDue' <=> m \in vDue) /\ (m \in vOut' <=> m \in vOut)
  BY <1>1, <1>k DEF VentKinds, Vent!Running
<1>6. vRuns'[l] = None /\ ~Vent!Running(l)'
  BY <1>1, <1>k DEF VentKinds, Vent!Running
<1>7. VentMinutes'
  <2> SUFFICES ASSUME NEW m \in vLogics
               PROVE  VentGood(m, m \in vHouse, m \in vOut', vRuns'[m] # None, vSensor, vTiming', vHeld', m \in vDue')
    BY <1>1 DEF VentMinutes, Vent!Running
  <2>1. CASE m # l
    <3>1. \A k \in Vent!KeysOf(m) : k \notin Vent!KeysOf(l)
      BY <2>1, VentKeys
    <3>2. \A k \in Vent!KeysOf(m) : (k \in vTiming' <=> k \in vTiming) /\ (k \in vHeld' <=> k \in vHeld)
      BY <3>1, <1>1
    <3>3. VentGood(m, m \in vHouse, m \in vOut, Vent!Running(m), vSensor, vTiming, vHeld, m \in vDue)
      BY <1>k DEF VentMinutes
    <3>4. VentGood(m, m \in vHouse, m \in vOut, Vent!Running(m), vSensor, vTiming', vHeld', m \in vDue)
      BY <3>2, <3>3, VentSame
    <3> QED
      BY <3>4, <2>1, <1>5 DEF Vent!Running
  <2>2. CASE m = l
    <3>1. \A k \in Vent!KeysOf(l) : k \notin vHeld' /\ k \notin vTiming'
      BY <1>1
    <3>2. (vRuns'[l] # None) = FALSE
      BY <1>6
    <3> QED
      BY <3>1, <3>2, <2>2, VentRest
  <2> QED
    BY <2>1, <2>2
<1>8. VentAlone'
  <2> SUFFICES ASSUME vCalm' = TRUE PROVE \A k \in vLogics : ~Vent!Running(k)'
    BY DEF VentAlone
  <2> QED
    BY <1>a, <1>5, <1>6
<1>9. VentPut'
  <2> SUFFICES ASSUME vCalm' = TRUE, vModel # "mv_scene" PROVE vUnit' = vWish'
    BY <1>1 DEF VentPut
  <2>1. Vent!Target(l) = vWish
    BY <1>1, <1>a, <1>k DEF VentAlone
  <2>2. Vent!Target(l) # ""
    BY <2>1, <1>k DEF VentKinds, Vent!Stands
  <2> QED
    BY <2>1, <2>2, <1>a, <1>1 DEF Vent!Wrote
<1> QED
  BY <1>4, <1>7, <1>8, <1>9 DEF VentInv

LEMMA VentStart == Vent!VentLogicAssumption /\ Vent!Init => VentInv
<1> SUFFICES ASSUME Vent!VentLogicAssumption, Vent!Init PROVE VentInv
  OBVIOUS
<1>1. VentKinds
  <2>1. vHouse \in SUBSET vLogics
    BY DEF Vent!Init, Vent!VentLogicAssumption
  <2>2. vCalm \in BOOLEAN
    BY DEF Vent!Init
  <2> QED
    BY <2>1, <2>2 DEF Vent!Init, VentKinds, Vent!Stands
<1>2. \A l \in vLogics : vRuns[l] = None
  BY DEF Vent!Init
<1>3. VentMinutes
  <2> SUFFICES ASSUME NEW l \in vLogics
               PROVE VentGood(l, l \in vHouse, l \in vOut, Vent!Running(l), vSensor, vTiming, vHeld, l \in vDue)
    BY DEF VentMinutes
  <2>1. (Vent!Running(l)) = FALSE
    BY <1>2 DEF Vent!Running
  <2>2. \A k \in Vent!KeysOf(l) : k \notin vTiming /\ k \notin vHeld
    BY DEF Vent!Init
  <2> QED
    BY <2>1, <2>2, VentRest
<1>4. VentAlone /\ VentPut
  BY <1>2 DEF VentAlone, VentPut, Vent!Init, Vent!Running
<1> QED
  BY <1>1, <1>3, <1>4 DEF VentInv

(* All logics at rest: after a press and after a restart.                      *)
LEMMA VentQuiet ==
    ASSUME VentKinds', vRuns' = [l \in vLogics |-> None], vTiming' = {}, vHeld' = {},
           vCalm' = TRUE => vUnit' = vWish'
    PROVE  VentInv'
<1>2. \A l \in vLogics : vRuns'[l] = None /\ ~Vent!Running(l)'
  BY DEF Vent!Running
<1>3. VentMinutes'
  <2> SUFFICES ASSUME NEW l \in vLogics
               PROVE VentGood(l, l \in vHouse', l \in vOut', vRuns'[l] # None, vSensor', vTiming', vHeld', l \in vDue')
    BY DEF VentMinutes, Vent!Running
  <2>1. (vRuns'[l] # None) = FALSE
    BY <1>2
  <2>2. \A k \in Vent!KeysOf(l) : k \notin vTiming' /\ k \notin vHeld'
    OBVIOUS
  <2> QED
    BY <2>1, <2>2, VentRest
<1>4. VentAlone' /\ VentPut'
  BY <1>2 DEF VentAlone, VentPut
<1> QED
  BY <1>3, <1>4 DEF VentInv

LEMMA VentMinutesOver ==
    ASSUME Vent!VentLogicAssumption, VentInv, NEW l \in vLogics, NEW side \in {"when", "until"},
           NEW c, side = "when" => c \in vSetup[l].when, side = "until" => c \in vSetup[l].untilWhen,
           Vent!MinutesOver(l, side, c)
    PROVE  VentInv'
<1>k. VentKinds /\ VentMinutes /\ VentAlone /\ VentPut
  BY DEF VentInv
<1> DEFINE k == Vent!Key(l, side, c)
           clauses == IF side = "when" THEN vSetup[l].when ELSE vSetup[l].untilWhen
           join == IF side = "when" THEN vSetup[l].whenJoin ELSE vSetup[l].untilJoin
           met == vSensor[c.sensor] = c.want
           acts == /\ met /\ l \in vHouse
                   /\ join = "and" => Vent!AllReady(l, side, clauses, vSensor, vHeld \cup {k})
<1>1. /\ k \in vTiming
      /\ \/ acts /\ side = "when" /\ ~Vent!Running(l) /\ Vent!Start(l, vSensor, vTiming, vHeld) /\ UNCHANGED vSensor
         \/ acts /\ side = "until" /\ Vent!End(l)
         \/ /\ ~(acts /\ side = "when" /\ ~Vent!Running(l)) /\ ~(acts /\ side = "until")
            /\ vTiming' = vTiming \ {k} /\ vHeld' = (IF met THEN vHeld \cup {k} ELSE vHeld)
            /\ UNCHANGED <<vModel, vHouse, vRegistered, vUnit, vStatus, vSensor, vRuns, vDue, vWish, vCalm, vOut>>
  BY DEF Vent!MinutesOver
<1>2. CASE acts /\ side = "when" /\ ~Vent!Running(l) /\ Vent!Start(l, vSensor, vTiming, vHeld) /\ UNCHANGED vSensor
  <2>1. l \in vHouse /\ vSensor \in [vSensors -> BOOLEAN \cup {None}] /\ vTiming \subseteq Vent!Keys /\ vHeld \subseteq Vent!Keys
    BY <1>2, <1>k DEF VentKinds
  <2>2. \A m \in vLogics : VentGood(m, m \in vHouse, m \in vOut, Vent!Running(m), vSensor, vTiming, vHeld, m \in vDue)
    BY <1>k DEF VentMinutes
  <2>3. ~Vent!Running(l) /\ Vent!Start(l, vSensor, vTiming, vHeld) /\ vSensor' = vSensor
    BY <1>2
  <2> HIDE DEF k, clauses, join, met, acts
  <2> QED
    BY <2>1, <2>2, <2>3, <1>k, VentStarts
<1>3. CASE acts /\ side = "until" /\ Vent!End(l)
  BY <1>3, VentEnds
<1>4. CASE /\ ~(acts /\ side = "when" /\ ~Vent!Running(l)) /\ ~(acts /\ side = "until")
           /\ vTiming' = vTiming \ {k} /\ vHeld' = (IF met THEN vHeld \cup {k} ELSE vHeld)
           /\ UNCHANGED <<vModel, vHouse, vRegistered, vUnit, vStatus, vSensor, vRuns, vDue, vWish, vCalm, vOut>>
  <2>1. VentKinds'
    <3>1. k \in Vent!Keys
      BY <1>1, <1>k DEF VentKinds
    <3>2. vTiming' \subseteq Vent!Keys /\ vHeld' \subseteq Vent!Keys
      BY <3>1, <1>4, <1>k DEF VentKinds
    <3> QED
      BY <3>2, <1>4, <1>k DEF VentKinds
  <2>2. VentMinutes'
    <3> SUFFICES ASSUME NEW m \in vLogics
                 PROVE  VentGood(m, m \in vHouse, m \in vOut, Vent!Running(m), vSensor, vTiming', vHeld', m \in vDue)
      BY <1>4 DEF VentMinutes, Vent!Running
    <3>1. VentGood(m, m \in vHouse, m \in vOut, Vent!Running(m), vSensor, vTiming, vHeld, m \in vDue)
      BY <1>k DEF VentMinutes
    <3>2. CASE m # l
      <4>1. \A e \in Vent!KeysOf(m) : e # k
        BY <3>2, VentKeys
      <4>2. \A e \in Vent!KeysOf(m) : (e \in vTiming' <=> e \in vTiming) /\ (e \in vHeld' <=> e \in vHeld)
        BY <4>1, <1>4
      <4> QED
        BY <3>1, <4>2, VentSame
    <3>3. CASE m = l
      <4>1. ASSUME NEW b \in vSetup[l].when
            PROVE  /\ Vent!Key(l, "when", b) \in vTiming' \/ Vent!Key(l, "when", b) \in vHeld'
                        => Vent!Key(l, "when", b) \in vTiming \/ Vent!Key(l, "when", b) \in vHeld
        BY <1>1, <1>4
      <4>2. ASSUME NEW b \in vSetup[l].untilWhen
            PROVE  /\ Vent!Key(l, "until", b) \in vTiming' \/ Vent!Key(l, "until", b) \in vHeld'
                        => Vent!Key(l, "until", b) \in vTiming \/ Vent!Key(l, "until", b) \in vHeld
                   /\ (Vent!Key(l, "until", b) \in vTiming \/ Vent!Key(l, "until", b) \in vHeld) /\ vSensor[b.sensor] = b.want
                        => Vent!Key(l, "until", b) \in vTiming' \/ Vent!Key(l, "until", b) \in vHeld'
                   /\ side = "when" => (Vent!Key(l, "until", b) \in vHeld' <=> Vent!Key(l, "until", b) \in vHeld)
        <5>1. Vent!Key(l, "until", b) = k <=> side = "until" /\ b = c
          BY VentKeys
        <5> QED
          BY <5>1, <1>1, <1>4
      <4>3. ASSUME l \in vHouse, l \notin vOut, Vent!Running(l), vSetup[l].end = "untilStatus"
            PROVE  IF vSetup[l].untilJoin = "and"
                   THEN vSetup[l].untilWhen # {} => \E b \in vSetup[l].untilWhen : Vent!Key(l, "until", b) \notin vHeld'
                   ELSE \A b \in vSetup[l].untilWhen : Vent!Key(l, "until", b) \notin vHeld'
        <5>1. CASE side = "when" \/ ~met
          <6>1. \A b \in vSetup[l].untilWhen : Vent!Key(l, "until", b) \in vHeld' <=> Vent!Key(l, "until", b) \in vHeld
            BY <5>1, <4>2, <1>4
          <6> QED
            BY <6>1, <4>3, <3>1, <3>3 DEF VentGood
        <5>2. CASE side = "until" /\ met
          <6>1. vSetup[l].untilJoin = "and" /\ ~Vent!AllReady(l, side, vSetup[l].untilWhen, vSensor, vHeld \cup {k})
            BY <5>2, <1>4, <4>3
          <6>2. PICK b \in vSetup[l].untilWhen :
                    ~(vSensor[b.sensor] = b.want /\ (b.timed => Vent!Key(l, side, b) \in vHeld \cup {k}))
            BY <6>1, <5>2 DEF Vent!AllReady
          <6>3. Vent!Key(l, side, b) \notin vHeld \cup {k}
            <7>1. CASE vSensor[b.sensor] # b.want
              <8>1. Vent!Key(l, "until", b) \notin vTiming /\ Vent!Key(l, "until", b) \notin vHeld
                BY <7>1, <3>1, <3>3, <4>3, <5>2 DEF VentGood
              <8> QED
                BY <8>1, <1>1, <5>2
            <7>2. CASE vSensor[b.sensor] = b.want
              BY <7>2, <6>2
            <7> QED
              BY <7>1, <7>2
          <6>4. Vent!Key(l, "until", b) \notin vHeld'
            BY <6>3, <5>2, <1>4
          <6> QED
            BY <6>1, <6>4
        <5> QED
          BY <5>1, <5>2
      <4> QED
        BY <4>1, <4>2, <4>3, <3>1, <3>3 DEF VentGood
    <3> QED
      BY <3>2, <3>3
  <2>3. VentAlone' /\ VentPut'
    BY <1>4, <1>k DEF VentAlone, VentPut, Vent!Running, Vent!Target
  <2> QED
    BY <2>1, <2>2, <2>3 DEF VentInv
<1> QED
  BY <1>1, <1>2, <1>3, <1>4

LEMMA VentHandlers == ASSUME Vent!VentLogicAssumption, VentInv, Vent!Handlers PROVE VentInv'
<1>k. VentKinds /\ VentMinutes /\ VentAlone /\ VentPut
  BY DEF VentInv
<1>1. ASSUME NEW stand \in Vent!Stands, Vent!Press(stand) PROVE VentInv'
  <2>1. /\ Vent!Write(stand) /\ vRuns' = [l \in vLogics |-> None] /\ vTiming' = {} /\ vHeld' = {}
        /\ vWish' = stand /\ UNCHANGED <<vModel, vHouse, vRegistered, vStatus, vSensor>>
    BY <1>1 DEF Vent!Press
  <2>2. vCalm' = (vUnit' = stand)
    BY <1>1 DEF Vent!Press
  <2>3. vCalm' \in BOOLEAN /\ (vCalm' = TRUE => vUnit' = vWish')
    BY <2>1, <2>2
  <2>4. vUnit' \in Vent!Stands
    BY <2>1, <1>k DEF Vent!Write, VentKinds
  <2>5. VentKinds'
    BY <2>1, <2>3, <2>4, <1>k DEF VentKinds
  <2> QED
    BY <2>1, <2>3, <2>5, VentQuiet
<1>2. ASSUME NEW s \in vSensors, NEW v \in BOOLEAN, Vent!Telegram(s, v) PROVE VentInv'
  <2> DEFINE values == [vSensor EXCEPT ![s] = v]
             unmet == {k \in Vent!Ticked(s) : k[3].want # v}
             met == {k \in Vent!Ticked(s) : k[3].want = v /\ k[3].timed}
             t == (vTiming \ unmet) \cup (met \ vHeld)
             h == vHeld \ unmet
  <2>1. /\ vSensor' = values
        /\ \/ \E l \in vLogics : Vent!Starts(l, s, v) /\ Vent!Start(l, values, t, h)
           \/ /\ vHeld' = h /\ vTiming' = t
              /\ UNCHANGED <<vModel, vHouse, vRegistered, vUnit, vStatus, vRuns, vDue, vWish, vCalm, vOut>>
    BY <1>2 DEF Vent!Telegram, Vent!HeldAfter
  <2>2. values \in [vSensors -> BOOLEAN \cup {None}]
    BY <1>k DEF VentKinds
  <2>3. Vent!Ticked(s) \subseteq Vent!Keys
    <3>1. \A k \in Vent!Ticked(s) : \E m \in vHouse : k \in Vent!KeysOf(m)
      BY VentTickedKeys
    <3> QED
      BY <3>1, <1>k, VentKeys DEF VentKinds
  <2>4. t \subseteq Vent!Keys /\ h \subseteq Vent!Keys
    BY <2>3, <1>k DEF VentKinds
  <2>5. \A m \in vLogics : VentGood(m, m \in vHouse, m \in vOut, Vent!Running(m), values, t, h, m \in vDue)
    <3> SUFFICES ASSUME NEW m \in vLogics
                 PROVE  VentGood(m, m \in vHouse, m \in vOut, Vent!Running(m), values, t, h, m \in vDue)
      OBVIOUS
    <3>1. VentGood(m, m \in vHouse, m \in vOut, Vent!Running(m), vSensor, vTiming, vHeld, m \in vDue)
      BY <1>k DEF VentMinutes
    <3> QED
      BY <3>1, <1>k, VentTelegram
  <2> HIDE DEF values, t, h
  <2>6. ASSUME NEW l \in vLogics, Vent!Starts(l, s, v), Vent!Start(l, values, t, h) PROVE VentInv'
    <3>1. l \in vHouse /\ ~Vent!Running(l)
      BY <2>6 DEF Vent!Starts
    <3> QED
      BY <2>1, <2>2, <2>4, <2>5, <2>6, <3>1, <1>k, VentStarts
  <2>7. CASE /\ vHeld' = h /\ vTiming' = t
             /\ UNCHANGED <<vModel, vHouse, vRegistered, vUnit, vStatus, vRuns, vDue, vWish, vCalm, vOut>>
    <3>1. VentKinds'
      BY <2>1, <2>2, <2>4, <2>7, <1>k DEF VentKinds
    <3>2. VentMinutes'
      BY <2>1, <2>5, <2>7 DEF VentMinutes, Vent!Running
    <3>3. VentAlone' /\ VentPut'
      BY <2>7, <1>k DEF VentAlone, VentPut, Vent!Running, Vent!Target
    <3> QED
      BY <3>1, <3>2, <3>3 DEF VentInv
  <2> QED
    BY <2>1, <2>6, <2>7
<1>3. ASSUME NEW l \in vLogics, Vent!TemperatureRises(l) PROVE VentInv'
  <2>1. l \in vHouse /\ ~Vent!Running(l) /\ Vent!Start(l, vSensor, vTiming, vHeld) /\ vSensor' = vSensor
    BY <1>3 DEF Vent!TemperatureRises
  <2>2. vSensor \in [vSensors -> BOOLEAN \cup {None}] /\ vTiming \subseteq Vent!Keys /\ vHeld \subseteq Vent!Keys
    BY <1>k DEF VentKinds
  <2>3. \A m \in vLogics : VentGood(m, m \in vHouse, m \in vOut, Vent!Running(m), vSensor, vTiming, vHeld, m \in vDue)
    BY <1>k DEF VentMinutes
  <2> QED
    BY <2>1, <2>2, <2>3, <1>k, VentStarts
<1>4. ASSUME NEW l \in vLogics, Vent!DurationOver(l) PROVE VentInv'
  BY <1>4, VentEnds DEF Vent!DurationOver
<1>5. ASSUME NEW l \in vLogics, NEW c \in vSetup[l].when, Vent!MinutesOver(l, "when", c) PROVE VentInv'
  BY <1>5, VentMinutesOver
<1>6. ASSUME NEW l \in vLogics, NEW c \in vSetup[l].untilWhen, Vent!MinutesOver(l, "until", c) PROVE VentInv'
  BY <1>6, VentMinutesOver
<1> QED
  BY <1>1, <1>2, <1>3, <1>4, <1>5, <1>6 DEF Vent!Handlers

LEMMA VentStep == Vent!VentLogicAssumption /\ VentInv /\ [Vent!Next]_vVars => VentInv'
<1> SUFFICES ASSUME Vent!VentLogicAssumption, VentInv, [Vent!Next]_vVars PROVE VentInv'
  OBVIOUS
<1>k. VentKinds /\ VentMinutes /\ VentAlone /\ VentPut
  BY DEF VentInv
<1>1. CASE Vent!Handlers
  BY <1>1, VentHandlers
<1>2. ASSUME NEW now \in vHouses, Vent!Save(now) PROVE VentInv'
  <2>1. vHouse' = now /\ vOut' = vOut \cup (vHouse \ now) /\ vCalm' = FALSE
        /\ UNCHANGED <<vModel, vRegistered, vUnit, vStatus, vSensor, vTiming, vHeld, vRuns, vDue, vWish>>
    BY <1>2 DEF Vent!Save
  <2>2. now \in SUBSET vLogics /\ vCalm' \in BOOLEAN
    BY <2>1 DEF Vent!VentLogicAssumption
  <2>3. VentKinds'
    BY <2>1, <2>2, <1>k DEF VentKinds
  <2>4. VentMinutes'
    <3> SUFFICES ASSUME NEW m \in vLogics
                 PROVE  VentGood(m, m \in now, m \in vOut', Vent!Running(m), vSensor, vTiming, vHeld, m \in vDue)
      BY <2>1 DEF VentMinutes, Vent!Running
    <3>1. VentGood(m, m \in vHouse, m \in vOut, Vent!Running(m), vSensor, vTiming, vHeld, m \in vDue)
      BY <1>k DEF VentMinutes
    <3> QED
      BY <3>1, <2>1 DEF VentGood
  <2> QED
    BY <2>1, <2>3, <2>4 DEF VentInv, VentAlone, VentPut
<1>3. CASE Vent!Restart
  <2>1. /\ vStatus' = None /\ vSensor' = [s \in vSensors |-> None] /\ vTiming' = {} /\ vHeld' = {}
        /\ vRuns' = [l \in vLogics |-> None] /\ vCalm' = FALSE /\ UNCHANGED <<vModel, vHouse, vUnit, vWish>>
    BY <1>3 DEF Vent!Restart
  <2>2. vCalm' \in BOOLEAN
    BY <2>1
  <2>3. VentKinds'
    BY <2>1, <2>2, <1>k DEF VentKinds
  <2> QED
    BY <2>1, <2>3, VentQuiet
<1>4. CASE Vent!Report \/ UNCHANGED vVars
  <2>1. UNCHANGED <<vModel, vHouse, vUnit, vSensor, vTiming, vHeld, vRuns, vDue, vWish, vCalm, vOut>>
    BY <1>4 DEF Vent!Report, vVars
  <2>2. vStatus' \in Vent!Stands \cup {None}
    BY <1>4, <1>k DEF Vent!Report, vVars, VentKinds
  <2>3. VentKinds'
    BY <2>1, <2>2, <1>k DEF VentKinds
  <2>4. VentMinutes'
    BY <2>1, <1>k DEF VentMinutes, Vent!Running
  <2>5. VentAlone' /\ VentPut'
    BY <2>1, <1>k DEF VentAlone, VentPut, Vent!Running, Vent!Target
  <2> QED
    BY <2>3, <2>4, <2>5 DEF VentInv
<1> QED
  BY <1>1, <1>2, <1>3, <1>4 DEF Vent!Next, Vent!DucoHandlers, Vent!MvHandlers, Vent!ModbusHandlers

LEMMA VentIsSound == Vent!VentLogicAssumption /\ VentInv => Vent!EndsAreWatched /\ Vent!PutBack
<1> SUFFICES ASSUME Vent!VentLogicAssumption, VentInv PROVE Vent!EndsAreWatched /\ Vent!PutBack
  OBVIOUS
<1>k. VentKinds /\ VentMinutes /\ VentAlone /\ VentPut
  BY DEF VentInv
<1>1. Vent!PutBack
  BY <1>k DEF Vent!PutBack, Vent!Settled, VentPut, VentKinds
<1>2. Vent!EndsAreWatched
  <2> SUFFICES ASSUME NEW l \in vHouse \ vOut
      PROVE LET ends == {Vent!Key(l, "until", c) : c \in vSetup[l].untilWhen}
            IN  /\ \A k \in Vent!KeysOf(l) : Vent!Timed(k) => vSensor[k[3].sensor] = k[3].want
                /\ Vent!Running(l) /\ vSetup[l].end = "untilStatus" =>
                     /\ \A k \in Vent!UntilMet(l, vSensor) : Vent!Timed(k)
                     /\ IF vSetup[l].untilJoin = "and" THEN ~Vent!AllHeld(ends) ELSE ends \cap vHeld = {}
                /\ Vent!Running(l) /\ vSetup[l].end = "duration" => l \in vDue
    BY DEF Vent!EndsAreWatched
  <2> DEFINE ends == {Vent!Key(l, "until", c) : c \in vSetup[l].untilWhen}
  <2>1. l \in vLogics /\ VentGood(l, TRUE, FALSE, Vent!Running(l), vSensor, vTiming, vHeld, l \in vDue)
    <3>1. l \in vLogics
      BY <1>k DEF VentKinds
    <3>2. VentGood(l, l \in vHouse, l \in vOut, Vent!Running(l), vSensor, vTiming, vHeld, l \in vDue)
      BY <3>1, <1>k DEF VentMinutes
    <3>3. (l \in vHouse) = TRUE /\ (l \in vOut) = FALSE
      OBVIOUS
    <3> QED
      BY <3>1, <3>2, <3>3
  <2>2. \A k \in Vent!KeysOf(l) : Vent!Timed(k) => vSensor[k[3].sensor] = k[3].want
    BY <2>1, VentKeys DEF VentGood, Vent!Timed
  <2>3. ASSUME Vent!Running(l), vSetup[l].end = "untilStatus"
        PROVE  /\ \A k \in Vent!UntilMet(l, vSensor) : Vent!Timed(k)
               /\ IF vSetup[l].untilJoin = "and" THEN ~Vent!AllHeld(ends) ELSE ends \cap vHeld = {}
    <3>1. ASSUME NEW k \in Vent!UntilMet(l, vSensor) PROVE Vent!Timed(k)
      <4>1. k \in Vent!KeysOf(l)
        BY <2>1, VentUntilMet
      <4>2. PICK c \in vSetup[l].untilWhen : k = Vent!Key(l, "until", c)
        BY <2>1, <4>1, VentKeys, VentUntilMet
      <4> QED
        BY <2>1, <2>3, <4>2, VentUntilMet DEF VentGood, Vent!Timed
    <3>2. vSetup[l].untilJoin = "and" => ~Vent!AllHeld(ends)
      <4> SUFFICES ASSUME vSetup[l].untilJoin = "and", Vent!AllHeld(ends) PROVE FALSE
        OBVIOUS
      <4>1. vSetup[l].untilWhen # {} /\ \A c \in vSetup[l].untilWhen : Vent!Key(l, "until", c) \in vHeld
        BY DEF Vent!AllHeld
      <4> QED
        BY <4>1, <2>1, <2>3 DEF VentGood
    <3>3. vSetup[l].untilJoin # "and" => ends \cap vHeld = {}
      BY <2>1, <2>3 DEF VentGood
    <3> QED
      BY <3>1, <3>2, <3>3
  <2>4. Vent!Running(l) /\ vSetup[l].end = "duration" => l \in vDue
    BY <2>1 DEF VentGood
  <2> QED
    BY <2>2, <2>3, <2>4
<1> QED
  BY <1>1, <1>2

(* A lock outlives a restart; the minutes of a ventilation logic are of clauses*)
(* that are met now, a run whose end is met is over, and with no run left the  *)
(* unit is where the user or the last run put it: hvacSwitchLock.ts and        *)
(* wtwRuntime.ts, for any configuration of any number of logics.               *)
THEOREM ClimateAlwaysSound == Spec => []ClimateSound
<1> DEFINE Inv == /\ part = "locks" => LockInv
                  /\ part = "vent" => VentInv
<1>a. Vent!VentLogicAssumption
  BY BusAssumption
<1>1. Init => Inv
  BY <1>a, InitOf, LockStart, VentStart
<1>2. Inv /\ [Next]_allVars => Inv'
  <2> SUFFICES ASSUME Inv, [Next]_allVars PROVE Inv'
    OBVIOUS
  <2>1. part' = "locks" => LockInv'
    BY <1>a, StepOf, LockStep
  <2>2. part' = "vent" => VentInv'
    BY <1>a, StepOf, VentStep
  <2> QED
    BY <2>1, <2>2
<1>3. Inv => ClimateSound
  BY <1>a, LockIsSound, VentIsSound DEF ClimateSound
<1> QED
  BY <1>1, <1>2, <1>3, PTL DEF Spec

------------------------------------------------------------------------------
(* Of a set of numbers, one is the least.                                      *)
LEMMA LeastNumber ==
    ASSUME NEW S \in SUBSET Nat, S # {}
    PROVE  \E k \in S : \A j \in S : k <= j
<1> DEFINE R == OpToRel(<, Nat)
<1>1. IsWellFoundedOn(R, Nat)
  BY NatLessThanWellFounded
<1>2. R = {ss \in Nat \X Nat : ss[1] < ss[2]}
  BY DEF OpToRel
<1> HIDE DEF R
<1>3. PICK k \in S : \A j \in S : ~(<<j, k>> \in R)
  BY <1>1, WFMin
<1>4. ASSUME NEW j \in S PROVE k <= j
  <2>1. ~(j < k)
    BY <1>2, <1>3
  <2> QED
    BY <2>1
<1> QED
  BY <1>4

(* The first n steps of a program from the state st.                           *)
RunsTo(st, prog, n, f) ==
    f = [m \in 0..n |-> IF m = 0 THEN st ELSE Commands!Does(f[m - 1], prog[m])]

(* Every program has a run.                                                    *)
LEMMA HasRun ==
    ASSUME NEW st, NEW prog, NEW n \in Nat
    PROVE  \E f : RunsTo(st, prog, n, f)
<1> DEFINE Fails == {k \in Nat : ~\E f : RunsTo(st, prog, k, f)}
<1>1. 0 \notin Fails
  <2> DEFINE f == [m \in 0..0 |-> st]
  <2>1. RunsTo(st, prog, 0, f)
    BY DEF RunsTo
  <2> QED
    BY <2>1
<1>2. ASSUME NEW k \in Nat \ {0}, k - 1 \notin Fails PROVE k \notin Fails
  <2>1. PICK f : RunsTo(st, prog, k - 1, f)
    BY <1>2
  <2> DEFINE g == [m \in 0..k |-> IF m = k THEN Commands!Does(f[k - 1], prog[k]) ELSE f[m]]
  <2>2. \A m \in 0..k : g[m] = IF m = 0 THEN st ELSE Commands!Does(g[m - 1], prog[m])
    BY <2>1 DEF RunsTo
  <2>3. RunsTo(st, prog, k, g)
    BY <2>2 DEF RunsTo
  <2> QED
    BY <2>3
<1>3. Fails = {}
  <2> SUFFICES ASSUME Fails # {} PROVE FALSE
    OBVIOUS
  <2>1. PICK k \in Fails : \A j \in Fails : k <= j
    BY LeastNumber
  <2>2. k # 0 /\ k - 1 \notin Fails
    BY <1>1, <2>1
  <2> QED
    BY <1>2, <2>1, <2>2
<1> QED
  BY <1>3

(* What Run returns is the end of a run.                                       *)
Traced(st, prog, f) ==
    /\ f[0] = st
    /\ \A m \in 1..Len(prog) : f[m] = Commands!Does(f[m - 1], prog[m])
    /\ Commands!Run(st, prog) = f[Len(prog)]

LEMMA RunFacts ==
    ASSUME NEW st, NEW prog, Len(prog) \in Nat
    PROVE  \E f : Traced(st, prog, f)
<1> DEFINE n == Len(prog)
           after == CHOOSE f : RunsTo(st, prog, n, f)
<1>1. RunsTo(st, prog, n, after)
  BY HasRun
<1>2. Commands!Run(st, prog) = after[n]
  BY DEF Commands!Run, RunsTo
<1> HIDE DEF after
<1> QED
  BY <1>1, <1>2 DEF RunsTo, Traced

------------------------------------------------------------------------------
(* Commands and scenes: commands.ts, fireplacePulse.ts, scenes.ts.             *)
CmdState == [bus : [Commands!Kept -> Commands!Values], virtual : Commands!Values, fire : Commands!Values,
             rest : Seq(Commands!Step), failed : BOOLEAN, wrote : BOOLEAN,
             mode : {"running", "waiting", "failing"}]

(* How a state t follows from st: a write went through, it was refused, or     *)
(* nothing was written.                                                        *)
Went(st, t, ga, v) ==
    /\ t.bus = [k \in Commands!Kept |-> IF k = ga THEN v ELSE st.bus[k]]
    /\ t.fire = IF v = "on" /\ ga \in {"fireOn", "fireOff"} THEN IF ga = "fireOn" THEN "on" ELSE "off" ELSE st.fire
    /\ t.wrote = TRUE /\ t.failed = st.failed /\ t.virtual = st.virtual /\ t.rest = st.rest
    /\ t.mode = "running"
Same(st, t) == t.bus = st.bus /\ t.fire = st.fire /\ t.wrote = st.wrote /\ t.virtual = st.virtual /\ t.rest = st.rest
Goes(ga) == dUp = TRUE /\ (ga \in {"switch", "dim", "other"} => ga \in dHas)

LEMMA DoesWrite ==
    ASSUME NEW st \in CmdState, st.mode = "running", NEW ga \in Commands!Addresses, NEW v \in Commands!Values,
           NEW t, t = Commands!Does(st, Commands!Write(ga, v))
    PROVE  /\ t \in CmdState
           /\ Goes(ga) => Went(st, t, ga, v)
           /\ ~Goes(ga) => Same(st, t) /\ t.failed = TRUE /\ t.mode = "failing"
<1> DEFINE s == Commands!Write(ga, v)
<1>1. s.do = "write" /\ s.ga = ga /\ s.val = v
  BY DEF Commands!Write
<1>2. Commands!Writes(s) <=> Goes(ga)
  BY <1>1 DEF Commands!Writes, Goes
<1>3. t = IF Goes(ga) THEN Commands!Written(st, s) ELSE [st EXCEPT !.failed = TRUE, !.mode = "failing"]
  BY <1>1, <1>2 DEF Commands!Does
<1>4. CASE Goes(ga)
  <2> DEFINE b == [k \in Commands!Kept |-> IF k = ga THEN v ELSE st.bus[k]]
             w == IF v = "on" /\ ga \in {"fireOn", "fireOff"} THEN IF ga = "fireOn" THEN "on" ELSE "off" ELSE st.fire
  <2>1. t = [st EXCEPT !.bus = b, !.wrote = TRUE, !.fire = w]
    BY <1>1, <1>3, <1>4 DEF Commands!Written
  <2>2. b \in [Commands!Kept -> Commands!Values] /\ w \in Commands!Values
    BY DEF CmdState, Commands!Values
  <2> HIDE DEF b, w
  <2>3. t \in CmdState
    BY <2>1, <2>2 DEF CmdState
  <2>4. t.bus = b /\ t.fire = w /\ t.wrote = TRUE /\ t.failed = st.failed /\ t.virtual = st.virtual
        /\ t.rest = st.rest /\ t.mode = st.mode
    BY <2>1 DEF CmdState
  <2> QED
    BY <1>4, <2>3, <2>4 DEF Went, b, w
<1>5. CASE ~Goes(ga)
  BY <1>3, <1>5 DEF CmdState, Same
<1> QED
  BY <1>4, <1>5

LEMMA DoesElse ==
    ASSUME NEW st \in CmdState, NEW s \in Commands!Step, NEW t, t = Commands!Does(st, s)
    PROVE  /\ t \in CmdState
           /\ st.mode = "running" /\ s = Commands!Wait => Same(st, t) /\ t.failed = st.failed /\ t.mode = "waiting"
           /\ st.mode = "running" /\ s = Commands!NextAction => t = st
           /\ \A v \in Commands!Values : st.mode = "running" /\ s = Commands!Virtual(v) =>
                 t = [st EXCEPT !.virtual = v]
           /\ st.mode = "failing" => Same(st, t) /\ t.failed = st.failed
           /\ st.mode = "failing" => t.mode = IF s = Commands!NextAction THEN "running" ELSE "failing"
           /\ st.mode = "waiting" => t = [st EXCEPT !.rest = Append(st.rest, s)]
<1> USE DEF CmdState, Commands!Step, Commands!Wait, Commands!NextAction, Commands!Virtual
<1>1. CASE st.mode = "waiting"
  <2>1. t = [st EXCEPT !.rest = Append(st.rest, s)]
    BY <1>1 DEF Commands!Does
  <2>2. Append(st.rest, s) \in Seq(Commands!Step)
    OBVIOUS
  <2> HIDE DEF Commands!Step
  <2> QED
    BY <1>1, <2>1, <2>2
<1>2. CASE st.mode = "failing"
  BY <1>2 DEF Commands!Does, Same
<1>3. CASE st.mode = "running" /\ s.do = "wait"
  BY <1>3 DEF Commands!Does, Same
<1>4. CASE st.mode = "running" /\ s.do = "next"
  BY <1>4 DEF Commands!Does, Same
<1>5. CASE st.mode = "running" /\ s.do = "virtual"
  BY <1>5 DEF Commands!Does, Same
<1>6. CASE st.mode = "running" /\ s.do = "write"
  <2>1. s.ga \in Commands!Addresses /\ s.val \in Commands!Values /\ s = Commands!Write(s.ga, s.val)
    BY <1>6 DEF Commands!Write
  <2>2. t \in CmdState
    BY <1>6, <2>1, DoesWrite
  <2> QED
    BY <1>6, <2>2
<1> QED
  BY <1>1, <1>2, <1>3, <1>4, <1>5, <1>6

LEMMA StretchGrows ==
    ASSUME NEW S, NEW prog, NEW k \in Nat, NEW d \in Nat, \A j \in 1..d + 1 : prog[k + j] \in S
    PROVE  /\ [j \in 1..d |-> prog[k + j]] \in Seq(S)
           /\ [j \in 1..d + 1 |-> prog[k + j]] = Append([j \in 1..d |-> prog[k + j]], prog[k + (d + 1)])
<1> DEFINE a == [j \in 1..d |-> prog[k + j]]
           b == [j \in 1..d + 1 |-> prog[k + j]]
           c == Append(a, prog[k + (d + 1)])
<1>1. a \in Seq(S) /\ Len(a) = d
  OBVIOUS
<1>2. b \in Seq(S) /\ Len(b) = d + 1
  OBVIOUS
<1>3. prog[k + (d + 1)] \in S
  OBVIOUS
<1>4. \A i \in 1..d : a[i] = prog[k + i]
  OBVIOUS
<1>5. \A i \in 1..d + 1 : b[i] = prog[k + i]
  OBVIOUS
<1> HIDE DEF a, b
<1>6. c \in Seq(S) /\ Len(c) = d + 1
  BY <1>1, <1>3
<1>7. \A i \in 1..d + 1 : c[i] = b[i]
  BY <1>1, <1>3, <1>4, <1>5
<1> HIDE DEF c
<1>8. b = c
  BY <1>2, <1>6, <1>7
<1> QED
  BY <1>1, <1>8 DEF a, b, c

(* After a wait, the rest of the program is left for later.                    *)
Steps(prog, n, f) == \A m \in 1..n : prog[m] \in Commands!Step /\ f[m] = Commands!Does(f[m - 1], prog[m])

Leaves(a, z, prog, k, n) == z = [a EXCEPT !.rest = [j \in 1..n - k |-> prog[k + j]]]

LEMMA Waiting ==
    ASSUME NEW prog, NEW n \in Nat, NEW f, Steps(prog, n, f),
           NEW k \in 0..n, f[k] \in CmdState, f[k].mode = "waiting", f[k].rest = <<>>
    PROVE  Leaves(f[k], f[n], prog, k, n)
<1> USE DEF Steps, Leaves
<1> DEFINE Left(m) == [j \in 1..m - k |-> prog[k + j]]
           Wrong == {m \in k..n : f[m] # [f[k] EXCEPT !.rest = Left(m)]}
<1>1. k \notin Wrong
  <2>1. Left(k) = <<>>
    OBVIOUS
  <2> HIDE DEF Left
  <2> QED
    BY <2>1 DEF CmdState
<1>2. ASSUME NEW m \in k + 1..n, m - 1 \notin Wrong PROVE m \notin Wrong
  <2>1. f[m - 1] = [f[k] EXCEPT !.rest = Left(m - 1)]
    BY <1>2
  <2>0. PICK d \in Nat : d = m - 1 - k
    BY <1>2
  <2>a. m = k + (d + 1) /\ m - k = d + 1 /\ m - 1 - k = d /\ k \in Nat
    BY <2>0
  <2>b. \A j \in 1..d + 1 : prog[k + j] \in Commands!Step
    <3> SUFFICES ASSUME NEW j \in 1..d + 1 PROVE prog[k + j] \in Commands!Step
      OBVIOUS
    <3>1. k + j \in 1..n
      BY <2>a, <1>2
    <3> QED
      BY <3>1
  <2>2. Left(m - 1) \in Seq(Commands!Step)
    BY <2>a, <2>b, StretchGrows
  <2>3. Append(Left(m - 1), prog[m]) = Left(m)
    BY <2>a, <2>b, StretchGrows
  <2> HIDE DEF Left
  <2>4. f[m - 1] \in CmdState /\ f[m - 1].mode = "waiting" /\ f[m - 1].rest = Left(m - 1)
    BY <2>1, <2>2 DEF CmdState
  <2>5. f[m] = Commands!Does(f[m - 1], prog[m]) /\ prog[m] \in Commands!Step
    BY <1>2
  <2>6. f[m] = [f[m - 1] EXCEPT !.rest = Append(f[m - 1].rest, prog[m])]
    BY <2>4, <2>5, DoesElse
  <2>7. f[m] = [f[k] EXCEPT !.rest = Left(m)]
    BY <2>1, <2>3, <2>4, <2>6 DEF CmdState
  <2> QED
    BY <2>7
<1>3. Wrong = {}
  <2> SUFFICES ASSUME Wrong # {} PROVE FALSE
    OBVIOUS
  <2>0. Wrong \in SUBSET Nat
    OBVIOUS
  <2>1. PICK m \in Wrong : \A j \in Wrong : m <= j
    BY <2>0, LeastNumber
  <2>2. m \in k..n
    OBVIOUS
  <2>3. m # k
    BY <1>1
  <2>4. m - 1 \notin Wrong
    <3> SUFFICES ASSUME m - 1 \in Wrong PROVE FALSE
      OBVIOUS
    <3>1. m <= m - 1
      BY <2>1
    <3> QED
      BY <2>2, <3>1
  <2> HIDE DEF Wrong
  <2> QED
    BY <1>2, <2>1, <2>2, <2>3, <2>4
<1>4. n \notin Wrong
  BY <1>3
<1> QED
  BY <1>4

CmdBegin == [bus |-> dBus, virtual |-> dVirtual, fire |-> dFire, rest |-> <<>>, failed |-> FALSE, wrote |-> FALSE,
             mode |-> "running"]

CmdKinds ==
    /\ dHas \subseteq Commands!Options /\ dUp \in BOOLEAN /\ dCalm \in BOOLEAN
    /\ dBus \in [Commands!Kept -> Commands!Values]
    /\ dVirtual \in Commands!Values /\ dFire \in Commands!Values /\ dDimmed \in Commands!Values

LEMMA BeginKind == CmdKinds => CmdBegin \in CmdState
  BY DEF CmdKinds, CmdBegin, CmdState

(* A program of one write, of two, and of a write, a wait and what is left.    *)
LEMMA OneWrite ==
    ASSUME CmdKinds, NEW ga \in Commands!Addresses, NEW v \in Commands!Values,
           NEW st, st = Commands!Run(CmdBegin, <<Commands!Write(ga, v)>>)
    PROVE  /\ st \in CmdState
           /\ Goes(ga) => Went(CmdBegin, st, ga, v)
           /\ ~Goes(ga) => Same(CmdBegin, st) /\ st.failed = TRUE
<1>1. PICK f : f[0] = CmdBegin /\ f[1] = Commands!Does(f[0], Commands!Write(ga, v)) /\ st = f[1]
  <2> DEFINE prog == <<Commands!Write(ga, v)>>
  <2>1. Len(prog) = 1 /\ prog[1] = Commands!Write(ga, v)
    OBVIOUS
  <2> HIDE DEF prog
  <2>2. st = Commands!Run(CmdBegin, prog)
    BY DEF prog
  <2> QED
    BY <2>1, <2>2, RunFacts DEF Traced
<1>2. CmdBegin.mode = "running"
  BY DEF CmdBegin
<1> QED
  BY <1>1, <1>2, BeginKind, DoesWrite

TwoWritten(st, ga, v, gb, w) ==
    /\ st \in CmdState /\ st.rest = <<>>
    /\ Goes(ga) /\ Goes(gb) => \E t \in CmdState : Went(CmdBegin, t, ga, v) /\ Went(t, st, gb, w)
    /\ ~(Goes(ga) /\ Goes(gb)) => st.failed = TRUE
    /\ ~Goes(ga) => st.wrote = FALSE

LEMMA TwoWrites ==
    ASSUME CmdKinds, NEW ga \in Commands!Addresses, NEW v \in Commands!Values,
           NEW gb \in Commands!Addresses, NEW w \in Commands!Values,
           NEW st, st = Commands!Run(CmdBegin, <<Commands!Write(ga, v), Commands!Write(gb, w)>>)
    PROVE  TwoWritten(st, ga, v, gb, w)
<1> USE DEF TwoWritten
<1>1. PICK f : f[0] = CmdBegin /\ f[1] = Commands!Does(f[0], Commands!Write(ga, v))
               /\ f[2] = Commands!Does(f[1], Commands!Write(gb, w)) /\ st = f[2]
  <2> DEFINE prog == <<Commands!Write(ga, v), Commands!Write(gb, w)>>
  <2>1. Len(prog) = 2 /\ prog[1] = Commands!Write(ga, v) /\ prog[2] = Commands!Write(gb, w)
    OBVIOUS
  <2> HIDE DEF prog
  <2>2. st = Commands!Run(CmdBegin, prog)
    BY DEF prog
  <2> QED
    BY <2>1, <2>2, RunFacts DEF Traced
<1>2. CmdBegin.mode = "running" /\ CmdBegin.rest = <<>> /\ CmdBegin.wrote = FALSE /\ CmdBegin.failed = FALSE
  BY DEF CmdBegin
<1>3. /\ f[1] \in CmdState
      /\ Goes(ga) => Went(CmdBegin, f[1], ga, v)
      /\ ~Goes(ga) => Same(CmdBegin, f[1]) /\ f[1].failed = TRUE /\ f[1].mode = "failing"
  BY <1>1, <1>2, BeginKind, DoesWrite
<1>4. Commands!Write(gb, w) \in Commands!Step /\ Commands!Write(gb, w) # Commands!NextAction
  BY DEF Commands!Write, Commands!Step, Commands!NextAction
<1>5. CASE Goes(ga)
  <2>1. f[1].mode = "running" /\ f[1].rest = <<>> /\ f[1] \in CmdState
        /\ st = Commands!Does(f[1], Commands!Write(gb, w))
    BY <1>1, <1>2, <1>3, <1>5 DEF Went
  <2>2. /\ st \in CmdState
        /\ Goes(gb) => Went(f[1], st, gb, w)
        /\ ~Goes(gb) => Same(f[1], st) /\ st.failed = TRUE
    BY <2>1, DoesWrite
  <2>3. st.rest = <<>>
    BY <2>1, <2>2 DEF Went, Same
  <2> QED
    BY <1>3, <1>5, <2>2, <2>3
<1>6. CASE ~Goes(ga)
  <2>1. st \in CmdState /\ Same(f[1], st) /\ st.failed = f[1].failed
    BY <1>1, <1>3, <1>4, <1>6, DoesElse
  <2> QED
    BY <1>2, <1>3, <1>6, <2>1 DEF Same
<1> QED
  BY <1>5, <1>6

WaitsFor(prog, ga, v, rest) ==
    /\ rest \in Seq(Commands!Step) /\ \A i \in 1..Len(rest) : rest[i] # Commands!NextAction
    /\ Len(prog) = Len(rest) + 2 /\ prog[1] = Commands!Write(ga, v) /\ prog[2] = Commands!Wait
    /\ \A i \in 1..Len(rest) : prog[i + 2] = rest[i]

LEMMA WriteAndWait ==
    ASSUME CmdKinds, NEW ga \in Commands!Addresses, NEW v \in Commands!Values,
           NEW rest, NEW prog, WaitsFor(prog, ga, v, rest), NEW st, st = Commands!Run(CmdBegin, prog)
    PROVE  /\ st \in CmdState
           /\ Goes(ga) => /\ st.rest = rest /\ st.failed = FALSE /\ st.virtual = dVirtual
                          /\ \E t \in CmdState : Went(CmdBegin, t, ga, v) /\ st.bus = t.bus /\ st.fire = t.fire
           /\ ~Goes(ga) => st.failed = TRUE /\ st.wrote = FALSE /\ st.rest = <<>> /\ st.bus = dBus
<1> USE DEF WaitsFor
<1>0. PICK n \in Nat : n = Len(prog)
  OBVIOUS
<1>1. n \in Nat /\ n >= 2 /\ n - 2 = Len(rest)
  BY <1>0
<1>2. PICK f : f[0] = CmdBegin /\ st = f[n] /\ \A m \in 1..n : f[m] = Commands!Does(f[m - 1], prog[m])
  BY <1>0, RunFacts DEF Traced
<1>3. \A m \in 1..n : prog[m] \in Commands!Step /\ prog[m] # Commands!NextAction
  <2> SUFFICES ASSUME NEW m \in 1..n PROVE prog[m] \in Commands!Step /\ prog[m] # Commands!NextAction
    OBVIOUS
  <2>1. CASE m \in {1, 2}
    BY <2>1 DEF Commands!Write, Commands!Wait, Commands!Step, Commands!NextAction
  <2>2. CASE m > 2
    <3>1. m - 2 \in 1..Len(rest) /\ (m - 2) + 2 = m
      BY <1>1, <2>2
    <3>2. prog[m] = rest[m - 2]
      BY <3>1
    <3> QED
      BY <3>1, <3>2
  <2> QED
    BY <2>1, <2>2
<1>4. CmdBegin.mode = "running" /\ CmdBegin.rest = <<>> /\ CmdBegin.wrote = FALSE /\ CmdBegin.failed = FALSE
      /\ CmdBegin.virtual = dVirtual /\ CmdBegin.bus = dBus /\ CmdBegin \in CmdState
  BY BeginKind DEF CmdBegin
<1>5. f[1] = Commands!Does(CmdBegin, Commands!Write(ga, v)) /\ f[2] = Commands!Does(f[1], Commands!Wait)
  BY <1>1, <1>2
<1>6. /\ f[1] \in CmdState
      /\ Goes(ga) => Went(CmdBegin, f[1], ga, v)
      /\ ~Goes(ga) => Same(CmdBegin, f[1]) /\ f[1].failed = TRUE /\ f[1].mode = "failing"
  BY <1>4, <1>5, DoesWrite
<1>7. CASE Goes(ga)
  <2>1. f[1].mode = "running" /\ f[1].rest = <<>> /\ f[1].failed = FALSE /\ f[1].virtual = dVirtual
    BY <1>4, <1>6, <1>7 DEF Went
  <2>2. f[2] \in CmdState /\ Same(f[1], f[2]) /\ f[2].failed = f[1].failed /\ f[2].mode = "waiting"
    BY <1>1, <1>3, <1>5, <1>6, <2>1, DoesElse
  <2>3. f[2].rest = <<>>
    BY <2>1, <2>2 DEF Same
  <2>4. st = [f[2] EXCEPT !.rest = rest]
    <3>1. Steps(prog, n, f)
      BY <1>2, <1>3 DEF Steps
    <3>2. 2 \in 0..n
      BY <1>1
    <3>3. rest = [j \in 1..n - 2 |-> prog[2 + j]]
      BY <1>1
    <3>4. Leaves(f[2], f[n], prog, 2, n)
      BY <1>1, <2>2, <2>3, <3>1, <3>2, Waiting
    <3> QED
      BY <1>2, <3>3, <3>4 DEF Leaves
  <2>5. st \in CmdState /\ st.rest = rest /\ st.failed = f[2].failed /\ st.virtual = f[2].virtual
        /\ st.bus = f[2].bus /\ st.fire = f[2].fire
    BY <2>2, <2>4 DEF CmdState
  <2> QED
    BY <1>6, <1>7, <2>1, <2>2, <2>5 DEF Same
<1>8. CASE ~Goes(ga)
  <2> DEFINE Stopped(m) == f[m] \in CmdState /\ Same(CmdBegin, f[m]) /\ f[m].failed = TRUE /\ f[m].mode = "failing"
             Bad == {m \in 1..n : ~Stopped(m)}
  <2>1. Stopped(1)
    BY <1>6, <1>8
  <2>2. ASSUME NEW m \in 2..n, Stopped(m - 1) PROVE Stopped(m)
    <3>1. f[m] = Commands!Does(f[m - 1], prog[m]) /\ prog[m] \in Commands!Step /\ prog[m] # Commands!NextAction
      BY <1>2, <1>3
    <3>2. PICK a : a = f[m - 1]
      OBVIOUS
    <3>3. PICK b : b = f[m]
      OBVIOUS
    <3>4. b \in CmdState /\ Same(a, b) /\ b.failed = a.failed /\ b.mode = "failing"
      BY <2>2, <3>1, <3>2, <3>3, DoesElse
    <3> QED
      BY <2>2, <3>2, <3>3, <3>4 DEF Same
  <2> HIDE DEF Stopped
  <2>3. Bad = {}
    <3> SUFFICES ASSUME Bad # {} PROVE FALSE
      OBVIOUS
    <3>0. Bad \in SUBSET Nat
      OBVIOUS
    <3>1. PICK m \in Bad : \A j \in Bad : m <= j
      BY <3>0, LeastNumber
    <3>2. m \in 1..n /\ ~Stopped(m)
      OBVIOUS
    <3>3. m # 1
      BY <2>1, <3>2
    <3>4. m - 1 \notin Bad
      <4> SUFFICES ASSUME m - 1 \in Bad PROVE FALSE
        OBVIOUS
      <4>1. m <= m - 1
        BY <3>1
      <4> QED
        BY <3>2, <4>1
    <3>5. Stopped(m - 1)
      BY <3>2, <3>3, <3>4
    <3> QED
      BY <2>2, <3>2, <3>3, <3>5
  <2>4. Stopped(n)
    BY <1>1, <2>3
  <2> QED
    BY <1>2, <1>4, <1>8, <2>4 DEF Stopped, Same
<1> QED
  BY <1>7, <1>8

(* What may be left of a program: by name, as a program, and how the contacts  *)
(* and the shown fire stand while it waits.                                    *)
CmdTags == {"none", "flame", "level", "door", "fireOn", "fireOff", "scenePulse", "sceneEnd"}
CmdRest(tag) ==
    CASE tag = "none" -> <<>>
      [] tag = "flame" -> <<Commands!Write("flame", "low")>>
      [] tag = "level" -> <<Commands!Write("level", "low")>>
      [] tag = "door" -> <<Commands!Write("door", "off")>>
      [] tag = "fireOn" -> <<Commands!Write("fireOn", "off"), Commands!Virtual("on")>>
      [] tag = "fireOff" -> <<Commands!Write("fireOff", "off"), Commands!Virtual("off")>>
      [] tag = "scenePulse" -> <<Commands!Write("fireOn", "on"), Commands!Wait, Commands!Write("fireOn", "off"),
                                 Commands!Virtual("on"), Commands!NextAction>>
      [] tag = "sceneEnd" -> <<Commands!Write("fireOn", "off"), Commands!Virtual("on"), Commands!NextAction>>

CmdLeft(tag, b, vi, fi) ==
    /\ tag # "door" => b["door"] = "off"
    /\ tag \in {"none", "flame", "level", "door", "scenePulse"} => vi = fi
    /\ "planika" \notin dHas =>
          /\ tag \notin {"fireOn", "sceneEnd"} => b["fireOn"] = "off"
          /\ tag # "fireOff" => b["fireOff"] = "off"
    /\ tag \in {"fireOn", "sceneEnd"} => fi = "on"
    /\ tag = "fireOff" => fi = "off"

(* A program that was run from how tag left things.                            *)
CmdEnds(st, kind, tag) ==
    /\ st \in CmdState
    /\ \E next \in CmdTags :
          /\ st.rest = CmdRest(next)
          /\ st.failed = FALSE /\ CmdLeft(tag, dBus, dVirtual, dFire) => CmdLeft(next, st.bus, st.virtual, st.fire)
    /\ st.failed = TRUE /\ st.wrote = TRUE /\ dUp = TRUE => kind = "light.dim"

LEMMA CmdSteps ==
    /\ \A ga \in Commands!Addresses, v \in Commands!Values : Commands!Write(ga, v) \in Commands!Step
    /\ \A v \in Commands!Values : Commands!Virtual(v) \in Commands!Step
    /\ Commands!Wait \in Commands!Step /\ Commands!NextAction \in Commands!Step
    /\ \A ga, v : Commands!Write(ga, v) # Commands!NextAction
    /\ \A v : Commands!Virtual(v) # Commands!NextAction
    /\ Commands!Wait # Commands!NextAction
  BY DEF Commands!Step, Commands!Write, Commands!Virtual, Commands!Wait, Commands!NextAction

LEMMA CmdNames ==
    /\ {"fireOn", "fireOff", "door"} = Commands!Contacts
    /\ Commands!Kept = {"fireOn", "fireOff", "door", "switch"}
    /\ Commands!Addresses = {"fireOn", "fireOff", "door", "switch", "dim", "onOff", "flame", "button", "level", "other"}
    /\ Commands!Values = {"off", "low", "on"}
  BY DEF Commands!Contacts, Commands!Kept, Commands!Addresses, Commands!Values

(* One write to an address that no contact of a pulse has.                     *)
OneEnd(st, kind, tag, ga, v) ==
    /\ CmdEnds(st, kind, tag) /\ st.rest = <<>>
    /\ ga # "switch" => st.bus["switch"] = dBus["switch"]
    /\ ga = "switch" /\ st.failed = FALSE => st.bus["switch"] = v

LEMMA EndsOne ==
    ASSUME CmdKinds, NEW ga \in Commands!Addresses \ Commands!Contacts, NEW v \in Commands!Values, NEW kind,
           NEW tag \in {"none", "flame", "level"},
           NEW st, st = Commands!Run(CmdBegin, <<Commands!Write(ga, v)>>)
    PROVE  OneEnd(st, kind, tag, ga, v)
<1> USE DEF OneEnd
<1>1. /\ st \in CmdState
      /\ Goes(ga) => Went(CmdBegin, st, ga, v)
      /\ ~Goes(ga) => Same(CmdBegin, st) /\ st.failed = TRUE
  BY OneWrite
<1>2. CmdRest("none") = <<>>
  BY DEF CmdRest
<1>3. CmdBegin.bus = dBus /\ CmdBegin.virtual = dVirtual /\ CmdBegin.fire = dFire /\ CmdBegin.rest = <<>>
      /\ CmdBegin.failed = FALSE /\ CmdBegin.wrote = FALSE
  BY DEF CmdBegin
<1>4. CASE Goes(ga)
  <2>1. \A k \in Commands!Kept : st.bus[k] = IF k = ga THEN v ELSE dBus[k]
    BY <1>1, <1>3, <1>4 DEF Went
  <2>2. st.fire = dFire /\ st.virtual = dVirtual /\ st.rest = <<>> /\ st.failed = FALSE
    BY <1>1, <1>3, <1>4, CmdNames DEF Went
  <2>3. CmdLeft(tag, dBus, dVirtual, dFire) => CmdLeft("none", st.bus, st.virtual, st.fire)
    BY <2>1, <2>2, CmdNames DEF CmdLeft
  <2> QED
    BY <1>1, <1>2, <2>1, <2>2, <2>3, CmdNames DEF CmdEnds, CmdTags
<1>5. CASE ~Goes(ga)
  BY <1>1, <1>2, <1>3, <1>5, CmdNames DEF CmdEnds, CmdTags, Same
<1> QED
  BY <1>4, <1>5

(* The end of a pulse of the door's contact.                                   *)
LEMMA EndsDoor ==
    ASSUME CmdKinds, NEW kind, NEW st, st = Commands!Run(CmdBegin, CmdRest("door"))
    PROVE  CmdEnds(st, kind, "door") /\ st.bus["switch"] = dBus["switch"]
<1>0. "door" \in Commands!Addresses /\ "off" \in Commands!Values /\ CmdRest("none") = <<>>
      /\ CmdRest("door") = <<Commands!Write("door", "off")>>
  BY CmdNames DEF CmdRest
<1>1. /\ st \in CmdState
      /\ Goes("door") => Went(CmdBegin, st, "door", "off")
      /\ ~Goes("door") => Same(CmdBegin, st) /\ st.failed = TRUE
  BY <1>0, OneWrite
<1>3. CmdBegin.bus = dBus /\ CmdBegin.virtual = dVirtual /\ CmdBegin.fire = dFire /\ CmdBegin.rest = <<>>
      /\ CmdBegin.failed = FALSE /\ CmdBegin.wrote = FALSE
  BY DEF CmdBegin
<1>4. CASE Goes("door")
  <2>1. \A k \in Commands!Kept : st.bus[k] = IF k = "door" THEN "off" ELSE dBus[k]
    BY <1>1, <1>3, <1>4 DEF Went
  <2>2. st.fire = dFire /\ st.virtual = dVirtual /\ st.rest = <<>> /\ st.failed = FALSE
    BY <1>1, <1>3, <1>4, CmdNames DEF Went
  <2>3. CmdLeft("door", dBus, dVirtual, dFire) => CmdLeft("none", st.bus, st.virtual, st.fire)
    BY <2>1, <2>2, CmdNames DEF CmdLeft
  <2> QED
    BY <1>0, <1>1, <2>1, <2>2, <2>3, CmdNames DEF CmdEnds, CmdTags
<1>5. CASE ~Goes("door")
  BY <1>0, <1>1, <1>3, <1>5, CmdNames DEF CmdEnds, CmdTags, Same
<1> QED
  BY <1>4, <1>5

(* A write to a contact of the fire, after which the fire is shown so.         *)
Shows(prog, ga, v, x) ==
    \/ prog = <<Commands!Write(ga, v), Commands!Virtual(x)>>
    \/ prog = <<Commands!Write(ga, v), Commands!Virtual(x), Commands!NextAction>>

Shown(st, ga, v, x) ==
    /\ st \in CmdState /\ st.rest = <<>> /\ st.bus["switch"] = dBus["switch"]
    /\ dUp = TRUE => /\ st.virtual = x /\ st.failed = FALSE
                     /\ \A k \in Commands!Kept : st.bus[k] = IF k = ga THEN v ELSE dBus[k]
                     /\ st.fire = IF v = "on" THEN IF ga = "fireOn" THEN "on" ELSE "off" ELSE dFire
    /\ dUp = FALSE => st.failed = TRUE /\ st.wrote = FALSE

LEMMA WriteAndShow ==
    ASSUME CmdKinds, NEW ga \in {"fireOn", "fireOff"}, NEW v \in Commands!Values, NEW x \in Commands!Values,
           NEW prog, Shows(prog, ga, v, x), NEW st, st = Commands!Run(CmdBegin, prog)
    PROVE  Shown(st, ga, v, x)
<1> USE DEF Shown
<1> DEFINE w == Commands!Write(ga, v)
           x1 == Commands!Virtual(x)
<1>0. ga \in Commands!Addresses /\ (Goes(ga) <=> dUp = TRUE)
  BY CmdNames DEF Goes
<1>1. w \in Commands!Step /\ x1 \in Commands!Step /\ x1 # Commands!NextAction /\ Commands!NextAction \in Commands!Step
  BY <1>0, CmdSteps
<1>2. PICK n \in {2, 3} : Len(prog) = n /\ prog[1] = w /\ prog[2] = x1 /\ (n = 3 => prog[3] = Commands!NextAction)
  <2>1. CASE prog = <<w, x1>>
    BY <2>1
  <2>2. CASE prog = <<w, x1, Commands!NextAction>>
    BY <2>2
  <2> QED
    BY <2>1, <2>2 DEF Shows
<1> HIDE DEF w, x1
<1>3. PICK f : f[0] = CmdBegin /\ st = f[n] /\ \A m \in 1..n : f[m] = Commands!Does(f[m - 1], prog[m])
  <2>1. Len(prog) \in Nat
    BY <1>2
  <2> QED
    BY <1>2, <2>1, RunFacts DEF Traced
<1>4. PICK a, b : a = f[1] /\ b = f[2] /\ a = Commands!Does(CmdBegin, w) /\ b = Commands!Does(a, x1)
                  /\ (n = 3 => st = Commands!Does(b, Commands!NextAction)) /\ (n = 2 => st = b)
  BY <1>2, <1>3
<1>5. CmdBegin \in CmdState /\ CmdBegin.bus = dBus /\ CmdBegin.virtual = dVirtual /\ CmdBegin.fire = dFire
      /\ CmdBegin.rest = <<>> /\ CmdBegin.failed = FALSE /\ CmdBegin.wrote = FALSE /\ CmdBegin.mode = "running"
  BY BeginKind DEF CmdBegin
<1>6. /\ a \in CmdState
      /\ Goes(ga) => Went(CmdBegin, a, ga, v)
      /\ ~Goes(ga) => Same(CmdBegin, a) /\ a.failed = TRUE /\ a.mode = "failing"
  BY <1>0, <1>4, <1>5, DoesWrite DEF w
<1>7. CASE dUp = TRUE
  <2>1. Went(CmdBegin, a, ga, v) /\ a.mode = "running"
    BY <1>0, <1>6, <1>7 DEF Went
  <2>2. b = [a EXCEPT !.virtual = x] /\ b \in CmdState
    BY <1>1, <1>4, <1>6, <2>1, DoesElse DEF x1
  <2>3. b.mode = "running" /\ b.virtual = x /\ b.rest = a.rest /\ b.bus = a.bus /\ b.fire = a.fire /\ b.failed = a.failed
    BY <1>6, <2>1, <2>2 DEF CmdState
  <2>4. st = b
    BY <1>1, <1>4, <1>2, <2>2, <2>3, DoesElse
  <2>5. \A k \in Commands!Kept : st.bus[k] = IF k = ga THEN v ELSE dBus[k]
    BY <1>5, <2>1, <2>3, <2>4 DEF Went
  <2> QED
    BY <1>5, <1>7, <2>1, <2>2, <2>3, <2>4, <2>5, CmdNames DEF Went
<1>8. CASE dUp # TRUE
  <2>1. Same(CmdBegin, a) /\ a.failed = TRUE /\ a.mode = "failing"
    BY <1>0, <1>6, <1>8
  <2>2. b \in CmdState /\ Same(a, b) /\ b.failed = TRUE /\ b.mode = "failing"
    BY <1>1, <1>4, <1>6, <2>1, DoesElse
  <2>3. n = 3 => st \in CmdState /\ Same(b, st) /\ st.failed = TRUE
    BY <1>1, <1>4, <2>2, DoesElse
  <2>4. st \in CmdState /\ st.failed = TRUE /\ st.wrote = FALSE /\ st.rest = <<>> /\ st.bus = dBus
    BY <1>2, <1>4, <1>5, <2>1, <2>2, <2>3 DEF Same
  <2> QED
    BY <1>8, <2>4
<1> QED
  BY <1>7, <1>8

(* The end of a pulse of the fire's contacts, in a command and in a scene.     *)
LEMMA EndsFire ==
    ASSUME CmdKinds, NEW kind, NEW tag \in {"fireOn", "fireOff", "sceneEnd"},
           NEW st, st = Commands!Run(CmdBegin, CmdRest(tag))
    PROVE  CmdEnds(st, kind, tag) /\ st.bus["switch"] = dBus["switch"]
<1>1. PICK ga \in {"fireOn", "fireOff"}, x \in {"on", "off"} :
        /\ CmdRest(tag) = <<Commands!Write(ga, "off"), Commands!Virtual(x)>>
           \/ CmdRest(tag) = <<Commands!Write(ga, "off"), Commands!Virtual(x), Commands!NextAction>>
        /\ tag = "fireOff" => ga = "fireOff" /\ x = "off"
        /\ tag # "fireOff" => ga = "fireOn" /\ x = "on"
  BY DEF CmdRest
<1>2. "off" \in Commands!Values /\ x \in Commands!Values
  BY CmdNames
<1>3. /\ st \in CmdState /\ st.rest = <<>> /\ st.bus["switch"] = dBus["switch"]
      /\ dUp = TRUE => /\ st.virtual = x /\ st.failed = FALSE
                       /\ \A k \in Commands!Kept : st.bus[k] = IF k = ga THEN "off" ELSE dBus[k]
                       /\ st.fire = dFire
      /\ dUp = FALSE => st.failed = TRUE /\ st.wrote = FALSE
  <2>1. PICK v \in Commands!Values : v = "off"
    BY <1>2
  <2>2. PICK prog : prog = CmdRest(tag) /\ Shows(prog, ga, v, x)
    BY <1>1, <2>1 DEF Shows
  <2>3. Shown(st, ga, v, x)
    <3>1. ga \in {"fireOn", "fireOff"}
      BY <1>1
    <3>2. v \in Commands!Values
      BY <2>1
    <3>3. x \in Commands!Values
      BY <1>2
    <3>4. Shows(prog, ga, v, x)
      BY <2>2
    <3>5. st = Commands!Run(CmdBegin, prog)
      BY <2>2
    <3> QED
      BY <3>1, <3>2, <3>3, <3>4, <3>5, WriteAndShow
  <2> QED
    BY <2>1, <2>3 DEF Shown
<1>4. CmdRest("none") = <<>>
  BY DEF CmdRest
<1>5. dUp \in BOOLEAN
  BY DEF CmdKinds
<1>6. st.failed = FALSE /\ CmdLeft(tag, dBus, dVirtual, dFire) => CmdLeft("none", st.bus, st.virtual, st.fire)
  <2> SUFFICES ASSUME st.failed = FALSE, CmdLeft(tag, dBus, dVirtual, dFire)
               PROVE  CmdLeft("none", st.bus, st.virtual, st.fire)
    OBVIOUS
  <2>1. dUp = TRUE
    BY <1>3, <1>5
  <2>2. st.virtual = x /\ st.fire = dFire /\ st.bus["door"] = dBus["door"]
        /\ (tag = "fireOff" => st.bus["fireOff"] = "off" /\ st.bus["fireOn"] = dBus["fireOn"])
        /\ (tag # "fireOff" => st.bus["fireOn"] = "off" /\ st.bus["fireOff"] = dBus["fireOff"])
    BY <1>1, <1>3, <2>1, CmdNames
  <2> QED
    BY <1>1, <2>2 DEF CmdLeft
<1> QED
  BY <1>3, <1>4, <1>5, <1>6 DEF CmdEnds, CmdTags

(* A write, a wait and the end of a pulse, as WriteAndWait has it.             *)
WaitEnd(st, kind, tag) == CmdEnds(st, kind, tag) /\ st.bus["switch"] = dBus["switch"]

LEMMA EndsWaiting ==
    ASSUME CmdKinds, NEW kind, NEW ga \in Commands!Addresses \ {"switch"}, NEW v \in Commands!Values,
           NEW tag \in {"none", "scenePulse"}, NEW next \in {"flame", "level", "door", "fireOn", "fireOff"},
           CASE next = "door" -> ga = "door"
             [] next = "fireOn" -> ga = "fireOn" /\ v = "on"
             [] next = "fireOff" -> ga = "fireOff" /\ v = "on"
             [] OTHER -> ga \notin Commands!Contacts,
           NEW st, st = Commands!Run(CmdBegin, <<Commands!Write(ga, v), Commands!Wait>> \o CmdRest(next))
    PROVE  WaitEnd(st, kind, tag)
<1> USE DEF WaitEnd
<1> DEFINE rest == CmdRest(next)
           prog == <<Commands!Write(ga, v), Commands!Wait>> \o rest
<1>1. rest \in Seq(Commands!Step) /\ \A i \in 1..Len(rest) : rest[i] # Commands!NextAction
  <2>1. \A a \in Commands!Step : a # Commands!NextAction =>
           <<a>> \in Seq(Commands!Step) /\ \A i \in 1..Len(<<a>>) : <<a>>[i] # Commands!NextAction
    OBVIOUS
  <2>2. \A a \in Commands!Step : \A b \in Commands!Step : a # Commands!NextAction /\ b # Commands!NextAction =>
           <<a, b>> \in Seq(Commands!Step) /\ \A i \in 1..Len(<<a, b>>) : <<a, b>>[i] # Commands!NextAction
    OBVIOUS
  <2>3. \A x \in {"flame", "level", "door", "fireOn", "fireOff"} : \A y \in {"low", "off"} :
           Commands!Write(x, y) \in Commands!Step /\ Commands!Write(x, y) # Commands!NextAction
    BY CmdSteps, CmdNames
  <2>4. \A x \in {"on", "off"} : Commands!Virtual(x) \in Commands!Step /\ Commands!Virtual(x) # Commands!NextAction
    BY CmdSteps, CmdNames
  <2>5. CASE next \in {"flame", "level", "door"}
    <3>1. PICK a : rest = <<a>> /\ a \in Commands!Step /\ a # Commands!NextAction
      BY <2>3, <2>5 DEF CmdRest
    <3> QED
      BY <2>1, <3>1
  <2>6. CASE next \in {"fireOn", "fireOff"}
    <3>1. PICK a, b : rest = <<a, b>> /\ a \in Commands!Step /\ b \in Commands!Step /\ a # Commands!NextAction /\ b # Commands!NextAction
      BY <2>3, <2>4, <2>6 DEF CmdRest
    <3> QED
      BY <2>2, <3>1
  <2> QED
    BY <2>5, <2>6
<1> HIDE DEF rest
<1>2. Len(prog) = Len(rest) + 2 /\ prog[1] = Commands!Write(ga, v) /\ prog[2] = Commands!Wait
      /\ \A i \in 1..Len(rest) : prog[i + 2] = rest[i]
  BY <1>1
<1>3. st = Commands!Run(CmdBegin, prog)
  BY DEF rest
<1> HIDE DEF prog
<1>4. /\ st \in CmdState
      /\ Goes(ga) => /\ st.rest = rest /\ st.failed = FALSE /\ st.virtual = dVirtual
                     /\ \E t \in CmdState : Went(CmdBegin, t, ga, v) /\ st.bus = t.bus /\ st.fire = t.fire
      /\ ~Goes(ga) => st.failed = TRUE /\ st.wrote = FALSE /\ st.rest = <<>> /\ st.bus = dBus
  <2>1. WaitsFor(prog, ga, v, rest)
    BY <1>1, <1>2 DEF WaitsFor
  <2> QED
    BY <1>3, <2>1, WriteAndWait
<1>5. CmdRest("none") = <<>>
  BY DEF CmdRest
<1>6. CASE ~Goes(ga)
  BY <1>4, <1>5, <1>6 DEF CmdEnds, CmdTags
<1>7. CASE Goes(ga)
  <2>1. PICK t \in CmdState : Went(CmdBegin, t, ga, v) /\ st.bus = t.bus /\ st.fire = t.fire
    BY <1>4, <1>7
  <2>2. CmdBegin.bus = dBus /\ CmdBegin.fire = dFire
    BY DEF CmdBegin
  <2>3. \A k \in Commands!Kept : st.bus[k] = IF k = ga THEN v ELSE dBus[k]
    BY <2>1, <2>2 DEF Went
  <2>4. st.fire = IF v = "on" /\ ga \in {"fireOn", "fireOff"} THEN IF ga = "fireOn" THEN "on" ELSE "off" ELSE dFire
    BY <2>1, <2>2 DEF Went
  <2>5. st.rest = CmdRest(next) /\ st.failed = FALSE /\ st.virtual = dVirtual
    BY <1>4, <1>7 DEF rest
  <2>6. CmdLeft(tag, dBus, dVirtual, dFire) => CmdLeft(next, st.bus, st.virtual, st.fire)
    BY <2>3, <2>4, <2>5, CmdNames DEF CmdLeft
  <2> QED
    BY <1>4, <2>3, <2>5, <2>6, CmdNames DEF CmdEnds, CmdTags
<1> QED
  BY <1>6, <1>7

(* The pulse of a scene: it waits within the pulse, or all of it is left out.  *)
LEMMA EndsPulse ==
    ASSUME CmdKinds, NEW kind, NEW st, st = Commands!Run(CmdBegin, CmdRest("scenePulse"))
    PROVE  CmdEnds(st, kind, "scenePulse") /\ st.bus["switch"] = dBus["switch"]
<1>1. PICK prog, w1, w2, v :
        /\ prog = CmdRest("scenePulse") /\ prog = <<w1, Commands!Wait, w2, v, Commands!NextAction>>
        /\ w1 = Commands!Write("fireOn", "on") /\ w2 = Commands!Write("fireOn", "off") /\ v = Commands!Virtual("on")
        /\ CmdRest("sceneEnd") = <<w2, v, Commands!NextAction>> /\ CmdRest("none") = <<>>
  BY DEF CmdRest
<1>2. /\ w1 \in Commands!Step /\ w2 \in Commands!Step /\ v \in Commands!Step
      /\ Commands!Wait \in Commands!Step /\ Commands!NextAction \in Commands!Step
      /\ w2 # Commands!NextAction /\ v # Commands!NextAction /\ Commands!Wait # Commands!NextAction
  BY <1>1, CmdSteps, CmdNames
<1>3. Len(prog) = 5 /\ prog[1] = w1 /\ prog[2] = Commands!Wait /\ prog[3] = w2 /\ prog[4] = v
      /\ prog[5] = Commands!NextAction
  BY <1>1
<1>4. PICK f : f[0] = CmdBegin /\ st = f[5] /\ \A m \in 1..5 : f[m] = Commands!Does(f[m - 1], prog[m])
  BY <1>1, <1>3, RunFacts DEF Traced
<1>5. PICK a, b, c, d : /\ a = f[1] /\ b = f[2] /\ c = f[3] /\ d = f[4]
                        /\ a = Commands!Does(CmdBegin, w1) /\ b = Commands!Does(a, Commands!Wait)
                        /\ c = Commands!Does(b, w2) /\ d = Commands!Does(c, v) /\ st = Commands!Does(d, Commands!NextAction)
  BY <1>3, <1>4
<1>6. CmdBegin \in CmdState /\ CmdBegin.bus = dBus /\ CmdBegin.virtual = dVirtual /\ CmdBegin.fire = dFire
      /\ CmdBegin.rest = <<>> /\ CmdBegin.failed = FALSE /\ CmdBegin.wrote = FALSE /\ CmdBegin.mode = "running"
  BY BeginKind DEF CmdBegin
<1>7. /\ a \in CmdState
      /\ Goes("fireOn") => Went(CmdBegin, a, "fireOn", "on")
      /\ ~Goes("fireOn") => Same(CmdBegin, a) /\ a.failed = TRUE /\ a.mode = "failing"
  <2>1. a = Commands!Does(CmdBegin, Commands!Write("fireOn", "on"))
    BY <1>1, <1>5
  <2>2. "fireOn" \in Commands!Addresses /\ "on" \in Commands!Values
    BY CmdNames
  <2> QED
    BY <1>6, <2>1, <2>2, DoesWrite
<1>8. CASE Goes("fireOn")
  <2>1. a.mode = "running" /\ a.rest = <<>> /\ a.failed = FALSE /\ a.virtual = dVirtual /\ a.fire = "on"
        /\ \A k \in Commands!Kept : a.bus[k] = IF k = "fireOn" THEN "on" ELSE dBus[k]
    BY <1>6, <1>7, <1>8 DEF Went
  <2>2. b \in CmdState /\ Same(a, b) /\ b.failed = FALSE /\ b.mode = "waiting" /\ b.rest = <<>>
    BY <1>2, <1>5, <1>7, <2>1, DoesElse DEF Same
  <2>3. Steps(prog, 5, f)
    <3> SUFFICES ASSUME NEW m \in 1..5 PROVE prog[m] \in Commands!Step /\ f[m] = Commands!Does(f[m - 1], prog[m])
      BY DEF Steps
    <3>1. m \in {1, 2, 3, 4, 5}
      OBVIOUS
    <3>2. prog[m] \in Commands!Step
      BY <1>2, <1>3, <3>1
    <3> QED
      BY <1>4, <3>2
  <2>4. f[5] = [f[2] EXCEPT !.rest = [j \in 1..5 - 2 |-> prog[2 + j]]]
    <3>1. f[2] \in CmdState /\ f[2].mode = "waiting" /\ f[2].rest = <<>>
      BY <1>5, <2>2
    <3>2. PICK n \in Nat : n = 5
      OBVIOUS
    <3>3. n \in Nat /\ Steps(prog, n, f) /\ 2 \in 0..n
      BY <2>3, <3>2
    <3>4. Leaves(f[2], f[n], prog, 2, n)
      BY <3>1, <3>3, Waiting
    <3> QED
      BY <3>2, <3>4 DEF Leaves
  <2>5. [j \in 1..5 - 2 |-> prog[2 + j]] = CmdRest("sceneEnd")
    BY <1>1, <1>3
  <2>6. st = [b EXCEPT !.rest = CmdRest("sceneEnd")]
    BY <1>4, <1>5, <2>4, <2>5
  <2>7. CmdRest("sceneEnd") \in Seq(Commands!Step)
    <3>1. \A S : \A x, y, z \in S : <<x, y, z>> \in Seq(S)
      OBVIOUS
    <3> QED
      BY <1>1, <1>2, <3>1
  <2>8. st \in CmdState /\ st.rest = CmdRest("sceneEnd") /\ st.bus = b.bus /\ st.fire = b.fire /\ st.failed = b.failed
    BY <2>2, <2>6, <2>7 DEF CmdState
  <2>9. CmdLeft("scenePulse", dBus, dVirtual, dFire) => CmdLeft("sceneEnd", st.bus, st.virtual, st.fire)
    BY <2>1, <2>2, <2>8, CmdNames DEF CmdLeft, Same
  <2> QED
    BY <2>1, <2>2, <2>8, <2>9, CmdNames DEF CmdEnds, CmdTags, Same
<1>9. CASE ~Goes("fireOn")
  <2>1. b \in CmdState /\ Same(a, b) /\ b.failed = TRUE /\ b.mode = "failing"
    BY <1>2, <1>5, <1>7, <1>9, DoesElse
  <2>2. c \in CmdState /\ Same(b, c) /\ c.failed = TRUE /\ c.mode = "failing"
    BY <1>2, <1>5, <2>1, DoesElse
  <2>3. d \in CmdState /\ Same(c, d) /\ d.failed = TRUE /\ d.mode = "failing"
    BY <1>2, <1>5, <2>2, DoesElse
  <2>4. st \in CmdState /\ Same(d, st) /\ st.failed = TRUE
    BY <1>2, <1>5, <2>3, DoesElse
  <2>5. st.rest = <<>> /\ st.bus = dBus /\ st.wrote = FALSE
    BY <1>6, <1>7, <1>9, <2>1, <2>2, <2>3, <2>4 DEF Same
  <2> QED
    BY <1>1, <2>4, <2>5 DEF CmdEnds, CmdTags
<1> QED
  BY <1>8, <1>9

(* A scene up to its pulse.                                                    *)
LEMMA EndsScene ==
    ASSUME CmdKinds, NEW st, st = Commands!Run(CmdBegin, Commands!SceneProgram)
    PROVE  CmdEnds(st, "scene", "none") /\ (st.failed = FALSE => st.bus["switch"] = "on")
<1>1. PICK prog, w0, w1, w2, v :
        /\ prog = Commands!SceneProgram
        /\ prog = <<w0, Commands!NextAction, Commands!Wait>> \o <<w1, Commands!Wait, w2>> \o <<v, Commands!NextAction>>
        /\ w0 = Commands!Write("switch", "on")
        /\ w1 = Commands!Write("fireOn", "on") /\ w2 = Commands!Write("fireOn", "off") /\ v = Commands!Virtual("on")
        /\ CmdRest("scenePulse") = <<w1, Commands!Wait, w2, v, Commands!NextAction>>
  BY DEF CmdRest, Commands!SceneProgram, Commands!Pulse
<1>2. /\ w0 \in Commands!Step /\ w1 \in Commands!Step /\ w2 \in Commands!Step /\ v \in Commands!Step
      /\ Commands!Wait \in Commands!Step /\ Commands!NextAction \in Commands!Step
      /\ Commands!Wait # Commands!NextAction
  BY <1>1, CmdSteps, CmdNames
<1>3. Len(prog) = 8 /\ prog[1] = w0 /\ prog[2] = Commands!NextAction /\ prog[3] = Commands!Wait
      /\ prog[4] = w1 /\ prog[5] = Commands!Wait /\ prog[6] = w2 /\ prog[7] = v
      /\ prog[8] = Commands!NextAction
  BY <1>1
<1>4. PICK f : f[0] = CmdBegin /\ st = f[8] /\ \A m \in 1..8 : f[m] = Commands!Does(f[m - 1], prog[m])
  <2>1. Len(prog) \in Nat /\ Len(prog) = 8 /\ st = Commands!Run(CmdBegin, prog)
    BY <1>1, <1>3
  <2>2. PICK f : Traced(CmdBegin, prog, f)
    BY <2>1, RunFacts
  <2> QED
    BY <2>1, <2>2 DEF Traced
<1>5. PICK a, b, c : /\ a = f[1] /\ b = f[2] /\ c = f[3]
                     /\ a = Commands!Does(CmdBegin, w0) /\ b = Commands!Does(a, Commands!NextAction)
                     /\ c = Commands!Does(b, Commands!Wait)
  BY <1>3, <1>4
<1>6. CmdBegin \in CmdState /\ CmdBegin.bus = dBus /\ CmdBegin.virtual = dVirtual /\ CmdBegin.fire = dFire
      /\ CmdBegin.rest = <<>> /\ CmdBegin.failed = FALSE /\ CmdBegin.wrote = FALSE /\ CmdBegin.mode = "running"
  BY BeginKind DEF CmdBegin
<1>7. /\ a \in CmdState
      /\ Goes("switch") => Went(CmdBegin, a, "switch", "on")
      /\ ~Goes("switch") => Same(CmdBegin, a) /\ a.failed = TRUE /\ a.mode = "failing"
  <2>1. a = Commands!Does(CmdBegin, Commands!Write("switch", "on"))
    BY <1>1, <1>5
  <2>2. "switch" \in Commands!Addresses /\ "on" \in Commands!Values
    BY CmdNames
  <2> QED
    BY <1>6, <2>1, <2>2, DoesWrite
<1>8. /\ b \in CmdState /\ b.mode = "running" /\ b.rest = <<>> /\ b.virtual = dVirtual /\ b.fire = dFire
      /\ Goes("switch") => b.failed = FALSE /\ \A k \in Commands!Kept : b.bus[k] = IF k = "switch" THEN "on" ELSE dBus[k]
      /\ ~Goes("switch") => b.failed = TRUE /\ b.wrote = FALSE
  <2>1. CASE Goes("switch")
    <3>1. a.mode = "running" /\ a.rest = <<>> /\ a.failed = FALSE /\ a.virtual = dVirtual /\ a.fire = dFire
          /\ \A k \in Commands!Kept : a.bus[k] = IF k = "switch" THEN "on" ELSE dBus[k]
      BY <1>6, <1>7, <2>1 DEF Went
    <3>2. b = a
      BY <1>2, <1>5, <1>7, <3>1, DoesElse
    <3> QED
      BY <1>7, <2>1, <3>1, <3>2
  <2>2. CASE ~Goes("switch")
    <3>1. b \in CmdState /\ Same(a, b) /\ b.failed = TRUE /\ b.mode = "running"
      BY <1>2, <1>5, <1>7, <2>2, DoesElse
    <3> QED
      BY <1>6, <1>7, <2>2, <3>1 DEF Same
  <2> QED
    BY <2>1, <2>2
<1>9. c \in CmdState /\ Same(b, c) /\ c.failed = b.failed /\ c.mode = "waiting" /\ c.rest = <<>>
  <2>1. c \in CmdState /\ Same(b, c) /\ c.failed = b.failed /\ c.mode = "waiting"
    BY <1>2, <1>5, <1>8, DoesElse
  <2> QED
    BY <1>8, <2>1 DEF Same
<1>10. Steps(prog, 8, f)
  <2> SUFFICES ASSUME NEW m \in 1..8 PROVE prog[m] \in Commands!Step /\ f[m] = Commands!Does(f[m - 1], prog[m])
    BY DEF Steps
  <2>1. m \in {1, 2, 3, 4, 5, 6, 7, 8}
    OBVIOUS
  <2>2. prog[m] \in Commands!Step
    BY <1>2, <1>3, <2>1
  <2> QED
    BY <1>4, <2>2
<1>11. st = [c EXCEPT !.rest = CmdRest("scenePulse")]
  <2>1. f[8] = [f[3] EXCEPT !.rest = [j \in 1..8 - 3 |-> prog[3 + j]]]
    <3>1. f[3] \in CmdState /\ f[3].mode = "waiting" /\ f[3].rest = <<>>
      BY <1>5, <1>9
    <3>2. PICK n \in Nat : n = 8
      OBVIOUS
    <3>3. n \in Nat /\ Steps(prog, n, f) /\ 3 \in 0..n
      BY <1>10, <3>2
    <3>4. Leaves(f[3], f[n], prog, 3, n)
      BY <3>1, <3>3, Waiting
    <3> QED
      BY <3>2, <3>4 DEF Leaves
  <2>2. [j \in 1..8 - 3 |-> prog[3 + j]] = CmdRest("scenePulse")
    BY <1>1, <1>3
  <2> QED
    BY <1>4, <1>5, <2>1, <2>2
<1>12. CmdRest("scenePulse") \in Seq(Commands!Step)
  <2> DEFINE s == CmdRest("scenePulse")
  <2>1. s = <<w1, Commands!Wait, w2, v, Commands!NextAction>>
    BY <1>1
  <2>2. DOMAIN s = 1..5 /\ s[1] = w1 /\ s[2] = Commands!Wait /\ s[3] = w2 /\ s[4] = v /\ s[5] = Commands!NextAction
        /\ s = [i \in 1..5 |-> s[i]]
    BY <2>1
  <2> HIDE DEF s
  <2>3. \A i \in 1..5 : s[i] \in Commands!Step
    <3> SUFFICES ASSUME NEW i \in 1..5 PROVE s[i] \in Commands!Step
      OBVIOUS
    <3>1. i \in {1, 2, 3, 4, 5}
      OBVIOUS
    <3> QED
      BY <1>2, <2>2, <3>1
  <2>4. s \in Seq(Commands!Step)
    BY <2>2, <2>3
  <2> QED
    BY <2>4 DEF s
<1>13. st \in CmdState /\ st.rest = CmdRest("scenePulse") /\ st.bus = b.bus /\ st.fire = b.fire /\ st.failed = b.failed
       /\ st.virtual = b.virtual /\ st.wrote = b.wrote
  BY <1>9, <1>11, <1>12 DEF CmdState, Same
<1>14. st.failed = FALSE /\ CmdLeft("none", dBus, dVirtual, dFire) => CmdLeft("scenePulse", st.bus, st.virtual, st.fire)
  BY <1>8, <1>13, CmdNames DEF CmdLeft
<1>15. st.failed = TRUE => st.wrote = FALSE
  BY <1>8, <1>13
<1> QED
  BY <1>8, <1>13, <1>14, <1>15, CmdNames DEF CmdEnds, CmdTags

(* A job that goes on after its wait.                                          *)
LEMMA EndsRest ==
    ASSUME CmdKinds, NEW kind, NEW tag \in CmdTags \ {"none"},
           NEW st, st = Commands!Run(CmdBegin, CmdRest(tag))
    PROVE  CmdEnds(st, kind, tag) /\ st.bus["switch"] = dBus["switch"]
<1>1. CASE tag \in {"flame", "level"}
  <2>1. CmdRest(tag) = <<Commands!Write(tag, "low")>>
    BY <1>1 DEF CmdRest
  <2>2. PICK v \in Commands!Values : v = "low"
    BY CmdNames
  <2>3. tag \in Commands!Addresses \ Commands!Contacts /\ tag # "switch" /\ v \in Commands!Values
    BY <1>1, <2>2, CmdNames
  <2>4. tag \in {"none", "flame", "level"} /\ st = Commands!Run(CmdBegin, <<Commands!Write(tag, v)>>)
    BY <1>1, <2>1, <2>2
  <2>5. OneEnd(st, kind, tag, tag, v)
    BY <2>3, <2>4, EndsOne
  <2> QED
    BY <2>3, <2>5 DEF OneEnd
<1>2. CASE tag = "door"
  BY <1>2, EndsDoor
<1>3. CASE tag \in {"fireOn", "fireOff", "sceneEnd"}
  BY <1>3, EndsFire
<1>4. CASE tag = "scenePulse"
  BY <1>4, EndsPulse
<1> QED
  BY <1>1, <1>2, <1>3, <1>4 DEF CmdTags

(* What a request asks of the dimmer.                                          *)
CmdDimmed(kind, v) == IF kind \in {"light.switch", "light.dim"} THEN v ELSE IF kind = "scene" THEN "on" ELSE dDimmed

(* A request that is run: what is left of it, and the dimmer's bit.            *)
CmdRuns(st, kind, v) ==
    /\ CmdEnds(st, kind, "none")
    /\ st.failed = FALSE => IF kind \in {"light.switch", "light.dim", "scene"}
                            THEN st.bus["switch"] = "off" <=> CmdDimmed(kind, v) = "off"
                            ELSE st.bus["switch"] = dBus["switch"]

TwoEnd(st, kind, ga, v, gb, w) ==
    /\ CmdEnds(st, kind, "none")
    /\ st.failed = FALSE => st.bus["switch"] = IF gb = "switch" THEN w ELSE IF ga = "switch" THEN v ELSE dBus["switch"]

LEMMA EndsTwo ==
    ASSUME CmdKinds, NEW kind, NEW ga \in {"switch", "dim", "other"}, NEW v \in Commands!Values,
           NEW gb \in {"switch", "dim", "other"}, NEW w \in Commands!Values, gb # ga => kind = "light.dim",
           NEW st, st = Commands!Run(CmdBegin, <<Commands!Write(ga, v), Commands!Write(gb, w)>>)
    PROVE  TwoEnd(st, kind, ga, v, gb, w)
<1> USE DEF TwoEnd
<1>0. ga \in Commands!Addresses /\ gb \in Commands!Addresses
  BY CmdNames
<1>1. /\ st \in CmdState /\ st.rest = <<>>
      /\ Goes(ga) /\ Goes(gb) => \E t \in CmdState : Went(CmdBegin, t, ga, v) /\ Went(t, st, gb, w)
      /\ ~(Goes(ga) /\ Goes(gb)) => st.failed = TRUE
      /\ ~Goes(ga) => st.wrote = FALSE
  <2>1. TwoWritten(st, ga, v, gb, w)
    BY <1>0, TwoWrites
  <2> QED
    BY <2>1 DEF TwoWritten
<1>2. CmdRest("none") = <<>>
  BY DEF CmdRest
<1>3. CASE Goes(ga) /\ Goes(gb)
  <2>1. PICK t \in CmdState : Went(CmdBegin, t, ga, v) /\ Went(t, st, gb, w)
    BY <1>1, <1>3
  <2>2. CmdBegin.bus = dBus /\ CmdBegin.fire = dFire /\ CmdBegin.virtual = dVirtual /\ CmdBegin.failed = FALSE
    BY DEF CmdBegin
  <2>3. \A k \in Commands!Kept : t.bus[k] = IF k = ga THEN v ELSE dBus[k]
    BY <2>1, <2>2 DEF Went
  <2>4. \A k \in Commands!Kept : st.bus[k] = IF k = gb THEN w ELSE t.bus[k]
    BY <2>1 DEF Went
  <2>5. st.fire = dFire /\ st.virtual = dVirtual /\ st.failed = FALSE
    BY <2>1, <2>2 DEF Went
  <2>6. CmdLeft("none", dBus, dVirtual, dFire) => CmdLeft("none", st.bus, st.virtual, st.fire)
    BY <2>3, <2>4, <2>5, CmdNames DEF CmdLeft
  <2> QED
    BY <1>1, <1>2, <2>3, <2>4, <2>5, <2>6, CmdNames DEF CmdEnds, CmdTags
<1>4. CASE ~(Goes(ga) /\ Goes(gb))
  <2>1. ga = gb => st.wrote = FALSE
    BY <1>1, <1>4
  <2> QED
    BY <1>1, <1>2, <1>4, <2>1 DEF CmdEnds, CmdTags
<1> QED
  BY <1>3, <1>4

(* The commands to the dimmer.                                                 *)
LEMMA RunsLight ==
    ASSUME CmdKinds, NEW kind \in {"light.switch", "light.dim"}, NEW v \in Commands!Values,
           NEW st, st = Commands!Run(CmdBegin, Commands!LightProgram(kind, v))
    PROVE  CmdRuns(st, kind, v)
<1>0. PICK switch, dim, on, none : switch = "switch" /\ dim = "dim" /\ on = "on" /\ none = "none"
  OBVIOUS
<1>a. switch \in {"switch", "dim", "other"} /\ dim \in {"switch", "dim", "other"} /\ on \in Commands!Values
  BY <1>0, CmdNames
<1>1. CASE kind = "light.switch"
  <2>1. switch \in Commands!Addresses \ Commands!Contacts /\ none \in {"none", "flame", "level"}
    BY <1>0, CmdNames
  <2>2. st = Commands!Run(CmdBegin, <<Commands!Write(switch, v)>>)
    BY <1>0, <1>1 DEF Commands!LightProgram
  <2>3. OneEnd(st, kind, none, switch, v)
    BY <2>1, <2>2, EndsOne
  <2> QED
    BY <1>0, <1>1, <2>3 DEF CmdRuns, CmdDimmed, OneEnd
<1>2. CASE kind = "light.dim" /\ v = "off"
  <2>1. st = Commands!Run(CmdBegin, <<Commands!Write(dim, v), Commands!Write(switch, v)>>)
    BY <1>0, <1>2 DEF Commands!LightProgram
  <2>2. kind = "light.dim"
    BY <1>2
  <2>3. TwoEnd(st, kind, dim, v, switch, v)
    BY <1>a, <2>1, <2>2, EndsTwo
  <2> QED
    BY <1>0, <1>2, <2>3 DEF CmdRuns, CmdDimmed, TwoEnd
<1>3. CASE kind = "light.dim" /\ v # "off"
  <2>1. st = Commands!Run(CmdBegin, <<Commands!Write(switch, on), Commands!Write(dim, v)>>)
    BY <1>0, <1>3 DEF Commands!LightProgram
  <2>2. kind = "light.dim"
    BY <1>3
  <2>3. TwoEnd(st, kind, switch, on, dim, v)
    BY <1>a, <2>1, <2>2, EndsTwo
  <2> QED
    BY <1>0, <1>3, <2>3 DEF CmdRuns, CmdDimmed, TwoEnd
<1> QED
  BY <1>1, <1>2, <1>3

(* The concatenation of two sequences whose lengths are known.                 *)
Joined(x, p, q, m, n) ==
    /\ Len(x) = m + n
    /\ \A i \in 1..m : x[i] = p[i]
    /\ \A i \in 1..n : x[m + i] = q[i]

LEMMA Concat ==
    ASSUME NEW S, NEW p \in Seq(S), NEW q \in Seq(S)
    PROVE  p \o q \in Seq(S) /\ Joined(p \o q, p, q, Len(p), Len(q))
  BY DEF Joined

LEMMA Joins ==
    ASSUME NEW S, NEW p \in Seq(S), NEW q \in Seq(S), NEW m, NEW n, Len(p) = m, Len(q) = n, NEW x, x = p \o q
    PROVE  x \in Seq(S) /\ Joined(x, p, q, m, n)
<1>1. p \o q \in Seq(S) /\ Joined(p \o q, p, q, Len(p), Len(q))
  BY Concat
<1> QED
  BY <1>1

LEMMA SameItems ==
    ASSUME NEW S, NEW x \in Seq(S), NEW y \in Seq(S), Len(x) = Len(y), \A i \in 1..Len(y) : x[i] = y[i]
    PROVE  x = y
  OBVIOUS

FourSplit(a, b, c, d) == <<a, b, c>> \o <<d>> = <<a, b>> \o <<c, d>>

LEMMA SplitFour ==
    ASSUME NEW a, NEW b, NEW c, NEW d PROVE FourSplit(a, b, c, d)
<1> USE DEF FourSplit
<1>1. PICK S : S = {a, b, c, d}
  OBVIOUS
<1>2. PICK p, q, r, s : p = <<a, b, c>> /\ q = <<d>> /\ r = <<a, b>> /\ s = <<c, d>>
  OBVIOUS
<1>3. p \in Seq(S) /\ q \in Seq(S) /\ r \in Seq(S) /\ s \in Seq(S) /\ Len(p) = 3 /\ Len(q) = 1 /\ Len(r) = 2 /\ Len(s) = 2
      /\ p[1] = a /\ p[2] = b /\ p[3] = c /\ q[1] = d /\ r[1] = a /\ r[2] = b /\ s[1] = c /\ s[2] = d
  BY <1>1, <1>2
<1>4. PICK x, y : x = p \o q /\ y = r \o s
  OBVIOUS
<1>5. PICK k, l, m : k = 1 /\ l = 2 /\ m = 3
  OBVIOUS
<1>6. Len(p) = m /\ Len(q) = k /\ Len(r) = l /\ Len(s) = l
  BY <1>3, <1>5
<1>7. x \in Seq(S) /\ Joined(x, p, q, m, k)
  BY <1>3, <1>4, <1>6, Joins
<1>8. y \in Seq(S) /\ Joined(y, r, s, l, l)
  BY <1>3, <1>4, <1>6, Joins
<1>9. Len(x) = 4 /\ x[1] = a /\ x[2] = b /\ x[3] = c /\ x[4] = d
  <2>1. Len(x) = 4 /\ (\A i \in 1..3 : x[i] = p[i]) /\ \A i \in 1..1 : x[3 + i] = q[i]
    BY <1>5, <1>7 DEF Joined
  <2> QED
    BY <1>3, <2>1
<1>10. Len(y) = 4 /\ y[1] = a /\ y[2] = b /\ y[3] = c /\ y[4] = d
  <2>1. Len(y) = 4 /\ (\A i \in 1..2 : y[i] = r[i]) /\ \A i \in 1..2 : y[2 + i] = s[i]
    BY <1>5, <1>8 DEF Joined
  <2> QED
    BY <1>3, <2>1
<1>11. x = y
  <2>1. \A i \in 1..4 : x[i] = y[i]
    BY <1>9, <1>10
  <2>2. Len(x) = Len(y) /\ \A i \in 1..Len(y) : x[i] = y[i]
    BY <1>9, <1>10, <2>1
  <2> QED
    BY <1>7, <1>8, <2>2, SameItems
<1> QED
  BY <1>2, <1>4, <1>11

LEMMA SplitThree ==
    ASSUME NEW a, NEW b, NEW c PROVE <<a, b, c>> = <<a, b>> \o <<c>> /\ <<a>> \o <<b, c>> = <<a, b>> \o <<c>>
<1>1. PICK S : S = {a, b, c}
  OBVIOUS
<1>2. PICK p, q, r, s, t : p = <<a, b>> /\ q = <<c>> /\ r = <<a>> /\ s = <<b, c>> /\ t = <<a, b, c>>
  OBVIOUS
<1>3. p \in Seq(S) /\ q \in Seq(S) /\ r \in Seq(S) /\ s \in Seq(S) /\ t \in Seq(S) /\ Len(p) = 2 /\ Len(q) = 1
      /\ Len(r) = 1 /\ Len(s) = 2 /\ Len(t) = 3 /\ p[1] = a /\ p[2] = b /\ q[1] = c /\ r[1] = a /\ s[1] = b /\ s[2] = c
      /\ t[1] = a /\ t[2] = b /\ t[3] = c
  BY <1>1, <1>2
<1>4. PICK x, y : x = p \o q /\ y = r \o s
  OBVIOUS
<1>5. PICK k, l : k = 1 /\ l = 2
  OBVIOUS
<1>6. Len(p) = l /\ Len(q) = k /\ Len(r) = k /\ Len(s) = l
  BY <1>3, <1>5
<1>7. x \in Seq(S) /\ Joined(x, p, q, l, k)
  BY <1>3, <1>4, <1>6, Joins
<1>8. y \in Seq(S) /\ Joined(y, r, s, k, l)
  BY <1>3, <1>4, <1>6, Joins
<1>9. Len(x) = 3 /\ x[1] = a /\ x[2] = b /\ x[3] = c
  <2>1. Len(x) = 3 /\ (\A i \in 1..2 : x[i] = p[i]) /\ \A i \in 1..1 : x[2 + i] = q[i]
    BY <1>5, <1>7 DEF Joined
  <2> QED
    BY <1>3, <2>1
<1>10. Len(y) = 3 /\ y[1] = a /\ y[2] = b /\ y[3] = c
  <2>1. Len(y) = 3 /\ (\A i \in 1..1 : y[i] = r[i]) /\ \A i \in 1..2 : y[1 + i] = s[i]
    BY <1>5, <1>8 DEF Joined
  <2> QED
    BY <1>3, <2>1
<1>11. ASSUME NEW z \in Seq(S), Len(z) = 3, z[1] = a, z[2] = b, z[3] = c PROVE z = t
  <2>1. \A i \in 1..3 : z[i] = t[i]
    BY <1>3, <1>11
  <2>2. Len(z) = Len(t) /\ \A i \in 1..Len(t) : z[i] = t[i]
    BY <1>3, <1>11, <2>1
  <2> QED
    BY <1>3, <2>2, SameItems
<1>12. x = t /\ y = t
  BY <1>7, <1>8, <1>9, <1>10, <1>11
<1> QED
  BY <1>2, <1>4, <1>12

(* The commands to the fire.                                                   *)
LEMMA RunsFire ==
    ASSUME CmdKinds, NEW kind \in {"fireplace.on", "fireplace.discrete"}, NEW v \in {"on", "off"},
           NEW st, st = Commands!Run(CmdBegin, Commands!FireProgram(kind, v))
    PROVE  CmdRuns(st, kind, v)
<1>0. PICK contact, on, none, onOff, flame :
         /\ contact = IF v = "off" THEN "fireOff" ELSE "fireOn"
         /\ on = "on" /\ none = "none" /\ onOff = "onOff" /\ flame = "flame"
  OBVIOUS
<1>b. v \in Commands!Values /\ on \in Commands!Values /\ none \in {"none", "scenePulse"}
      /\ none \in {"none", "flame", "level"} /\ contact \in {"fireOn", "fireOff"}
      /\ contact \in Commands!Addresses \ {"switch"} /\ onOff \in Commands!Addresses \ Commands!Contacts
      /\ onOff \in Commands!Addresses \ {"switch"} /\ onOff \notin Commands!Contacts /\ onOff # "switch"
  BY <1>0, CmdNames
<1>c. CmdRest("none") = <<>> /\ dUp \in BOOLEAN
  BY DEF CmdRest, CmdKinds
<1>a. CmdEnds(st, kind, none) /\ st.bus["switch"] = dBus["switch"] => CmdRuns(st, kind, v)
  BY <1>0 DEF CmdRuns
<1>1. CASE kind = "fireplace.discrete" /\ "discrete" \notin dHas
  <2>1. st = Commands!Run(CmdBegin, <<>>)
    BY <1>1 DEF Commands!FireProgram
  <2>2. PICK prog : prog = <<>> /\ Len(prog) = 0 /\ st = Commands!Run(CmdBegin, prog)
    BY <2>1
  <2>3. st = CmdBegin
    BY <2>2, RunFacts DEF Traced
  <2>4. CmdBegin.rest = <<>> /\ CmdBegin.bus = dBus /\ CmdBegin.virtual = dVirtual /\ CmdBegin.fire = dFire
        /\ CmdBegin.failed = FALSE
    BY DEF CmdBegin
  <2>5. st \in CmdState
    BY <2>3, BeginKind
  <2> QED
    BY <1>a, <1>c, <1>0, <2>3, <2>4, <2>5 DEF CmdEnds, CmdTags
<1>2. CASE ~(kind = "fireplace.discrete" /\ "discrete" \notin dHas) /\ "planika" \in dHas
  <2>1. st = Commands!Run(CmdBegin, <<Commands!Write(contact, on), Commands!Virtual(v)>>)
    BY <1>0, <1>2 DEF Commands!FireProgram
  <2>2. PICK prog : prog = <<Commands!Write(contact, on), Commands!Virtual(v)>> /\ st = Commands!Run(CmdBegin, prog)
    BY <2>1
  <2>3. Shows(prog, contact, on, v)
    BY <2>2 DEF Shows
  <2>4. Shown(st, contact, on, v)
    BY <1>b, <2>2, <2>3, WriteAndShow
  <2>6. st.failed = FALSE /\ CmdLeft("none", dBus, dVirtual, dFire) => CmdLeft("none", st.bus, st.virtual, st.fire)
    BY <1>2, <1>0, <2>4, <1>c, CmdNames DEF CmdLeft, Shown
  <2>7. st.failed = TRUE /\ st.wrote = TRUE => dUp = FALSE
    BY <2>4, <1>c DEF Shown
  <2> QED
    BY <1>a, <1>0, <1>c, <2>4, <2>6, <2>7 DEF CmdEnds, CmdTags, Shown
<1>3. CASE ~(kind = "fireplace.discrete" /\ "discrete" \notin dHas) /\ "planika" \notin dHas /\ "discrete" \in dHas
  <2>1. CmdRest(contact) = <<Commands!Write(contact, "off"), Commands!Virtual(v)>>
    BY <1>0 DEF CmdRest
  <2>2. PICK a, b, c, d : a = Commands!Write(contact, on) /\ b = Commands!Wait /\ c = Commands!Write(contact, "off")
                          /\ d = Commands!Virtual(v)
    OBVIOUS
  <2>3. st = Commands!Run(CmdBegin, <<a, b, c>> \o <<d>>)
    BY <1>0, <1>3, <2>2 DEF Commands!FireProgram, Commands!Pulse
  <2>4. FourSplit(a, b, c, d)
    BY SplitFour
  <2>5. st = Commands!Run(CmdBegin, <<a, b>> \o <<c, d>>)
    BY <2>3, <2>4 DEF FourSplit
  <2>6. st = Commands!Run(CmdBegin, <<Commands!Write(contact, on), Commands!Wait>> \o CmdRest(contact))
    BY <2>1, <2>2, <2>5
  <2>7. contact \in {"flame", "level", "door", "fireOn", "fireOff"}
        /\ CASE contact = "door" -> contact = "door"
             [] contact = "fireOn" -> contact = "fireOn" /\ on = "on"
             [] contact = "fireOff" -> contact = "fireOff" /\ on = "on"
             [] OTHER -> contact \notin Commands!Contacts
    BY <1>0
  <2>8. WaitEnd(st, kind, none)
    BY <1>b, <2>6, <2>7, EndsWaiting
  <2> QED
    BY <1>a, <2>8 DEF WaitEnd
<1>4. CASE ~(kind = "fireplace.discrete" /\ "discrete" \notin dHas) /\ "planika" \notin dHas /\ "discrete" \notin dHas
           /\ v # "off" /\ "onPercent" \in dHas
  <2>1. CmdRest(flame) = <<Commands!Write("flame", "low")>>
    BY <1>0 DEF CmdRest
  <2>2. PICK a, b, c : a = Commands!Write(onOff, v) /\ b = Commands!Wait /\ c = Commands!Write("flame", "low")
    OBVIOUS
  <2>3. st = Commands!Run(CmdBegin, <<a, b, c>>)
    BY <1>0, <1>4, <2>2 DEF Commands!FireProgram
  <2>4. <<a, b, c>> = <<a, b>> \o <<c>>
    BY SplitThree
  <2>5. st = Commands!Run(CmdBegin, <<a, b>> \o <<c>>)
    BY <2>3, <2>4
  <2>6. st = Commands!Run(CmdBegin, <<Commands!Write(onOff, v), Commands!Wait>> \o CmdRest(flame))
    BY <2>1, <2>2, <2>5
  <2>7. flame \in {"flame", "level", "door", "fireOn", "fireOff"}
        /\ CASE flame = "door" -> onOff = "door"
             [] flame = "fireOn" -> onOff = "fireOn" /\ v = "on"
             [] flame = "fireOff" -> onOff = "fireOff" /\ v = "on"
             [] OTHER -> onOff \notin Commands!Contacts
    BY <1>0, <1>b
  <2>8. WaitEnd(st, kind, none)
    BY <1>b, <2>6, <2>7, EndsWaiting
  <2> QED
    BY <1>a, <2>8 DEF WaitEnd
<1>5. CASE ~(kind = "fireplace.discrete" /\ "discrete" \notin dHas) /\ "planika" \notin dHas /\ "discrete" \notin dHas
           /\ ~(v # "off" /\ "onPercent" \in dHas)
  <2>1. st = Commands!Run(CmdBegin, <<Commands!Write(onOff, v)>>)
    BY <1>0, <1>5 DEF Commands!FireProgram
  <2>2. OneEnd(st, kind, none, onOff, v)
    BY <1>b, <2>1, EndsOne
  <2> QED
    BY <1>a, <1>b, <2>2 DEF OneEnd
<1> QED
  BY <1>1, <1>2, <1>3, <1>4, <1>5

(* universal.press and releaseDoor.                                            *)
LEMMA RunsUniversal ==
    ASSUME CmdKinds, NEW kind, kind \notin {"light.switch", "light.dim", "scene"}, NEW v \in {"on", "off"},
           NEW st, st = Commands!Run(CmdBegin, Commands!UniversalProgram(v))
    PROVE  CmdRuns(st, kind, v)
<1>0. PICK none, button, level : none = "none" /\ button = "button" /\ level = "level"
  OBVIOUS
<1>b. v \in Commands!Values /\ none \in {"none", "scenePulse"} /\ none \in {"none", "flame", "level"}
      /\ button \in Commands!Addresses \ Commands!Contacts /\ button \in Commands!Addresses \ {"switch"}
      /\ button \notin Commands!Contacts /\ button # "switch"
  BY <1>0, CmdNames
<1>a. CmdEnds(st, kind, none) /\ st.bus["switch"] = dBus["switch"] => CmdRuns(st, kind, v)
  BY <1>0 DEF CmdRuns
<1>1. CASE v = "on"
  <2>1. CmdRest(level) = <<Commands!Write("level", "low")>>
    BY <1>0 DEF CmdRest
  <2>2. PICK a, b, c : a = Commands!Write(button, v) /\ b = Commands!Wait /\ c = Commands!Write("level", "low")
    OBVIOUS
  <2>3. st = Commands!Run(CmdBegin, <<a>> \o <<b, c>>)
    BY <1>0, <1>1, <2>2 DEF Commands!UniversalProgram
  <2>4. <<a>> \o <<b, c>> = <<a, b>> \o <<c>>
    BY SplitThree
  <2>5. st = Commands!Run(CmdBegin, <<a, b>> \o <<c>>)
    BY <2>3, <2>4
  <2>6. st = Commands!Run(CmdBegin, <<Commands!Write(button, v), Commands!Wait>> \o CmdRest(level))
    BY <2>1, <2>2, <2>5
  <2>7. level \in {"flame", "level", "door", "fireOn", "fireOff"}
        /\ CASE level = "door" -> button = "door"
             [] level = "fireOn" -> button = "fireOn" /\ v = "on"
             [] level = "fireOff" -> button = "fireOff" /\ v = "on"
             [] OTHER -> button \notin Commands!Contacts
    BY <1>0, <1>b
  <2>8. WaitEnd(st, kind, none)
    BY <1>b, <2>6, <2>7, EndsWaiting
  <2> QED
    BY <1>a, <2>8 DEF WaitEnd
<1>2. CASE v # "on"
  <2>2. PICK a : a = Commands!Write(button, v)
    OBVIOUS
  <2>3. st = Commands!Run(CmdBegin, <<a>> \o <<>>)
    BY <1>0, <1>2, <2>2 DEF Commands!UniversalProgram
  <2>4. <<a>> \o <<>> = <<a>>
    OBVIOUS
  <2>5. st = Commands!Run(CmdBegin, <<Commands!Write(button, v)>>)
    BY <2>2, <2>3, <2>4
  <2>6. OneEnd(st, kind, none, button, v)
    BY <1>b, <2>5, EndsOne
  <2> QED
    BY <1>a, <1>b, <2>6 DEF OneEnd
<1> QED
  BY <1>1, <1>2

LEMMA RunsDoor ==
    ASSUME CmdKinds, NEW kind, kind \notin {"light.switch", "light.dim", "scene"}, NEW v,
           NEW st, st = Commands!Run(CmdBegin, Commands!Pulse("door"))
    PROVE  CmdRuns(st, kind, v)
<1>0. PICK none, door, on : none = "none" /\ door = "door" /\ on = "on"
  OBVIOUS
<1>b. on \in Commands!Values /\ none \in {"none", "scenePulse"} /\ door \in Commands!Addresses \ {"switch"}
  BY <1>0, CmdNames
<1>a. CmdEnds(st, kind, none) /\ st.bus["switch"] = dBus["switch"] => CmdRuns(st, kind, v)
  BY <1>0 DEF CmdRuns
<1>1. CmdRest(door) = <<Commands!Write("door", "off")>>
  BY <1>0 DEF CmdRest
<1>2. PICK a, b, c : a = Commands!Write(door, on) /\ b = Commands!Wait /\ c = Commands!Write("door", "off")
  OBVIOUS
<1>3. st = Commands!Run(CmdBegin, <<a, b, c>>)
  BY <1>0, <1>2 DEF Commands!Pulse
<1>4. <<a, b, c>> = <<a, b>> \o <<c>>
  BY SplitThree
<1>5. st = Commands!Run(CmdBegin, <<a, b>> \o <<c>>)
  BY <1>3, <1>4
<1>6. st = Commands!Run(CmdBegin, <<Commands!Write(door, on), Commands!Wait>> \o CmdRest(door))
  BY <1>1, <1>2, <1>5
<1>7. door \in {"flame", "level", "door", "fireOn", "fireOff"}
      /\ CASE door = "door" -> door = "door"
           [] door = "fireOn" -> door = "fireOn" /\ on = "on"
           [] door = "fireOff" -> door = "fireOff" /\ on = "on"
           [] OTHER -> door \notin Commands!Contacts
  BY <1>0
<1>8. WaitEnd(st, kind, none)
  BY <1>b, <1>6, <1>7, EndsWaiting
<1> QED
  BY <1>a, <1>8 DEF WaitEnd

LEMMA RunsOther ==
    ASSUME CmdKinds, NEW kind, kind \notin {"light.switch", "light.dim", "scene"}, NEW v \in Commands!Values,
           NEW st, \/ st = Commands!Run(CmdBegin, <<Commands!Write("other", v)>>)
                   \/ st = Commands!Run(CmdBegin, Commands!TunableProgram)
    PROVE  CmdRuns(st, kind, v)
<1>0. PICK none, other, on : none = "none" /\ other = "other" /\ on = "on"
  OBVIOUS
<1>b. on \in Commands!Values /\ none \in {"none", "flame", "level"} /\ other \in Commands!Addresses \ Commands!Contacts
      /\ other \in {"switch", "dim", "other"} /\ other # "switch"
  BY <1>0, CmdNames
<1>a. CmdEnds(st, kind, none) /\ (st.failed = FALSE => st.bus["switch"] = dBus["switch"]) => CmdRuns(st, kind, v)
  BY <1>0 DEF CmdRuns
<1>1. CASE st = Commands!Run(CmdBegin, <<Commands!Write("other", v)>>)
  <2>1. st = Commands!Run(CmdBegin, <<Commands!Write(other, v)>>)
    BY <1>0, <1>1
  <2>2. OneEnd(st, kind, none, other, v)
    BY <1>b, <2>1, EndsOne
  <2> QED
    BY <1>a, <1>b, <2>2 DEF OneEnd
<1>2. CASE st = Commands!Run(CmdBegin, Commands!TunableProgram)
  <2>1. st = Commands!Run(CmdBegin, <<Commands!Write(other, on), Commands!Write(other, on)>>)
    BY <1>0, <1>2 DEF Commands!TunableProgram
  <2>2. TwoEnd(st, kind, other, on, other, on)
    BY <1>b, <2>1, EndsTwo
  <2> QED
    BY <1>0, <1>a, <2>2 DEF TwoEnd
<1> QED
  BY <1>1, <1>2

(* Every request.                                                              *)
Asks(kind, v) ==
    /\ kind \in Commands!Kinds /\ v \in Commands!Values
    /\ v = "low" => kind = "light.dim"
    /\ kind \in Commands!SingleWrites \cup {"rgbw_ww.tunable_white", "releaseDoor", "scene"} => v = "on"

LEMMA RunsRequest ==
    ASSUME CmdKinds, NEW kind, NEW v, Asks(kind, v), NEW st, st = Commands!Run(CmdBegin, Commands!Program(kind, v))
    PROVE  CmdRuns(st, kind, v)
<1>1. v \in Commands!Values /\ (kind # "light.dim" => v \in {"on", "off"})
  BY CmdNames DEF Asks
<1>2. \A k \in Commands!SingleWrites : k \notin {"light.switch", "light.dim", "scene", "rgbw_ww.tunable_white", "fireplace.on",
        "fireplace.discrete", "universal.press", "releaseDoor"}
  BY DEF Commands!SingleWrites, Commands!RgbwWrites, Commands!ShadingWrites, Commands!ClimateWrites, Commands!AirWrites,
         Commands!OtherWrites
<1>3. CASE kind \in Commands!SingleWrites
  <2>1. st = Commands!Run(CmdBegin, <<Commands!Write("other", v)>>)
    BY <1>2, <1>3 DEF Commands!Program
  <2> QED
    BY <1>1, <1>2, <1>3, <2>1, RunsOther
<1>4. CASE kind = "rgbw_ww.tunable_white"
  <2>1. st = Commands!Run(CmdBegin, Commands!TunableProgram)
    BY <1>2, <1>4 DEF Commands!Program
  <2> QED
    BY <1>1, <1>4, <2>1, RunsOther
<1>5. CASE kind \in {"light.switch", "light.dim"}
  <2>1. st = Commands!Run(CmdBegin, Commands!LightProgram(kind, v))
    BY <1>2, <1>5 DEF Commands!Program
  <2> QED
    BY <1>1, <1>5, <2>1, RunsLight
<1>6. CASE kind \in {"fireplace.on", "fireplace.discrete"}
  <2>1. st = Commands!Run(CmdBegin, Commands!FireProgram(kind, v))
    BY <1>2, <1>6 DEF Commands!Program
  <2> QED
    BY <1>1, <1>6, <2>1, RunsFire
<1>7. CASE kind = "universal.press"
  <2>1. st = Commands!Run(CmdBegin, Commands!UniversalProgram(v))
    BY <1>2, <1>7 DEF Commands!Program
  <2> QED
    BY <1>1, <1>7, <2>1, RunsUniversal
<1>8. CASE kind = "releaseDoor"
  <2>1. st = Commands!Run(CmdBegin, Commands!Pulse("door"))
    BY <1>2, <1>8 DEF Commands!Program
  <2> QED
    BY <1>8, <2>1, RunsDoor
<1>9. CASE kind = "scene"
  <2>1. st = Commands!Run(CmdBegin, Commands!SceneProgram)
    BY <1>2, <1>9 DEF Commands!Program
  <2>2. CmdEnds(st, "scene", "none") /\ (st.failed = FALSE => st.bus["switch"] = "on")
    BY <2>1, EndsScene
  <2> QED
    BY <1>9, <2>2 DEF CmdRuns, CmdDimmed
<1> QED
  BY <1>3, <1>4, <1>5, <1>6, <1>7, <1>8, <1>9 DEF Asks, Commands!Kinds

(* What waits is the rest of a program; while nothing failed and no command    *)
(* came during a wait, at most one program waits, and the contacts and the     *)
(* shown fire stand as that rest needs them.                                   *)
CmdRests == {CmdRest(tag) : tag \in CmdTags \ {"none"}}
CmdJob(tag) == IF tag = "none" THEN <<>> ELSE <<CmdRest(tag)>>

CmdCalm(tag) ==
    /\ dJobs = CmdJob(tag) /\ CmdLeft(tag, dBus, dVirtual, dFire)
    /\ dBus["switch"] = "off" <=> dDimmed = "off"

CmdInv ==
    /\ CmdKinds
    /\ dHalf \subseteq {"light.dim"}
    /\ dJobs \in Seq(CmdRests)
    /\ dCalm = TRUE => \E tag \in CmdTags : CmdCalm(tag)

LEMMA RestsOfSteps ==
    /\ CmdRest("none") = <<>>
    /\ \A tag \in CmdTags \ {"none"} : CmdRest(tag) # <<>>
    /\ \A rest \in CmdRests : \A j \in DOMAIN rest : rest[j] \in Commands!Step
<1>1. CmdRest("none") = <<>>
  BY DEF CmdRest
<1>2. ASSUME NEW tag \in CmdTags \ {"none"}
      PROVE  CmdRest(tag) # <<>> /\ \A j \in DOMAIN CmdRest(tag) : CmdRest(tag)[j] \in Commands!Step
  <2>1. \A a \in Commands!Step : <<a>> # <<>> /\ \A j \in DOMAIN <<a>> : <<a>>[j] \in Commands!Step
    OBVIOUS
  <2>2. \A a \in Commands!Step : \A b \in Commands!Step :
          <<a, b>> # <<>> /\ \A j \in DOMAIN <<a, b>> : <<a, b>>[j] \in Commands!Step
    OBVIOUS
  <2>3. \A a \in Commands!Step : \A b \in Commands!Step : \A c \in Commands!Step :
          <<a, b, c>> # <<>> /\ \A j \in DOMAIN <<a, b, c>> : <<a, b, c>>[j] \in Commands!Step
    OBVIOUS
  <2>5. PICK w, x, y, z, p, q, r, s : /\ w = Commands!Write("fireOn", "on") /\ x = Commands!Wait
              /\ y = Commands!Write("fireOn", "off") /\ z = Commands!Virtual("on") /\ p = Commands!NextAction
              /\ q = Commands!Write("fireOff", "off") /\ r = Commands!Virtual("off")
              /\ s = IF tag = "door" THEN Commands!Write("door", "off") ELSE Commands!Write(tag, "low")
    OBVIOUS
  <2>6. w \in Commands!Step /\ x \in Commands!Step /\ y \in Commands!Step /\ z \in Commands!Step /\ p \in Commands!Step
        /\ q \in Commands!Step /\ r \in Commands!Step /\ (tag \in {"flame", "level", "door"} => s \in Commands!Step)
    BY <2>5, CmdSteps, CmdNames
  <2>7. CASE tag \in {"flame", "level", "door"}
    <3>1. CmdRest(tag) = <<s>> /\ s \in Commands!Step
      BY <2>5, <2>6, <2>7 DEF CmdRest
    <3> QED
      BY <2>1, <3>1
  <2>8. CASE tag = "fireOn"
    <3>1. CmdRest(tag) = <<y, z>>
      BY <2>5, <2>8 DEF CmdRest
    <3> QED
      BY <2>2, <2>6, <3>1
  <2>9. CASE tag = "fireOff"
    <3>1. CmdRest(tag) = <<q, r>>
      BY <2>5, <2>9 DEF CmdRest
    <3> QED
      BY <2>2, <2>6, <3>1
  <2>10. CASE tag = "sceneEnd"
    <3>1. CmdRest(tag) = <<y, z, p>>
      BY <2>5, <2>10 DEF CmdRest
    <3> QED
      BY <2>3, <2>6, <3>1
  <2>11. CASE tag = "scenePulse"
    <3>1. CmdRest(tag) = <<w, x, y, z, p>>
      BY <2>5, <2>11 DEF CmdRest
    <3>2. <<w, x, y, z, p>> # <<>> /\ \A j \in DOMAIN <<w, x, y, z, p>> : <<w, x, y, z, p>>[j] \in {w, x, y, z, p}
      OBVIOUS
    <3>3. {w, x, y, z, p} \subseteq Commands!Step
      BY <2>6
    <3> QED
      BY <3>1, <3>2, <3>3
  <2> QED
    BY <2>7, <2>8, <2>9, <2>10, <2>11 DEF CmdTags
<1> QED
  BY <1>1, <1>2 DEF CmdRests

LEMMA CmdStart == Commands!Init => CmdInv
<1> SUFFICES ASSUME Commands!Init PROVE CmdInv
  OBVIOUS
<1>1. CmdKinds
  BY CmdNames DEF Commands!Init, CmdKinds
<1>2. dJobs = <<>> /\ dHalf = {} /\ dVirtual = "off" /\ dFire = "off" /\ dDimmed = "off"
      /\ \A ga \in Commands!Kept : dBus[ga] = "off"
  BY DEF Commands!Init
<1>3. CmdCalm("none")
  BY <1>2, CmdNames DEF CmdCalm, CmdLeft, CmdJob
<1> QED
  BY <1>1, <1>2, <1>3 DEF CmdInv, CmdTags

(* What Execute makes of a program that ends as it should.                     *)
Executed(st, tag, others, next) ==
    /\ next \in CmdTags /\ dHas' = dHas /\ dBus' = st.bus
    /\ dJobs' = IF next = "none" THEN others ELSE Append(others, CmdRest(next))
    /\ st.failed = FALSE /\ CmdLeft(tag, dBus, dVirtual, dFire) => CmdLeft(next, dBus', dVirtual', dFire')

Carried(st, tag, others, quiet) ==
    /\ CmdKinds' /\ dHalf' \subseteq {"light.dim"} /\ dJobs' \in Seq(CmdRests)
    /\ dCalm' = TRUE => dCalm = TRUE /\ quiet = TRUE /\ st.failed = FALSE
    /\ \E next \in CmdTags : Executed(st, tag, others, next)

LEMMA CmdExecute ==
    ASSUME CmdInv, NEW prog, NEW others \in Seq(CmdRests), NEW quiet \in BOOLEAN, NEW kind, NEW tag \in CmdTags,
           Commands!Execute(prog, others, quiet, kind), dDimmed' \in Commands!Values,
           NEW st, st = Commands!Run(CmdBegin, prog), CmdEnds(st, kind, tag)
    PROVE  Carried(st, tag, others, quiet)
<1>1. /\ dBus' = st.bus /\ dVirtual' = st.virtual /\ dFire' = st.fire
      /\ dJobs' = IF st.rest = <<>> THEN others ELSE Append(others, st.rest)
      /\ dCalm' = (dCalm /\ quiet /\ ~st.failed)
      /\ dHalf' = IF st.failed /\ st.wrote /\ dUp THEN dHalf \cup {kind} ELSE dHalf
      /\ dHas' = dHas /\ dUp' = dUp
  BY DEF Commands!Execute, CmdBegin
<1>2. st \in CmdState /\ (st.failed = TRUE /\ st.wrote = TRUE /\ dUp = TRUE => kind = "light.dim")
  BY DEF CmdEnds
<1>3. /\ st.bus \in [Commands!Kept -> Commands!Values] /\ st.virtual \in Commands!Values /\ st.fire \in Commands!Values
      /\ st.failed \in BOOLEAN /\ st.wrote \in BOOLEAN
  BY <1>2 DEF CmdState
<1>4. CmdKinds /\ dUp \in BOOLEAN /\ dCalm \in BOOLEAN /\ dHalf \subseteq {"light.dim"}
  BY DEF CmdInv, CmdKinds
<1>5. dCalm' \in BOOLEAN /\ (dCalm' = TRUE => dCalm = TRUE /\ quiet = TRUE /\ st.failed = FALSE)
  BY <1>1, <1>3, <1>4
<1>6. CmdKinds'
  BY <1>1, <1>3, <1>4, <1>5 DEF CmdKinds
<1>7. dHalf' \subseteq {"light.dim"}
  BY <1>1, <1>2, <1>3, <1>4
<1>8. PICK next \in CmdTags :
        /\ st.rest = CmdRest(next)
        /\ st.failed = FALSE /\ CmdLeft(tag, dBus, dVirtual, dFire) => CmdLeft(next, st.bus, st.virtual, st.fire)
  BY DEF CmdEnds
<1>9. st.rest = <<>> <=> next = "none"
  BY <1>8, RestsOfSteps
<1>10. Executed(st, tag, others, next)
  BY <1>1, <1>8, <1>9 DEF Executed
<1>11. dJobs' \in Seq(CmdRests)
  <2>1. next # "none" => CmdRest(next) \in CmdRests
    BY <1>8 DEF CmdRests
  <2> QED
    BY <1>10, <2>1 DEF Executed
<1> QED
  BY <1>5, <1>6, <1>7, <1>8, <1>10, <1>11 DEF Carried

LEMMA CmdRequest ==
    ASSUME CmdInv, NEW kind \in Commands!Kinds, NEW v \in Commands!Values, Commands!Request(kind, v)
    PROVE  CmdInv'
<1>1. Asks(kind, v)
  BY DEF Asks, Commands!Request
<1>2. dDimmed' = CmdDimmed(kind, v) /\ dDimmed' \in Commands!Values
  BY CmdNames DEF Commands!Request, CmdDimmed, CmdInv, CmdKinds
<1>3. PICK prog, st, quiet, tag :
        /\ prog = Commands!Program(kind, v) /\ st = Commands!Run(CmdBegin, prog) /\ quiet = (dJobs = <<>>) /\ tag = "none"
  OBVIOUS
<1>a. quiet \in BOOLEAN /\ tag \in CmdTags /\ st = Commands!Run(CmdBegin, prog)
  BY <1>3 DEF CmdTags
<1>4. CmdRuns(st, kind, v)
  BY <1>1, <1>3, RunsRequest DEF CmdInv
<1>5. CmdEnds(st, kind, tag)
  BY <1>3, <1>4 DEF CmdRuns
<1>6. Commands!Execute(prog, dJobs, quiet, kind)
  BY <1>3 DEF Commands!Request
<1>7. dJobs \in Seq(CmdRests)
  BY DEF CmdInv
<1>8. /\ CmdKinds' /\ dHalf' \subseteq {"light.dim"} /\ dJobs' \in Seq(CmdRests)
      /\ dCalm' = TRUE => dCalm = TRUE /\ quiet = TRUE /\ st.failed = FALSE
      /\ \E next \in CmdTags : Executed(st, tag, dJobs, next)
  <2>1. Carried(st, tag, dJobs, quiet)
    BY <1>2, <1>a, <1>5, <1>6, <1>7, CmdExecute
  <2> QED
    BY <2>1 DEF Carried
<1>9. PICK next \in CmdTags : Executed(st, tag, dJobs, next)
  BY <1>8
<1>10. ASSUME dCalm' = TRUE PROVE CmdCalm(next)'
  <2>1. dCalm = TRUE /\ dJobs = <<>> /\ st.failed = FALSE
    BY <1>3, <1>8, <1>10
  <2>2. PICK before \in CmdTags : CmdCalm(before)
    BY <2>1 DEF CmdInv
  <2>3. before = "none"
    BY <2>1, <2>2 DEF CmdCalm, CmdJob
  <2>4. CmdLeft(tag, dBus, dVirtual, dFire) /\ (dBus["switch"] = "off" <=> dDimmed = "off")
    BY <1>3, <2>2, <2>3 DEF CmdCalm
  <2>5. CmdLeft(next, dBus', dVirtual', dFire') /\ dHas' = dHas /\ dBus' = st.bus
        /\ dJobs' = IF next = "none" THEN <<>> ELSE Append(<<>>, CmdRest(next))
    BY <1>9, <2>1, <2>4 DEF Executed
  <2>6. CmdLeft(next, dBus, dVirtual, dFire)'
    BY <2>5 DEF CmdLeft
  <2>7. dJobs' = CmdJob(next)
    BY <2>5 DEF CmdJob
  <2>8. dBus'["switch"] = "off" <=> dDimmed' = "off"
    BY <1>2, <1>4, <2>1, <2>4, <2>5 DEF CmdRuns, CmdDimmed
  <2>9. CmdJob(next)' = CmdJob(next)
    BY DEF CmdJob, CmdRest, Commands!Write, Commands!Wait, Commands!Virtual, Commands!NextAction
  <2> QED
    BY <2>6, <2>7, <2>8, <2>9 DEF CmdCalm
<1> QED
  BY <1>8, <1>9, <1>10 DEF CmdInv

LEMMA CmdWaitOver ==
    ASSUME CmdInv, NEW i, Commands!WaitOver(i)
    PROVE  CmdInv'
<1>1. i \in DOMAIN dJobs /\ dJobs \in Seq(CmdRests) /\ dJobs[i] \in CmdRests
  BY DEF Commands!WaitOver, CmdInv
<1>2. PICK tag \in CmdTags \ {"none"} : dJobs[i] = CmdRest(tag) /\ (dCalm = TRUE => CmdCalm(tag))
  <2>1. CASE dCalm = TRUE
    <3>1. PICK tag \in CmdTags : CmdCalm(tag)
      BY <2>1 DEF CmdInv
    <3>2. dJobs # <<>>
      BY <1>1
    <3>3. tag # "none" /\ dJobs = <<CmdRest(tag)>>
      BY <3>1, <3>2 DEF CmdCalm, CmdJob
    <3>4. i = 1
      BY <1>1, <3>3
    <3> QED
      BY <3>1, <3>3, <3>4
  <2>2. CASE dCalm # TRUE
    BY <1>1, <2>2 DEF CmdRests
  <2> QED
    BY <2>1, <2>2
<1>3. PICK others : others = [j \in 1..Len(dJobs) - 1 |-> IF j < i THEN dJobs[j] ELSE dJobs[j + 1]]
  OBVIOUS
<1>4. others \in Seq(CmdRests)
  <2>1. PICK n \in Nat : n = Len(dJobs) - 1 /\ n >= 0 /\ \A j \in 1..n + 1 : dJobs[j] \in CmdRests
    BY <1>1
  <2>2. others \in [1..n -> CmdRests]
    BY <1>1, <1>3, <2>1
  <2> QED
    BY <2>1, <2>2
<1>5. PICK prog, st, quiet, kind :
        prog = dJobs[i] /\ st = Commands!Run(CmdBegin, prog) /\ quiet = TRUE /\ kind = "scene"
  OBVIOUS
<1>a. quiet \in BOOLEAN /\ st = Commands!Run(CmdBegin, prog)
  BY <1>5
<1>6. Commands!Execute(prog, others, quiet, kind) /\ dDimmed' = dDimmed
  BY <1>3, <1>5 DEF Commands!WaitOver
<1>7. CmdEnds(st, kind, tag) /\ st.bus["switch"] = dBus["switch"]
  <2>1. CmdKinds /\ st = Commands!Run(CmdBegin, CmdRest(tag))
    BY <1>2, <1>5 DEF CmdInv
  <2> QED
    BY <1>2, <2>1, EndsRest
<1>8. tag \in CmdTags /\ dDimmed' \in Commands!Values
  BY <1>6 DEF CmdInv, CmdKinds
<1>9. /\ CmdKinds' /\ dHalf' \subseteq {"light.dim"} /\ dJobs' \in Seq(CmdRests)
      /\ dCalm' = TRUE => dCalm = TRUE /\ quiet = TRUE /\ st.failed = FALSE
      /\ \E next \in CmdTags : Executed(st, tag, others, next)
  <2>1. Carried(st, tag, others, quiet)
    BY <1>4, <1>a, <1>6, <1>7, <1>8, CmdExecute
  <2> QED
    BY <2>1 DEF Carried
<1>10. PICK next \in CmdTags : Executed(st, tag, others, next)
  BY <1>9
<1>11. ASSUME dCalm' = TRUE PROVE CmdCalm(next)'
  <2>1. CmdCalm(tag) /\ st.failed = FALSE
    BY <1>2, <1>9, <1>11
  <2>2. dJobs = <<CmdRest(tag)>> /\ CmdLeft(tag, dBus, dVirtual, dFire) /\ (dBus["switch"] = "off" <=> dDimmed = "off")
    BY <1>2, <2>1 DEF CmdCalm, CmdJob
  <2>3. others = <<>>
    BY <1>3, <2>2
  <2>4. CmdLeft(next, dBus', dVirtual', dFire') /\ dHas' = dHas /\ dBus' = st.bus
        /\ dJobs' = IF next = "none" THEN <<>> ELSE Append(<<>>, CmdRest(next))
    BY <1>10, <2>1, <2>2, <2>3 DEF Executed
  <2>5. CmdLeft(next, dBus, dVirtual, dFire)'
    BY <2>4 DEF CmdLeft
  <2>6. dJobs' = CmdJob(next)
    BY <2>4 DEF CmdJob
  <2>7. dBus'["switch"] = "off" <=> dDimmed' = "off"
    BY <1>6, <1>7, <2>2, <2>4
  <2>8. CmdJob(next)' = CmdJob(next)
    BY DEF CmdJob, CmdRest, Commands!Write, Commands!Wait, Commands!Virtual, Commands!NextAction
  <2> QED
    BY <2>5, <2>6, <2>7, <2>8 DEF CmdCalm
<1> QED
  BY <1>9, <1>10, <1>11 DEF CmdInv

LEMMA CmdStep == CmdInv /\ [Commands!Next]_dVars => CmdInv'
<1> SUFFICES ASSUME CmdInv, [Commands!Next]_dVars PROVE CmdInv'
  OBVIOUS
<1>1. ASSUME NEW kind \in Commands!Kinds, NEW v \in Commands!Values, Commands!Request(kind, v) PROVE CmdInv'
  BY <1>1, CmdRequest
<1>2. ASSUME NEW i \in 1..dMaxJobs, Commands!WaitOver(i) PROVE CmdInv'
  BY <1>2, CmdWaitOver
<1>3. CASE Commands!TunnelChanges
  <2>1. dUp' \in BOOLEAN /\ UNCHANGED <<dHas, dBus, dJobs, dVirtual, dFire, dDimmed, dHalf, dCalm>>
    BY <1>3 DEF Commands!TunnelChanges, CmdInv, CmdKinds
  <2>2. CmdKinds'
    BY <2>1 DEF CmdInv, CmdKinds
  <2>3. \A tag \in CmdTags : CmdCalm(tag) => CmdCalm(tag)'
    BY <2>1 DEF CmdCalm, CmdLeft, CmdJob, CmdRest, Commands!Write, Commands!Wait, Commands!Virtual, Commands!NextAction
  <2> QED
    BY <2>1, <2>2, <2>3 DEF CmdInv
<1>4. CASE Commands!Restart
  <2>1. dJobs' = <<>> /\ dVirtual' = "off" /\ dCalm' = FALSE /\ UNCHANGED <<dHas, dUp, dBus, dFire, dDimmed, dHalf>>
    BY <1>4 DEF Commands!Restart
  <2>2. CmdKinds'
    BY <2>1, CmdNames DEF CmdInv, CmdKinds
  <2>3. dHalf' \subseteq {"light.dim"} /\ dCalm' # TRUE
    BY <2>1 DEF CmdInv
  <2>4. dJobs' \in Seq(CmdRests)
    BY <2>1
  <2> QED
    BY <2>2, <2>3, <2>4 DEF CmdInv
<1>5. CASE UNCHANGED dVars
  <2>1. UNCHANGED <<dHas, dUp, dBus, dJobs, dVirtual, dFire, dDimmed, dHalf, dCalm>>
    BY <1>5 DEF dVars
  <2>2. CmdKinds'
    BY <2>1 DEF CmdInv, CmdKinds
  <2>3. \A tag \in CmdTags : CmdCalm(tag) => CmdCalm(tag)'
    BY <2>1 DEF CmdCalm, CmdLeft, CmdJob, CmdRest, Commands!Write, Commands!Wait, Commands!Virtual, Commands!NextAction
  <2> QED
    BY <2>1, <2>2, <2>3 DEF CmdInv
<1> QED
  BY <1>1, <1>2, <1>3, <1>4, <1>5 DEF Commands!Next

LEMMA CmdIsSound == CmdInv => Commands!CommandsSound /\ Commands!TypesOK
<1> SUFFICES ASSUME CmdInv PROVE Commands!CommandsSound /\ Commands!TypesOK
  OBVIOUS
<1>1. Commands!CommandsSettle
  <2> SUFFICES ASSUME dJobs = <<>>, dCalm = TRUE
               PROVE  /\ dBus["door"] = "off"
                      /\ "planika" \notin dHas => dBus["fireOn"] = "off" /\ dBus["fireOff"] = "off"
                      /\ dVirtual = dFire
                      /\ dBus["switch"] = "off" <=> dDimmed = "off"
    BY DEF Commands!CommandsSettle, CmdInv, CmdKinds
  <2>1. PICK tag \in CmdTags : CmdCalm(tag)
    BY DEF CmdInv
  <2>2. tag = "none"
    BY <2>1 DEF CmdCalm, CmdJob
  <2> QED
    BY <2>1, <2>2 DEF CmdCalm, CmdLeft
<1>2. Commands!RefusedWhole
  BY DEF CmdInv, Commands!RefusedWhole
<1>3. \A i \in DOMAIN dJobs : \A j \in DOMAIN dJobs[i] : dJobs[i][j] \in Commands!Step
  <2>1. \A i \in DOMAIN dJobs : dJobs[i] \in CmdRests
    BY DEF CmdInv
  <2> QED
    BY <2>1, RestsOfSteps
<1>4. dHalf \subseteq Commands!Kinds
  BY DEF CmdInv, Commands!Kinds
<1>5. Commands!TypesOK
  BY <1>3, <1>4 DEF CmdInv, CmdKinds, Commands!TypesOK
<1> QED
  BY <1>1, <1>2, <1>5 DEF Commands!CommandsSound

(* Once no program is left, and none overlapped or failed, every contact is    *)
(* open again, the shown fire is the one its contacts were told, and the       *)
(* dimmer's bit agrees with its level; and a command that is refused because   *)
(* an address is missing has written nothing, but for a dimmer: dispatch of    *)
(* commands.ts, fireplacePulse.ts, scenes.ts, for any number of requests that  *)
(* wait at once.                                                               *)
THEOREM CommandsAlwaysSound == Spec => []CommandsSound
<1> DEFINE Inv == /\ part = "commands" => CmdInv
<1>1. Init => Inv
  BY InitOf, CmdStart
<1>2. Inv /\ [Next]_allVars => Inv'
  BY StepOf, CmdStep
<1>3. Inv => CommandsSound
  BY CmdIsSound DEF CommandsSound
<1> QED
  BY <1>1, <1>2, <1>3, PTL DEF Spec

------------------------------------------------------------------------------
(* What the two tables make of an address entered: the fields with a role are  *)
(* those that are listened to.                                                 *)
LEMMA FieldsOfTo == \A F, r : Roles!Fields(Roles!To(F, r)) = F
<1> TAKE F, r
<1>1. ASSUME NEW f \in F PROVE f \in Roles!Fields(Roles!To(F, r))
  <2>1. <<f, r>> \in Roles!To(F, r) /\ f = <<f, r>>[1]
    BY DEF Roles!To
  <2> QED
    BY <2>1 DEF Roles!Fields
<1>2. ASSUME NEW f \in Roles!Fields(Roles!To(F, r)) PROVE f \in F
  BY DEF Roles!Fields, Roles!To
<1> QED
  BY <1>1, <1>2

LEMMA FieldsOfBoth == \A P, Q : Roles!Fields(P \cup Q) = Roles!Fields(P) \cup Roles!Fields(Q)
  BY DEF Roles!Fields

LEMMA FieldsIndexed ==
    ASSUME NEW p
    PROVE  Roles!Fields(Roles!BuildGAIndex(p)) = p.filled \cap Roles!Fields(Roles!RolesOf(p.kind, p.opt))
  BY DEF Roles!Fields, Roles!BuildGAIndex

LEMMA UnitsIndexed ==
    /\ Roles!Fields(Roles!LogicRoles) = Roles!Logic \cup {"tempRise"}
    /\ \A dpt : Roles!Fields(Roles!ModbusSubscriptions(dpt)) = Roles!Modbus \cup Roles!Logic \cup {"tempRise"}
<1>1. Roles!Fields(Roles!LogicRoles) = Roles!Logic \cup {"tempRise"}
  BY FieldsOfTo, FieldsOfBoth DEF Roles!LogicRoles
<1> QED
  BY <1>1, FieldsOfTo, FieldsOfBoth DEF Roles!ModbusSubscriptions

LEMMA AllIndexed ==
    ASSUME NEW kind \in Roles!Kinds, NEW opt \in Roles!Options[kind]
    PROVE  Roles!Fields(Roles!RolesOf(kind, opt)) = Roles!Listened(kind, opt)
<1>1. CASE kind \in {"light", "shading", "rgbw_ww"}
  <2>1. Roles!RolesOf(kind, opt) = {<<f, f>> : f \in Roles!FieldsOf(kind)}
    BY <1>1 DEF Roles!RolesOf
  <2>2. Roles!Listened(kind, opt) = Roles!FieldsOf(kind)
    BY <1>1 DEF Roles!Listened
  <2>3. ASSUME NEW f \in Roles!FieldsOf(kind) PROVE f \in Roles!Fields(Roles!RolesOf(kind, opt))
    <3>1. <<f, f>> \in Roles!RolesOf(kind, opt) /\ f = <<f, f>>[1]
      BY <2>1
    <3> QED
      BY <3>1 DEF Roles!Fields
  <2>4. ASSUME NEW f \in Roles!Fields(Roles!RolesOf(kind, opt)) PROVE f \in Roles!FieldsOf(kind)
    BY <2>1 DEF Roles!Fields
  <2> QED
    BY <2>2, <2>3, <2>4
<1>2. CASE kind = "climate"
  <2>1. Roles!RolesOf(kind, opt) = {<<f, Roles!ClimateBusRole(opt, f)>> : f \in Roles!ClimateGA}
    BY <1>2 DEF Roles!RolesOf
  <2>2. Roles!Listened(kind, opt) = Roles!ClimateGA
    BY <1>2 DEF Roles!Listened, Roles!FieldsOf
  <2>3. ASSUME NEW f \in Roles!ClimateGA PROVE f \in Roles!Fields(Roles!RolesOf(kind, opt))
    <3>1. <<f, Roles!ClimateBusRole(opt, f)>> \in Roles!RolesOf(kind, opt) /\ f = <<f, Roles!ClimateBusRole(opt, f)>>[1]
      BY <2>1
    <3> QED
      BY <3>1 DEF Roles!Fields
  <2>4. ASSUME NEW f \in Roles!Fields(Roles!RolesOf(kind, opt)) PROVE f \in Roles!ClimateGA
    BY <2>1 DEF Roles!Fields
  <2> QED
    BY <2>2, <2>3, <2>4
<1>3. CASE kind = "fireplace"
  <2>1. Roles!Fields(Roles!RolesOf(kind, opt)) = {"onOff"} \cup Roles!DiscreteLevel \cup {"onOffStatus"}
            \cup ({"safetyLockout"} \cup Roles!StatusBits) \cup {"flame"} \cup {"flameStatus"}
    <3> DEFINE Switched == Roles!To({"onOff"} \cup Roles!DiscreteLevel, "switch")
               Feedback    == Roles!To({"onOffStatus"}, "switch_status")
               Bits     == Roles!To({"safetyLockout"} \cup Roles!StatusBits, "bit")
               Flame    == Roles!To({"flame"}, IF opt = "steps" THEN "flame" ELSE "percent")
               Seen     == Roles!To({"flameStatus"}, IF opt = "steps" THEN "flame_status" ELSE "percent")
    <3>1. Roles!RolesOf(kind, opt) = Switched \cup Feedback \cup Bits \cup Flame \cup Seen
      BY <1>3 DEF Roles!RolesOf, Roles!FireplaceRoles
    <3>2. /\ Roles!Fields(Switched) = {"onOff"} \cup Roles!DiscreteLevel /\ Roles!Fields(Feedback) = {"onOffStatus"}
          /\ Roles!Fields(Bits) = {"safetyLockout"} \cup Roles!StatusBits
          /\ Roles!Fields(Flame) = {"flame"} /\ Roles!Fields(Seen) = {"flameStatus"}
      BY FieldsOfTo, Zenon
    <3> HIDE DEF Switched, Feedback, Bits, Flame, Seen
    <3>3. Roles!Fields(Switched \cup Feedback \cup Bits)
              = Roles!Fields(Switched) \cup Roles!Fields(Feedback) \cup Roles!Fields(Bits)
      BY DEF Roles!Fields
    <3>4. Roles!Fields(Switched \cup Feedback \cup Bits \cup Flame \cup Seen)
              = Roles!Fields(Switched \cup Feedback \cup Bits) \cup Roles!Fields(Flame) \cup Roles!Fields(Seen)
      BY DEF Roles!Fields
    <3> QED
      BY <3>1, <3>2, <3>3, <3>4, Zenon
  <2>2. Roles!Listened(kind, opt) = Roles!Fireplace
    BY <1>3 DEF Roles!Listened, Roles!FieldsOf
  <2> QED
    BY <2>1, <2>2 DEF Roles!Fireplace
<1>4. CASE kind = "ac"
  <2>1. Roles!Fields(Roles!RolesOf(kind, opt)) = {e[1] : e \in Roles!AcRoles}
    BY <1>4 DEF Roles!RolesOf, Roles!Fields
  <2>2. Roles!Listened(kind, opt) = Roles!Ac
    BY <1>4 DEF Roles!Listened, Roles!FieldsOf
  <2>3. {e[1] : e \in Roles!AcRoles} = Roles!Ac
    BY DEF Roles!AcRoles, Roles!Ac
  <2> QED
    BY <2>1, <2>2, <2>3
<1>5. CASE kind = "fan"
  <2> DEFINE Of == IF Roles!IsMv(opt) THEN Roles!MvSubscriptions(opt) ELSE {}
  <2>1. Roles!Fields(Roles!RolesOf(kind, opt)) = {"onOff", "oscillate", "direction"}
            \cup {"onOffStatus", "oscillateStatus", "directionStatus"} \cup {"speed", "speedStatus"} \cup Roles!Fields(Of)
    <3> DEFINE Switched == Roles!To({"onOff", "oscillate", "direction"}, "switch")
               Feedback    == Roles!To({"onOffStatus", "oscillateStatus", "directionStatus"}, "switch_status")
               Speed    == Roles!To({"speed", "speedStatus"}, IF opt = "steps" THEN "byte" ELSE "percent")
    <3>1. Roles!RolesOf(kind, opt) = Switched \cup Feedback \cup Speed \cup Of
      BY <1>5 DEF Roles!RolesOf, Roles!FanRoles
    <3>2. /\ Roles!Fields(Switched) = {"onOff", "oscillate", "direction"}
          /\ Roles!Fields(Feedback) = {"onOffStatus", "oscillateStatus", "directionStatus"}
          /\ Roles!Fields(Speed) = {"speed", "speedStatus"}
      BY FieldsOfTo, Zenon
    <3> HIDE DEF Switched, Feedback, Speed, Of
    <3>3. Roles!Fields(Switched \cup Feedback \cup Speed)
              = Roles!Fields(Switched) \cup Roles!Fields(Feedback) \cup Roles!Fields(Speed)
      BY DEF Roles!Fields
    <3>4. Roles!Fields(Switched \cup Feedback \cup Speed \cup Of)
              = Roles!Fields(Switched \cup Feedback \cup Speed) \cup Roles!Fields(Of)
      BY FieldsOfBoth
    <3> QED
      BY <3>1, <3>2, <3>3, <3>4, Zenon
  <2>2. Roles!Listened(kind, opt) = Roles!Fan \cup Roles!Fields(Of)
    BY <1>5 DEF Roles!Listened, Roles!Fields
  <2> QED
    BY <2>1, <2>2 DEF Roles!Fan
<1>6. CASE kind = "universal"
  <2>1. Roles!Fields(Roles!RolesOf(kind, opt)) = (Roles!Universal \ {"level"}) \cup {"level"}
    BY <1>6, FieldsOfTo, FieldsOfBoth DEF Roles!RolesOf
  <2>2. Roles!Listened(kind, opt) = Roles!Universal
    BY <1>6 DEF Roles!Listened, Roles!FieldsOf
  <2> QED
    BY <2>1, <2>2 DEF Roles!Universal
<1>7. CASE kind = "wtw"
  BY <1>7 DEF Roles!RolesOf, Roles!Listened
<1>8. CASE kind = "modbus"
  BY <1>8, UnitsIndexed DEF Roles!RolesOf, Roles!Listened, Roles!FieldsOf
<1>9. CASE kind = "melding"
  BY <1>9, FieldsOfTo, FieldsOfBoth DEF Roles!RolesOf, Roles!Listened, Roles!FieldsOf
<1>10. CASE kind = "media"
  <2>1. Roles!Fields(Roles!RolesOf(kind, opt)) = (Roles!Knx \ {"volumeDim"}) \cup {"volumeDim"}
    BY <1>10, FieldsOfTo, FieldsOfBoth DEF Roles!RolesOf, Roles!MediaListRoles, Roles!MediaRoles
  <2>2. Roles!Listened(kind, opt) = Roles!Knx
    BY <1>10 DEF Roles!Listened, Roles!FieldsOf
  <2> QED
    BY <2>1, <2>2 DEF Roles!Knx
<1>11. CASE kind = "intercom"
  BY <1>11, FieldsOfTo DEF Roles!RolesOf, Roles!Listened, Roles!Intercom
<1>12. CASE kind = "scene"
  BY <1>12, FieldsOfTo, FieldsOfBoth DEF Roles!RolesOf, Roles!Listened, Roles!FieldsOf
<1>13. CASE kind = "energy"
  <2>1. CASE opt = "other"
    BY <1>13, <2>1 DEF Roles!RolesOf, Roles!Listened, Roles!Fields
  <2>2. CASE opt # "other"
    BY <1>13, <2>2, FieldsOfTo DEF Roles!RolesOf, Roles!Listened
  <2> QED
    BY <2>1, <2>2
<1> QED
  BY <1>1, <1>2, <1>3, <1>4, <1>5, <1>6, <1>7, <1>8, <1>9, <1>10, <1>11, <1>12, <1>13 DEF Roles!Kinds, Roles!Options

------------------------------------------------------------------------------
(* Every field that types.ts documents is read by the type it gives: it has a  *)
(* role, and each of its roles is of that type.                                *)
ReadOnlyAs(pairs, f, dpt) ==
    /\ \E e \in pairs : e[1] = f
    /\ \A e \in pairs : e[1] = f => Roles!Dpt(e[2]) = dpt

LEMMA ReadToSound ==
    ASSUME NEW F, NEW r, NEW f \in F
    PROVE  ReadOnlyAs(Roles!To(F, r), f, Roles!Dpt(r))
<1>1. <<f, r>> \in Roles!To(F, r) /\ <<f, r>>[1] = f
  BY DEF Roles!To
<1>2. \A e \in Roles!To(F, r) : e[2] = r
  BY DEF Roles!To
<1> QED
  BY <1>1, <1>2 DEF ReadOnlyAs

LEMMA ReadInFirst ==
    ASSUME NEW P, NEW Q, NEW f, NEW dpt, ReadOnlyAs(P, f, dpt), f \notin Roles!Fields(Q)
    PROVE  ReadOnlyAs(P \cup Q, f, dpt)
  BY DEF ReadOnlyAs, Roles!Fields

LEMMA ReadInSecond ==
    ASSUME NEW P, NEW Q, NEW f, NEW dpt, ReadOnlyAs(Q, f, dpt), f \notin Roles!Fields(P)
    PROVE  ReadOnlyAs(P \cup Q, f, dpt)
  BY DEF ReadOnlyAs, Roles!Fields

LEMMA TypesOfRoles ==
    /\ Roles!Dpt("bit") = "1.001" /\ Roles!Dpt("switch") = "1.001" /\ Roles!Dpt("percent") = "5.001"
    /\ Roles!Dpt("byte") = "5.010" /\ Roles!Dpt("temperature") = "9.001" /\ Roles!Dpt("uint16") = "7.001"
    /\ Roles!Dpt("dim_control") = "3.007" /\ Roles!Dpt("flame") = "5.010" /\ Roles!Dpt("flame_status") = "5.010"
    /\ Roles!Dpt("rgb232") = "232.600" /\ Roles!Dpt("on") = "1.001"
    /\ \A c \in Roles!Channels : Roles!Dpt(c) = "5.010"
  BY DEF Roles!Dpt, Roles!ROLE_DPT, Roles!Channels

(* The fields of the finding FieldsReadAsDocumented.                            *)
Excepted(kind) == {"bright", "kelvin"} \cup IF kind = "fan" THEN {"speed", "speedStatus"} ELSE {}

LEMMA PairOfTo ==
    ASSUME NEW F, NEW r, NEW d \in Roles!To(F, r)
    PROVE  d[1] \in F /\ d[2] = r
  BY DEF Roles!To

LEMMA ReadAsTypesSay ==
    ASSUME NEW kind \in Roles!Kinds, NEW opt \in Roles!Options[kind],
           NEW d \in Roles!Documented(kind, opt), d[1] \notin Excepted(kind)
    PROVE  ReadOnlyAs(Roles!RolesOf(kind, opt), d[1], d[2])
<1>1. CASE kind = "climate"
  <2>1. Roles!RolesOf(kind, opt) = {<<f, Roles!ClimateBusRole(opt, f)>> : f \in Roles!ClimateGA}
    BY <1>1 DEF Roles!RolesOf
  <2>2. d[1] \in Roles!ClimateGA /\ Roles!Dpt(Roles!ClimateBusRole(opt, d[1])) = d[2]
    <3>1. CASE d \in Roles!To({"actual_temp"}, "9.001")
      <4>1. d[1] = "actual_temp" /\ d[2] = "9.001"
        BY <3>1, PairOfTo
      <4> QED
        BY <4>1 DEF Roles!ClimateGA, Roles!ClimateBusRole, Roles!Dpt, Roles!ROLE_DPT, Roles!Channels
    <3>2. CASE d \in Roles!To({"mode", "mode_status"}, "20.102")
      <4>1. d[1] \in {"mode", "mode_status"} /\ d[2] = "20.102"
        BY <3>2, PairOfTo
      <4> QED
        BY <4>1 DEF Roles!ClimateGA, Roles!ClimateBusRole, Roles!Dpt, Roles!ROLE_DPT, Roles!Channels
    <3>3. CASE d \in Roles!To({"hvac_mode", "hvac_mode_status", "heat_demand", "cool_demand"}, "1.001")
      <4>1. d[1] \in {"hvac_mode", "hvac_mode_status", "heat_demand", "cool_demand"} /\ d[2] = "1.001"
        BY <3>3, PairOfTo
      <4> QED
        BY <4>1 DEF Roles!ClimateGA, Roles!ClimateBusRole, Roles!Dpt, Roles!ROLE_DPT, Roles!Channels
    <3>4. CASE d \in Roles!To({"setpoint", "setpoint_status"}, CASE opt = "relative_6.010" -> "6.010"
                                       [] opt = "relative_9.002" -> "9.002" [] OTHER -> "9.001")
      <4>1. d[1] \in {"setpoint", "setpoint_status"}
            /\ d[2] = CASE opt = "relative_6.010" -> "6.010" [] opt = "relative_9.002" -> "9.002" [] OTHER -> "9.001"
        BY <3>4, PairOfTo
      <4> QED
        BY <4>1 DEF Roles!ClimateGA, Roles!ClimateBusRole, Roles!Dpt, Roles!ROLE_DPT, Roles!Channels
    <3> QED
      BY <1>1, <3>1, <3>2, <3>3, <3>4 DEF Roles!Documented
  <2>3. <<d[1], Roles!ClimateBusRole(opt, d[1])>> \in Roles!RolesOf(kind, opt)
        /\ <<d[1], Roles!ClimateBusRole(opt, d[1])>>[1] = d[1]
    BY <2>1, <2>2
  <2>4. \A e \in Roles!RolesOf(kind, opt) : e[2] = Roles!ClimateBusRole(opt, e[1])
    BY <2>1
  <2> QED
    BY <2>2, <2>3, <2>4 DEF ReadOnlyAs
<1>2. CASE kind = "rgbw_ww"
  <2>1. Roles!RolesOf(kind, opt) = {<<f, f>> : f \in Roles!RgbwWwGA}
    BY <1>2 DEF Roles!RolesOf, Roles!FieldsOf
  <2>2. d[1] \in Roles!RgbwWwGA /\ Roles!Dpt(d[1]) = d[2]
    <3>1. CASE d \in Roles!To(Roles!Channels \cup {"bright"}, "5.010")
      <4>1. d[1] \in Roles!Channels /\ d[2] = "5.010"
        BY <3>1, PairOfTo DEF Excepted
      <4> QED
        BY <4>1, TypesOfRoles DEF Roles!RgbwWwGA
    <3>2. CASE d \in Roles!To({"on"}, "1.001")
      BY <3>2, PairOfTo, TypesOfRoles DEF Roles!RgbwWwGA
    <3>3. CASE d \in Roles!To({"rgb232"}, "232.600")
      BY <3>3, PairOfTo, TypesOfRoles DEF Roles!RgbwWwGA
    <3>4. CASE d \in Roles!To({"kelvin"}, "9.001")
      BY <3>4, PairOfTo DEF Excepted
    <3> QED
      BY <1>2, <3>1, <3>2, <3>3, <3>4 DEF Roles!Documented
  <2>3. <<d[1], d[1]>> \in Roles!RolesOf(kind, opt) /\ <<d[1], d[1]>>[1] = d[1]
    BY <2>1, <2>2
  <2>4. \A e \in Roles!RolesOf(kind, opt) : e[2] = e[1]
    BY <2>1
  <2> QED
    BY <2>2, <2>3, <2>4 DEF ReadOnlyAs
<1>3. CASE kind = "media"
  <2> DEFINE Buttons == Roles!To(Roles!Knx \ {"volumeDim"}, "switch")
             Rocker  == Roles!To({"volumeDim"}, "dim_control")
  <2>1. Roles!RolesOf(kind, opt) = Buttons \cup Rocker
    BY <1>3 DEF Roles!RolesOf, Roles!MediaListRoles, Roles!MediaRoles
  <2>2. CASE d \in Roles!To(Roles!Knx \ {"volumeDim"}, "1.001")
    <3>1. d[1] \in Roles!Knx \ {"volumeDim"} /\ d[2] = "1.001"
      BY <2>2, PairOfTo
    <3>2. ReadOnlyAs(Buttons, d[1], d[2])
      BY <3>1, ReadToSound, TypesOfRoles
    <3>3. d[1] \notin Roles!Fields(Rocker)
      BY <3>1, FieldsOfTo
    <3> HIDE DEF Buttons, Rocker
    <3> QED
      BY <2>1, <3>2, <3>3, ReadInFirst
  <2>3. CASE d \in Roles!To({"volumeDim"}, "3.007")
    <3>1. d[1] = "volumeDim" /\ d[2] = "3.007"
      BY <2>3, PairOfTo
    <3>2. ReadOnlyAs(Rocker, d[1], d[2])
      BY <3>1, ReadToSound, TypesOfRoles
    <3>3. d[1] \notin Roles!Fields(Buttons)
      BY <3>1, FieldsOfTo
    <3> HIDE DEF Buttons, Rocker
    <3> QED
      BY <2>1, <3>2, <3>3, ReadInSecond
  <2> QED
    BY <1>3, <2>2, <2>3 DEF Roles!Documented
<1>4. CASE kind = "fireplace"
  <2> DEFINE Switched == Roles!To({"onOff"} \cup Roles!DiscreteLevel, "switch")
             Feedback    == Roles!To({"onOffStatus"}, "switch_status")
             Bits     == Roles!To({"safetyLockout"} \cup Roles!StatusBits, "bit")
             Flame    == Roles!To({"flame"}, IF opt = "steps" THEN "flame" ELSE "percent")
             Seen     == Roles!To({"flameStatus"}, IF opt = "steps" THEN "flame_status" ELSE "percent")
  <2>1. Roles!RolesOf(kind, opt) = Switched \cup Feedback \cup Bits \cup Flame \cup Seen
    BY <1>4 DEF Roles!RolesOf, Roles!FireplaceRoles
  <2>2. /\ Roles!Fields(Switched) = {"onOff"} \cup Roles!DiscreteLevel /\ Roles!Fields(Feedback) = {"onOffStatus"}
        /\ Roles!Fields(Bits) = {"safetyLockout"} \cup Roles!StatusBits
        /\ Roles!Fields(Flame) = {"flame"} /\ Roles!Fields(Seen) = {"flameStatus"}
    BY FieldsOfTo, Zenon
  <2>3. CASE d \in Roles!To(Roles!DiscreteLevel \cup Roles!StatusBits, "1.001")
    <3>1. d[1] \in Roles!DiscreteLevel \cup Roles!StatusBits /\ d[2] = "1.001"
      BY <2>3, PairOfTo
    <3>2. CASE d[1] \in Roles!DiscreteLevel
      <4>1. ReadOnlyAs(Switched, d[1], d[2])
        BY <3>1, <3>2, ReadToSound, TypesOfRoles
      <4>2. d[1] \notin Roles!Fields(Feedback) /\ d[1] \notin Roles!Fields(Bits)
            /\ d[1] \notin Roles!Fields(Flame) /\ d[1] \notin Roles!Fields(Seen)
        BY <2>2, <3>2 DEF Roles!DiscreteLevel, Roles!StatusBits
      <4> HIDE DEF Switched, Feedback, Bits, Flame, Seen
      <4>3. ReadOnlyAs(Switched \cup Feedback, d[1], d[2])
        BY <4>1, <4>2, ReadInFirst
      <4>4. ReadOnlyAs(Switched \cup Feedback \cup Bits, d[1], d[2])
        BY <4>3, <4>2, ReadInFirst
      <4>5. ReadOnlyAs(Switched \cup Feedback \cup Bits \cup Flame, d[1], d[2])
        BY <4>4, <4>2, ReadInFirst
      <4> QED
        BY <2>1, <4>5, <4>2, ReadInFirst
    <3>3. CASE d[1] \in Roles!StatusBits
      <4>1. ReadOnlyAs(Bits, d[1], d[2])
        BY <3>1, <3>3, ReadToSound, TypesOfRoles
      <4>2. d[1] \notin Roles!Fields(Switched \cup Feedback) /\ d[1] \notin Roles!Fields(Flame)
            /\ d[1] \notin Roles!Fields(Seen)
        BY <2>2, <3>3, FieldsOfBoth DEF Roles!DiscreteLevel, Roles!StatusBits
      <4> HIDE DEF Switched, Feedback, Bits, Flame, Seen
      <4>3. ReadOnlyAs(Switched \cup Feedback \cup Bits, d[1], d[2])
        BY <4>1, <4>2, ReadInSecond
      <4>4. ReadOnlyAs(Switched \cup Feedback \cup Bits \cup Flame, d[1], d[2])
        BY <4>3, <4>2, ReadInFirst
      <4> QED
        BY <2>1, <4>4, <4>2, ReadInFirst
    <3> QED
      BY <3>1, <3>2, <3>3
  <2>4. CASE d \in Roles!To({"flame", "flameStatus"}, IF opt = "steps" THEN "5.010" ELSE "5.001")
    <3>1. d[1] \in {"flame", "flameStatus"} /\ d[2] = IF opt = "steps" THEN "5.010" ELSE "5.001"
      BY <2>4, PairOfTo
    <3>2. d[1] \notin Roles!Fields(Switched \cup Feedback \cup Bits)
      <4>1. d[1] \notin Roles!Fields(Switched) /\ d[1] \notin Roles!Fields(Feedback) /\ d[1] \notin Roles!Fields(Bits)
        BY <2>2, <3>1 DEF Roles!DiscreteLevel, Roles!StatusBits
      <4> HIDE DEF Switched, Feedback, Bits
      <4> QED
        BY <4>1 DEF Roles!Fields
    <3>3. CASE d[1] = "flame"
      <4>1. ReadOnlyAs(Flame, d[1], d[2])
        BY <3>1, <3>3, ReadToSound, TypesOfRoles
      <4>2. d[1] \notin Roles!Fields(Seen)
        BY <2>2, <3>3
      <4> HIDE DEF Switched, Feedback, Bits, Flame, Seen
      <4>3. ReadOnlyAs(Switched \cup Feedback \cup Bits \cup Flame, d[1], d[2])
        BY <3>2, <4>1, ReadInSecond
      <4> QED
        BY <2>1, <4>3, <4>2, ReadInFirst
    <3>4. CASE d[1] = "flameStatus"
      <4>1. ReadOnlyAs(Seen, d[1], d[2])
        BY <3>1, <3>4, ReadToSound, TypesOfRoles
      <4>2. d[1] \notin Roles!Fields(Flame)
        BY <2>2, <3>4
      <4> HIDE DEF Switched, Feedback, Bits, Flame, Seen
      <4>3. d[1] \notin Roles!Fields(Switched \cup Feedback \cup Bits \cup Flame)
        BY <3>2, <4>2 DEF Roles!Fields
      <4> QED
        BY <2>1, <4>1, <4>3, ReadInSecond
    <3> QED
      BY <3>1, <3>3, <3>4
  <2> QED
    BY <1>4, <2>3, <2>4 DEF Roles!Documented
<1>5. CASE kind = "universal"
  <2> DEFINE Buttons == Roles!To(Roles!Universal \ {"level"}, opt)
             Level   == Roles!To({"level"}, "percent")
  <2>1. Roles!RolesOf(kind, opt) = Buttons \cup Level
    BY <1>5 DEF Roles!RolesOf
  <2>2. d[1] = "level" /\ d[2] = "5.001"
    BY <1>5, PairOfTo DEF Roles!Documented
  <2>3. ReadOnlyAs(Level, d[1], d[2])
    BY <2>2, ReadToSound, TypesOfRoles
  <2>4. d[1] \notin Roles!Fields(Buttons)
    BY <2>2, FieldsOfTo
  <2> HIDE DEF Buttons, Level
  <2> QED
    BY <2>1, <2>3, <2>4, ReadInSecond
<1>6. CASE kind = "wtw"
  <2> DEFINE Bits   == Roles!To(Roles!ZehnderBits, "bit")
             Counts == Roles!To(Roles!ZehnderCounts, "uint16")
             Ors    == Roles!To(Roles!Logic, "bit")
             Rise   == Roles!To({"tempRise"}, "temperature")
  <2>1. opt = "zehnder"
    BY <1>6 DEF Roles!Documented
  <2>2. Roles!RolesOf(kind, opt) = (Bits \cup Counts) \cup (Ors \cup Rise)
    BY <1>6, <2>1 DEF Roles!RolesOf, Roles!Subscriptions, Roles!ZehnderSubscriptions, Roles!LogicRoles
  <2>3. /\ Roles!Fields(Bits) = Roles!ZehnderBits /\ Roles!Fields(Counts) = Roles!ZehnderCounts
        /\ Roles!Fields(Ors) = Roles!Logic /\ Roles!Fields(Rise) = {"tempRise"}
    BY FieldsOfTo, Zenon
  <2>4. CASE d \in Roles!To({"boostTime", "boostTimeStatus"}, "7.001")
    <3>1. d[1] \in {"boostTime", "boostTimeStatus"} /\ d[2] = "7.001"
      BY <2>4, PairOfTo
    <3>2. ReadOnlyAs(Counts, d[1], d[2])
      BY <3>1, ReadToSound, TypesOfRoles DEF Roles!ZehnderCounts
    <3>3. d[1] \notin Roles!Fields(Bits) /\ d[1] \notin Roles!Fields(Ors \cup Rise)
      BY <2>3, <3>1, FieldsOfBoth DEF Roles!ZehnderBits, Roles!Logic
    <3> HIDE DEF Bits, Counts, Ors, Rise
    <3>4. ReadOnlyAs(Bits \cup Counts, d[1], d[2])
      BY <3>2, <3>3, ReadInSecond
    <3> QED
      BY <2>2, <3>3, <3>4, ReadInFirst
  <2>5. CASE d \in Roles!To({"tempRise"}, "9.001")
    <3>1. d[1] = "tempRise" /\ d[2] = "9.001"
      BY <2>5, PairOfTo
    <3>2. ReadOnlyAs(Rise, d[1], d[2])
      BY <3>1, ReadToSound, TypesOfRoles
    <3>3. d[1] \notin Roles!Fields(Ors) /\ d[1] \notin Roles!Fields(Bits \cup Counts)
      BY <2>3, <3>1, FieldsOfBoth DEF Roles!ZehnderBits, Roles!ZehnderCounts, Roles!Logic
    <3> HIDE DEF Bits, Counts, Ors, Rise
    <3>4. ReadOnlyAs(Ors \cup Rise, d[1], d[2])
      BY <3>2, <3>3, ReadInSecond
    <3> QED
      BY <2>2, <3>3, <3>4, ReadInSecond
  <2> QED
    BY <1>6, <2>1, <2>4, <2>5 DEF Roles!Documented
<1>7. CASE kind = "fan"
  BY <1>7, PairOfTo DEF Roles!Documented, Excepted
<1>8. CASE kind = "melding"
  <2> DEFINE Item  == Roles!To({"item"}, Roles!WtwDptToRoleConfig(opt))
             Reset == Roles!To({"reset"}, "bit")
  <2>1. Roles!RolesOf(kind, opt) = Item \cup Reset
    BY <1>8 DEF Roles!RolesOf
  <2>2. opt # "hex" /\ d[1] = "item" /\ d[2] = opt
    BY <1>8, PairOfTo DEF Roles!Documented
  <2>3. opt \in Roles!MeldingDpts
    BY <1>8 DEF Roles!Options
  <2>4. Roles!Dpt(Roles!WtwDptToRoleConfig(opt)) = opt
    BY <2>2, <2>3 DEF Roles!MeldingDpts, Roles!WtwDptToRoleConfig, Roles!Dpt, Roles!ROLE_DPT, Roles!Channels
  <2>5. ReadOnlyAs(Item, d[1], d[2])
    BY <2>2, <2>4, ReadToSound
  <2>6. d[1] \notin Roles!Fields(Reset)
    BY <2>2, FieldsOfTo
  <2> HIDE DEF Item, Reset
  <2> QED
    BY <2>1, <2>5, <2>6, ReadInFirst
<1>9. CASE kind \in {"light", "shading", "ac", "modbus", "intercom", "scene", "energy"}
  BY <1>9 DEF Roles!Documented
<1> QED
  BY <1>1, <1>2, <1>3, <1>4, <1>5, <1>6, <1>7, <1>8, <1>9 DEF Roles!Kinds, Roles!Options

------------------------------------------------------------------------------
(* A telegram of two bytes is read by the type of two bytes, and one of a byte *)
(* or less by that of the bit, whichever role comes first.                     *)
LEMMA ReadByLength ==
    ASSUME NEW x, NEW y, NEW sent \in {x, y},
           \E z \in {x, y} : z \in {"1.001", "1.007", "1.008", "3.007"},
           \E z \in {x, y} : Roles!Bytes(z) = 2
    PROVE  Roles!Bytes(Roles!Resolve(<<x, y>>, Roles!Bytes(sent))) = Roles!Bytes(sent)
<1> DEFINE Bits == {"1.001", "1.007", "1.008", "3.007"}
           Twos == {"7.001", "8.001", "9.001", "9.002"}
<1>1. \A z \in Bits : Roles!Bytes(z) = 1
  BY DEF Roles!Bytes
<1>2. \A z : Roles!Bytes(z) = 2 => z \in Twos
  BY DEF Roles!Bytes
<1>3. (x \in Bits /\ y \in Twos) \/ (x \in Twos /\ y \in Bits)
  BY <1>1, <1>2
<1>4. \A z \in Twos : Roles!Bytes(z) = 2
  BY DEF Roles!Bytes
<1>5. CASE sent \in Twos
  <2>1. Roles!Resolve(<<x, y>>, 2) = sent
    BY <1>3, <1>5 DEF Roles!Resolve, Roles!AnyOf, Roles!FirstOf, Roles!Temperatures, Roles!Numbers
  <2> QED
    BY <1>4, <1>5, <2>1
<1>6. CASE sent \in Bits
  <2>1. Roles!Resolve(<<x, y>>, 1) = sent
    BY <1>3, <1>6 DEF Roles!Resolve, Roles!AnyOf, Roles!FirstOf, Roles!StartsWithDPT1
  <2> QED
    BY <1>1, <1>6, <2>1
<1> QED
  BY <1>3, <1>5, <1>6

(* What is configured, and what was made of it at the last save.               *)
RolesInv ==
    /\ iPlace = [kind |-> iPlace.kind, opt |-> iPlace.opt, filled |-> iPlace.filled]
    /\ iPlace.kind \in Roles!Kinds /\ iPlace.opt \in Roles!Options[iPlace.kind]
    /\ iPlace.filled \subseteq Roles!FieldsOf(iPlace.kind)
    /\ iBound = Roles!CollectAllGAs(iPlace) /\ iGaRoles = Roles!BuildGAIndex(iPlace)
    /\ iTelegram # None => \E role \in {iAddress[1], iAddress[2]} :
          iTelegram = [sent |-> Roles!Dpt(role),
                       read |-> Roles!Resolve(<<Roles!Dpt(iAddress[1]), Roles!Dpt(iAddress[2])>>, Roles!Bytes(Roles!Dpt(role)))]

LEMMA RolesStart == Roles!Init => RolesInv
<1> SUFFICES ASSUME Roles!Init PROVE RolesInv
  OBVIOUS
<1>1. PICK s \in Roles!Setups : \E filled \in {{}, Roles!FieldsOf(s.kind)} :
          iPlace = [kind |-> s.kind, opt |-> s.opt, filled |-> filled]
  BY DEF Roles!Init
<1>2. PICK filled \in {{}, Roles!FieldsOf(s.kind)} : iPlace = [kind |-> s.kind, opt |-> s.opt, filled |-> filled]
  BY <1>1
<1>3. s.kind \in Roles!Kinds /\ s.opt \in Roles!Options[s.kind]
  BY DEF Roles!Setups
<1>4. iTelegram = None /\ iBound = Roles!CollectAllGAs(iPlace) /\ iGaRoles = Roles!BuildGAIndex(iPlace)
  BY DEF Roles!Init
<1> QED
  BY <1>2, <1>3, <1>4 DEF RolesInv

LEMMA RolesStep == RolesInv /\ [Roles!Next]_iVars => RolesInv'
<1> SUFFICES ASSUME RolesInv, [Roles!Next]_iVars PROVE RolesInv'
  OBVIOUS
<1>1. ASSUME NEW f \in Roles!FieldsOf(iPlace.kind), Roles!Saves(f) PROVE RolesInv'
  <2> DEFINE now == IF f \in iPlace.filled THEN iPlace.filled \ {f} ELSE iPlace.filled \cup {f}
  <2>1. iPlace' = [iPlace EXCEPT !.filled = now] /\ iTelegram' = iTelegram /\ iAddress' = iAddress
        /\ iBound' = Roles!CollectAllGAs(iPlace') /\ iGaRoles' = Roles!BuildGAIndex(iPlace')
    BY <1>1 DEF Roles!Saves, Roles!Refreshed
  <2>2. now \subseteq Roles!FieldsOf(iPlace.kind)
    BY DEF RolesInv
  <2>3. iPlace' = [kind |-> iPlace.kind, opt |-> iPlace.opt, filled |-> now]
    BY <2>1 DEF RolesInv
  <2> HIDE DEF now
  <2>4. iPlace'.kind = iPlace.kind /\ iPlace'.opt = iPlace.opt /\ iPlace'.filled = now
    BY <2>3
  <2> QED
    BY <2>1, <2>2, <2>3, <2>4 DEF RolesInv
<1>2. ASSUME NEW role \in {iAddress[1], iAddress[2]}, Roles!Telegram(role) PROVE RolesInv'
  BY <1>2 DEF Roles!Telegram, RolesInv
<1>3. CASE UNCHANGED iVars
  BY <1>3 DEF iVars, RolesInv
<1> QED
  BY <1>1, <1>2, <1>3 DEF Roles!Next

LEMMA RolesTyped == RolesInv => Roles!TypesOK
<1> SUFFICES ASSUME RolesInv PROVE Roles!TypesOK
  OBVIOUS
<1>1. iBound \subseteq iPlace.filled
  BY DEF RolesInv, Roles!CollectAllGAs
<1>2. Roles!Fields(iGaRoles) \subseteq iPlace.filled
  BY DEF RolesInv, Roles!Fields, Roles!BuildGAIndex
<1>3. iTelegram = None \/ iTelegram.sent \in {Roles!Dpt(iAddress[1]), Roles!Dpt(iAddress[2])}
  BY DEF RolesInv
<1> QED
  BY <1>1, <1>2, <1>3 DEF RolesInv, Roles!TypesOK

LEMMA RolesAreSound == RolesInv => Roles!GroupRolesSound
<1> SUFFICES ASSUME RolesInv PROVE Roles!GroupRolesSound
  OBVIOUS
<1>1. iBound = Roles!Fields(iGaRoles)
  BY AllIndexed, FieldsIndexed DEF RolesInv, Roles!CollectAllGAs
<1>2. ASSUME NEW d \in Roles!Documented(iPlace.kind, iPlace.opt), d[1] \in iPlace.filled, d[1] \notin Excepted(iPlace.kind)
      PROVE  Roles!ReadAs(d[1]) = {d[2]}
  <2>1. ReadOnlyAs(Roles!RolesOf(iPlace.kind, iPlace.opt), d[1], d[2])
    BY <1>2, ReadAsTypesSay DEF RolesInv
  <2>2. ReadOnlyAs(iGaRoles, d[1], d[2])
    BY <1>2, <2>1 DEF RolesInv, ReadOnlyAs, Roles!BuildGAIndex
  <2> QED
    BY <2>2 DEF ReadOnlyAs, Roles!ReadAs
<1>3. Roles!IndexCoversBound
  BY <1>1, <1>2 DEF Roles!IndexCoversBound, Roles!AsDocumented, Excepted
<1>4. Roles!DecodesByLength
  <2> SUFFICES ASSUME iTelegram # None,
                      \E i \in {1, 2} : Roles!Dpt(iAddress[i]) \in {"1.001", "1.007", "1.008", "3.007"},
                      \E i \in {1, 2} : Roles!Bytes(Roles!Dpt(iAddress[i])) = 2
               PROVE  Roles!Bytes(iTelegram.read) = Roles!Bytes(iTelegram.sent)
    BY DEF Roles!DecodesByLength
  <2> DEFINE x == Roles!Dpt(iAddress[1])
             y == Roles!Dpt(iAddress[2])
  <2>1. PICK role \in {iAddress[1], iAddress[2]} :
            iTelegram = [sent |-> Roles!Dpt(role), read |-> Roles!Resolve(<<x, y>>, Roles!Bytes(Roles!Dpt(role)))]
    BY DEF RolesInv
  <2>2. Roles!Dpt(role) \in {x, y}
    BY <2>1
  <2>3. /\ \E z \in {x, y} : z \in {"1.001", "1.007", "1.008", "3.007"}
        /\ \E z \in {x, y} : Roles!Bytes(z) = 2
    OBVIOUS
  <2> HIDE DEF x, y
  <2>4. Roles!Bytes(Roles!Resolve(<<x, y>>, Roles!Bytes(Roles!Dpt(role)))) = Roles!Bytes(Roles!Dpt(role))
    BY <2>2, <2>3, ReadByLength
  <2> QED
    BY <2>1, <2>4
<1> QED
  BY <1>3, <1>4 DEF Roles!GroupRolesSound

(* Every address entered is listened to and has a role, every field that       *)
(* types.ts documents is read by the type given there, and a telegram on an    *)
(* address with two roles is read by the one of its length.                    *)
THEOREM GroupRolesAlwaysSound == Spec => []GroupRolesSound
<1> DEFINE Inv == part = "roles" => RolesInv
<1>1. Init => Inv
  BY InitOf, RolesStart
<1>2. Inv /\ [Next]_allVars => Inv'
  BY StepOf, RolesStep
<1>3. Inv => GroupRolesSound
  BY RolesAreSound DEF GroupRolesSound
<1> QED
  BY <1>1, <1>2, <1>3, PTL DEF Spec

------------------------------------------------------------------------------
(* The type of every component: what its invariant does not say already.      *)
LEMMA GroupTyped == GroupInv => Groups!TypesOK
<1> SUFFICES ASSUME GroupKinds PROVE Groups!TypesOK
  BY DEF GroupInv
<1>1. \A i \in DOMAIN gChain : gChain[i] \in Groups!Item
  <2>1. gChain \in Seq(Groups!Item)
    BY DEF GroupKinds
  <2> QED
    BY <2>1
<1>2. \A i \in DOMAIN gWire : gWire[i] \in Groups!Telegram
  <2>1. gWire \in Seq(Groups!Telegram)
    BY DEF GroupKinds
  <2> QED
    BY <2>1
<1> QED
  BY <1>1, <1>2 DEF GroupKinds, Groups!TypesOK

(* The saved houses, and the timers of logics.                                 *)
VentTimers ==
    /\ vHouse \in vHouses /\ vRegistered \in vHouses /\ vOut \subseteq vLogics
    /\ vTiming \cap vHeld = {}
    /\ vDue \subseteq {l \in vLogics : vRuns[l] # None}

LEMMA VentTyped == VentInv /\ VentTimers => Vent!TypesOK
  BY DEF VentInv, VentKinds, VentTimers, Vent!TypesOK

LEMMA VentTimersStart == Vent!VentLogicAssumption /\ Vent!Init => VentTimers
  BY DEF Vent!Init, VentTimers

LEMMA VentTimersStarts ==
    ASSUME Vent!VentLogicAssumption, VentKinds, VentTimers, NEW l \in vLogics, NEW vs, NEW t, NEW h, t \cap h = {},
           Vent!Start(l, vs, t, h)
    PROVE  VentTimers'
<1> DEFINE ok == Vent!Wrote(vSetup[l].stand)
<1>1. /\ vHeld' = h \ Vent!KeysOf(l)
      /\ vTiming' = (t \ Vent!KeysOf(l)) \cup (IF ok THEN Vent!UntilMet(l, vs) ELSE {})
      /\ vOut' = vOut \ {l}
      /\ vRuns' = (IF ok THEN [vRuns EXCEPT ![l] = Vent!ReadStand] ELSE vRuns)
      /\ vDue' = (IF ok /\ vSetup[l].end = "duration" THEN vDue \cup {l} ELSE vDue)
      /\ UNCHANGED <<vHouse, vRegistered>>
  BY DEF Vent!Start, Vent!TimersAtStart
<1>2. Vent!ReadStand \in Vent!Stands \cup {""}
  BY DEF Vent!ReadStand, Vent!ReadDuco, Vent!ReadModbus, Vent!ReadMv, VentKinds, Vent!Stands
<1>3. Vent!ReadStand # None
  BY <1>2 DEF Vent!VentLogicAssumption
<1>4. Vent!UntilMet(l, vs) \subseteq Vent!KeysOf(l)
  BY VentUntilMet
<1> HIDE DEF ok
<1>5. vTiming' \cap vHeld' = {}
  BY <1>1, <1>4
<1>6. vDue' \subseteq {m \in vLogics : vRuns'[m] # None}
  BY <1>1, <1>3 DEF VentTimers, VentKinds
<1> QED
  BY <1>1, <1>5, <1>6 DEF VentTimers

LEMMA VentTimersEnd ==
    ASSUME VentKinds, VentTimers, NEW l \in vLogics, Vent!End(l)
    PROVE  VentTimers'
<1>1. /\ vRuns' = [vRuns EXCEPT ![l] = None] /\ vDue' = vDue \ {l}
      /\ vHeld' = vHeld \ Vent!KeysOf(l) /\ vTiming' = vTiming \ Vent!KeysOf(l) /\ vOut' = vOut \ {l}
      /\ UNCHANGED <<vHouse, vRegistered>>
  BY DEF Vent!End
<1>2. vDue' \subseteq {m \in vLogics : vRuns'[m] # None}
  BY <1>1 DEF VentTimers, VentKinds
<1> QED
  BY <1>1, <1>2 DEF VentTimers

LEMMA VentTimersMinutes ==
    ASSUME Vent!VentLogicAssumption, VentKinds, VentTimers, NEW l \in vLogics, NEW side, NEW c, Vent!MinutesOver(l, side, c)
    PROVE  VentTimers'
<1> DEFINE k == Vent!Key(l, side, c)
<1>1. \/ Vent!Start(l, vSensor, vTiming, vHeld)
      \/ Vent!End(l)
      \/ vTiming' = vTiming \ {k} /\ vHeld' \subseteq vHeld \cup {k} /\ UNCHANGED <<vHouse, vRegistered, vRuns, vDue, vOut>>
  BY DEF Vent!MinutesOver
<1>2. vTiming \cap vHeld = {}
  BY DEF VentTimers
<1> HIDE DEF k
<1>3. CASE vTiming' = vTiming \ {k} /\ vHeld' \subseteq vHeld \cup {k} /\ UNCHANGED <<vHouse, vRegistered, vRuns, vDue, vOut>>
  BY <1>3 DEF VentTimers
<1> QED
  BY <1>1, <1>2, <1>3, VentTimersStarts, VentTimersEnd

LEMMA VentTimersStep == Vent!VentLogicAssumption /\ VentKinds /\ VentTimers /\ [Vent!Next]_vVars => VentTimers'
<1> SUFFICES ASSUME Vent!VentLogicAssumption, VentKinds, VentTimers, [Vent!Next]_vVars PROVE VentTimers'
  OBVIOUS
<1>k. vHouse \in vHouses /\ vRegistered \in vHouses /\ vOut \subseteq vLogics /\ vTiming \cap vHeld = {} /\ vHouse \subseteq vLogics
  BY DEF VentTimers, VentKinds
<1>1. ASSUME NEW stand \in Vent!Stands, Vent!Press(stand) PROVE VentTimers'
  BY <1>1 DEF Vent!Press, VentTimers
<1>2. ASSUME NEW s \in vSensors, NEW v \in BOOLEAN, Vent!Telegram(s, v) PROVE VentTimers'
  <2>1. PICK values, unmet, t, h :
          /\ t \cap h = {}
          /\ \/ \E l \in vLogics : Vent!Start(l, values, t, h)
             \/ vHeld' = h /\ vTiming' = t /\ UNCHANGED <<vHouse, vRegistered, vRuns, vDue, vOut>>
    <3> DEFINE unmet == {k \in Vent!Ticked(s) : k[3].want # v}
               met == {k \in Vent!Ticked(s) : k[3].want = v /\ k[3].timed}
               t == (vTiming \ unmet) \cup (met \ vHeld)
               h == vHeld \ unmet
               values == [vSensor EXCEPT ![s] = v]
    <3>1. \/ \E l \in vLogics : Vent!Start(l, values, t, h)
          \/ vHeld' = h /\ vTiming' = t /\ UNCHANGED <<vHouse, vRegistered, vRuns, vDue, vOut>>
      BY <1>2 DEF Vent!Telegram, Vent!HeldAfter
    <3> HIDE DEF unmet, met, values
    <3>2. t \cap h = {}
      BY <1>k
    <3> HIDE DEF t, h
    <3> QED
      BY <3>1, <3>2
  <2>2. CASE vHeld' = h /\ vTiming' = t /\ UNCHANGED <<vHouse, vRegistered, vRuns, vDue, vOut>>
    BY <2>1, <2>2 DEF VentTimers
  <2> QED
    BY <2>1, <2>2, VentTimersStarts
<1>3. ASSUME NEW l \in vLogics, Vent!TemperatureRises(l) PROVE VentTimers'
  BY <1>3, <1>k, VentTimersStarts DEF Vent!TemperatureRises
<1>4. ASSUME NEW l \in vLogics, Vent!DurationOver(l) PROVE VentTimers'
  BY <1>4, VentTimersEnd DEF Vent!DurationOver
<1>5. ASSUME NEW l \in vLogics, NEW side, NEW c, Vent!MinutesOver(l, side, c) PROVE VentTimers'
  BY <1>5, VentTimersMinutes
<1>6. CASE Vent!Handlers
  BY <1>1, <1>2, <1>3, <1>4, <1>5, <1>6 DEF Vent!Handlers
<1>7. ASSUME NEW now \in vHouses, Vent!Save(now) PROVE VentTimers'
  BY <1>7, <1>k DEF Vent!Save, VentTimers
<1>8. CASE Vent!Restart
  BY <1>8, <1>k DEF Vent!Restart, VentTimers
<1>9. CASE Vent!Report \/ UNCHANGED vVars
  BY <1>9 DEF Vent!Report, vVars, VentTimers
<1> QED
  BY <1>6, <1>7, <1>8, <1>9 DEF Vent!Next, Vent!DucoHandlers, Vent!MvHandlers, Vent!ModbusHandlers

(* The state of every component around the bus has its type.                   *)
THEOREM BusAlwaysTyped == Spec => []TypesOK
<1> DEFINE Inv == /\ part = "groups" => GroupInv
                  /\ part = "roles" => RolesInv
                  /\ part = "listen" => ListenInv
                  /\ part = "contrast" => ContrastInv
                  /\ part = "locks" => LockInv
                  /\ part = "commands" => CmdInv
                  /\ part = "vent" => VentInv /\ VentTimers
<1>a. /\ Groups!KnxGroupsAssumption /\ Listen!SceneListenAssumption
      /\ Contrast!SceneContrastAssumption /\ Vent!VentLogicAssumption
  BY BusAssumption
<1>1. Init => Inv
  BY <1>a, InitOf, GroupStart, RolesStart, ListenStart, ContrastStart, LockStart, CmdStart, VentStart, VentTimersStart
<1>2. Inv /\ [Next]_allVars => Inv'
  <2> SUFFICES ASSUME Inv, [Next]_allVars PROVE Inv'
    OBVIOUS
  <2>1. part' = part
    BY StepOf
  <2>2. part = "groups" => GroupInv'
    BY <1>a, StepOf, GroupStep
  <2>3. part = "roles" => RolesInv'
    BY StepOf, RolesStep
  <2>4. part = "listen" => ListenInv'
    BY <1>a, StepOf, ListenStep
  <2>5. part = "contrast" => ContrastInv'
    BY <1>a, StepOf, ContrastStep
  <2>6. part = "locks" => LockInv'
    BY StepOf, LockStep
  <2>7. part = "commands" => CmdInv'
    BY StepOf, CmdStep
  <2>8. part = "vent" => VentInv' /\ VentTimers'
    <3>1. VentInv => VentKinds
      BY DEF VentInv
    <3> QED
      BY <1>a, <3>1, StepOf, VentStep, VentTimersStep
  <2> QED
    BY <2>1, <2>2, <2>3, <2>4, <2>5, <2>6, <2>7, <2>8
<1>3. Inv => TypesOK
  BY GroupTyped, ListenIsSound, ContrastIsSound, CmdIsSound, VentTyped, RolesTyped DEF TypesOK, LockInv
<1> QED
  BY <1>1, <1>2, <1>3, PTL DEF Spec
==============================================================================
