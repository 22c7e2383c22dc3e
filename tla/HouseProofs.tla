----------------------------- MODULE HouseProofs -----------------------------
(* What the house does for every setup it may have, proved of the composition  *)
(* in HouseParts: here the frame that every component's proof needs, the       *)
(* gateways, and the music with its rockers; HouseProgramsProofs has the       *)
(* programs, the host, the doors, the accounts, the link to Spotify and the    *)
(* telephone book, and that every part keeps its types.                        *)
(* Each component has an invariant of its own, which its Start lemma derives   *)
(* from its initial state, its Step lemma keeps over every action of it, and   *)
(* its Sound lemma turns into the property.                                    *)
EXTENDS HouseParts, Filtering, Integers, Sequences, FiniteSets, FiniteSetTheorems, FunctionTheorems,
        WellFoundedInduction, TLAPS

(* A behaviour of the house is one of the component that was chosen.           *)
LEMMA InitOf ==
    Init =>
        /\ part = "zones" => Zones!Init
        /\ part = "hold" => Hold!Init
        /\ part = "skip" => Skips!Init
        /\ part = "spotify" => Spotify!Init
        /\ part = "lutron" => Lutron!Init
        /\ part = "procs" => Procs!Init
        /\ part = "doors" => Rings!Init
        /\ part = "accounts" => Accts!Init
        /\ part = "book" => Book!Init
        /\ part = "update" => Host!Init
        /\ part = "ami" => Ami!Init
        /\ part = "alarm" => Alarm!Init
        /\ part = "alarmConfig" => AlarmConf!Init
  BY DEF Init

LEMMA StepOf ==
    [Next]_allVars =>
        /\ part' = part
        /\ part = "zones" => [Zones!Next]_zVars
        /\ part = "hold" => [Hold!Next]_hVars
        /\ part = "skip" => [Skips!Next]_kVars
        /\ part = "spotify" => [Spotify!Next]_pVars
        /\ part = "lutron" => [Lutron!Next]_lVars
        /\ part = "procs" => [Procs!Next]_cVars
        /\ part = "doors" => [Rings!Next]_dVars
        /\ part = "accounts" => [Accts!Next]_aVars
        /\ part = "book" => [Book!Next]_bVars
        /\ part = "update" => [Host!Next]_uVars
        /\ part = "ami" => [Ami!Next]_mVars
        /\ part = "alarm" => [Alarm!Next]_yVars
        /\ part = "alarmConfig" => [AlarmConf!Next]_fVars
  BY DEF Next, allVars, inVars, outVars, zVars, hVars, kVars, pVars, lVars, cVars, dVars, aVars, bVars, uVars, mVars, yVars, fVars

(* Each component has the definitions of FiniteSets under a name of its own.    *)
LEMMA LutronSets ==
    ASSUME NEW S
    PROVE  (Lutron!IsFiniteSet(S) <=> IsFiniteSet(S)) /\ Lutron!Cardinality(S) = Cardinality(S)
  BY DEF Lutron!IsFiniteSet, IsFiniteSet, Lutron!Cardinality, Cardinality

------------------------------------------------------------------------------
(* Counting up, and lists that are filtered: see Filtering.                    *)
(* A set of numbers that has 0, and with each number the next, has all.        *)
LEMMA CountsUp ==
    ASSUME NEW S, 0 \in S, \A n \in Nat : n \in S => n + 1 \in S
    PROVE  \A n \in Nat : n \in S
<1> DEFINE R == OpToRel(<, Nat)
           Left == {n \in Nat : n \notin S}
<1>1. IsWellFoundedOn(R, Nat)
  BY NatLessThanWellFounded
<1>2. R = {ss \in Nat \X Nat : ss[1] < ss[2]}
  BY DEF OpToRel
<1> HIDE DEF R
<1>3. Left \in SUBSET Nat
  OBVIOUS
<1>4. ASSUME Left # {} PROVE FALSE
  <2>1. PICK k \in Left : \A j \in Left : ~(<<j, k>> \in R)
    BY <1>1, <1>3, <1>4, WFMin
  <2>2. k \in Nat /\ k # 0 /\ k - 1 \in Nat /\ k - 1 + 1 = k
    BY <2>1
  <2>3. k - 1 \notin S
    BY <2>1, <2>2
  <2>4. <<k - 1, k>> \in R
    BY <1>2, <2>2
  <2> QED
    BY <2>1, <2>2, <2>3, <2>4
<1> QED
  BY <1>4

(* Of some numbers there is a least.                                           *)
LEMMA LeastIsOne ==
    ASSUME NEW S \in SUBSET Nat, S # {}
    PROVE  Least(S) \in S /\ \A m \in S : Least(S) <= m
<1> DEFINE R == OpToRel(<, Nat)
<1>1. IsWellFoundedOn(R, Nat)
  BY NatLessThanWellFounded
<1>2. R = {ss \in Nat \X Nat : ss[1] < ss[2]}
  BY DEF OpToRel
<1> HIDE DEF R
<1>3. PICK k \in S : \A j \in S : ~(<<j, k>> \in R)
  BY <1>1, WFMin
<1>4. \A j \in S : k <= j
  <2> SUFFICES ASSUME NEW j \in S PROVE k <= j
    OBVIOUS
  <2>1. ~(<<j, k>> \in R) /\ j \in Nat /\ k \in Nat
    BY <1>3
  <2> QED
    BY <1>2, <2>1
<1> QED
  BY <1>3, <1>4 DEF Least

(* What was picked of a list up to a place: in each place of its own an item   *)
(* of the list, in order, each kept one; and the whole list when all are kept. *)
PickedUpTo(s, keep, n, f) ==
    f = [m \in 0..n |->
            IF m = 0 THEN <<>>
            ELSE IF m \in keep THEN Append(f[m - 1], s[m])
            ELSE f[m - 1]]

LEMMA HasPicked ==
    ASSUME NEW s, NEW keep
    PROVE  \A n \in Nat : \E f : PickedUpTo(s, keep, n, f)
<1> DEFINE Have == {k \in Nat : \E f : PickedUpTo(s, keep, k, f)}
<1>1. 0 \in Have
  <2> DEFINE f == [m \in 0..0 |-> <<>>]
  <2>1. PickedUpTo(s, keep, 0, f)
    BY DEF PickedUpTo
  <2> QED
    BY <2>1
<1>2. ASSUME NEW k \in Nat, k \in Have PROVE k + 1 \in Have
  <2>1. PICK f : PickedUpTo(s, keep, k, f)
    BY <1>2
  <2> DEFINE last == IF k + 1 \in keep THEN Append(f[k], s[k + 1]) ELSE f[k]
             g == [m \in 0..k + 1 |-> IF m = k + 1 THEN last ELSE f[m]]
  <2>2. \A m \in 0..k : f[m] = IF m = 0 THEN <<>> ELSE IF m \in keep THEN Append(f[m - 1], s[m]) ELSE f[m - 1]
    BY <2>1 DEF PickedUpTo
  <2>3. ASSUME NEW m \in 0..k + 1
        PROVE  g[m] = IF m = 0 THEN <<>> ELSE IF m \in keep THEN Append(g[m - 1], s[m]) ELSE g[m - 1]
    <3>1. CASE m = k + 1
      <4>1. k \in 0..k + 1 /\ m - 1 = k /\ m # 0 /\ k # k + 1
        BY <3>1
      <4>2. g[m] = last /\ g[m - 1] = f[k]
        BY <3>1, <4>1
      <4> QED
        BY <3>1, <4>1, <4>2
    <3>2. CASE m # k + 1
      <4>1. m \in 0..k /\ (m # 0 => m - 1 \in 0..k + 1 /\ m - 1 # k + 1)
        BY <3>2
      <4>2. g[m] = f[m] /\ (m # 0 => g[m - 1] = f[m - 1])
        BY <4>1
      <4> QED
        BY <2>2, <4>1, <4>2
    <3> QED
      BY <3>1, <3>2
  <2>4. PickedUpTo(s, keep, k + 1, g)
    BY <2>3 DEF PickedUpTo
  <2> QED
    BY <2>4
<1> HIDE DEF Have
<1>3. \A n \in Nat : n \in Have
  BY <1>1, <1>2, CountsUp
<1> QED
  BY <1>3 DEF Have

PickedOf(s, keep, n, r) ==
    /\ \E f \in [DOMAIN r -> 1..n] :
          /\ \A k \in DOMAIN r : f[k] \in keep /\ r[k] = s[f[k]]
          /\ \A j, k \in DOMAIN r : f[j] = f[k] => j = k
    /\ \A i \in 1..n : i \in keep => \E k \in DOMAIN r : r[k] = s[i]
    /\ (\A i \in 1..n : i \in keep) => Len(r) = n /\ \A i \in 1..n : r[i] = s[i]

LEMMA PickedGrows ==
    ASSUME NEW T, NEW s \in Seq(T), NEW keep, NEW n \in Nat, n + 1 \in DOMAIN s, NEW r \in Seq(T), PickedOf(s, keep, n, r),
           NEW next, next = IF n + 1 \in keep THEN Append(r, s[n + 1]) ELSE r
    PROVE  next \in Seq(T) /\ PickedOf(s, keep, n + 1, next)
<1>1. PICK f \in [DOMAIN r -> 1..n] :
          /\ \A k \in DOMAIN r : f[k] \in keep /\ r[k] = s[f[k]]
          /\ \A j, k \in DOMAIN r : f[j] = f[k] => j = k
  BY DEF PickedOf
<1>2. s[n + 1] \in T
  OBVIOUS
<1>3. CASE n + 1 \notin keep
  <2>1. next = r
    BY <1>3
  <2>2. f \in [DOMAIN r -> 1..n + 1]
    BY <1>1
  <2>3. \A i \in 1..n + 1 : i \in keep => i \in 1..n
    BY <1>3
  <2>4. n + 1 \in 1..n + 1
    OBVIOUS
  <2>5. \A i \in 1..n : i \in keep => \E k \in DOMAIN r : r[k] = s[i]
    BY DEF PickedOf
  <2>6. \E g \in [DOMAIN next -> 1..n + 1] :
          /\ \A k \in DOMAIN next : g[k] \in keep /\ next[k] = s[g[k]]
          /\ \A j, k \in DOMAIN next : g[j] = g[k] => j = k
    BY <1>1, <2>1, <2>2
  <2>7. \A i \in 1..n + 1 : i \in keep => \E k \in DOMAIN next : next[k] = s[i]
    BY <2>1, <2>3, <2>5
  <2>8. ~(\A i \in 1..n + 1 : i \in keep)
    BY <1>3, <2>4
  <2> QED
    BY <2>1, <2>6, <2>7, <2>8 DEF PickedOf
<1>4. CASE n + 1 \in keep
  <2>1. /\ next \in Seq(T) /\ DOMAIN next = 1..Len(r) + 1 /\ Len(next) = Len(r) + 1 /\ DOMAIN r = 1..Len(r) /\ Len(r) \in Nat
        /\ next[Len(r) + 1] = s[n + 1] /\ \A j \in DOMAIN r : next[j] = r[j]
    BY <1>2, <1>4
  <2> DEFINE g == [k \in DOMAIN next |-> IF k = Len(r) + 1 THEN n + 1 ELSE f[k]]
  <2>2. \A k \in DOMAIN next : k # Len(r) + 1 => k \in DOMAIN r /\ f[k] \in 1..n
    BY <1>1, <2>1
  <2>3. g \in [DOMAIN next -> 1..n + 1]
    BY <2>2
  <2>4. \A k \in DOMAIN next : g[k] \in keep /\ next[k] = s[g[k]]
    BY <1>1, <1>4, <2>1, <2>2
  <2>5. \A j, k \in DOMAIN next : g[j] = g[k] => j = k
    BY <1>1, <2>1, <2>2
  <2>6. \A i \in 1..n + 1 : i \in keep => \E k \in DOMAIN next : next[k] = s[i]
    <3> SUFFICES ASSUME NEW i \in 1..n + 1, i \in keep PROVE \E k \in DOMAIN next : next[k] = s[i]
      OBVIOUS
    <3>1. CASE i = n + 1
      BY <2>1, <3>1
    <3>2. CASE i # n + 1
      <4>1. PICK k \in DOMAIN r : r[k] = s[i]
        <5>1. i \in 1..n
          BY <3>2
        <5> QED
          BY <5>1 DEF PickedOf
      <4>2. k \in DOMAIN next /\ next[k] = s[i]
        BY <2>1, <4>1
      <4> QED
        BY <4>2
    <3> QED
      BY <3>1, <3>2
  <2>7. ASSUME \A i \in 1..n + 1 : i \in keep PROVE Len(next) = n + 1 /\ \A i \in 1..n + 1 : next[i] = s[i]
    <3>1. \A i \in 1..n : i \in keep
      BY <2>7
    <3>2. Len(r) = n /\ \A i \in 1..n : r[i] = s[i]
      BY <3>1 DEF PickedOf
    <3> QED
      BY <2>1, <3>2
  <2> HIDE DEF g
  <2> QED
    BY <2>1, <2>3, <2>4, <2>5, <2>6, <2>7 DEF PickedOf
<1> QED
  BY <1>3, <1>4

LEMMA PickedFacts ==
    ASSUME NEW T, NEW s \in Seq(T), NEW keep
    PROVE  Picked(s, keep) \in Seq(T) /\ PickedOf(s, keep, Len(s), Picked(s, keep))
<1>1. Len(s) \in Nat /\ DOMAIN s = 1..Len(s)
  OBVIOUS
<1> DEFINE u == CHOOSE f : PickedUpTo(s, keep, Len(s), f)
<1>2. PickedUpTo(s, keep, Len(s), u)
  BY <1>1, HasPicked
<1>3. Picked(s, keep) = u[Len(s)]
  BY DEF Picked, PickedUpTo
<1> HIDE DEF u
<1>a. \A m \in 0..Len(s) : u[m] = IF m = 0 THEN <<>> ELSE IF m \in keep THEN Append(u[m - 1], s[m]) ELSE u[m - 1]
  BY <1>2 DEF PickedUpTo
<1>4. u[0] = <<>> /\ \A m \in 1..Len(s) : u[m] = IF m \in keep THEN Append(u[m - 1], s[m]) ELSE u[m - 1]
  <2>1. u[0] = <<>>
    BY <1>1, <1>a
  <2>2. \A m \in 1..Len(s) : m \in 0..Len(s) /\ m # 0
    BY <1>1
  <2> QED
    BY <1>a, <2>1, <2>2
<1> DEFINE Right == {m \in Nat : m <= Len(s) => u[m] \in Seq(T) /\ PickedOf(s, keep, m, u[m])}
<1>5. 0 \in Right
  <2>1. <<>> \in Seq(T) /\ <<>> \in [DOMAIN <<>> -> 1..0] /\ DOMAIN <<>> = {} /\ Len(<<>>) = 0
    OBVIOUS
  <2>2. \E f \in [{} -> 1..0] : TRUE
    <3>1. [k \in {} |-> 0] \in [{} -> 1..0]
      OBVIOUS
    <3> QED
      BY <3>1
  <2>3. PickedOf(s, keep, 0, <<>>)
    <3>1. PICK e : e = <<>> /\ DOMAIN e = {} /\ Len(e) = 0
      BY <2>1
    <3>2. PICK f \in [DOMAIN e -> 1..0] : TRUE
      BY <2>2, <3>1
    <3>3. (\A k \in DOMAIN e : f[k] \in keep /\ e[k] = s[f[k]]) /\ (\A j, k \in DOMAIN e : f[j] = f[k] => j = k)
      BY <3>1
    <3>4. \A i \in 1..0 : FALSE
      OBVIOUS
    <3>5. PickedOf(s, keep, 0, e)
      BY <3>1, <3>3, <3>4 DEF PickedOf
    <3> QED
      BY <3>1, <3>5
  <2> QED
    BY <1>4, <2>1, <2>3
<1>6. ASSUME NEW m \in Nat, m \in Right PROVE m + 1 \in Right
  <2> SUFFICES ASSUME m + 1 <= Len(s) PROVE u[m + 1] \in Seq(T) /\ PickedOf(s, keep, m + 1, u[m + 1])
    OBVIOUS
  <2>1. m + 1 \in DOMAIN s /\ (m + 1) - 1 = m /\ m <= Len(s)
    BY <1>1
  <2>2. u[m + 1] = IF m + 1 \in keep THEN Append(u[m], s[m + 1]) ELSE u[m]
    BY <1>1, <1>4, <2>1
  <2>3. u[m] \in Seq(T) /\ PickedOf(s, keep, m, u[m])
    BY <1>6, <2>1
  <2> QED
    BY <2>1, <2>2, <2>3, PickedGrows
<1> HIDE DEF Right
<1>7. \A m \in Nat : m \in Right
  BY <1>5, <1>6, CountsUp
<1> QED
  BY <1>1, <1>3, <1>7 DEF Right

(* All that is kept of a list of which all is kept is the list.                *)
LEMMA PickedWhole ==
    ASSUME NEW T, NEW s \in Seq(T), NEW keep, \A i \in DOMAIN s : i \in keep
    PROVE  Picked(s, keep) = s
<1>1. PICK r \in Seq(T) : r = Picked(s, keep)
  BY PickedFacts
<1>2. PickedOf(s, keep, Len(s), r)
  BY <1>1, PickedFacts
<1>3. Len(r) = Len(s) /\ \A i \in 1..Len(s) : r[i] = s[i]
  BY <1>2 DEF PickedOf
<1> QED
  BY <1>1, <1>3

------------------------------------------------------------------------------
(* The Lutron gateway: lutron/manager.ts.                                      *)

LutronSlot == [save : Nat, asks : BOOLEAN, socket : Nat \cup {None}, connected : BOOLEAN,
         loggedIn : BOOLEAN, loginSent : BOOLEAN, posted : BOOLEAN]

LutronKinds ==
    /\ DOMAIN lSlots \subseteq lProcessors
    /\ lSlots \in [DOMAIN lSlots -> LutronSlot]
    /\ lSaves \in 0..lMaxSaves /\ lSockets \in 0..lMaxSockets
    /\ \A p \in DOMAIN lSlots : lSlots[p].socket \in (1..lSockets) \cup {None}
    /\ lOpen = [n \in DOMAIN lOpen |-> lOpen[n]] /\ DOMAIN lOpen \subseteq 1..lSockets
    /\ lSent \in [1..lSockets -> Nat]

(* All slots are of the last save.  A slot without an open socket has a timer, *)
(* one with an open socket has none.                                           *)
LutronSlots ==
    /\ \A p \in DOMAIN lSlots :
          /\ lSlots[p].save = lSaves
          /\ Lutron!Up(p) = (Lutron!Id(p) \notin lTimers)
          /\ Lutron!Up(p) => lOpen[lSlots[p].socket] = Lutron!Id(p)
          /\ lSlots[p].connected \/ lSlots[p].loggedIn => Lutron!Up(p)
    /\ \A t \in lTimers : \E p \in DOMAIN lSlots : t = Lutron!Id(p)
    /\ \A n \in DOMAIN lOpen : \E p \in DOMAIN lSlots : lSlots[p].socket = n

(* Monitoring was asked for on no socket that is still to ask for it.          *)
LutronSent ==
    /\ \A n \in 1..lSockets : lSent[n] <= 1
    /\ \A p \in DOMAIN lSlots : Lutron!Up(p) /\ ~lSlots[p].posted => lSent[lSlots[p].socket] = 0

LutronInv == LutronKinds /\ LutronSlots /\ LutronSent

(* No two slots share a socket.                                                *)
LEMMA SocketsDiffer ==
    ASSUME LutronSlots, NEW p \in DOMAIN lSlots, NEW q \in DOMAIN lSlots, Lutron!Up(p), Lutron!Up(q),
           lSlots[p].socket = lSlots[q].socket
    PROVE  p = q
<1>1. lOpen[lSlots[p].socket] = Lutron!Id(p) /\ lOpen[lSlots[q].socket] = Lutron!Id(q)
  BY DEF LutronSlots
<1>2. Lutron!Id(p) = Lutron!Id(q)
  BY <1>1
<1> QED
  BY <1>2 DEF Lutron!Id

(* With a socket each or a timer each, there are as many sockets and timers as *)
(* there are slots.                                                            *)
LEMMA OneEach ==
    ASSUME Lutron!LutronAssumption, LutronKinds, LutronSlots
    PROVE  Cardinality(lTimers) + Cardinality(DOMAIN lOpen) = Cardinality(DOMAIN lSlots)
<1> DEFINE S == DOMAIN lSlots
           U == {p \in S : Lutron!Up(p)}
           f == [p \in S \ U |-> Lutron!Id(p)]
           g == [p \in U |-> lSlots[p].socket]
<1>1. IsFiniteSet(S) /\ IsFiniteSet(U) /\ IsFiniteSet(S \ U)
  BY FS_Subset, LutronSets DEF Lutron!LutronAssumption, LutronKinds
<1>2. f \in Bijection(S \ U, lTimers)
  <2>1. f \in [S \ U -> lTimers]
    BY DEF LutronSlots
  <2>2. \A a, b \in S \ U : f[a] = f[b] => a = b
    BY DEF Lutron!Id
  <2>3. \A t \in lTimers : \E p \in S \ U : f[p] = t
    BY DEF LutronSlots
  <2> QED
    BY <2>1, <2>2, <2>3, Fun_IsBij
<1>3. g \in Bijection(U, DOMAIN lOpen)
  <2>1. g \in [U -> DOMAIN lOpen]
    BY DEF Lutron!Up
  <2>2. \A a, b \in U : g[a] = g[b] => a = b
    BY SocketsDiffer
  <2>3. \A n \in DOMAIN lOpen : \E p \in U : g[p] = n
    BY DEF LutronSlots, Lutron!Up
  <2> QED
    BY <2>1, <2>2, <2>3, Fun_IsBij
<1>4. Cardinality(lTimers) = Cardinality(S \ U) /\ Cardinality(DOMAIN lOpen) = Cardinality(U)
  BY <1>1, <1>2, <1>3, FS_Bijection, Fun_ExistsBij
<1>5. Cardinality(S \ U) = Cardinality(S) - Cardinality(U)
  <2>1. S \cap U = U
    OBVIOUS
  <2> QED
    BY <1>1, <2>1, FS_Difference
<1>6. Cardinality(S) \in Nat /\ Cardinality(U) \in Nat
  BY <1>1, FS_CardinalityType
<1> QED
  BY <1>4, <1>5, <1>6

LEMMA LutronStart == Lutron!LutronAssumption /\ Lutron!Init => LutronInv
  BY DEF Lutron!LutronAssumption, Lutron!Init, LutronInv, LutronKinds, LutronSlots, LutronSent, Lutron!Up

(* A step that leaves the sockets and timers alone keeps what they say.        *)
LEMMA LutronStep == Lutron!LutronAssumption /\ LutronInv /\ [Lutron!Next]_lVars => LutronInv'
<1> SUFFICES ASSUME Lutron!LutronAssumption, LutronInv, [Lutron!Next]_lVars PROVE LutronInv'
  OBVIOUS
<1>k. LutronKinds /\ LutronSlots /\ LutronSent
  BY DEF LutronInv
<1>q. ASSUME LutronKinds', LutronSlots', LutronSent' PROVE LutronInv'
  BY <1>q DEF LutronInv
<1>1. ASSUME NEW h \in lHouses, Lutron!Rebuild(h) PROVE LutronInv'
  <2>1. DOMAIN lOpen' = {} /\ lOpen' = [n \in DOMAIN lOpen' |-> lOpen'[n]]
    BY <1>1, <1>k DEF Lutron!Rebuild, Lutron!Stopped, LutronSlots, Lutron!Up
  <2>2. lTimers' = {<<p, lSaves'>> : p \in DOMAIN lSlots'}
    BY <1>1, <1>k DEF Lutron!Rebuild, Lutron!TimersOf, Lutron!Stopped, LutronSlots
  <2>3. /\ DOMAIN lSlots' \subseteq lProcessors /\ lSlots' \in [DOMAIN lSlots' -> LutronSlot]
        /\ \A p \in DOMAIN lSlots' : /\ lSlots'[p].save = lSaves' /\ lSlots'[p].socket = None
                                     /\ ~lSlots'[p].connected /\ ~lSlots'[p].loggedIn
    BY <1>1, <1>k DEF Lutron!Rebuild, Lutron!Fresh, LutronSlot, LutronKinds, Lutron!LutronAssumption
  <2>4. LutronKinds'
    <3>1. lSaves' = lSaves + 1 /\ lSaves' \in 0..lMaxSaves /\ UNCHANGED <<lSockets, lSent>>
      BY <1>1, <1>k DEF Lutron!Rebuild, LutronKinds, Lutron!LutronAssumption
    <3> QED
      BY <1>k, <2>1, <2>3, <3>1 DEF LutronKinds
  <2>5. LutronSlots' /\ LutronSent'
    BY <1>1, <1>k, <2>1, <2>2, <2>3 DEF Lutron!Rebuild, LutronSlots, LutronSent, Lutron!Up, Lutron!Id
  <2> QED
    BY <2>4, <2>5, <1>q
<1>2. ASSUME NEW p \in lProcessors, Lutron!Connect(p) PROVE LutronInv'
  <2>1. p \in DOMAIN lSlots /\ Lutron!Id(p) \in lTimers /\ ~Lutron!Up(p) /\ lSlots[p].socket \notin DOMAIN lOpen
    BY <1>2, <1>k DEF Lutron!Connect, LutronSlots, Lutron!Up
  <2>2. /\ lSockets' = lSockets + 1 /\ lSockets' \in 0..lMaxSockets /\ lSockets' \notin DOMAIN lOpen
        /\ lSockets' \notin 1..lSockets /\ 1..lSockets' = (1..lSockets) \cup {lSockets'}
        /\ UNCHANGED lSaves
    BY <1>2, <1>k DEF Lutron!Connect, LutronKinds, Lutron!LutronAssumption
  <2>3. /\ DOMAIN lSlots' = DOMAIN lSlots /\ lSlots' \in [DOMAIN lSlots -> LutronSlot]
        /\ lSlots'[p].socket = lSockets' /\ lSlots'[p].save = lSlots[p].save
        /\ ~lSlots'[p].posted /\ ~lSlots'[p].connected /\ ~lSlots'[p].loggedIn
        /\ \A q \in DOMAIN lSlots \ {p} : lSlots'[q] = lSlots[q]
    <3> DEFINE fresh == [lSlots[p] EXCEPT !.socket = lSockets', !.connected = FALSE,
                           !.loggedIn = FALSE, !.loginSent = FALSE, !.posted = FALSE]
    <3>1. lSlots[p] \in LutronSlot
      BY <2>1, <1>k DEF LutronKinds
    <3>0. lSockets' \in Nat
      BY <2>2 DEF Lutron!LutronAssumption
    <3>2. fresh \in LutronSlot
      BY <3>0, <3>1 DEF LutronSlot
    <3>4. fresh.socket = lSockets' /\ fresh.save = lSlots[p].save
      BY <3>1 DEF LutronSlot
    <3>5. fresh.posted = FALSE /\ fresh.connected = FALSE /\ fresh.loggedIn = FALSE
      BY <3>1 DEF LutronSlot
    <3>3. lSlots' = [lSlots EXCEPT ![p] = fresh]
      BY <1>2 DEF Lutron!Connect
    <3> HIDE DEF fresh
    <3> QED
      BY <3>2, <3>3, <3>4, <3>5, <2>1, <1>k DEF LutronKinds
  <2>4. /\ DOMAIN lOpen' = DOMAIN lOpen \cup {lSockets'} /\ lOpen' = [n \in DOMAIN lOpen' |-> lOpen'[n]]
        /\ lOpen'[lSockets'] = Lutron!Id(p) /\ \A n \in DOMAIN lOpen : lOpen'[n] = lOpen[n]
    BY <1>2, <2>1, <2>2 DEF Lutron!Connect
  <2>5. /\ lSent' \in [1..lSockets' -> Nat] /\ lSent'[lSockets'] = 0
        /\ \A n \in 1..lSockets : lSent'[n] = lSent[n]
    BY <1>2, <1>k, <2>2 DEF Lutron!Connect, LutronKinds
  <2>6. lTimers' = lTimers \ {Lutron!Id(p)}
    BY <1>2 DEF Lutron!Connect
  <2>7. \A q \in DOMAIN lSlots : Lutron!Id(q)' = Lutron!Id(q) /\ (q # p => Lutron!Id(q) # Lutron!Id(p))
    BY <2>3 DEF Lutron!Id
  <2>9. LutronKinds'
    BY <2>2, <2>3, <2>4, <2>5, <1>k DEF LutronKinds
  <2>10. \A q \in DOMAIN lSlots \ {p} : Lutron!Up(q)' = Lutron!Up(q)
    <3>1. \A q \in DOMAIN lSlots \ {p} : lSlots'[q].socket = lSlots[q].socket
                                      /\ lSlots[q].socket # lSockets'
      BY <2>2, <2>3, <1>k DEF LutronKinds, Lutron!LutronAssumption
    <3> QED
      BY <2>3, <2>4, <3>1 DEF Lutron!Up
  <2>11. LutronSlots'
    BY <2>1, <2>2, <2>3, <2>4, <2>6, <2>7, <2>10, <1>k DEF LutronSlots, Lutron!Up
  <2>12. LutronSent'
    <3>1. \A n \in 1..lSockets' : lSent'[n] <= 1
      BY <2>2, <2>5, <1>k DEF LutronSent
    <3>2. ASSUME NEW q \in DOMAIN lSlots \ {p}, Lutron!Up(q)', ~lSlots'[q].posted
          PROVE  lSent'[lSlots'[q].socket] = 0
      <4>1. Lutron!Up(q) /\ ~lSlots[q].posted /\ lSlots'[q].socket = lSlots[q].socket
        BY <2>3, <2>10, <3>2
      <4>2. lSlots[q].socket \in 1..lSockets /\ lSent[lSlots[q].socket] = 0
        BY <4>1, <1>k DEF LutronSent, LutronKinds, Lutron!Up
      <4> QED
        BY <2>5, <4>1, <4>2
    <3> QED
      BY <2>3, <2>5, <3>1, <3>2 DEF LutronSent
  <2> QED
    BY <2>9, <2>11, <2>12, <1>q
<1>3. ASSUME NEW p \in lProcessors, Lutron!Connected(p) \/ Lutron!LoginAsked(p) \/ Lutron!PasswordAsked(p)
      PROVE  LutronInv'
  <2>1. /\ Lutron!Up(p) /\ DOMAIN lSlots' = DOMAIN lSlots /\ lSlots' \in [DOMAIN lSlots -> LutronSlot]
        /\ \A q \in DOMAIN lSlots :
              /\ lSlots'[q].socket = lSlots[q].socket /\ lSlots'[q].save = lSlots[q].save
              /\ lSlots'[q].posted = lSlots[q].posted
              /\ q # p => lSlots'[q] = lSlots[q]
        /\ UNCHANGED <<lTimers, lOpen, lSaves, lSockets, lSent>>
    <3>0. p \in DOMAIN lSlots /\ lSlots[p] \in LutronSlot
      BY <1>3, <1>k DEF Lutron!Connected, Lutron!LoginAsked, Lutron!PasswordAsked, LutronKinds, Lutron!Up
    <3>1. CASE Lutron!Connected(p)
      BY <3>0, <3>1, <1>k DEF Lutron!Connected, LutronKinds, LutronSlot
    <3>2. CASE Lutron!LoginAsked(p)
      BY <3>0, <3>2, <1>k DEF Lutron!LoginAsked, LutronKinds, LutronSlot
    <3>3. CASE Lutron!PasswordAsked(p)
      BY <3>0, <3>3, <1>k DEF Lutron!PasswordAsked, LutronKinds, LutronSlot
    <3> QED
      BY <1>3, <3>1, <3>2, <3>3
  <2>2. \A q \in DOMAIN lSlots : Lutron!Up(q)' = Lutron!Up(q) /\ Lutron!Id(q)' = Lutron!Id(q)
    BY <2>1 DEF Lutron!Up, Lutron!Id
  <2>3. LutronKinds'
    BY <2>1, <1>k DEF LutronKinds
  <2>4. LutronSlots'
    BY <2>1, <2>2, <1>k DEF LutronSlots
  <2>5. LutronSent'
    BY <2>1, <2>2, <1>k DEF LutronSent
  <2> QED
    BY <2>3, <2>4, <2>5, <1>q
<1>4. ASSUME NEW p \in lProcessors, Lutron!PostLogin(p) PROVE LutronInv'
  <2>1. /\ Lutron!Up(p) /\ ~lSlots[p].posted /\ DOMAIN lSlots' = DOMAIN lSlots
        /\ lSlots' \in [DOMAIN lSlots -> LutronSlot] /\ lSlots'[p].posted
        /\ \A q \in DOMAIN lSlots :
              /\ lSlots'[q].socket = lSlots[q].socket /\ lSlots'[q].save = lSlots[q].save
              /\ lSlots'[q].connected = lSlots[q].connected
              /\ lSlots'[q].loggedIn = lSlots[q].loggedIn
              /\ q # p => lSlots'[q] = lSlots[q]
        /\ UNCHANGED <<lTimers, lOpen, lSaves, lSockets>>
    BY <1>4, <1>k DEF Lutron!PostLogin, LutronKinds, LutronSlot, Lutron!Up
  <2>2. \A q \in DOMAIN lSlots : Lutron!Up(q)' = Lutron!Up(q) /\ Lutron!Id(q)' = Lutron!Id(q)
    BY <2>1 DEF Lutron!Up, Lutron!Id
  <2>3. /\ lSlots[p].socket \in 1..lSockets /\ lSent[lSlots[p].socket] = 0
        /\ lSent' = [lSent EXCEPT ![lSlots[p].socket] = @ + 1]
    BY <1>4, <2>1, <1>k DEF Lutron!PostLogin, LutronKinds, LutronSent, Lutron!Up
  <2>4. LutronKinds'
    BY <2>1, <2>3, <1>k DEF LutronKinds
  <2>5. LutronSlots'
    BY <2>1, <2>2, <1>k DEF LutronSlots
  <2>6. \A q \in DOMAIN lSlots \ {p} : Lutron!Up(q) => lSlots[q].socket # lSlots[p].socket
    BY <2>1, <1>k, SocketsDiffer DEF Lutron!Up
  <2>7. LutronSent'
    BY <2>1, <2>2, <2>3, <2>6, <1>k DEF LutronSent, LutronKinds, Lutron!Up
  <2> QED
    BY <2>4, <2>5, <2>7, <1>q
<1>5. ASSUME NEW p \in lProcessors, Lutron!Closes(p) PROVE LutronInv'
  <2>1. /\ Lutron!Up(p) /\ DOMAIN lSlots' = DOMAIN lSlots /\ lSlots' \in [DOMAIN lSlots -> LutronSlot]
        /\ lSlots'[p].socket = None /\ lSlots'[p].save = lSlots[p].save
        /\ ~lSlots'[p].connected /\ ~lSlots'[p].loggedIn
        /\ \A q \in DOMAIN lSlots \ {p} : lSlots'[q] = lSlots[q]
        /\ UNCHANGED <<lSaves, lSockets, lSent>>
    BY <1>5, <1>k DEF Lutron!Closes, LutronKinds, LutronSlot, Lutron!Up
  <2>2. /\ DOMAIN lOpen' = DOMAIN lOpen \ {lSlots[p].socket}
        /\ lOpen' = [n \in DOMAIN lOpen' |-> lOpen'[n]]
        /\ \A n \in DOMAIN lOpen' : lOpen'[n] = lOpen[n]
        /\ lTimers' = lTimers \cup {Lutron!Id(p)}
    BY <1>5 DEF Lutron!Closes
  <2>3. \A q \in DOMAIN lSlots : Lutron!Id(q)' = Lutron!Id(q) /\ (q # p => Lutron!Id(q) # Lutron!Id(p))
    BY <2>1 DEF Lutron!Id
  <2>4. \A q \in DOMAIN lSlots \ {p} : Lutron!Up(q) => lSlots[q].socket # lSlots[p].socket
    BY <2>1, <1>k, SocketsDiffer DEF Lutron!Up
  <2>5. /\ \A q \in DOMAIN lSlots \ {p} : Lutron!Up(q)' = Lutron!Up(q)
        /\ ~Lutron!Up(p)'
    BY <2>1, <2>2, <2>4, <1>k DEF Lutron!Up, LutronKinds, Lutron!LutronAssumption
  <2>6. LutronKinds'
    BY <2>1, <2>2, <1>k DEF LutronKinds
  <2>7. LutronSlots'
    BY <2>1, <2>2, <2>3, <2>4, <2>5, <1>k DEF LutronSlots, Lutron!Up
  <2>8. LutronSent'
    BY <2>1, <2>5, <1>k DEF LutronSent
  <2> QED
    BY <2>6, <2>7, <2>8, <1>q
<1>6. CASE \/ \E p \in lProcessors : Lutron!Button(p) \/ Lutron!FireMapping(p)
           \/ \E b \in lBus, ok \in BOOLEAN : Lutron!Mapped(b, ok)
           \/ UNCHANGED lVars
  <2>1. UNCHANGED <<lSlots, lTimers, lOpen, lSaves, lSockets, lSent>>
    BY <1>6 DEF Lutron!Button, Lutron!FireMapping, Lutron!Mapped, lVars
  <2> QED
    BY <2>1, <1>k, <1>q DEF LutronKinds, LutronSlots, LutronSent, Lutron!Up, Lutron!Id
<1> QED
  BY <1>1, <1>2, <1>3, <1>4, <1>5, <1>6 DEF Lutron!Next

(* One socket or one reconnect timer for each processor of the house as saved  *)
(* last, monitoring asked for once on each, and commands only over open ones:  *)
LEMMA LutronIsSound == Lutron!LutronAssumption /\ LutronInv => Lutron!GatewaysKept /\ Lutron!TypesOK
<1> SUFFICES ASSUME Lutron!LutronAssumption, LutronInv PROVE Lutron!GatewaysKept /\ Lutron!TypesOK
  OBVIOUS
<1>k. LutronKinds /\ LutronSlots /\ LutronSent
  BY DEF LutronInv
<1>1. lTimers \cup {lOpen[n] : n \in DOMAIN lOpen} = {Lutron!Id(p) : p \in DOMAIN lSlots}
  BY <1>k DEF LutronSlots, Lutron!Up
<1>2. Cardinality(lTimers) + Cardinality(DOMAIN lOpen) = Cardinality(DOMAIN lSlots)
  BY <1>k, OneEach
<1>3. \A p \in lProcessors : Lutron!PickSlot(p) \in DOMAIN lSlots \cup {None}
  BY FS_EmptySet, LutronSets DEF Lutron!PickSlot
<1>4. \A p \in lProcessors : Lutron!Sends(p) => lSlots[Lutron!PickSlot(p)].socket \in DOMAIN lOpen
  BY <1>3, <1>k DEF Lutron!Sends, LutronSlots, Lutron!Up
<1>5. Lutron!GatewaysKept
  BY <1>1, <1>2, <1>4, <1>k, LutronSets DEF Lutron!GatewaysKept, LutronSlots, LutronSent, LutronKinds
<1>6. Lutron!TypesOK
  BY <1>k DEF LutronKinds, Lutron!TypesOK
<1> QED
  BY <1>5, <1>6

------------------------------------------------------------------------------
(* The alarm's configuration: satel/app.py.                                    *)
(* The file is what memory will be when the last reload has come.               *)
ConfInv ==
    /\ fPuts \in 0..fMaxPuts /\ fCrossed \in BOOLEAN
    /\ fConf \in AlarmConf!Configs /\ fFile \in AlarmConf!Configs /\ fReloads \in Seq(AlarmConf!Configs)
    /\ ~fCrossed => IF fReloads = <<>> THEN fFile = fConf ELSE fFile = fReloads[Len(fReloads)]

LEMMA ConfStart == AlarmConf!SatelConfigAssumption /\ AlarmConf!Init => ConfInv
<1> SUFFICES ASSUME AlarmConf!SatelConfigAssumption, AlarmConf!Init PROVE ConfInv
  OBVIOUS
<1>1. fConf \in AlarmConf!Configs /\ fFile = fConf /\ fPuts \in 0..fMaxPuts
  BY DEF AlarmConf!SatelConfigAssumption, AlarmConf!Init, AlarmConf!Configs
<1>2. fCrossed \in BOOLEAN
  BY DEF AlarmConf!Init
<1> QED
  BY <1>1, <1>2 DEF AlarmConf!Init, ConfInv

LEMMA ConfStep == AlarmConf!SatelConfigAssumption /\ ConfInv /\ [AlarmConf!Next]_fVars => ConfInv'
<1> SUFFICES ASSUME AlarmConf!SatelConfigAssumption, ConfInv, [AlarmConf!Next]_fVars PROVE ConfInv'
  OBVIOUS
<1> USE DEF ConfInv, AlarmConf!SatelConfigAssumption
<1>1. ASSUME NEW fields \in SUBSET {"host", "pin"}, AlarmConf!PutConfig(fields) PROVE ConfInv'
  <2>1. fFile' \in AlarmConf!Configs
    BY <1>1 DEF AlarmConf!PutConfig, AlarmConf!Configs
  <2>2. fReloads' = Append(fReloads, fFile') /\ fReloads' \in Seq(AlarmConf!Configs)
    BY <1>1, <2>1 DEF AlarmConf!PutConfig
  <2>3. fReloads' # <<>> /\ fReloads'[Len(fReloads')] = fFile'
    BY <2>1, <2>2
  <2>4. fPuts' \in 0..fMaxPuts /\ UNCHANGED fConf
    BY <1>1 DEF AlarmConf!PutConfig
  <2>5. fCrossed' \in BOOLEAN
    BY <1>1 DEF AlarmConf!PutConfig
  <2> QED
    BY <1>1, <2>1, <2>2, <2>3, <2>4, <2>5 DEF AlarmConf!PutConfig
<1>2. CASE AlarmConf!PutPin
  <2>1. fFile' \in AlarmConf!Configs /\ fConf' = fFile'
    BY <1>2 DEF AlarmConf!PutPin, AlarmConf!PinInMemory, AlarmConf!Configs
  <2>2. fPuts' \in 0..fMaxPuts /\ fCrossed' \in BOOLEAN /\ fReloads' = fReloads
    BY <1>2 DEF AlarmConf!PutPin
  <2>3. ~fCrossed' => fReloads' = <<>>
    BY <1>2 DEF AlarmConf!PutPin
  <2> QED
    BY <1>2, <2>1, <2>2, <2>3 DEF AlarmConf!PutPin
<1>3. CASE AlarmConf!Reload
  <2>1. /\ fConf' = fReloads[1] /\ fConf' \in AlarmConf!Configs
        /\ fReloads' \in Seq(AlarmConf!Configs) /\ Len(fReloads') = Len(fReloads) - 1
        /\ \A i \in 1..Len(fReloads') : fReloads'[i] = fReloads[i + 1]
        /\ UNCHANGED <<fFile, fPuts, fCrossed>>
    BY <1>3 DEF AlarmConf!Reload
  <2>2. CASE Len(fReloads) = 1
    BY <2>1, <2>2, <1>3 DEF AlarmConf!Reload
  <2>3. CASE Len(fReloads) # 1
    <3>1. Len(fReloads') \in 1..Len(fReloads') /\ fReloads' # <<>>
      BY <1>3, <2>1, <2>3 DEF AlarmConf!Reload
    <3>2. fReloads'[Len(fReloads')] = fReloads[Len(fReloads)]
      BY <2>1, <3>1
    <3> QED
      BY <1>3, <2>1, <3>1, <3>2 DEF AlarmConf!Reload
  <2> QED
    BY <2>2, <2>3
<1>4. CASE AlarmConf!Restart
  <2>1. fReloads' = <<>> /\ fReloads' \in Seq(AlarmConf!Configs) /\ fConf' = fFile' /\ UNCHANGED <<fFile, fPuts>>
    BY <1>4 DEF AlarmConf!Restart
  <2>2. fCrossed' \in BOOLEAN
    BY <1>4 DEF AlarmConf!Restart
  <2> QED
    BY <2>1, <2>2
<1>5. CASE UNCHANGED fVars
  BY <1>5 DEF fVars
<1> QED
  BY <1>1, <1>2, <1>3, <1>4, <1>5 DEF AlarmConf!Next

LEMMA ConfIsSound == ConfInv => AlarmConf!FileIsConfig /\ AlarmConf!TypesOK
  BY DEF ConfInv, AlarmConf!FileIsConfig, AlarmConf!TypesOK

------------------------------------------------------------------------------
(* The alarm panel: satel/bridge.py.                                           *)
Answers == [kind : {"query", "name", "order"}, of : yModes \cup Alarm!Slots \cup {None}, fresh : BOOLEAN,
            is : BOOLEAN]
Requests == [kind : {"query", "name", "order"}, of : yModes \cup Alarm!Slots \cup {None}]

(* What a request, or an answer, is about.                                     *)
Fits(r) ==
    /\ r.kind = "query" => r.of \in yModes
    /\ r.kind = "order" => r.of \in yModes \cup {None}
    /\ r.kind = "name" => r.of \in Alarm!Slots

SatelKinds ==
    /\ yEncrypted \in BOOLEAN /\ yUp \in BOOLEAN /\ yArmed \in BOOLEAN /\ ySlow \in BOOLEAN
    /\ ySent \in Seq(Requests) /\ yLink \in Seq(Answers) /\ Len(ySent) + Len(yLink) <= yMaxWire
    /\ \A i \in 1..Len(ySent) : Fits(ySent[i])
    /\ \A i \in 1..Len(yLink) : Fits(yLink[i])
    /\ yQuery \in yModes /\ yByCmd \in [yModes -> BOOLEAN \cup {None}]
    /\ ySlot \in Alarm!Slots \cup {None} /\ yFound \subseteq Alarm!Slots
    /\ yLayout \in [found : SUBSET Alarm!Slots, slow : BOOLEAN] \cup {None}
    /\ yPanel \in yModes \cup {None} /\ yChanges \in 0..yMaxChanges /\ yStale \subseteq yModes

(* One at a time has the lock, and the answer to a name comes last.            *)
SatelTurns ==
    /\ yHolders \in {{}, {"poll"}, {"name"}, {"order"}} /\ (yHolders # {} => yUp)
    /\ "name" \in yHolders => ySlot \in Alarm!Slots /\ ySlot # None
    /\ "name" \in yHolders => IF ySent # <<>> THEN ySent[Len(ySent)].kind = "name"
                             ELSE yLink # <<>> /\ yLink[Len(yLink)].kind = "name"

(* A fresh answer is right; the others come before it, and while one is to be  *)
(* read no mode is known.                                                      *)
SatelFresh ==
    \A i \in 1..Len(yLink) :
        /\ yLink[i].fresh = TRUE /\ yLink[i].kind = "query" => (yLink[i].is = TRUE <=> yLink[i].of = yPanel)
        /\ yLink[i].fresh # TRUE => yStale = yModes /\ \A j \in 1..i : yLink[j].fresh # TRUE

(* What is known of a mode is so, and with it what is shown is made.           *)
SatelKnown ==
    /\ \A m \in yModes \ yStale : yByCmd[m] = TRUE <=> yPanel = m
    /\ yStale # yModes => (yArmed = TRUE <=> \E m \in yModes : yByCmd[m] = TRUE)

(* A reading without a strange answer has every name it has come past.         *)
SatelNames ==
    /\ ySlot # None /\ ySlow # TRUE => yFound = 1..(ySlot - 1)
    /\ Alarm!LayoutWhole

SatelInv == SatelKinds /\ SatelTurns /\ SatelFresh /\ SatelKnown /\ SatelNames

(* What is left of a sequence when its first k elements are taken.             *)
LEMMA RestOf ==
    ASSUME NEW S, NEW s \in Seq(S), NEW k \in 1..Len(s)
    PROVE  /\ SubSeq(s, k + 1, Len(s)) \in Seq(S)
           /\ Len(SubSeq(s, k + 1, Len(s))) = Len(s) - k
           /\ \A i \in 1..(Len(s) - k) : SubSeq(s, k + 1, Len(s))[i] = s[i + k]
  OBVIOUS

LEMMA SatelReads ==
    ASSUME SatelInv, yLink # <<>>, Alarm!Handled(Head(yLink)), NEW k \in 1..Len(yLink),
           yLink' = SubSeq(yLink, k + 1, Len(yLink)), UNCHANGED yPanel
    PROVE  /\ yLink' \in Seq(Answers) /\ Len(yLink') = Len(yLink) - k
           /\ \A i \in 1..Len(yLink') : yLink'[i] = yLink[i + k]
           /\ yByCmd' \in [yModes -> BOOLEAN \cup {None}] /\ yArmed' \in BOOLEAN
           /\ yStale' \subseteq yModes /\ SatelFresh' /\ SatelKnown'
           /\ \A i \in 1..Len(yLink') : Fits(yLink'[i])
<1>k. SatelKinds /\ SatelFresh /\ SatelKnown
  BY DEF SatelInv
<1> DEFINE a == yLink[1]
<1>a. a \in Answers /\ Head(yLink) = a /\ 1 \in 1..Len(yLink)
  BY <1>k DEF SatelKinds
<1>1. /\ yLink' \in Seq(Answers) /\ Len(yLink') = Len(yLink) - k
      /\ \A i \in 1..Len(yLink') : yLink'[i] = yLink[i + k] /\ i + k \in 1..Len(yLink)
  BY <1>k, RestOf DEF SatelKinds
<1>l. Len(yLink) \in Nat /\ Len(yLink') \in Nat
  BY <1>k, <1>1 DEF SatelKinds
<1>f. ASSUME NEW i \in 1..Len(yLink'), yLink'[i].fresh = TRUE, yLink'[i].kind = "query"
      PROVE  yLink'[i].is = TRUE <=> yLink'[i].of = yPanel'
  BY <1>k, <1>1, <1>f DEF SatelFresh
<1>t. \A i \in 1..Len(yLink') : Fits(yLink'[i])
  BY <1>k, <1>1 DEF SatelKinds
<1>2. CASE a.kind = "query"
  <2>1. /\ yByCmd' = [yByCmd EXCEPT ![a.of] = a.is]
        /\ yStale' = IF a.fresh THEN yStale \ {a.of} ELSE yStale
    BY <1>a, <1>2 DEF Alarm!Handled
  <2>2. a.of \in yModes /\ a.is \in BOOLEAN /\ a.fresh \in BOOLEAN
    BY <1>k, <1>a, <1>2 DEF SatelKinds, Answers, Fits
  <2>3. yByCmd' \in [yModes -> BOOLEAN \cup {None}] /\ yStale' \subseteq yModes
    BY <1>k, <2>1, <2>2 DEF SatelKinds
  <2>4. yArmed' = Alarm!Union(yByCmd', a.of)
    BY <1>a, <1>2 DEF Alarm!Handled
  <2>5. yArmed' \in BOOLEAN
    BY <2>4 DEF Alarm!Union
  <2>6. yArmed' = TRUE <=> \E m \in yModes : yByCmd'[m] = TRUE
    BY <2>4 DEF Alarm!Union
  <2>7. SatelFresh'
    <3>1. ASSUME NEW i \in 1..Len(yLink'), yLink'[i].fresh # TRUE
          PROVE  yStale' = yModes /\ \A j \in 1..i : yLink'[j].fresh # TRUE
      <4>1. yStale = yModes /\ \A j \in 1..(i + k) : yLink[j].fresh # TRUE
        BY <1>k, <1>1, <3>1 DEF SatelFresh
      <4>2. 1 \in 1..(i + k)
        BY <1>l
      <4>3. \A j \in 1..i : j \in 1..Len(yLink') /\ j + k \in 1..(i + k)
        BY <1>1
      <4> QED
        BY <1>1, <2>1, <2>2, <4>1, <4>2, <4>3
    <3> QED
      BY <1>f, <3>1 DEF SatelFresh
  <2>8. \A m \in yModes \ yStale' : yByCmd'[m] = TRUE <=> yPanel' = m
    <3>1. CASE a.fresh = TRUE
      <4>1. a.is = TRUE <=> a.of = yPanel
        BY <1>k, <1>a, <1>2, <3>1 DEF SatelFresh
      <4> QED
        BY <1>k, <2>1, <2>2, <3>1, <4>1 DEF SatelKnown, SatelKinds
    <3>2. CASE a.fresh # TRUE
      <4>1. yStale = yModes /\ yStale' = yStale
        BY <1>k, <1>a, <2>1, <2>2, <3>2 DEF SatelFresh
      <4> QED
        BY <4>1
    <3> QED
      BY <3>1, <3>2
  <2> QED
    BY <1>1, <1>t, <2>3, <2>5, <2>6, <2>7, <2>8 DEF SatelKnown
<1>3. CASE a.kind # "query"
  <2>1. UNCHANGED <<yByCmd, yArmed, yStale>>
    BY <1>a, <1>3 DEF Alarm!Handled
  <2>2. SatelFresh'
    <3>1. ASSUME NEW i \in 1..Len(yLink'), yLink'[i].fresh # TRUE
          PROVE  yStale' = yModes /\ \A j \in 1..i : yLink'[j].fresh # TRUE
      <4>1. yStale = yModes /\ \A j \in 1..(i + k) : yLink[j].fresh # TRUE
        BY <1>k, <1>1, <3>1 DEF SatelFresh
      <4>3. \A j \in 1..i : j \in 1..Len(yLink') /\ j + k \in 1..(i + k)
        BY <1>1
      <4> QED
        BY <1>1, <2>1, <4>1, <4>3
    <3> QED
      BY <1>f, <3>1 DEF SatelFresh
  <2> QED
    BY <1>1, <1>t, <1>k, <2>1, <2>2 DEF SatelKinds, SatelKnown
<1> QED
  BY <1>2, <1>3

LEMMA TwoModes ==
    ASSUME Alarm!SatelAssumption
    PROVE  /\ \A q \in yModes : (CHOOSE m \in yModes : m # q) \in yModes
           /\ (CHOOSE m \in yModes : TRUE) \in yModes
           /\ Alarm!Queries[1] \in yModes /\ Alarm!Queries[2] \in yModes
<1>1. PICK a, b \in yModes : a # b /\ yModes = {a, b}
  BY DEF Alarm!SatelAssumption
<1>2. \A q \in yModes : \E m \in yModes : m # q
  BY <1>1
<1>3. \E s \in [1..2 -> yModes] : \A m \in yModes : \E i \in 1..2 : s[i] = m
  <2> DEFINE s == [i \in 1..2 |-> IF i = 1 THEN a ELSE b]
  <2>1. s \in [1..2 -> yModes] /\ s[1] = a /\ s[2] = b
    BY <1>1
  <2>2. \A m \in yModes : m = s[1] \/ m = s[2]
    BY <1>1, <2>1
  <2> HIDE DEF s
  <2> QED
    BY <2>1, <2>2
<1>4. Alarm!Queries \in [1..2 -> yModes]
  BY <1>3 DEF Alarm!Queries
<1> QED
  BY <1>1, <1>2, <1>4

LEMMA SatelStart == Alarm!SatelAssumption /\ Alarm!Init => SatelInv
<1> SUFFICES ASSUME Alarm!SatelAssumption, Alarm!Init PROVE SatelInv
  OBVIOUS
<1>1. SatelKinds
  <2>1. /\ yEncrypted \in BOOLEAN /\ yUp \in BOOLEAN /\ yArmed \in BOOLEAN /\ ySlow \in BOOLEAN
    BY DEF Alarm!Init
  <2>2. ySent \in Seq(Requests) /\ yLink \in Seq(Answers) /\ Len(ySent) + Len(yLink) <= yMaxWire
    BY DEF Alarm!Init, Alarm!SatelAssumption
  <2>3. yQuery \in yModes
    BY TwoModes DEF Alarm!Init
  <2>4. yChanges \in 0..yMaxChanges /\ yByCmd \in [yModes -> BOOLEAN \cup {None}]
    BY DEF Alarm!Init, Alarm!SatelAssumption
  <2> QED
    BY <2>1, <2>2, <2>3, <2>4 DEF Alarm!Init, SatelKinds
<1>2. SatelTurns /\ SatelFresh /\ SatelKnown /\ SatelNames
  BY DEF Alarm!Init, SatelTurns, SatelFresh, SatelKnown, SatelNames, Alarm!LayoutWhole
<1> QED
  BY <1>1, <1>2 DEF SatelInv

(* What a step must leave alone for a part of the invariant to hold on.        *)
LEMMA SatelKept ==
    ASSUME SatelInv
    PROVE  /\ UNCHANGED <<yLink, yStale, yPanel>> => SatelFresh'
           /\ UNCHANGED <<yByCmd, yArmed, yStale, yPanel>> => SatelKnown'
           /\ UNCHANGED <<ySlot, yFound, ySlow, yLayout>> => SatelNames'
  BY DEF SatelInv, SatelFresh, SatelKnown, SatelNames, Alarm!LayoutWhole

(* A request put behind the others.                                            *)
LEMMA SatelSends ==
    ASSUME SatelInv, NEW r \in Requests, Fits(r)
    PROVE  /\ Append(ySent, r) \in Seq(Requests) /\ Len(Append(ySent, r)) = Len(ySent) + 1
           /\ Append(ySent, r) # <<>> /\ Append(ySent, r)[Len(Append(ySent, r))] = r
           /\ \A i \in 1..Len(Append(ySent, r)) :
                Fits(Append(ySent, r)[i])
<1>1. ySent \in Seq(Requests) /\ Len(ySent) \in Nat
  BY DEF SatelInv, SatelKinds
<1>2. /\ Append(ySent, r) \in Seq(Requests) /\ Len(Append(ySent, r)) = Len(ySent) + 1
      /\ Append(ySent, r)[Len(ySent) + 1] = r
      /\ \A i \in 1..Len(ySent) : Append(ySent, r)[i] = ySent[i]
  BY <1>1
<1> DEFINE t == Append(ySent, r)
<1> HIDE DEF t
<1>3. \A i \in 1..(Len(ySent) + 1) : Fits(t[i])
  <2> SUFFICES ASSUME NEW i \in 1..(Len(ySent) + 1) PROVE Fits(t[i])
    OBVIOUS
  <2>1. CASE i \in 1..Len(ySent)
    BY <1>2, <2>1 DEF SatelInv, SatelKinds, t
  <2>2. CASE i = Len(ySent) + 1
    BY <1>2, <2>2 DEF t
  <2> QED
    BY <1>1, <2>1, <2>2
<1>4. t # <<>>
  BY <1>1, <1>2 DEF t
<1> QED
  BY <1>1, <1>2, <1>3, <1>4 DEF t

LEMMA SatelStep == Alarm!SatelAssumption /\ SatelInv /\ [Alarm!Next]_yVars => SatelInv'
<1> SUFFICES ASSUME Alarm!SatelAssumption, SatelInv, [Alarm!Next]_yVars PROVE SatelInv'
  OBVIOUS
<1>k. SatelKinds /\ SatelTurns /\ SatelFresh /\ SatelKnown /\ SatelNames
  BY DEF SatelInv
<1>q. ASSUME SatelKinds', SatelTurns', SatelFresh', SatelKnown', SatelNames' PROVE SatelInv'
  BY <1>q DEF SatelInv
<1>l. /\ Len(ySent) \in Nat /\ Len(yLink) \in Nat /\ yMaxWire \in Nat
      /\ ySent \in Seq(Requests) /\ yLink \in Seq(Answers)
  BY <1>k DEF SatelKinds, Alarm!SatelAssumption
<1>s. ASSUME Alarm!SessionOver, yQuery' = yQuery, yEncrypted' = yEncrypted, yPanel' = yPanel, yChanges' = yChanges,
             yStale' = yStale \/ yStale' = yModes,
             UNCHANGED <<yByCmd, yArmed>> \/ (yByCmd' = [m \in yModes |-> None] /\ yArmed' = FALSE
                                             /\ yStale' = yModes)
      PROVE  SatelInv'
  <2>1. /\ ySent' = <<>> /\ yLink' = <<>> /\ yHolders' = {} /\ ySlot' = None /\ yLayout' = None
        /\ yFound' = {}
    BY <1>s DEF Alarm!SessionOver
  <2>2. yUp' \in BOOLEAN /\ ySlow' \in BOOLEAN
    BY <1>s DEF Alarm!SessionOver
  <2>3. yArmed' \in BOOLEAN
    BY <1>s, <1>k DEF SatelKinds
  <2>4. yByCmd' \in [yModes -> BOOLEAN \cup {None}] /\ yStale' \subseteq yModes
    BY <1>s, <1>k DEF SatelKinds
  <2>5. SatelKinds'
    BY <1>s, <1>k, <1>l, <2>1, <2>2, <2>3, <2>4 DEF SatelKinds
  <2>6. SatelTurns' /\ SatelFresh' /\ SatelNames'
    BY <2>1 DEF SatelTurns, SatelFresh, SatelNames, Alarm!LayoutWhole
  <2>7. SatelKnown'
    BY <1>s, <1>k DEF SatelKnown
  <2> QED
    BY <2>5, <2>6, <2>7, <1>q
<1>1. CASE Alarm!Reload
  BY <1>1, <1>s DEF Alarm!Reload
<1>2. CASE Alarm!Lose
  BY <1>2, <1>s DEF Alarm!Lose, Alarm!shown, Alarm!truth
<1>3. CASE Alarm!PollTimesOut
  BY <1>3, <1>s DEF Alarm!PollTimesOut, Alarm!shown, Alarm!truth
<1>4. CASE Alarm!Connect
  <2>1. yHolders = {}
    BY <1>4, <1>k DEF Alarm!Connect, SatelTurns
  <2>2. /\ yQuery' \in yModes /\ yByCmd' \in [yModes -> BOOLEAN \cup {None}]
        /\ yStale' = yModes /\ yUp' = TRUE
        /\ UNCHANGED <<yEncrypted, ySent, yLink, yHolders, yArmed, ySlot, yFound, yLayout, ySlow, yPanel, yChanges>>
    BY <1>4, TwoModes DEF Alarm!Connect, Alarm!reading
  <2>3. yUp' \in BOOLEAN
    BY <2>2
  <2>4. SatelKinds' /\ SatelTurns'
    BY <1>k, <2>1, <2>2, <2>3 DEF SatelKinds, SatelTurns
  <2>5. SatelFresh' /\ SatelKnown' /\ SatelNames'
    BY <1>k, <2>2, SatelKept DEF SatelFresh, SatelKnown
  <2> QED
    BY <2>4, <2>5, <1>q
<1>5. CASE Alarm!PollPlain
  <2> DEFINE q1 == Alarm!Ask(Alarm!Queries[1])
             q2 == Alarm!Ask(Alarm!Queries[2])
  <2>1. q1 \in Requests /\ q2 \in Requests /\ Fits(q1) /\ Fits(q2)
    BY TwoModes DEF Alarm!Ask, Requests, Fits
  <2>2. ySent' = ySent \o <<q1, q2>>
    BY <1>5 DEF Alarm!PollPlain
  <2> HIDE DEF q1, q2
  <2>3. /\ ySent' \in Seq(Requests) /\ Len(ySent') = Len(ySent) + 2
        /\ \A i \in 1..Len(ySent) : ySent'[i] = ySent[i]
        /\ ySent'[Len(ySent) + 1] = q1 /\ ySent'[Len(ySent) + 2] = q2
    BY <2>1, <2>2, <1>l
  <2>4. \A i \in 1..Len(ySent') : Fits(ySent'[i])
    <3> SUFFICES ASSUME NEW i \in 1..Len(ySent') PROVE Fits(ySent'[i])
      OBVIOUS
    <3>1. CASE i \in 1..Len(ySent)
      BY <1>k, <2>3, <3>1 DEF SatelKinds
    <3>2. CASE i = Len(ySent) + 1 \/ i = Len(ySent) + 2
      BY <2>1, <2>3, <3>2
    <3> QED
      BY <1>l, <2>3, <3>1, <3>2
  <2>5. /\ yHolders' = {"poll"} /\ Len(ySent') + Len(yLink) <= yMaxWire
        /\ UNCHANGED <<yEncrypted, yUp, yLink, yQuery, yByCmd, yArmed, ySlot, yFound, yLayout, ySlow, yPanel,
                       yChanges, yStale>>
    BY <1>5, <2>3, <1>l DEF Alarm!PollPlain, Alarm!Room, Alarm!shown, Alarm!reading, Alarm!truth
  <2>6. yUp' = TRUE
    BY <1>5, <1>k DEF Alarm!PollPlain, SatelKinds
  <2>7. SatelKinds' /\ SatelTurns'
    BY <1>k, <2>3, <2>4, <2>5, <2>6 DEF SatelKinds, SatelTurns
  <2> QED
    BY <2>5, <2>7, <1>q, SatelKept
<1>6. CASE Alarm!PollReads
  <2>1. yLink # <<>> /\ Alarm!Handled(Head(yLink)) /\ 1 \in 1..Len(yLink) /\ UNCHANGED yPanel
    BY <1>6, <1>l DEF Alarm!PollReads
  <2>2. yLink' = SubSeq(yLink, 1 + 1, Len(yLink))
    BY <1>6, <1>l, <2>1 DEF Alarm!PollReads
  <2>3. /\ yLink' \in Seq(Answers) /\ Len(yLink') = Len(yLink) - 1
        /\ \A i \in 1..Len(yLink') : yLink'[i] = yLink[i + 1]
        /\ yByCmd' \in [yModes -> BOOLEAN \cup {None}] /\ yArmed' \in BOOLEAN
        /\ yStale' \subseteq yModes /\ SatelFresh' /\ SatelKnown'
        /\ \A i \in 1..Len(yLink') : Fits(yLink'[i])
    BY <2>1, <2>2, SatelReads
  <2>4. /\ UNCHANGED <<yEncrypted, yUp, ySent, yHolders, yQuery, ySlot, yFound, yLayout, ySlow, yPanel, yChanges>>
        /\ yHolders = {"poll"}
    BY <1>6, <1>k DEF Alarm!PollReads, Alarm!reading, SatelTurns
  <2>5. SatelKinds' /\ SatelTurns'
    BY <1>k, <1>l, <2>3, <2>4 DEF SatelKinds, SatelTurns
  <2> QED
    BY <2>3, <2>4, <2>5, <1>q, SatelKept
<1>7. CASE Alarm!PollEnds
  <2>1. /\ UNCHANGED <<yEncrypted, yUp, ySent, yLink, yQuery, yByCmd, yArmed, ySlot, yFound, yLayout, ySlow,
                       yPanel, yChanges, yStale>>
        /\ yHolders' = {}
    BY <1>7, <1>k DEF Alarm!PollEnds, Alarm!reading, Alarm!shown, Alarm!truth, SatelTurns
  <2>2. SatelKinds' /\ SatelTurns'
    BY <1>k, <2>1 DEF SatelKinds, SatelTurns
  <2> QED
    BY <2>1, <2>2, <1>q, SatelKept
<1>8. CASE Alarm!PollEncrypted
  <2> DEFINE r == Alarm!Ask(yQuery)
  <2>1. r \in Requests /\ Fits(r) /\ ySent' = Append(ySent, r)
    BY <1>8, <1>k DEF Alarm!PollEncrypted, Alarm!Ask, Requests, SatelKinds, Fits
  <2>2. /\ yHolders' = {"poll"} /\ Len(ySent) + 1 + Len(yLink) <= yMaxWire
        /\ UNCHANGED <<yEncrypted, yUp, yLink, yQuery, yByCmd, yArmed, ySlot, yFound, yLayout, ySlow, yPanel,
                       yChanges, yStale>>
    BY <1>8, <1>l DEF Alarm!PollEncrypted, Alarm!Room, Alarm!shown, Alarm!reading, Alarm!truth
  <2>3. yUp' = TRUE
    BY <1>8, <1>k DEF Alarm!PollEncrypted, SatelKinds
  <2> HIDE DEF r
  <2>4. SatelKinds' /\ SatelTurns'
    BY <1>k, <1>l, <2>1, <2>2, <2>3, SatelSends DEF SatelKinds, SatelTurns
  <2> QED
    BY <2>2, <2>4, <1>q, SatelKept
<1>9. CASE Alarm!PollAnswered
  <2>1. yLink # <<>> /\ Alarm!Handled(Head(yLink)) /\ 1 \in 1..Len(yLink) /\ UNCHANGED yPanel
    BY <1>9, <1>l DEF Alarm!PollAnswered
  <2>2. yLink' = SubSeq(yLink, 1 + 1, Len(yLink))
    BY <1>9, <1>l, <2>1 DEF Alarm!PollAnswered
  <2>3. /\ yLink' \in Seq(Answers) /\ Len(yLink') = Len(yLink) - 1
        /\ \A i \in 1..Len(yLink') : yLink'[i] = yLink[i + 1]
        /\ yByCmd' \in [yModes -> BOOLEAN \cup {None}] /\ yArmed' \in BOOLEAN
        /\ yStale' \subseteq yModes /\ SatelFresh' /\ SatelKnown'
        /\ \A i \in 1..Len(yLink') : Fits(yLink'[i])
    BY <2>1, <2>2, SatelReads
  <2>4. /\ UNCHANGED <<yEncrypted, yUp, ySent, ySlot, yFound, yLayout, ySlow, yPanel, yChanges>>
        /\ yHolders' = {} /\ yQuery' \in yModes
    BY <1>9, <1>k, TwoModes DEF Alarm!PollAnswered, Alarm!reading, SatelTurns, SatelKinds
  <2>l. Len(ySent') + Len(yLink') <= yMaxWire
    <3>1. Len(ySent) + Len(yLink) <= yMaxWire
      BY <1>k DEF SatelKinds
    <3>2. Len(ySent') = Len(ySent) /\ Len(yLink') = Len(yLink) - 1
      BY <2>3, <2>4
    <3> QED
      BY <1>l, <3>1, <3>2
  <2>5. SatelKinds'
    BY <1>k, <2>l, <2>3, <2>4 DEF SatelKinds
  <2>6. SatelTurns'
    BY <2>4 DEF SatelTurns
  <2> QED
    BY <2>3, <2>4, <2>5, <2>6, <1>q, SatelKept
<1>10. ASSUME NEW m \in yModes \cup {None}, Alarm!OrderPlain(m) \/ Alarm!OrderEncrypted(m) PROVE SatelInv'
  <2> DEFINE r == Alarm!Order(m)
  <2>1. r \in Requests /\ Fits(r) /\ ySent' = Append(ySent, r)
    BY <1>10 DEF Alarm!OrderPlain, Alarm!OrderEncrypted, Alarm!Order, Requests, Fits
  <2>2. /\ yHolders = {} /\ yHolders' \in {{}, {"order"}} /\ Len(ySent) + 1 + Len(yLink) <= yMaxWire
        /\ UNCHANGED <<yEncrypted, yUp, yLink, yQuery, yByCmd, yArmed, ySlot, yFound, yLayout, ySlow, yPanel,
                       yChanges, yStale>>
    BY <1>10, <1>l DEF Alarm!OrderPlain, Alarm!OrderEncrypted, Alarm!Room, Alarm!shown, Alarm!reading, Alarm!truth
  <2>3. yUp' = TRUE
    BY <1>10, <1>k DEF Alarm!OrderPlain, Alarm!OrderEncrypted, SatelKinds
  <2> HIDE DEF r
  <2>4. SatelKinds' /\ SatelTurns'
    BY <1>k, <1>l, <2>1, <2>2, <2>3, SatelSends DEF SatelKinds, SatelTurns
  <2> QED
    BY <2>2, <2>4, <1>q, SatelKept
<1>11. CASE Alarm!OrderEnds
  <2>1. /\ UNCHANGED <<yEncrypted, yUp, ySent, yQuery, ySlot, yFound, yLayout, ySlow, yPanel, yChanges>>
        /\ yHolders' = {}
    BY <1>11, <1>k DEF Alarm!OrderEnds, Alarm!reading, SatelTurns
  <2>2. CASE yLink # <<>> /\ Alarm!Handled(Head(yLink)) /\ yLink' = Tail(yLink)
    <3>1. 1 \in 1..Len(yLink) /\ yLink' = SubSeq(yLink, 1 + 1, Len(yLink))
      BY <2>2, <1>l
    <3>2. /\ yLink' \in Seq(Answers) /\ Len(yLink') = Len(yLink) - 1
          /\ \A i \in 1..Len(yLink') : yLink'[i] = yLink[i + 1]
          /\ yByCmd' \in [yModes -> BOOLEAN \cup {None}] /\ yArmed' \in BOOLEAN
          /\ yStale' \subseteq yModes /\ SatelFresh' /\ SatelKnown'
          /\ \A i \in 1..Len(yLink') : Fits(yLink'[i])
      BY <2>1, <2>2, <3>1, SatelReads
    <3>3. SatelKinds'
      BY <1>k, <1>l, <2>1, <3>2 DEF SatelKinds
    <3>4. SatelTurns'
      BY <2>1 DEF SatelTurns
    <3> QED
      BY <2>1, <3>2, <3>3, <3>4, <1>q, SatelKept
  <2>3. CASE UNCHANGED <<yLink, yByCmd, yArmed, yStale>>
    <3>1. SatelKinds' /\ SatelTurns'
      BY <1>k, <2>1, <2>3 DEF SatelKinds, SatelTurns
    <3> QED
      BY <2>1, <2>3, <3>1, <1>q, SatelKept
  <2>4. \/ yLink # <<>> /\ Alarm!Handled(Head(yLink)) /\ yLink' = Tail(yLink)
        \/ UNCHANGED <<yLink, yByCmd, yArmed, yStale>>
    BY <1>11 DEF Alarm!OrderEnds
  <2> HIDE <1>11
  <2> QED
    BY <2>2, <2>3, <2>4
<1>12. CASE Alarm!PanelAnswers
  <2> DEFINE r == ySent[1]
             change == r.kind = "order" /\ r.of # yPanel /\ yChanges < yMaxChanges
             a == [kind |-> r.kind, of |-> r.of, fresh |-> TRUE,
                   is |-> r.kind = "query" /\ r.of = yPanel]
             old == [i \in DOMAIN yLink |->
                        IF change THEN [yLink[i] EXCEPT !.fresh = FALSE] ELSE yLink[i]]
  <2>1. /\ yUp /\ ySent # <<>> /\ r \in Requests /\ ySent' = Tail(ySent)
        /\ Fits(r)
    BY <1>12, <1>l, <1>k DEF Alarm!PanelAnswers, SatelKinds
  <2>2. /\ UNCHANGED <<yEncrypted, yUp, yHolders, yQuery, yByCmd, yArmed, ySlot, yFound, yLayout, ySlow>>
    BY <1>12 DEF Alarm!PanelAnswers, Alarm!shown, Alarm!reading
  <2>d. DOMAIN yLink = 1..Len(yLink) /\ Head(ySent) = r
    BY <1>l, <2>1
  <2>m. yLink' = old \o <<a>>
    BY <1>12, <2>d DEF Alarm!PanelAnswers
  <2>p. yPanel' = IF change THEN r.of ELSE yPanel
    BY <1>12, <2>d DEF Alarm!PanelAnswers
  <2>h. yChanges' = IF change THEN yChanges + 1 ELSE yChanges
    BY <1>12, <2>d DEF Alarm!PanelAnswers
  <2>3. yStale' = IF change THEN yModes ELSE yStale
    BY <1>12, <2>d DEF Alarm!PanelAnswers
  <2>4. a \in Answers
    BY <2>1 DEF Answers, Requests
  <2>5. /\ a.kind = r.kind /\ a.of = r.of /\ a.fresh = TRUE
        /\ a.is = TRUE <=> r.kind = "query" /\ r.of = yPanel
    OBVIOUS
  <2>6. /\ old \in Seq(Answers) /\ Len(old) = Len(yLink)
        /\ \A i \in 1..Len(yLink) : old[i].kind = yLink[i].kind /\ old[i].of = yLink[i].of
                                   /\ old[i].is = yLink[i].is
                                   /\ IF change THEN old[i].fresh = FALSE ELSE old[i] = yLink[i]
    <3>1. \A i \in 1..Len(yLink) : yLink[i] \in Answers
      BY <1>l
    <3>2. \A i \in 1..Len(yLink) : [yLink[i] EXCEPT !.fresh = FALSE] \in Answers
      BY <3>1 DEF Answers
    <3>3. old \in [1..Len(yLink) -> Answers]
      BY <1>l, <3>1, <3>2
    <3>4. old \in Seq(Answers) /\ Len(old) = Len(yLink)
      BY <1>l, <3>3
    <3>5. \A i \in 1..Len(yLink) : old[i] = IF change THEN [yLink[i] EXCEPT !.fresh = FALSE] ELSE yLink[i]
      BY <2>d
    <3> QED
      BY <3>1, <3>4, <3>5 DEF Answers
  <2>c. /\ change => yStale' = yModes /\ r.kind = "order" /\ yChanges' \in 0..yMaxChanges
                      /\ yPanel' = r.of
        /\ ~change => UNCHANGED <<yStale, yPanel, yChanges>>
        /\ r.kind = "query" => ~change
    BY <1>k, <2>3, <2>p, <2>h DEF SatelKinds, Alarm!SatelAssumption
  <2> HIDE DEF r, change, a, old
  <2>7. /\ yLink' \in Seq(Answers) /\ Len(yLink') = Len(yLink) + 1
        /\ \A i \in 1..Len(yLink) : yLink'[i] = old[i]
        /\ yLink'[Len(yLink')] = a
    BY <2>m, <2>4, <2>6, <1>l
  <2>8. /\ ySent' \in Seq(Requests) /\ Len(ySent') = Len(ySent) - 1
        /\ \A i \in 1..Len(ySent') : ySent'[i] = ySent[i + 1]
    BY <2>1, <1>l
  <2>9. SatelKinds'
    <3>1. \A i \in 1..Len(yLink') : Fits(yLink'[i])
      <4> SUFFICES ASSUME NEW i \in 1..Len(yLink') PROVE Fits(yLink'[i])
        OBVIOUS
      <4>1. CASE i \in 1..Len(yLink)
        BY <1>k, <2>6, <2>7, <4>1 DEF SatelKinds, Fits
      <4>2. CASE i = Len(yLink')
        BY <2>1, <2>5, <2>7, <4>2 DEF Fits
      <4> QED
        BY <1>l, <2>7, <4>1, <4>2
    <3>2. \A i \in 1..Len(ySent') : Fits(ySent'[i])
      BY <1>k, <1>l, <2>8 DEF SatelKinds
    <3>3. yPanel' \in yModes \cup {None} /\ yChanges' \in 0..yMaxChanges /\ yStale' \subseteq yModes
      <4>1. CASE change
        BY <2>1, <2>c, <4>1 DEF Fits
      <4>2. CASE ~change
        BY <2>c, <4>2, <1>k DEF SatelKinds
      <4> QED
        BY <4>1, <4>2
    <3>4. Len(ySent') + Len(yLink') <= yMaxWire
      BY <1>k, <1>l, <2>7, <2>8 DEF SatelKinds
    <3>5. /\ yEncrypted' \in BOOLEAN /\ yUp' \in BOOLEAN /\ yArmed' \in BOOLEAN /\ ySlow' \in BOOLEAN
      BY <1>k, <2>2 DEF SatelKinds
    <3> QED
      BY <1>k, <2>2, <2>7, <2>8, <3>1, <3>2, <3>3, <3>4, <3>5 DEF SatelKinds
  <2>10. SatelTurns'
    <3>1. SatelTurns => yHolders' \in {{}, {"poll"}, {"name"}, {"order"}} /\ (yHolders' # {} => yUp')
      BY <2>2 DEF SatelTurns
    <3>2. ASSUME "name" \in yHolders
          PROVE  IF ySent' # <<>> THEN ySent'[Len(ySent')].kind = "name"
                 ELSE yLink' # <<>> /\ yLink'[Len(yLink')].kind = "name"
      <4>1. ySent[Len(ySent)].kind = "name"
        BY <1>k, <2>1, <3>2 DEF SatelTurns
      <4>2. CASE ySent' # <<>>
        BY <1>l, <2>8, <4>1, <4>2
      <4>3. CASE ySent' = <<>>
        <5>1. Len(ySent') = 0
          BY <4>3
        <5>2. Len(ySent) = 1
          BY <1>l, <2>8, <5>1
        <5>3. r.kind = "name"
          BY <4>1, <5>2 DEF r
        <5> QED
          BY <2>5, <2>7, <1>l, <4>3, <5>3
      <4> QED
        BY <4>2, <4>3
    <3> QED
      BY <1>k, <2>2, <3>1, <3>2 DEF SatelTurns
  <2>11. SatelFresh'
    <3> SUFFICES ASSUME NEW i \in 1..Len(yLink')
                 PROVE  /\ yLink'[i].fresh = TRUE /\ yLink'[i].kind = "query"
                              => (yLink'[i].is = TRUE <=> yLink'[i].of = yPanel')
                        /\ yLink'[i].fresh # TRUE => /\ yStale' = yModes
                                                   /\ \A j \in 1..i : yLink'[j].fresh # TRUE
      BY DEF SatelFresh
    <3>1. CASE i = Len(yLink')
      BY <2>5, <2>7, <2>c, <3>1
    <3>2. CASE i \in 1..Len(yLink) /\ change
      <4>1. \A j \in 1..i : j \in 1..Len(yLink)
        BY <1>l, <3>2
      <4>2. \A j \in 1..i : yLink'[j].fresh # TRUE
        BY <2>6, <2>7, <3>2, <4>1
      <4>3. i \in 1..i
        BY <3>2, <1>l
      <4> QED
        BY <2>c, <3>2, <4>2, <4>3
    <3>3. CASE i \in 1..Len(yLink) /\ ~change
      <4>0. \A j \in 1..i : j \in 1..Len(yLink)
        BY <1>l, <3>3
      <4>1. \A j \in 1..i : yLink'[j] = yLink[j]
        BY <2>6, <2>7, <3>3, <4>0
      <4>2. i \in 1..i /\ UNCHANGED <<yStale, yPanel>>
        BY <1>l, <2>c, <3>3
      <4> QED
        BY <1>k, <3>3, <4>1, <4>2 DEF SatelFresh
    <3>4. i = Len(yLink') \/ i \in 1..Len(yLink)
      BY <1>l, <2>7
    <3> QED
      BY <3>1, <3>2, <3>3, <3>4
  <2>12. SatelKnown' /\ SatelNames'
    BY <1>k, <2>2, <2>c, SatelKept DEF SatelKnown
  <2> QED
    BY <2>9, <2>10, <2>11, <2>12, <1>q
<1>13. ASSUME NEW m \in yModes \cup {None}, Alarm!PanelChanges(m) PROVE SatelInv'
  <2>1. /\ yPanel' = m /\ yStale' = yModes /\ yChanges' \in 0..yMaxChanges
        /\ UNCHANGED <<yEncrypted, yUp, ySent, yHolders, yQuery, yByCmd, yArmed, ySlot, yFound, yLayout, ySlow>>
    BY <1>13, <1>k DEF Alarm!PanelChanges, SatelKinds, Alarm!SatelAssumption, Alarm!shown, Alarm!reading
  <2>0. \A i \in 1..Len(yLink) : yLink[i] \in Answers
    BY <1>l
  <2>2. \A i \in 1..Len(yLink) : [yLink[i] EXCEPT !.fresh = FALSE] \in Answers
    BY <2>0 DEF Answers
  <2>3. yLink' = [i \in 1..Len(yLink) |-> [yLink[i] EXCEPT !.fresh = FALSE]]
    BY <1>13, <1>l DEF Alarm!PanelChanges
  <2>4. yLink' \in Seq(Answers) /\ Len(yLink') = Len(yLink)
    BY <1>l, <2>2, <2>3
  <2>5. \A i \in 1..Len(yLink) : yLink[i] \in Answers
    BY <1>l
  <2>6. \A i \in 1..Len(yLink) : /\ yLink'[i].kind = yLink[i].kind /\ yLink'[i].of = yLink[i].of
                                 /\ yLink'[i].fresh = FALSE
    BY <2>3, <2>5 DEF Answers
  <2>7. SatelKinds'
    BY <1>k, <1>l, <2>1, <2>4, <2>6 DEF SatelKinds, Fits
  <2>8. SatelTurns'
    BY <1>k, <1>l, <2>1, <2>4, <2>6 DEF SatelTurns
  <2>9. SatelFresh'
    <3>1. \A i \in 1..Len(yLink') : yLink'[i].fresh # TRUE
      BY <2>4, <2>6
    <3>2. \A i \in 1..Len(yLink') : \A j \in 1..i : j \in 1..Len(yLink')
      BY <1>l, <2>4
    <3> QED
      BY <2>1, <3>1, <3>2 DEF SatelFresh
  <2>10. SatelKnown' /\ SatelNames'
    BY <2>1, SatelKept DEF SatelKnown
  <2> QED
    BY <2>7, <2>8, <2>9, <2>10, <1>q
<1>14. CASE Alarm!DiscoverStarts
  <2>1. /\ ySlot' = 1 /\ yFound' = {} /\ ySlow' = FALSE /\ yLayout' = None
        /\ UNCHANGED <<yEncrypted, yUp, ySent, yLink, yHolders, yQuery, yByCmd, yArmed, yPanel, yChanges, yStale>>
    BY <1>14 DEF Alarm!DiscoverStarts, Alarm!wire, Alarm!shown, Alarm!truth
  <2>2. ySlot' \in Alarm!Slots
    BY <2>1 DEF Alarm!Slots, Alarm!SatelAssumption
  <2>3. ySlow' \in BOOLEAN
    BY <2>1
  <2>6. SatelKinds'
    BY <1>k, <2>1, <2>2, <2>3 DEF SatelKinds
  <2>7. "name" \notin yHolders
    BY <1>14, <1>k DEF Alarm!DiscoverStarts, SatelTurns
  <2>4. SatelTurns'
    BY <1>k, <2>1, <2>7 DEF SatelTurns
  <2>5. SatelNames'
    BY <2>1 DEF SatelNames, Alarm!LayoutWhole
  <2> QED
    BY <2>1, <2>4, <2>5, <2>6, <1>q, SatelKept
<1>15. CASE Alarm!NameAsked
  <2> DEFINE r == Alarm!AskName(ySlot)
  <2>1. /\ r \in Requests /\ r.kind = "name" /\ Fits(r) /\ ySent' = Append(ySent, r)
        /\ ySlot \in Alarm!Slots /\ ySlot # None
    BY <1>15, <1>k DEF Alarm!NameAsked, Alarm!AskName, Requests, SatelKinds, Fits
  <2>2. /\ yHolders' = {"name"} /\ Len(ySent) + 1 + Len(yLink) <= yMaxWire
        /\ UNCHANGED <<yEncrypted, yUp, yLink, yQuery, yByCmd, yArmed, ySlot, yFound, yLayout, ySlow, yPanel,
                       yChanges, yStale>>
    BY <1>15, <1>l DEF Alarm!NameAsked, Alarm!MayAskName, Alarm!Room, Alarm!shown, Alarm!reading, Alarm!truth
  <2>3. yUp' = TRUE
    BY <1>15, <1>k DEF Alarm!NameAsked, SatelKinds
  <2> HIDE DEF r
  <2>4. SatelKinds' /\ SatelTurns'
    BY <1>k, <1>l, <2>1, <2>2, <2>3, SatelSends DEF SatelKinds, SatelTurns
  <2> QED
    BY <2>2, <2>4, <1>q, SatelKept
(* The next slot, or the end: a reading that stays whole has the slots so far. *)
<1>g. ASSUME Alarm!Goes, ySlot \in Alarm!Slots, yFound' \subseteq Alarm!Slots, ySlow' \in BOOLEAN,
             ySlow' # TRUE => yFound' = 1..ySlot
      PROVE  /\ ySlot' \in Alarm!Slots \cup {None}
             /\ yLayout' \in [found : SUBSET Alarm!Slots, slow : BOOLEAN] \cup {None}
             /\ SatelNames'
  <2>1. CASE ySlot + 1 \in Alarm!Slots
    <3>1. ySlot' = ySlot + 1 /\ yLayout' = yLayout
      BY <1>g, <2>1 DEF Alarm!Goes
    <3>2. ySlot' # None /\ ySlow' # TRUE => yFound' = 1..(ySlot' - 1)
      BY <1>g, <3>1 DEF Alarm!Slots
    <3>3. Alarm!LayoutWhole'
      BY <1>k, <3>1 DEF SatelNames, Alarm!LayoutWhole
    <3> QED
      BY <1>k, <2>1, <3>1, <3>2, <3>3 DEF SatelNames, SatelKinds
  <2>2. CASE ySlot + 1 \notin Alarm!Slots
    <3>1. ySlot' = None /\ yLayout' = [found |-> yFound', slow |-> ySlow']
      BY <1>g, <2>2 DEF Alarm!Goes
    <3>2. 1..ySlot = Alarm!Slots
      BY <1>g, <2>2 DEF Alarm!Slots, Alarm!SatelAssumption
    <3>3. Alarm!LayoutWhole'
      BY <1>g, <3>1, <3>2 DEF Alarm!LayoutWhole
    <3> QED
      BY <1>g, <3>1, <3>3 DEF SatelNames
  <2> QED
    BY <2>1, <2>2
<1>16. CASE Alarm!NameAnswered
  <2> DEFINE a == yLink[1]
  <2>1. /\ yLink # <<>> /\ Alarm!Handled(a) /\ a \in Answers /\ Fits(a) /\ Head(yLink) = a
        /\ yHolders = {"name"} /\ ySlot \in Alarm!Slots /\ ySlot # None /\ yUp
        /\ UNCHANGED <<yEncrypted, yUp, ySent, yQuery, yPanel, yChanges>>
    BY <1>16, <1>l, <1>k DEF Alarm!NameAnswered, SatelKinds, SatelTurns
  <2>2. CASE a.kind = "query" /\ ~yEncrypted
    <3>1. yLink' = Tail(yLink) /\ UNCHANGED <<yHolders, ySlot, yFound, ySlow, yLayout>>
      BY <1>16, <2>1, <2>2 DEF Alarm!NameAnswered
    <3>2. 1 \in 1..Len(yLink) /\ yLink' = SubSeq(yLink, 1 + 1, Len(yLink))
      BY <2>1, <3>1, <1>l
    <3>3. /\ yLink' \in Seq(Answers) /\ Len(yLink') = Len(yLink) - 1
          /\ \A i \in 1..Len(yLink') : yLink'[i] = yLink[i + 1]
          /\ yByCmd' \in [yModes -> BOOLEAN \cup {None}] /\ yArmed' \in BOOLEAN
          /\ yStale' \subseteq yModes /\ SatelFresh' /\ SatelKnown'
          /\ \A i \in 1..Len(yLink') : Fits(yLink'[i])
      BY <2>1, <3>2, SatelReads
    <3>4. SatelKinds'
      BY <1>k, <1>l, <2>1, <3>1, <3>3 DEF SatelKinds
    <3>5. ySent = <<>> => yLink' # <<>> /\ yLink'[Len(yLink')].kind = "name"
      <4> SUFFICES ASSUME ySent = <<>> PROVE yLink' # <<>> /\ yLink'[Len(yLink')].kind = "name"
        OBVIOUS
      <4>1. yLink[Len(yLink)].kind = "name" /\ Len(yLink) # 1
        BY <1>k, <2>1, <2>2 DEF SatelTurns
      <4> QED
        BY <1>l, <2>1, <3>3, <4>1
    <3>6. SatelTurns'
      BY <1>k, <2>1, <3>1, <3>5 DEF SatelTurns
    <3> QED
      BY <3>1, <3>3, <3>4, <3>6, <1>q, SatelKept
  <2>3. CASE ~(a.kind = "query" /\ ~yEncrypted)
    <3>1. /\ \E k \in 1..(IF yEncrypted THEN 1 ELSE Len(yLink)) : yLink' = SubSeq(yLink, k + 1, Len(yLink))
          /\ yFound' = IF a.kind = "name" THEN yFound \cup {a.of} ELSE yFound
          /\ yHolders' = {} /\ Alarm!Goes
      BY <1>16, <2>1, <2>3 DEF Alarm!NameAnswered
    <3>2. PICK k \in 1..Len(yLink) : yLink' = SubSeq(yLink, k + 1, Len(yLink))
      BY <1>l, <2>1, <3>1
    <3>3. ySlow' = (ySlow \/ a.kind # "name" \/ a.of # ySlot)
      BY <1>16, <2>1, <2>3 DEF Alarm!NameAnswered
    <3>4. ySlow' \in BOOLEAN
      BY <3>3
    <3>5. ySlow' # TRUE => ySlow # TRUE /\ a.kind = "name" /\ a.of = ySlot
      BY <3>3
    <3>6. yFound' \subseteq Alarm!Slots /\ (ySlow' # TRUE => yFound' = 1..ySlot)
      <4>1. ySlow # TRUE => yFound = 1..(ySlot - 1)
        BY <1>k, <2>1 DEF SatelNames
      <4>2. (1..(ySlot - 1)) \cup {ySlot} = 1..ySlot
        BY <2>1 DEF Alarm!Slots
      <4> QED
        BY <1>k, <2>1, <3>1, <3>5, <4>1, <4>2 DEF SatelKinds, Fits
    <3>7. /\ ySlot' \in Alarm!Slots \cup {None}
          /\ yLayout' \in [found : SUBSET Alarm!Slots, slow : BOOLEAN] \cup {None}
          /\ SatelNames'
      BY <1>g, <2>1, <3>1, <3>4, <3>6
    <3>8. /\ yLink' \in Seq(Answers) /\ Len(yLink') = Len(yLink) - k
          /\ \A i \in 1..Len(yLink') : yLink'[i] = yLink[i + k]
          /\ yByCmd' \in [yModes -> BOOLEAN \cup {None}] /\ yArmed' \in BOOLEAN
          /\ yStale' \subseteq yModes /\ SatelFresh' /\ SatelKnown'
          /\ \A i \in 1..Len(yLink') : Fits(yLink'[i])
      BY <2>1, <3>2, SatelReads
    <3>9. SatelKinds'
      <4>1. \A i \in 1..Len(yLink') : Fits(yLink'[i])
        BY <3>8
      <4> QED
        BY <1>k, <1>l, <2>1, <3>4, <3>6, <3>7, <3>8, <4>1 DEF SatelKinds
    <3>10. SatelTurns'
      BY <3>1 DEF SatelTurns
    <3> QED
      BY <3>7, <3>8, <3>9, <3>10, <1>q
  <2> QED
    BY <2>2, <2>3
<1>17. CASE Alarm!NameTimesOut
  <2>1. /\ "name" \in yHolders /\ yHolders = {"name"} /\ ySlot \in Alarm!Slots /\ ySlot # None
        /\ yHolders' = {} /\ yFound' = yFound
        /\ UNCHANGED <<yEncrypted, yUp, ySent, yLink, yQuery, yByCmd, yArmed, yPanel, yChanges, yStale>>
    BY <1>17, <1>k DEF Alarm!NameTimesOut, SatelTurns, Alarm!shown, Alarm!truth
  <2>2. ySlow' = (ySlow \/ ySent # <<>> \/ yLink # <<>>)
    BY <1>17 DEF Alarm!NameTimesOut
  <2>3. ySlow' \in BOOLEAN
    BY <2>2
  <2>4. ySlow' = TRUE
    <3>1. ySent # <<>> \/ yLink # <<>>
      BY <1>k, <2>1 DEF SatelTurns
    <3> QED
      BY <2>2, <3>1
  <2>5. /\ ySlot' \in Alarm!Slots \cup {None}
        /\ yLayout' \in [found : SUBSET Alarm!Slots, slow : BOOLEAN] \cup {None}
        /\ SatelNames'
    <3>1. CASE yEncrypted
      <4>1. ySlot' = None /\ yLayout' = yLayout
        BY <1>17, <3>1 DEF Alarm!NameTimesOut
      <4> QED
        BY <1>k, <4>1 DEF SatelNames, Alarm!LayoutWhole, SatelKinds
    <3>2. CASE ~yEncrypted
      <4>1. Alarm!Goes
        BY <1>17, <3>2 DEF Alarm!NameTimesOut
      <4> QED
        BY <1>g, <1>k, <2>1, <2>3, <2>4, <4>1 DEF SatelKinds
    <3> QED
      BY <3>1, <3>2
  <2>6. SatelKinds' /\ SatelTurns'
    BY <1>k, <2>1, <2>3, <2>5 DEF SatelKinds, SatelTurns
  <2> QED
    BY <2>1, <2>5, <2>6, <1>q, SatelKept
<1>18. CASE UNCHANGED yVars
  <2>1. /\ UNCHANGED <<yEncrypted, yUp, ySent, yLink, yHolders, yQuery, yByCmd, yArmed, ySlot, yFound, yLayout>>
        /\ UNCHANGED <<yPanel, yChanges, yStale, ySlow>>
    BY <1>18 DEF yVars
  <2>2. SatelKinds' /\ SatelTurns'
    BY <1>k, <2>1 DEF SatelKinds, SatelTurns
  <2> QED
    BY <2>1, <2>2, <1>q, SatelKept
<1> QED
  BY <1>1, <1>2, <1>3, <1>4, <1>5, <1>6, <1>7, <1>8, <1>9, <1>10, <1>11, <1>12, <1>13, <1>14,
     <1>15, <1>16, <1>17, <1>18 DEF Alarm!Next

LEMMA SatelIsSound == Alarm!SatelAssumption /\ SatelInv => Alarm!SatelSound /\ Alarm!TypesOK
<1> SUFFICES ASSUME Alarm!SatelAssumption, SatelInv PROVE Alarm!SatelSound /\ Alarm!TypesOK
  OBVIOUS
<1>k. SatelKinds /\ SatelTurns /\ SatelKnown /\ SatelNames
  BY DEF SatelInv
<1>1. yUp /\ yStale = {} => yArmed = (yPanel # None)
  <2> SUFFICES ASSUME yStale = {} PROVE yArmed = (yPanel # None)
    OBVIOUS
  <2>1. yArmed = TRUE <=> \E m \in yModes : yByCmd[m] = TRUE
    BY <1>k DEF SatelKnown, Alarm!SatelAssumption
  <2>2. yArmed = TRUE <=> yPanel # None
    BY <1>k, <2>1 DEF SatelKnown, SatelKinds, Alarm!SatelAssumption
  <2>3. yArmed \in BOOLEAN
    BY <1>k DEF SatelKinds
  <2> QED
    BY <2>2, <2>3
<1>2. Alarm!TypesOK
  BY <1>k DEF SatelKinds, SatelTurns, Alarm!TypesOK
<1> QED
  BY <1>1, <1>2, <1>k DEF Alarm!SatelSound, Alarm!ShownFollowsPanel, SatelNames

------------------------------------------------------------------------------
(* Each processor of the house has one socket or one reconnect timer, and is   *)
(* asked once to report; what is shown of the alarm panel is what it is, under *)
(* the names it gave; and the alarm's file holds the configuration in use: the *)
(* slots of lutron/manager.ts, the frames and the query of satel/bridge.py, and*)
(* satel/app.py.                                                               *)
THEOREM GatewaysAlwaysKept == Spec => []GatewaysKept
<1> DEFINE Inv == /\ part = "lutron" => LutronInv
                  /\ part = "alarm" => SatelInv
                  /\ part = "alarmConfig" => ConfInv
<1>a. Lutron!LutronAssumption /\ Alarm!SatelAssumption /\ AlarmConf!SatelConfigAssumption
  BY HouseAssumption
<1>1. Init => Inv
  BY <1>a, InitOf, LutronStart, SatelStart, ConfStart
<1>2. Inv /\ [Next]_allVars => Inv'
  <2> SUFFICES ASSUME Inv, [Next]_allVars PROVE Inv'
    OBVIOUS
  <2>1. part' = "lutron" => LutronInv'
    BY <1>a, StepOf, LutronStep
  <2>2. part' = "alarm" => SatelInv'
    BY <1>a, StepOf, SatelStep
  <2>3. part' = "alarmConfig" => ConfInv'
    BY <1>a, StepOf, ConfStep
  <2> QED
    BY <2>1, <2>2, <2>3
<1>3. Inv => GatewaysKept
  BY <1>a, LutronIsSound, SatelIsSound, ConfIsSound DEF GatewaysKept
<1> QED
  BY <1>1, <1>2, <1>3, PTL DEF Spec

------------------------------------------------------------------------------
(* The rockers that dim the music: media/knxBridge.ts.                         *)
VolumeRequests == [of : 1..hMaxHolds, volume : 0..100]

(* The timer of the hold is the only one, each hold has at most one request    *)
(* out, and none is out for a hold that is still to come.                      *)
HoldInv ==
    /\ hVolume \in 0..100 /\ hAsked \in 0..100 \cup {None}
    /\ hStarted \in 0..hMaxHolds /\ hHold \in 1..hMaxHolds \cup {None}
    /\ hLastDim \in {"stop", "up", "down"}
    /\ hApplying \subseteq VolumeRequests /\ \A a \in hApplying : a.of <= hStarted
    /\ hLastDim # "stop" => hHold \in 1..hStarted
    /\ Hold!HoldFollowsRocker

LEMMA HoldStart == Hold!HoldAssumption /\ Hold!Init => HoldInv
<1> SUFFICES ASSUME Hold!HoldAssumption, Hold!Init PROVE HoldInv
  OBVIOUS
<1> QED
  BY DEF Hold!HoldAssumption, Hold!Init, HoldInv, Hold!HoldFollowsRocker

LEMMA NextVolumeKinds ==
    ASSUME Hold!HoldAssumption, NEW v \in 0..100, NEW direction
    PROVE  Hold!NextVolume(v, direction) \in 0..100
  BY DEF Hold!HoldAssumption, Hold!NextVolume, Hold!VOLUME_MIN

(* A timer that ticks asks for one volume, unless it has a request out.        *)
LEMMA RequestKinds ==
    ASSUME Hold!HoldAssumption, hVolume \in 0..100, NEW t, t.id \in 1..hMaxHolds
    PROVE  /\ Hold!Request(t) \subseteq VolumeRequests
           /\ \A a \in Hold!Request(t) : a.of = t.id
           /\ \A a, b \in Hold!Request(t) : a = b
  BY NextVolumeKinds DEF Hold!Request, VolumeRequests

LEMMA HoldStep == Hold!HoldAssumption /\ HoldInv /\ [Hold!Next]_hVars => HoldInv'
<1> SUFFICES ASSUME Hold!HoldAssumption, HoldInv, [Hold!Next]_hVars PROVE HoldInv'
  OBVIOUS
<1>k. /\ hVolume \in 0..100 /\ hAsked \in 0..100 \cup {None}
      /\ hStarted \in 0..hMaxHolds /\ hHold \in 1..hMaxHolds \cup {None} /\ hMaxHolds \in Nat
      /\ hLastDim \in {"stop", "up", "down"}
      /\ hApplying \subseteq VolumeRequests /\ \A a \in hApplying : a.of <= hStarted
      /\ hLastDim # "stop" => hHold \in 1..hStarted
      /\ hTimers = IF hLastDim = "stop" THEN {} ELSE {[id |-> hHold, direction |-> hLastDim]}
      /\ \A a, b \in hApplying : a.of = b.of => a = b
  BY DEF HoldInv, Hold!HoldFollowsRocker, Hold!HoldAssumption
<1>1. ASSUME NEW t \in hTimers, Hold!TimerTicks(t) PROVE HoldInv'
  <2>1. hLastDim # "stop" /\ t = [id |-> hHold, direction |-> hLastDim] /\ t.id = hHold /\ hHold \in 1..hStarted
    BY <1>1, <1>k
  <2>2. t.id \in 1..hMaxHolds /\ t.id <= hStarted
    BY <1>k, <2>1
  <2>3. /\ Hold!Request(t) \subseteq VolumeRequests /\ \A a \in Hold!Request(t) : a.of = t.id
        /\ \A a, b \in Hold!Request(t) : a = b
    BY <1>k, <2>2, RequestKinds
  <2>4. \A a \in hApplying : a.of # t.id
    BY <1>1 DEF Hold!TimerTicks, Hold!Ticks
  <2>5. /\ hApplying' = hApplying \cup Hold!Request(t)
        /\ UNCHANGED <<hVolume, hAsked, hStarted, hHold, hLastDim, hTimers>>
    BY <1>1 DEF Hold!TimerTicks
  <2> QED
    BY <1>k, <2>2, <2>3, <2>4, <2>5 DEF HoldInv, Hold!HoldFollowsRocker
<1>2. ASSUME NEW n \in hNibbles, Hold!Dimmed(n) PROVE HoldInv'
  <2>0. UNCHANGED <<hVolume, hAsked>> /\ Hold!DecodeDim(n) \in {"stop", "up", "down"}
    BY <1>2 DEF Hold!Dimmed, Hold!DecodeDim
  <2>1. CASE UNCHANGED <<hHold, hTimers, hApplying, hStarted, hLastDim>>
    BY <1>k, <2>0, <2>1 DEF HoldInv, Hold!HoldFollowsRocker
  <2>2. CASE hLastDim' = "stop" /\ Hold!StopHold /\ UNCHANGED <<hApplying, hStarted>>
    <3>1. hTimers' = {} /\ hHold' = None
      BY <1>k, <2>2 DEF Hold!StopHold
    <3> QED
      BY <1>k, <2>0, <2>2, <3>1 DEF HoldInv, Hold!HoldFollowsRocker
  <2>3. CASE hLastDim' = Hold!DecodeDim(n) /\ Hold!DecodeDim(n) # "stop" /\ Hold!StartHold(Hold!DecodeDim(n))
    <3> DEFINE t == [id |-> hStarted + 1, direction |-> Hold!DecodeDim(n)]
    <3>1. /\ hStarted < hMaxHolds /\ hStarted' = hStarted + 1 /\ hHold' = t.id
          /\ hTimers' = {x \in hTimers : x.id # hHold} \cup {t}
          /\ hApplying' = hApplying \cup Hold!Request(t)
      BY <2>3 DEF Hold!StartHold
    <3>2. t.id = hStarted + 1 /\ t.id \in 1..hMaxHolds /\ t.id \in 1..hStarted' /\ hStarted' \in 0..hMaxHolds
      BY <1>k, <3>1
    <3>3. t = [id |-> hHold', direction |-> hLastDim']
      BY <2>3, <3>1
    <3> HIDE DEF t
    <3>4. {x \in hTimers : x.id # hHold} = {}
      BY <1>k
    <3>5. /\ Hold!Request(t) \subseteq VolumeRequests /\ \A a \in Hold!Request(t) : a.of = t.id
          /\ \A a, b \in Hold!Request(t) : a = b
      BY <1>k, <3>2, RequestKinds
    <3>6. \A a \in hApplying : a.of \in Nat /\ a.of < t.id
      BY <1>k, <3>2 DEF VolumeRequests
    <3>7. /\ hApplying' \subseteq VolumeRequests /\ \A a \in hApplying' : a.of <= hStarted'
          /\ \A a, b \in hApplying' : a.of = b.of => a = b
      BY <1>k, <3>1, <3>2, <3>5, <3>6
    <3>8. hTimers' = {[id |-> hHold', direction |-> hLastDim']}
      BY <3>1, <3>3, <3>4
    <3> QED
      BY <1>k, <2>0, <2>3, <3>1, <3>2, <3>7, <3>8 DEF HoldInv, Hold!HoldFollowsRocker
  <2> QED
    BY <1>2, <2>1, <2>2, <2>3 DEF Hold!Dimmed
<1>3. ASSUME NEW b \in hButtons, NEW value \in BOOLEAN, Hold!Pressed(b, value) PROVE HoldInv'
  BY <1>3, <1>k DEF Hold!Pressed, HoldInv, Hold!HoldFollowsRocker
<1>4. ASSUME NEW a \in hApplying, NEW ok \in BOOLEAN, Hold!Applied(a, ok) PROVE HoldInv'
  <2>1. a.volume \in 0..100
    BY <1>k DEF VolumeRequests
  <2> QED
    BY <1>4, <1>k, <2>1 DEF Hold!Applied, HoldInv, Hold!HoldFollowsRocker
<1>5. ASSUME NEW value \in hToggles, Hold!Toggled(value) PROVE HoldInv'
  BY <1>5, <1>k DEF Hold!Toggled, HoldInv, Hold!HoldFollowsRocker
<1>6. CASE Hold!PollAsks
  BY <1>6, <1>k DEF Hold!PollAsks, HoldInv, Hold!HoldFollowsRocker
<1>7. CASE Hold!PollEnds
  BY <1>7, <1>k DEF Hold!PollEnds, HoldInv, Hold!HoldFollowsRocker
<1>8. CASE Hold!Saves
  BY <1>8, <1>k DEF Hold!Saves, HoldInv, Hold!HoldFollowsRocker
<1>9. CASE Hold!Closes
  <2>1. hTimers' = {} /\ hHold' = None /\ hLastDim' = "stop" /\ UNCHANGED <<hVolume, hAsked, hApplying, hStarted>>
    BY <1>9, <1>k DEF Hold!Closes, Hold!StopHold
  <2> QED
    BY <1>k, <2>1 DEF HoldInv, Hold!HoldFollowsRocker
<1>10. CASE UNCHANGED hVars
  BY <1>10, <1>k DEF hVars, HoldInv, Hold!HoldFollowsRocker
<1> QED
  BY <1>1, <1>2, <1>3, <1>4, <1>5, <1>6, <1>7, <1>8, <1>9, <1>10 DEF Hold!Next

LEMMA HoldIsSound == HoldInv => Hold!HoldFollowsRocker /\ Hold!TypesOK
  BY DEF HoldInv, Hold!TypesOK

------------------------------------------------------------------------------
(* Next and previous: media/skipLogic.ts.                                      *)
SkipListKinds(list) ==
    /\ list \in Seq(Skips!Items) /\ \A i \in DOMAIN list : Skips!Playing(list[i]) # {}
    /\ Skips!ToldApart(list)
Hints(s) == {"", s.uri}

(* A step from a place of a ring and the step back.                            *)
LEMMA AroundAndBack ==
    ASSUME NEW n \in Nat, NEW i \in 1..n, NEW dir \in {1, -1}
    PROVE  /\ Skips!Around(i, n, dir) \in 1..n
           /\ Skips!Around(Skips!Around(i, n, dir), n, Skips!Back(dir)) = i
           /\ Skips!Around(i, n, 1) = IF i = n THEN 1 ELSE i + 1
<1>1. \A a \in 0..n - 1 : (a + n) % n = a
  OBVIOUS
<1>2. (n + n) % n = 0 /\ (n - 1) % n = n - 1
  OBVIOUS
<1>4. \A j \in 1..n : Skips!Around(j, n, -1) = IF j = 1 THEN n ELSE j - 1
  <2> SUFFICES ASSUME NEW j \in 1..n PROVE Skips!Around(j, n, -1) = IF j = 1 THEN n ELSE j - 1
    OBVIOUS
  <2>1. CASE j = 1
    <3>1. j - 1 + (-1) + n = n - 1
      BY <2>1
    <3> QED
      BY <1>2, <2>1, <3>1 DEF Skips!Around
  <2>2. CASE j # 1
    <3>1. j - 2 \in 0..n - 1 /\ j - 1 + (-1) + n = (j - 2) + n
      BY <2>2
    <3>2. (j - 2 + n) % n = j - 2
      BY <1>1, <3>1
    <3> QED
      BY <2>2, <3>1, <3>2 DEF Skips!Around
  <2> QED
    BY <2>1, <2>2
<1>5. \A j \in 1..n : Skips!Around(j, n, 1) = IF j = n THEN 1 ELSE j + 1
  <2> SUFFICES ASSUME NEW j \in 1..n PROVE Skips!Around(j, n, 1) = IF j = n THEN 1 ELSE j + 1
    OBVIOUS
  <2>1. CASE j = n
    <3>1. j - 1 + 1 + n = n + n
      BY <2>1
    <3> QED
      BY <1>2, <2>1, <3>1 DEF Skips!Around
  <2>2. CASE j # n
    <3>1. j \in 0..n - 1 /\ j - 1 + 1 + n = j + n
      BY <2>2
    <3> QED
      BY <1>1, <2>2, <3>1 DEF Skips!Around
  <2> QED
    BY <2>1, <2>2
<1>6. CASE dir = 1
  BY <1>4, <1>5, <1>6 DEF Skips!Back
<1>7. CASE dir = -1
  BY <1>4, <1>5, <1>7 DEF Skips!Back
<1> QED
  BY <1>6, <1>7

(* The least of some places is a place.                                        *)
LEMMA FirstOfOne ==
    ASSUME NEW i \in Nat
    PROVE  Skips!First({i}) = i /\ Skips!First({}) = 0
  BY DEF Skips!First, Skips!Least

(* A favourite of a list of which all can be told apart is found in its place, *)
(* whichever way it is shown.                                                  *)
LEMMA MatchOwn ==
    ASSUME NEW list, SkipListKinds(list), NEW i \in DOMAIN list, NEW s \in Skips!Playing(list[i]),
           NEW h \in Hints(s)
    PROVE  Skips!Match(list, s, h) = i
<1>1. i \in Nat /\ i # 0
  BY DEF SkipListKinds
<1>2. \A u : Skips!Exact(list, u) \subseteq Skips!Alike(list, u)
  BY DEF Skips!Exact, Skips!Alike
<1>3. Skips!First({i}) = i /\ Skips!First({}) = 0
  BY <1>1, FirstOfOne
<1>4. CASE Skips!Alike(list, s.uri) = {i}
  <2>1. Skips!Exact(list, s.uri) \in {{}, {i}}
    BY <1>2, <1>4
  <2>2. Skips!At(list, s.uri) = i
    BY <1>3, <1>4, <2>1 DEF Skips!At
  <2> QED
    BY <1>1, <2>2 DEF Skips!Match
<1>5. CASE /\ Skips!Alike(list, s.uri) = {}
           /\ \/ Skips!InSource(list, s) = {i}
              \/ Skips!InSource(list, s) = {} /\ Skips!InTitle(list, s) = {i}
  <2>1. \A u \in {"", s.uri} : Skips!Alike(list, u) = {}
    BY <1>5 DEF Skips!Alike
  <2>2. ASSUME NEW u \in {"", s.uri} PROVE Skips!At(list, u) = 0
    <3>1. Skips!Exact(list, u) = {} /\ Skips!Alike(list, u) = {}
      BY <1>2, <2>1
    <3> QED
      BY <1>3, <3>1 DEF Skips!At
  <2>3. Skips!Named(list, s) = i
    BY <1>3, <1>5 DEF Skips!Named
  <2> QED
    BY <2>2, <2>3 DEF Skips!Match, Hints
<1> QED
  BY <1>4, <1>5 DEF SkipListKinds, Skips!ToldApart

LEMMA CycleStep ==
    ASSUME NEW list, SkipListKinds(list), NEW i \in DOMAIN list, NEW s \in Skips!Playing(list[i]),
           NEW h \in Hints(s), NEW dir \in {1, -1}
    PROVE  Skips!Cycle(list, s, h, dir) = list[Skips!Around(i, Len(list), dir)]
<1>1. Skips!Match(list, s, h) = i
  BY MatchOwn
<1>2. i # 0 /\ list # <<>>
  BY DEF SkipListKinds
<1> QED
  BY <1>1, <1>2 DEF Skips!Cycle

(* As many steps on as there are favourites pass each of them.                 *)
WalkedFrom(list, from, f) ==
    f = [m \in 0..Len(list) |-> IF m = 0 THEN {from} ELSE Skips!Onward(list, f[m - 1])]
SkipPlace(i, m, n) == IF i + m <= n THEN i + m ELSE i + m - n

LEMMA WalkGoesOn ==
    ASSUME NEW list, SkipListKinds(list), NEW i \in DOMAIN list, NEW m \in 1..Len(list)
    PROVE  Skips!Onward(list, {list[SkipPlace(i, m - 1, Len(list))]}) = {list[SkipPlace(i, m, Len(list))]}
<1>1. Len(list) \in Nat /\ DOMAIN list = 1..Len(list)
  BY DEF SkipListKinds
<1>2. PICK n \in Nat : n = Len(list)
  BY <1>1
<1>3. PICK j : j = SkipPlace(i, m - 1, n)
  OBVIOUS
<1>4. j \in 1..n /\ (IF j = n THEN 1 ELSE j + 1) = SkipPlace(i, m, n)
  BY <1>1, <1>2, <1>3 DEF SkipPlace
<1>5. PICK to : to = list[Skips!Around(j, n, 1)]
  OBVIOUS
<1>6. to = list[SkipPlace(i, m, n)]
  <2>1. Skips!Around(j, n, 1) = IF j = n THEN 1 ELSE j + 1
    BY <1>4, AroundAndBack
  <2> QED
    BY <1>4, <1>5, <2>1
<1>7. \A s \in Skips!Playing(list[j]) : \A h \in {"", s.uri} : Skips!Cycle(list, s, h, 1) = to
  <2> SUFFICES ASSUME NEW s \in Skips!Playing(list[j]), NEW h \in {"", s.uri}
               PROVE  Skips!Cycle(list, s, h, 1) = to
    OBVIOUS
  <2>1. j \in DOMAIN list /\ h \in Hints(s)
    BY <1>1, <1>2, <1>4 DEF Hints
  <2> QED
    BY <1>2, <1>5, <2>1, CycleStep
<1>8. PICK s \in Skips!Playing(list[j]) : TRUE
  BY <1>1, <1>2, <1>4 DEF SkipListKinds
<1>9. Skips!Onward(list, {list[j]}) = {to}
  <2>1. \A x \in Skips!Onward(list, {list[j]}) : x = to
    <3> SUFFICES ASSUME NEW x \in Skips!Onward(list, {list[j]}) PROVE x = to
      OBVIOUS
    <3>1. PICK p \in {list[j]} :
            x \in UNION {{Skips!Cycle(list, t, h, 1) : h \in {"", t.uri}} : t \in Skips!Playing(p)}
      BY DEF Skips!Onward
    <3>2. PICK t \in Skips!Playing(list[j]) : x \in {Skips!Cycle(list, t, h, 1) : h \in {"", t.uri}}
      BY <3>1
    <3>3. PICK h \in {"", t.uri} : x = Skips!Cycle(list, t, h, 1)
      BY <3>2
    <3> QED
      BY <1>7, <3>3
  <2>2. to \in Skips!Onward(list, {list[j]})
    <3>1. Skips!Cycle(list, s, "", 1) = to
      BY <1>7, <1>8
    <3>2. to \in {Skips!Cycle(list, s, h, 1) : h \in {"", s.uri}}
      BY <3>1
    <3>3. to \in UNION {{Skips!Cycle(list, t, h, 1) : h \in {"", t.uri}} : t \in Skips!Playing(list[j])}
      BY <1>8, <3>2
    <3> QED
      BY <3>3 DEF Skips!Onward
  <2> QED
    BY <2>1, <2>2
<1> QED
  BY <1>2, <1>3, <1>6, <1>9

LEMMA WalkPasses ==
    ASSUME NEW list, SkipListKinds(list), NEW i \in DOMAIN list
    PROVE  Skips!PassesEach(list, list[i])
<1>1. Len(list) \in Nat /\ DOMAIN list = 1..Len(list)
  BY DEF SkipListKinds
<1>2. PICK n \in Nat : n = Len(list)
  BY <1>1
<1>0. i \in 1..n
  BY <1>1, <1>2
<1> DEFINE g == [m \in 0..n |-> {list[SkipPlace(i, m, n)]}]
           w == CHOOSE f : WalkedFrom(list, list[i], f)
<1>3. WalkedFrom(list, list[i], g)
  <2>1. \A m \in 0..n : g[m] = IF m = 0 THEN {list[i]} ELSE Skips!Onward(list, g[m - 1])
    <3> SUFFICES ASSUME NEW m \in 0..n PROVE g[m] = IF m = 0 THEN {list[i]} ELSE Skips!Onward(list, g[m - 1])
      OBVIOUS
    <3>1. CASE m = 0
      <4>1. SkipPlace(i, 0, n) = i
        BY <1>0, <1>2 DEF SkipPlace
      <4> QED
        BY <3>1, <4>1
    <3>2. CASE m # 0
      <4>1. m \in 1..Len(list) /\ m - 1 \in 0..n
        BY <1>2, <3>2
      <4>2. g[m - 1] = {list[SkipPlace(i, m - 1, n)]} /\ g[m] = {list[SkipPlace(i, m, n)]}
        BY <4>1
      <4>3. Skips!Onward(list, {list[SkipPlace(i, m - 1, n)]}) = {list[SkipPlace(i, m, n)]}
        BY <1>2, <4>1, WalkGoesOn
      <4> QED
        BY <3>2, <4>2, <4>3
    <3> QED
      BY <3>1, <3>2
  <2> QED
    BY <1>2, <2>1 DEF WalkedFrom
<1>4. WalkedFrom(list, list[i], w)
  BY <1>3
<1>5. /\ \A m \in 1..n : \E p \in Skips!Items : w[m] = {p}
      /\ UNION {w[m] : m \in 1..n} = {list[j] : j \in DOMAIN list}
      => Skips!PassesEach(list, list[i])
  BY <1>2 DEF Skips!PassesEach, WalkedFrom
<1> HIDE DEF w
<1>6. w[0] = {list[i]} /\ \A m \in 1..n : w[m] = Skips!Onward(list, w[m - 1])
  <2>1. w = [m \in 0..n |-> IF m = 0 THEN {list[i]} ELSE Skips!Onward(list, w[m - 1])]
    BY <1>2, <1>4 DEF WalkedFrom
  <2>2. \A m \in 0..n : w[m] = IF m = 0 THEN {list[i]} ELSE Skips!Onward(list, w[m - 1])
    BY <2>1
  <2>3. 0 \in 0..n /\ \A m \in 1..n : m \in 0..n /\ m # 0
    BY <1>2
  <2> QED
    BY <2>2, <2>3
<1> DEFINE Right == {m \in Nat : m <= n => w[m] = {list[SkipPlace(i, m, n)]}}
<1>7. 0 \in Right
  <2>1. SkipPlace(i, 0, n) = i
    BY <1>0, <1>2 DEF SkipPlace
  <2> QED
    BY <1>6, <2>1
<1>8. ASSUME NEW m \in Nat, m \in Right PROVE m + 1 \in Right
  <2> SUFFICES ASSUME m + 1 <= n PROVE w[m + 1] = {list[SkipPlace(i, m + 1, n)]}
    OBVIOUS
  <2>1. m + 1 \in 1..n /\ (m + 1) - 1 = m /\ m <= n
    OBVIOUS
  <2>2. w[m + 1] = Skips!Onward(list, {list[SkipPlace(i, m, n)]})
    BY <1>6, <1>8, <2>1
  <2>3. Skips!Onward(list, {list[SkipPlace(i, m, n)]}) = {list[SkipPlace(i, m + 1, n)]}
    <3>1. \A x \in 1..Len(list) : Skips!Onward(list, {list[SkipPlace(i, x - 1, Len(list))]}) = {list[SkipPlace(i, x, Len(list))]}
      BY WalkGoesOn
    <3> QED
      BY <1>2, <2>1, <3>1
  <2> QED
    BY <2>2, <2>3
<1>9. \A m \in Nat : m \in Right
  <2> HIDE DEF Right
  <2> QED
    BY <1>7, <1>8, CountsUp
<1>10. \A m \in 1..n : w[m] = {list[SkipPlace(i, m, n)]} /\ SkipPlace(i, m, n) \in 1..n
  BY <1>1, <1>2, <1>9 DEF SkipPlace
<1>11. \A j \in 1..n : \E m \in 1..n : SkipPlace(i, m, n) = j
  <2> SUFFICES ASSUME NEW j \in 1..n PROVE \E m \in 1..n : SkipPlace(i, m, n) = j
    OBVIOUS
  <2>1. CASE j > i
    <3>1. j - i \in 1..n /\ SkipPlace(i, j - i, n) = j
      BY <1>1, <1>2, <2>1 DEF SkipPlace
    <3> QED
      BY <3>1
  <2>2. CASE ~(j > i)
    <3>1. j - i + n \in 1..n /\ SkipPlace(i, j - i + n, n) = j
      BY <1>1, <1>2, <2>2 DEF SkipPlace
    <3> QED
      BY <3>1
  <2> QED
    BY <2>1, <2>2
<1> HIDE DEF Right, g
<1>12. \A j \in 1..n : list[j] \in Skips!Items
  BY <1>1, <1>2 DEF SkipListKinds
<1>13. \A m \in 1..n : \E p \in Skips!Items : w[m] = {p}
  BY <1>10, <1>12
<1>14. UNION {w[m] : m \in 1..n} = {list[j] : j \in 1..n}
  <2>1. \A x \in UNION {w[m] : m \in 1..n} : x \in {list[j] : j \in 1..n}
    BY <1>10
  <2>2. ASSUME NEW j \in 1..n PROVE list[j] \in UNION {w[m] : m \in 1..n}
    <3>1. PICK m \in 1..n : SkipPlace(i, m, n) = j
      BY <1>11
    <3>2. list[j] \in w[m]
      BY <1>10, <3>1
    <3> QED
      BY <3>2
  <2> QED
    BY <2>1, <2>2
<1> QED
  BY <1>1, <1>2, <1>5, <1>13, <1>14

(* The radios of a list are told apart as the list is.                         *)
LEMMA SkipsFilter ==
    ASSUME NEW list, NEW keep
    PROVE  Skips!Picked(list, keep) = Picked(list, keep)
  BY DEF Skips!Picked, Picked

LEMMA RadiosFacts ==
    ASSUME NEW list \in Seq(Skips!Items), NEW ring, ring = Skips!Radios(list)
    PROVE  /\ ring \in Seq(Skips!Items)
           /\ \A j \in DOMAIN ring : ring[j].uri \in kRadio /\ \E i \in DOMAIN list : ring[j] = list[i]
           /\ Skips!ToldApart(list) => \A j, k \in DOMAIN ring : ring[j] = ring[k] => j = k
<1>1. PICK keep : keep = {i \in DOMAIN list : list[i].uri \in kRadio}
  OBVIOUS
<1>2. ring = Picked(list, keep)
  BY <1>1, SkipsFilter DEF Skips!Radios
<1>3. ring \in Seq(Skips!Items) /\ PickedOf(list, keep, Len(list), ring)
  BY <1>2, PickedFacts
<1>4. PICK f \in [DOMAIN ring -> 1..Len(list)] :
          /\ \A k \in DOMAIN ring : f[k] \in keep /\ ring[k] = list[f[k]]
          /\ \A j, k \in DOMAIN ring : f[j] = f[k] => j = k
  BY <1>3 DEF PickedOf
<1>5. ASSUME NEW j \in DOMAIN ring
      PROVE  f[j] \in DOMAIN list /\ list[f[j]].uri \in kRadio /\ ring[j] = list[f[j]]
  BY <1>1, <1>4
<1>6. ASSUME Skips!ToldApart(list), NEW j \in DOMAIN ring, NEW k \in DOMAIN ring, ring[j] = ring[k] PROVE j = k
  <2>1. f[j] \in DOMAIN list /\ f[k] \in DOMAIN list /\ list[f[j]] = list[f[k]]
    BY <1>5, <1>6
  <2>2. f[j] = f[k]
    BY <1>6, <2>1 DEF Skips!ToldApart
  <2> QED
    BY <1>4, <1>6, <2>2
<1> QED
  BY <1>3, <1>5, <1>6

(* What one favourite of a list alone is, its place in a ring of some of them  *)
(* alone is.                                                                   *)
LEMMA AloneInRing ==
    ASSUME NEW list, NEW ring, NEW a \in DOMAIN list, NEW j \in DOMAIN ring, ring[j] = list[a],
           \A k \in DOMAIN ring : \E b \in DOMAIN list : ring[k] = list[b],
           \A k \in DOMAIN ring : ring[j] = ring[k] => j = k,
           NEW Found
    PROVE  /\ {b \in DOMAIN list : list[b] \in Found} = {a} => {k \in DOMAIN ring : ring[k] \in Found} = {j}
           /\ {b \in DOMAIN list : list[b] \in Found} = {} => {k \in DOMAIN ring : ring[k] \in Found} = {}
<1>1. ASSUME {b \in DOMAIN list : list[b] \in Found} = {a}
      PROVE  {k \in DOMAIN ring : ring[k] \in Found} = {j}
  <2>1. list[a] \in Found /\ \A b \in DOMAIN list : list[b] \in Found => b = a
    BY <1>1
  <2>2. ASSUME NEW k \in DOMAIN ring, ring[k] \in Found PROVE k = j
    BY <2>1, <2>2
  <2> QED
    BY <2>1, <2>2
<1> QED
  BY <1>1

(* The ring that next and previous go round tells its favourites apart as the  *)
(* list does, and those of a list with addresses are radios.                   *)
LEMMA RingKinds ==
    ASSUME NEW list, SkipListKinds(list)
    PROVE  /\ SkipListKinds(Skips!Ring(list))
           /\ \A j \in DOMAIN Skips!Ring(list) : \E i \in DOMAIN list : Skips!Ring(list)[j] = list[i]
<1>1. CASE ~Skips!Addressed(list)
  BY <1>1 DEF Skips!Ring, SkipListKinds
<1>2. CASE Skips!Addressed(list)
  <2>1. PICK ring : ring = Skips!Radios(list)
    OBVIOUS
  <2>2. Skips!Ring(list) = ring
    BY <1>2, <2>1 DEF Skips!Ring
  <2>3. /\ ring \in Seq(Skips!Items)
        /\ \A j \in DOMAIN ring : \E i \in DOMAIN list : ring[j] = list[i]
        /\ \A j, k \in DOMAIN ring : ring[j] = ring[k] => j = k
    BY <2>1, RadiosFacts DEF SkipListKinds
  <2>4. ASSUME NEW j \in DOMAIN ring, NEW s \in Skips!Playing(ring[j])
        PROVE  \/ Skips!Alike(ring, s.uri) = {j}
               \/ /\ Skips!Alike(ring, s.uri) = {}
                  /\ \/ Skips!InSource(ring, s) = {j}
                     \/ Skips!InSource(ring, s) = {} /\ Skips!InTitle(ring, s) = {j}
    <3>1. PICK a \in DOMAIN list : ring[j] = list[a]
      BY <2>3
    <3> DEFINE alike == {p \in Skips!Items : s.uri # "" /\ p.uri # "" /\ kCore[p.uri] = kCore[s.uri]}
               inSource == {p \in Skips!Items : p.name # "" /\ <<p.name, s.source>> \in kInside}
               inTitle == {p \in Skips!Items : p.name # "" /\ <<p.name, s.title>> \in kHeads}
    <3>2. ASSUME NEW l, l \in Seq(Skips!Items)
          PROVE  /\ Skips!Alike(l, s.uri) = {k \in DOMAIN l : l[k] \in alike}
                 /\ Skips!InSource(l, s) = {k \in DOMAIN l : l[k] \in inSource}
                 /\ Skips!InTitle(l, s) = {k \in DOMAIN l : l[k] \in inTitle}
      <4>1. \A k \in DOMAIN l : l[k] \in Skips!Items
        BY <3>2
      <4> QED
        BY <4>1 DEF Skips!Alike, Skips!InSource, Skips!InTitle
    <3>3. list \in Seq(Skips!Items)
      BY DEF SkipListKinds
    <3>4. ASSUME NEW Found
          PROVE  /\ {b \in DOMAIN list : list[b] \in Found} = {a} => {k \in DOMAIN ring : ring[k] \in Found} = {j}
                 /\ {b \in DOMAIN list : list[b] \in Found} = {} => {k \in DOMAIN ring : ring[k] \in Found} = {}
      BY <2>3, <3>1, AloneInRing
    <3>5. \/ Skips!Alike(list, s.uri) = {a}
          \/ /\ Skips!Alike(list, s.uri) = {}
             /\ \/ Skips!InSource(list, s) = {a}
                \/ Skips!InSource(list, s) = {} /\ Skips!InTitle(list, s) = {a}
      BY <3>1 DEF SkipListKinds, Skips!ToldApart
    <3> HIDE DEF alike, inSource, inTitle
    <3>6. /\ Skips!Alike(list, s.uri) = {a} => Skips!Alike(ring, s.uri) = {j}
          /\ Skips!Alike(list, s.uri) = {} => Skips!Alike(ring, s.uri) = {}
      BY <2>3, <3>2, <3>3, <3>4
    <3>7. /\ Skips!InSource(list, s) = {a} => Skips!InSource(ring, s) = {j}
          /\ Skips!InSource(list, s) = {} => Skips!InSource(ring, s) = {}
      BY <2>3, <3>2, <3>3, <3>4
    <3>8. Skips!InTitle(list, s) = {a} => Skips!InTitle(ring, s) = {j}
      BY <2>3, <3>2, <3>3, <3>4
    <3> QED
      BY <3>5, <3>6, <3>7, <3>8
  <2>5. Skips!ToldApart(ring)
    BY <2>3, <2>4 DEF Skips!ToldApart
  <2>6. \A j \in DOMAIN ring : Skips!Playing(ring[j]) # {}
    BY <2>3 DEF SkipListKinds
  <2> QED
    BY <2>2, <2>3, <2>5, <2>6 DEF SkipListKinds
<1> QED
  BY <1>1, <1>2

(* The first of some places is one of them.                                    *)
LEMMA FirstIsOne ==
    ASSUME NEW hits \in SUBSET Nat
    PROVE  Skips!First(hits) \in hits \cup {0}
<1>1. Skips!Least(hits) = Least(hits)
  BY DEF Skips!Least, Least
<1> QED
  BY <1>1, LeastIsOne DEF Skips!First

(* From a favourite of the ring a skip goes to the next place of it, and the   *)
(* skip back returns.                                                          *)
LEMMA SkipStep ==
    ASSUME NEW list, SkipListKinds(list), NEW m \in DOMAIN Skips!Ring(list),
           NEW s \in Skips!Playing(Skips!Ring(list)[m]), NEW h \in Hints(s), NEW dir \in {1, -1},
           NEW to, to = Skips!Skip(list, s, h, dir), to # None,
           NEW t \in Skips!Playing(to), NEW g \in Hints(t)
    PROVE  Skips!Skip(list, t, g, Skips!Back(dir)) \in {Skips!Ring(list)[m], None}
<1>1. PICK ring : ring = Skips!Ring(list)
  OBVIOUS
<1>2. SkipListKinds(ring) /\ m \in DOMAIN ring /\ s \in Skips!Playing(ring[m])
  BY <1>1, RingKinds
<1>3. Skips!Match(ring, s, h) = m
  BY <1>2, MatchOwn
<1>4. Len(ring) \in Nat /\ DOMAIN ring = 1..Len(ring)
  BY <1>2 DEF SkipListKinds
<1>5. PICK a : a = Skips!Around(m, Len(ring), dir)
  OBVIOUS
<1>6. to = ring[a]
  BY <1>1, <1>3, <1>5 DEF Skips!Skip
<1>7. a \in DOMAIN ring /\ Skips!Around(a, Len(ring), Skips!Back(dir)) = m
  BY <1>2, <1>4, <1>5, AroundAndBack
<1>8. Skips!Match(ring, t, g) = a
  BY <1>2, <1>6, <1>7, MatchOwn
<1> QED
  BY <1>1, <1>7, <1>8 DEF Skips!Skip

(* What next, previous and the preset buttons play is a favourite of the list, *)
(* and of its radios where it has addresses.                                   *)
LEMMA MatchIsOne ==
    ASSUME NEW list \in Seq(Skips!Items), NEW s, NEW h
    PROVE  Skips!Match(list, s, h) \in DOMAIN list \cup {0}
<1>1. ASSUME NEW hits, hits \subseteq DOMAIN list PROVE Skips!First(hits) \in DOMAIN list \cup {0}
  <2>1. hits \in SUBSET Nat
    BY <1>1
  <2> QED
    BY <1>1, <2>1, FirstIsOne
<1>2. \A u : Skips!At(list, u) \in DOMAIN list \cup {0}
  <2> SUFFICES ASSUME NEW u PROVE Skips!At(list, u) \in DOMAIN list \cup {0}
    OBVIOUS
  <2>1. Skips!Exact(list, u) \subseteq DOMAIN list /\ Skips!Alike(list, u) \subseteq DOMAIN list
    BY DEF Skips!Exact, Skips!Alike
  <2> QED
    BY <1>1, <2>1 DEF Skips!At
<1>3. Skips!Named(list, s) \in DOMAIN list \cup {0}
  <2>1. Skips!InSource(list, s) \subseteq DOMAIN list /\ Skips!InTitle(list, s) \subseteq DOMAIN list
    BY DEF Skips!InSource, Skips!InTitle
  <2> QED
    BY <1>1, <2>1 DEF Skips!Named
<1> QED
  BY <1>2, <1>3 DEF Skips!Match

LEMMA PlayedIsListed ==
    ASSUME NEW list \in Seq(Skips!Items), NEW s, NEW h, NEW dir \in {1, -1}
    PROVE  /\ Skips!Cycle(list, s, h, dir) \in Skips!Items \cup {None}
           /\ Skips!Skip(list, s, h, dir) \in Skips!Items \cup {None}
           /\ Skips!Addressed(list) /\ Skips!Skip(list, s, h, dir) # None
                 => Skips!Skip(list, s, h, dir).uri \in kRadio
<1>1. PICK ring : ring = Skips!Ring(list)
  OBVIOUS
<1>2. ring \in Seq(Skips!Items) /\ (Skips!Addressed(list) => \A j \in DOMAIN ring : ring[j].uri \in kRadio)
  BY <1>1, RadiosFacts DEF Skips!Ring
<1>3. ASSUME NEW l \in Seq(Skips!Items), NEW i \in DOMAIN l
      PROVE  Skips!Around(i, Len(l), dir) \in DOMAIN l /\ l[Skips!Around(i, Len(l), dir)] \in Skips!Items
  <2>1. Len(l) \in Nat /\ i \in 1..Len(l)
    OBVIOUS
  <2>2. Skips!Around(i, Len(l), dir) \in 1..Len(l)
    BY <2>1, AroundAndBack
  <2> QED
    BY <2>2
<1>4. PICK m \in DOMAIN list \cup {0} : m = Skips!Match(list, s, h)
  BY MatchIsOne
<1>5. Skips!Cycle(list, s, h, dir) \in Skips!Items \cup {None}
  <2>1. CASE list = <<>>
    BY <2>1 DEF Skips!Cycle
  <2>2. CASE list # <<>> /\ m = 0
    <3>1. list[1] \in Skips!Items /\ list[Len(list)] \in Skips!Items
      BY <2>2
    <3> QED
      BY <1>4, <2>2, <3>1 DEF Skips!Cycle
  <2>3. CASE list # <<>> /\ m # 0
    BY <1>3, <1>4, <2>3 DEF Skips!Cycle
  <2> QED
    BY <2>1, <2>2, <2>3
<1>6. PICK n \in DOMAIN ring \cup {0} : n = Skips!Match(ring, s, h)
  BY <1>2, MatchIsOne
<1>7. \/ Skips!Skip(list, s, h, dir) = None
      \/ \E j \in DOMAIN ring : Skips!Skip(list, s, h, dir) = ring[j]
  <2>1. CASE n = 0
    BY <1>1, <1>6, <2>1 DEF Skips!Skip
  <2>2. CASE n # 0
    <3>1. Skips!Around(n, Len(ring), dir) \in DOMAIN ring
      BY <1>2, <1>3, <2>2
    <3> QED
      BY <1>1, <1>6, <3>1 DEF Skips!Skip
  <2> QED
    BY <2>1, <2>2
<1>8. \A j \in DOMAIN ring : ring[j] \in Skips!Items
  BY <1>2
<1> QED
  BY <1>2, <1>5, <1>7, <1>8

(* What a poll has seen play is what the zone is known by, if by anything.     *)
SkipInv ==
    /\ kPresets \in kLists /\ kSeen \in Skips!Sight /\ kHint \in Skips!Uris \cup {""}
    /\ kCaught \in BOOLEAN /\ (kCaught = TRUE => kHint \in Hints(kSeen))

LEMMA SkipIsTyped == SkipInv => Skips!TypesOK
  BY DEF SkipInv, Skips!TypesOK

LEMMA SkipIsSound == Skips!SkipAssumption /\ SkipInv => Skips!RingsComeRound
<1> SUFFICES ASSUME Skips!SkipAssumption, SkipInv, kCaught = TRUE PROVE Skips!RingsComeRound
  BY DEF Skips!RingsComeRound, SkipInv
<1>1. kPresets \in Seq(Skips!Items) /\ kHint \in Hints(kSeen)
  BY DEF SkipInv, Skips!SkipAssumption
<1>2. ASSUME Skips!ToldApart(kPresets), NEW i \in DOMAIN kPresets, kSeen \in Skips!Playing(kPresets[i])
      PROVE  /\ Skips!StepsBack(kPresets[i]) /\ Skips!PassesEach(kPresets, kPresets[i])
             /\ (\E j \in DOMAIN Skips!Ring(kPresets) : Skips!Ring(kPresets)[j] = kPresets[i])
                   => Skips!SkipsBack(kPresets[i])
  <2>1. PICK list : list = kPresets
    OBVIOUS
  <2>2. SkipListKinds(list) /\ i \in DOMAIN list /\ kSeen \in Skips!Playing(list[i])
    BY <1>2, <2>1 DEF SkipListKinds, SkipInv, Skips!SkipAssumption
  <2>3. Len(list) \in Nat /\ DOMAIN list = 1..Len(list)
    BY <2>2 DEF SkipListKinds
  <2>4. ASSUME NEW dir \in {1, -1}, NEW to, to = Skips!Cycle(list, kSeen, kHint, dir),
               NEW s \in Skips!Playing(to), NEW h \in {"", s.uri}
        PROVE  Skips!Cycle(list, s, h, Skips!Back(dir)) = list[i]
    <3>1. PICK a : a = Skips!Around(i, Len(list), dir)
      OBVIOUS
    <3>2. a \in DOMAIN list /\ Skips!Around(a, Len(list), Skips!Back(dir)) = i
      BY <2>2, <2>3, <3>1, AroundAndBack
    <3>3. to = list[a]
      BY <1>1, <2>2, <2>4, <3>1, CycleStep
    <3>4. PICK back \in {1, -1} : back = Skips!Back(dir)
      BY DEF Skips!Back
    <3>5. h \in Hints(s) /\ s \in Skips!Playing(list[a])
      BY <2>4, <3>3 DEF Hints
    <3>6. Skips!Cycle(list, s, h, back) = list[Skips!Around(a, Len(list), back)]
      BY <2>2, <3>2, <3>5, CycleStep
    <3> QED
      BY <3>2, <3>4, <3>6
  <2>5. Skips!StepsBack(list[i])
    <3> SUFFICES ASSUME NEW dir \in {1, -1}, NEW s \in Skips!Playing(Skips!Cycle(list, kSeen, kHint, dir)),
                        NEW h \in {"", s.uri}
                 PROVE  Skips!Cycle(list, s, h, Skips!Back(dir)) = list[i]
      BY <2>1 DEF Skips!StepsBack
    <3> QED
      BY <2>4
  <2>6. ASSUME NEW j \in DOMAIN Skips!Ring(list), Skips!Ring(list)[j] = list[i],
               NEW dir \in {1, -1}, NEW to, to = Skips!Skip(list, kSeen, kHint, dir), to # None,
               NEW s \in Skips!Playing(to), NEW h \in {"", s.uri}
        PROVE  Skips!Skip(list, s, h, Skips!Back(dir)) \in {list[i], None}
    <3>1. kSeen \in Skips!Playing(Skips!Ring(list)[j]) /\ h \in Hints(s)
      BY <2>2, <2>6 DEF Hints
    <3>2. Skips!Skip(list, s, h, Skips!Back(dir)) \in {Skips!Ring(list)[j], None}
      BY <1>1, <2>2, <2>6, <3>1, SkipStep
    <3> QED
      BY <2>6, <3>2
  <2>7. (\E j \in DOMAIN Skips!Ring(list) : Skips!Ring(list)[j] = list[i]) => Skips!SkipsBack(list[i])
    BY <2>1, <2>6 DEF Skips!SkipsBack
  <2>8. Skips!PassesEach(list, list[i])
    BY <2>1, <2>2, WalkPasses
  <2> QED
    BY <2>1, <2>5, <2>7, <2>8
<1>3. ASSUME NEW dir \in {1, -1}, NEW to, to = Skips!Skip(kPresets, kSeen, kHint, dir), to # None
      PROVE  kSeen.uri \notin kOther \ kRadio /\ (Skips!Addressed(kPresets) => to.uri \in kRadio)
  <2>1. Skips!RadioPlayback(kSeen, kHint)
    BY <1>3 DEF Skips!Skip
  <2>2. kSeen.uri \notin kOther \ kRadio
    BY <1>1, <2>1 DEF Skips!RadioPlayback, Hints, Skips!SkipAssumption
  <2> QED
    BY <1>1, <1>3, <2>2, PlayedIsListed
<1> QED
  BY <1>2, <1>3 DEF Skips!RingsComeRound

LEMMA SilentIsASight == Skips!SkipAssumption => Skips!Silent \in Skips!Sight
  BY DEF Skips!SkipAssumption, Skips!Silent, Skips!Sight

LEMMA SkipStart == Skips!SkipAssumption /\ Skips!Init => SkipInv
  BY SilentIsASight DEF Skips!Init, SkipInv, Hints

(* What a member shows instead of its own is a sight too.                      *)
LEMMA StampedKinds ==
    ASSUME NEW s \in Skips!Sight, NEW lead \in Skips!Sight
    PROVE  Skips!Stamped(s, lead) \in Skips!Sight /\ Skips!Stamped(s, lead).uri = s.uri
<1>1. CASE lead.transport = "stopped"
  BY <1>1 DEF Skips!Stamped
<1>2. CASE lead.transport # "stopped"
  <2>1. Skips!Stamped(s, lead) =
            [uri |-> s.uri, source |-> IF lead.source # "" THEN lead.source ELSE s.source,
             title |-> IF lead.title # "" THEN lead.title ELSE s.title,
             transport |-> IF s.transport = "stopped" THEN lead.transport ELSE s.transport]
    BY <1>2 DEF Skips!Stamped, Skips!Sight
  <2>2. /\ s.uri \in Skips!Uris \cup {""} /\ s.source \in kTexts /\ s.title \in kTexts
        /\ s.transport \in {"playing", "buffering", "stopped"}
        /\ lead.source \in kTexts /\ lead.title \in kTexts
        /\ lead.transport \in {"playing", "buffering", "stopped"}
    BY DEF Skips!Sight
  <2>3. PICK source \in kTexts : source = IF lead.source # "" THEN lead.source ELSE s.source
    BY <2>2
  <2>4. PICK title \in kTexts : title = IF lead.title # "" THEN lead.title ELSE s.title
    BY <2>2
  <2>5. PICK transport \in {"playing", "buffering", "stopped"} :
            transport = IF s.transport = "stopped" THEN lead.transport ELSE s.transport
    BY <2>2
  <2>6. Skips!Stamped(s, lead) =
            [uri |-> s.uri, source |-> source, title |-> title, transport |-> transport]
    BY <2>1, <2>3, <2>4, <2>5
  <2>7. PICK uri \in Skips!Uris \cup {""} : uri = s.uri
    BY <2>2
  <2>8. [uri |-> uri, source |-> source, title |-> title, transport |-> transport] \in Skips!Sight
    BY DEF Skips!Sight
  <2>9. Skips!Stamped(s, lead) =
            [uri |-> uri, source |-> source, title |-> title, transport |-> transport]
    BY <2>6, <2>7
  <2>10. Skips!Stamped(s, lead) \in Skips!Sight
    BY <2>8, <2>9, Zenon
  <2>11. Skips!Stamped(s, lead).uri = uri
    <3>1. PICK r : r = Skips!Stamped(s, lead)
      OBVIOUS
    <3>2. r = [uri |-> uri, source |-> source, title |-> title, transport |-> transport]
      BY <2>9, <3>1, Zenon
    <3>3. r.uri = uri
      BY <3>2
    <3> QED
      BY <3>1, <3>3, Zenon
  <2> QED
    BY <2>7, <2>10, <2>11
<1> QED
  BY <1>1, <1>2

LEMMA SkipStepKeeps == Skips!SkipAssumption /\ SkipInv /\ [Skips!Next]_kVars => SkipInv'
<1> SUFFICES ASSUME Skips!SkipAssumption, SkipInv, [Skips!Next]_kVars PROVE SkipInv'
  OBVIOUS
<1> USE DEF SkipInv, Hints
<1>1. kPresets \in Seq(Skips!Items)
  BY DEF Skips!SkipAssumption
<1>2. \A item \in Skips!Items : item.uri \in Skips!Uris \cup {""}
  BY DEF Skips!SkipAssumption, Skips!Favourite
<1>3. \A s \in Skips!Found : s \in Skips!Sight
  BY SilentIsASight DEF Skips!Found, Skips!SkipAssumption
<1>4. \A s \in Skips!Sight : s.uri \in Skips!Uris \cup {""}
  BY DEF Skips!Sight
<1>5. ASSUME NEW dir \in {1, -1}, Skips!Skips(dir) \/ Skips!Cycles(dir) PROVE SkipInv'
  <2>1. PICK to \in Skips!Items \cup {None} : Skips!Remembered(to)
    BY <1>1, <1>5, PlayedIsListed DEF Skips!Skips, Skips!Cycles
  <2>2. kHint' \in Skips!Uris \cup {""}
    BY <1>2, <1>4, <2>1 DEF Skips!Remembered
  <2> QED
    BY <1>5, <2>2 DEF Skips!Skips, Skips!Cycles
<1>6. ASSUME NEW item \in Skips!Items, Skips!Plays(item) PROVE SkipInv'
  BY <1>2, <1>6 DEF Skips!Plays
<1>7. ASSUME NEW s \in Skips!Found, NEW lead \in Skips!Found, Skips!Polls(s, lead) PROVE SkipInv'
  <2>1. s \in Skips!Sight /\ lead \in Skips!Sight
    BY <1>3
  <2>2. kSeen' \in Skips!Sight /\ kSeen'.uri = s.uri /\ s.uri \in Skips!Uris \cup {""}
    BY <1>4, <1>7, <2>1, StampedKinds DEF Skips!Polls
  <2>3. kHint' \in Skips!Uris \cup {""} /\ (s.transport = "playing" => kHint' \in {"", s.uri})
    BY <1>7, <2>2 DEF Skips!Polls
  <2>4. kPresets' = kPresets /\ kCaught' = (s.transport = "playing")
    BY <1>7 DEF Skips!Polls
  <2> QED
    BY <2>2, <2>3, <2>4
<1>8. ASSUME NEW lead \in Skips!Found, Skips!Joins(lead) PROVE SkipInv'
  <2>1. kSeen' \in Skips!Sight
    BY <1>3, <1>8, StampedKinds DEF Skips!Joins
  <2> QED
    BY <1>8, <2>1 DEF Skips!Joins
<1>9. ASSUME NEW list \in kLists, Skips!Listed(list) PROVE SkipInv'
  BY <1>9 DEF Skips!Listed
<1>10. CASE UNCHANGED kVars
  BY <1>10 DEF kVars
<1> QED
  BY <1>5, <1>6, <1>7, <1>8, <1>9, <1>10 DEF Skips!Next

------------------------------------------------------------------------------
(* While a rocker is held there is one timer, and none once it is let go; no   *)
(* hold has two requests out: presses, stops, polls, toggles, saves and closes *)
(* of media/knxBridge.ts in any order.  Next, previous and the preset buttons  *)
(* of media/skipLogic.ts go round the favourites of every list of which what a *)
(* poll can find tells them apart, by address or by name, whatever was asked,  *)
(* polled, grouped and listed before.                                          *)
THEOREM ButtonsSoundAlways == Spec => []ButtonsSound
<1> DEFINE Inv == /\ part = "hold" => HoldInv
                  /\ part = "skip" => SkipInv
<1>a. Hold!HoldAssumption /\ Skips!SkipAssumption
  BY HouseAssumption
<1>1. Init => Inv
  BY <1>a, InitOf, HoldStart, SkipStart
<1>2. Inv /\ [Next]_allVars => Inv'
  <2> SUFFICES ASSUME Inv, [Next]_allVars PROVE Inv'
    OBVIOUS
  <2>1. part' = "hold" => HoldInv'
    BY <1>a, StepOf, HoldStep
  <2>2. part' = "skip" => SkipInv'
    BY <1>a, StepOf, SkipStepKeeps
  <2> QED
    BY <2>1, <2>2
<1>3. Inv => ButtonsSound
  BY <1>a, HoldIsSound, SkipIsSound DEF ButtonsSound
<1> QED
  BY <1>1, <1>2, <1>3, PTL DEF Spec

------------------------------------------------------------------------------
(* The zones and groups of the music: media/manager.ts.                        *)
Shown == [online : BOOLEAN, lead : Zones!Zones \cup {None}, vol : 0..100 \cup {None},
          role : {"none", "member", "coordinator", "standalone"}, coord : Zones!Zones \cup {None},
          members : SUBSET Zones!Zones, gvol : 0..100 \cup {None}]
IsView(vw) == DOMAIN vw \subseteq Zones!Zones /\ vw \in [DOMAIN vw -> Shown]
IsMap(gm) ==
    /\ DOMAIN gm \subseteq Zones!Zones /\ gm \in [DOMAIN gm -> Zones!Zones]
    /\ \A m \in DOMAIN gm : gm[m] # m
Speakers == [lead : Zones!Zones \cup {None}, vol : 0..100]
PollCalls == [zone : Zones!Zones, round : zRounds \cup {None}, reply : Shown]
JoinCalls == [op : {"join", "leave"}, zone : Zones!Zones, lead : Zones!Zones \cup {None},
              others : SUBSET Zones!Zones]
WriteCalls == [zone : Zones!Zones, vol : 0..100, whole : BOOLEAN]

ZonesKinds ==
    /\ zDrivers \in zHouses /\ zDrivers \subseteq DOMAIN zView
    /\ IsView(zView) /\ IsMap(zGroupMap)
    /\ zUuidKnown \subseteq zUuidTried /\ zUuidTried \subseteq zSonos
    /\ zHw \in [Zones!Zones -> Speakers] /\ \A d \in Zones!Zones : zHw[d].lead # d
    /\ zPolls \subseteq PollCalls /\ zJoins \subseteq JoinCalls /\ zWrites \subseteq WriteCalls
    /\ \A j \in zJoins : j.op = "join" => j.zone # j.lead
    /\ zLeft \in [zRounds -> (SUBSET Zones!Zones) \cup {None}]
    /\ zAsks \in [zRounds -> zSonos \cup {None}]
    /\ \A r \in zRounds : zAsks[r] # None => zAsks[r] \in zUuidTried
    /\ zCalm \in {"no", "polling", "synced"}

(* What state s of zone d says of groups is what the map gm says.              *)
StampedBy(gm, d, s) ==
    /\ s.role = IF d \in DOMAIN gm THEN "member"
                ELSE IF Zones!MembersOf(gm, d) # {} THEN "coordinator" ELSE "standalone"
    /\ s.coord = IF d \in DOMAIN gm THEN gm[d] ELSE None
    /\ s.members = IF d \in DOMAIN gm THEN {} ELSE Zones!MembersOf(gm, d)
Agrees(vw, gm) ==
    \A d \in DOMAIN vw :
        /\ vw[d].role # "none" => StampedBy(gm, d, vw[d])
        /\ vw[d].lead # None => vw[d].role # "none"

(* What a state of a Sonos zone says of its coordinator, if anything, is true. *)
Fresh(d, s) == s.lead # None => s.lead = Zones!Uri(d)

(* While nothing but rounds moves, no answer on its way is out of date, and    *)
(* no zone is either that a round has asked and had the answer of.             *)
AsksQuietly ==
    zCalm # "no" =>
      /\ zJoins = {} /\ zWrites = {}
      /\ \A p \in zPolls : p.zone \in zSonos => Fresh(p.zone, p.reply)
      /\ \A r \in zRounds, d \in zDrivers \cap zSonos :
            (zLeft[r] # None /\ d \notin zLeft[r] /\ ~\E p \in zPolls : p.zone = d /\ p.round = r)
               => Fresh(d, zView[d])

ZonesInv == ZonesKinds /\ Agrees(zView, zGroupMap) /\ AsksQuietly /\ Zones!GroupsCatchUp

(* A nonempty set of volumes has a loudest, which Zones!Max is.                      *)
LEMMA Loudest ==
    ASSUME NEW S \in SUBSET (0..100), S # {}
    PROVE  Zones!Max(S) \in S /\ \A y \in S : y <= Zones!Max(S)
<1> DEFINE R == OpToRel(<, Nat)
           Room == {100 - y : y \in S}
<1>1. IsWellFoundedOn(R, Nat)
  BY NatLessThanWellFounded
<1>2. R = {ss \in Nat \X Nat : ss[1] < ss[2]}
  BY DEF OpToRel
<1>3. Room \subseteq Nat /\ Room # {}
  <2>1. \A y \in 0..100 : 100 - y \in Nat
    OBVIOUS
  <2>2. \A y \in S : y \in 0..100
    OBVIOUS
  <2> QED
    BY <2>1, <2>2
<1> HIDE DEF R
<1>4. PICK x \in Room : \A y \in Room : ~(<<y, x>> \in R)
  <2> HIDE DEF Room
  <2> QED
    BY <1>1, <1>3, WFMin
<1>5. PICK z \in S : x = 100 - z
  BY <1>4
<1>6. ASSUME NEW y \in S PROVE y <= z
  <2>1. 100 - y \in Room
    OBVIOUS
  <2>2. ~(<<100 - y, x>> \in R)
    BY <2>1, <1>4
  <2>3. ~(100 - y < x)
    BY <2>2, <2>1, <1>2, <1>3
  <2> QED
    BY <2>3, <1>5
<1> QED
  BY <1>6 DEF Zones!Max

(* What the volumes of a view add up to in a group.                            *)
LEMMA GroupLoudest ==
    ASSUME NEW vw, IsView(vw), NEW ids, ids # {}
    PROVE  /\ \A d : Zones!VolumeOf(vw, d) \in 0..100
           /\ Zones!GroupVolumeOf(vw, ids) \in 0..100
           /\ \A i \in ids : Zones!VolumeOf(vw, i) <= Zones!GroupVolumeOf(vw, ids)
           /\ \E i \in ids : Zones!VolumeOf(vw, i) = Zones!GroupVolumeOf(vw, ids)
<1> DEFINE S == {Zones!VolumeOf(vw, i) : i \in ids}
<1>1. \A d : Zones!VolumeOf(vw, d) \in 0..100
  BY DEF Zones!VolumeOf, IsView, Shown
<1>2. S \in SUBSET (0..100) /\ S # {}
  BY <1>1
<1>3. Zones!Max(S) \in S /\ \A y \in S : y <= Zones!Max(S)
  <2> HIDE DEF S
  <2> QED
    BY <1>2, Loudest
<1> QED
  BY <1>1, <1>2, <1>3 DEF Zones!GroupVolumeOf

LEMMA GroupIdsKinds ==
    ASSUME NEW gm, IsMap(gm), NEW d \in Zones!Zones
    PROVE  Zones!GroupIds(gm, d) # {} /\ Zones!GroupIds(gm, d) \subseteq Zones!Zones
  BY DEF IsMap, Zones!GroupIds, Zones!MembersOf

LEMMA WithKinds ==
    ASSUME NEW vw, IsView(vw), NEW d \in Zones!Zones, NEW s \in Shown
    PROVE  /\ IsView(Zones!With(vw, d, s)) /\ DOMAIN Zones!With(vw, d, s) = DOMAIN vw \cup {d}
           /\ Zones!With(vw, d, s)[d] = s
           /\ \A i \in DOMAIN vw \ {d} : Zones!With(vw, d, s)[i] = vw[i]
  BY DEF IsView, Zones!With

(* Stamping a state changes what it says of groups and nothing else.           *)
LEMMA Stamps ==
    ASSUME NEW vw, IsView(vw), NEW gm, IsMap(gm), NEW d \in Zones!Zones, NEW s \in Shown,
           NEW r, r = Zones!ApplyGroupFields(vw, gm, d, s)
    PROVE  /\ r \in Shown /\ StampedBy(gm, d, r) /\ r.role # "none"
           /\ r.online = s.online /\ r.lead = s.lead /\ r.vol = s.vol
<1> DEFINE seen == IF s.vol = None THEN vw ELSE Zones!With(vw, d, s)
           loud == Zones!GroupVolumeOf(seen, Zones!GroupIds(gm, d))
<1>1. IsView(seen)
  BY WithKinds
<1>2. loud \in 0..100
  <2> HIDE DEF seen
  <2> QED
    BY <1>1, GroupIdsKinds, GroupLoudest
<1>3. r = IF d \in DOMAIN gm
            THEN [s EXCEPT !.role = "member", !.coord = gm[d], !.members = {}, !.gvol = loud]
          ELSE IF Zones!MembersOf(gm, d) # {}
            THEN [s EXCEPT !.role = "coordinator", !.coord = None,
                           !.members = Zones!MembersOf(gm, d), !.gvol = loud]
          ELSE [s EXCEPT !.role = "standalone", !.coord = None, !.members = {}, !.gvol = None]
  BY DEF Zones!ApplyGroupFields
<1>4. Zones!MembersOf(gm, d) \subseteq Zones!Zones /\ (d \in DOMAIN gm => gm[d] \in Zones!Zones)
  BY DEF Zones!MembersOf, IsMap
<1> HIDE DEF loud
<1>5. CASE d \in DOMAIN gm
  <2>1. r = [online |-> s.online, lead |-> s.lead, vol |-> s.vol, role |-> "member",
             coord |-> gm[d], members |-> {}, gvol |-> loud]
    BY <1>3, <1>5 DEF Shown
  <2> QED
    BY <2>1, <1>2, <1>4, <1>5 DEF Shown, StampedBy
<1>6. CASE d \notin DOMAIN gm /\ Zones!MembersOf(gm, d) # {}
  <2>1. r = [online |-> s.online, lead |-> s.lead, vol |-> s.vol, role |-> "coordinator",
             coord |-> None, members |-> Zones!MembersOf(gm, d), gvol |-> loud]
    BY <1>3, <1>6 DEF Shown
  <2> QED
    BY <2>1, <1>2, <1>4, <1>6 DEF Shown, StampedBy
<1>7. CASE d \notin DOMAIN gm /\ Zones!MembersOf(gm, d) = {}
  <2>1. r = [online |-> s.online, lead |-> s.lead, vol |-> s.vol, role |-> "standalone",
             coord |-> None, members |-> {}, gvol |-> None]
    BY <1>3, <1>7 DEF Shown
  <2> QED
    BY <2>1, <1>2, <1>4, <1>7 DEF Shown, StampedBy
<1> QED
  BY <1>5, <1>6, <1>7

LEMMA Restamps ==
    ASSUME NEW vw, IsView(vw), NEW gm, IsMap(gm), NEW nv, nv = Zones!ApplyGroupState(vw, gm)
    PROVE  /\ IsView(nv) /\ DOMAIN nv = DOMAIN vw /\ Agrees(nv, gm)
           /\ \A d \in DOMAIN vw : /\ StampedBy(gm, d, nv[d]) /\ nv[d].online = vw[d].online
                                   /\ nv[d].lead = vw[d].lead /\ nv[d].vol = vw[d].vol
<1>1. DOMAIN nv = DOMAIN vw /\ \A d \in DOMAIN vw : nv[d] = Zones!ApplyGroupFields(vw, gm, d, vw[d])
  BY DEF Zones!ApplyGroupState
<1>2. nv = [d \in DOMAIN nv |-> nv[d]]
  BY DEF Zones!ApplyGroupState
<1>3. ASSUME NEW d \in DOMAIN vw
      PROVE  /\ nv[d] \in Shown /\ StampedBy(gm, d, nv[d]) /\ nv[d].role # "none"
             /\ nv[d].online = vw[d].online /\ nv[d].lead = vw[d].lead /\ nv[d].vol = vw[d].vol
  <2>1. d \in Zones!Zones /\ vw[d] \in Shown
    BY DEF IsView
  <2> QED
    BY <1>1, <2>1, Stamps
<1> QED
  BY <1>1, <1>2, <1>3 DEF IsView, Agrees

(* Storing a stamped state keeps a view in agreement with its map.             *)
LEMMA StoresStamped ==
    ASSUME NEW vw, IsView(vw), NEW gm, IsMap(gm), Agrees(vw, gm), NEW d \in Zones!Zones,
           NEW s \in Shown, NEW nv, nv = Zones!With(vw, d, Zones!ApplyGroupFields(vw, gm, d, s))
    PROVE  /\ IsView(nv) /\ DOMAIN nv = DOMAIN vw \cup {d} /\ Agrees(nv, gm)
           /\ nv[d].online = s.online /\ nv[d].lead = s.lead
           /\ \A i \in DOMAIN vw \ {d} : nv[i] = vw[i]
<1> DEFINE r == Zones!ApplyGroupFields(vw, gm, d, s)
<1>1. /\ r \in Shown /\ StampedBy(gm, d, r) /\ r.role # "none"
      /\ r.online = s.online /\ r.lead = s.lead
  BY Stamps
<1> HIDE DEF r
<1>2. nv = Zones!With(vw, d, r)
  BY DEF r
<1>3. /\ IsView(nv) /\ DOMAIN nv = DOMAIN vw \cup {d} /\ nv[d] = r
      /\ \A i \in DOMAIN vw \ {d} : nv[i] = vw[i]
  <2>1. ASSUME NEW x \in Shown
        PROVE  /\ IsView(Zones!With(vw, d, x)) /\ DOMAIN Zones!With(vw, d, x) = DOMAIN vw \cup {d}
               /\ Zones!With(vw, d, x)[d] = x
               /\ \A i \in DOMAIN vw \ {d} : Zones!With(vw, d, x)[i] = vw[i]
    BY WithKinds
  <2> QED
    BY <2>1, <1>1, <1>2
<1> QED
  BY <1>1, <1>3 DEF Agrees

(* Rounded division, as far as volumes need it.                                *)
LEMMA RoundFacts ==
    ASSUME NEW b \in Nat \ {0}, NEW v \in Nat, NEW w \in Nat, v <= w, w <= b, NEW t \in Nat
    PROVE  /\ Zones!Round(v * t, b) \in Nat
           /\ Zones!Round(v * t, b) <= Zones!Round(w * t, b) /\ Zones!Round(w * t, b) <= t
<1>1. v * t \in Nat /\ w * t \in Nat /\ b * t \in Nat
  OBVIOUS
<1>2. v * t <= w * t /\ w * t <= b * t
  OBVIOUS
<1> DEFINE x == 2 * (v * t) + b
           y == 2 * (w * t) + b
           c == 2 * b
<1>3. x \in Nat /\ y \in Nat /\ c \in Nat \ {0} /\ x <= y
  BY <1>1, <1>2
<1>4. y < c * (t + 1)
  <2>1. c * (t + 1) = 2 * (b * t) + 2 * b
    OBVIOUS
  <2> QED
    BY <2>1, <1>1, <1>2
<1>5. Zones!Round(v * t, b) = x \div c /\ Zones!Round(w * t, b) = y \div c
  BY DEF Zones!Round
<1> HIDE DEF x, y, c
<1>6. x \div c \in Nat /\ x \div c <= y \div c
  BY <1>3
<1>7. y \div c <= t
  BY <1>3, <1>4
<1> QED
  BY <1>5, <1>6, <1>7

(* The loudest zone gets the target, no zone gets more, and no two change      *)
(* places.                                                                     *)
LEMMA Shares ==
    ASSUME NEW vw, IsView(vw), NEW ids, ids # {}, NEW t \in 0..100,
           NEW share, share = Zones!Scaled(vw, ids, t)
    PROVE  /\ \A i \in ids : share[i] \in 0..100 /\ share[i] <= t
           /\ \E i \in ids : share[i] = t
           /\ \A i, j \in ids : Zones!VolumeOf(vw, i) <= Zones!VolumeOf(vw, j) => share[i] <= share[j]
<1> DEFINE V(i) == Zones!VolumeOf(vw, i)
           loud == Zones!GroupVolumeOf(vw, ids)
<1>1. /\ \A i \in ids : V(i) \in 0..100 /\ V(i) <= loud
      /\ loud \in 0..100 /\ \E i \in ids : V(i) = loud
  BY GroupLoudest
<1>2. \A i \in ids : share[i] = IF loud = 0 \/ V(i) = loud THEN t ELSE Zones!Round(V(i) * t, loud)
  BY DEF Zones!Scaled
<1> HIDE DEF V, loud
<1>3. ASSUME NEW i \in ids, ~(loud = 0 \/ V(i) = loud)
      PROVE  share[i] = Zones!Round(V(i) * t, loud) /\ share[i] \in Nat /\ share[i] <= t
  <2>1. loud \in Nat \ {0} /\ V(i) \in Nat /\ V(i) <= V(i) /\ V(i) <= loud /\ t \in Nat
    BY <1>1, <1>3
  <2>2. Zones!Round(V(i) * t, loud) \in Nat /\ Zones!Round(V(i) * t, loud) <= t
    BY <2>1, RoundFacts
  <2> QED
    BY <1>2, <1>3, <2>2
<1>4. ASSUME NEW i \in ids PROVE share[i] \in 0..100 /\ share[i] <= t
  BY <1>2, <1>3
<1>5. ASSUME NEW i \in ids, NEW j \in ids, V(i) <= V(j) PROVE share[i] <= share[j]
  <2>1. CASE loud = 0 \/ V(j) = loud
    BY <1>2, <1>4, <2>1
  <2>2. CASE ~(loud = 0 \/ V(j) = loud)
    <3>1. ~(loud = 0 \/ V(i) = loud)
      BY <1>1, <1>5, <2>2
    <3>2. loud \in Nat \ {0} /\ V(i) \in Nat /\ V(j) \in Nat /\ V(j) <= loud /\ t \in Nat
      BY <1>1, <2>2
    <3>3. Zones!Round(V(i) * t, loud) <= Zones!Round(V(j) * t, loud)
      BY <3>2, <1>5, RoundFacts
    <3> QED
      BY <1>3, <2>2, <3>1, <3>3
  <2> QED
    BY <2>1, <2>2
<1>6. \E i \in ids : share[i] = t
  BY <1>1, <1>2
<1> QED
  BY <1>4, <1>5, <1>6 DEF V

LEMMA ZonesAreSound == Zones!MediaAssumption /\ ZonesInv => Zones!ZonesSound /\ Zones!GroupsCatchUp /\ Zones!TypesOK
<1> SUFFICES ASSUME Zones!MediaAssumption, ZonesInv PROVE Zones!ZonesSound /\ Zones!GroupsCatchUp /\ Zones!TypesOK
  OBVIOUS
<1>1. Zones!StampsFollowMap
  BY DEF Zones!StampsFollowMap, ZonesInv, Agrees, StampedBy
<1>2. Zones!ScalesTogether
  <2> SUFFICES ASSUME NEW d \in zDrivers, NEW t \in zLevels
               PROVE  LET ids == Zones!GroupIds(zGroupMap, d)
                          share == Zones!Scaled(zView, ids, t)
                      IN /\ Zones!Max({share[i] : i \in ids}) = t
                         /\ \A i, j \in ids :
                                Zones!VolumeOf(zView, i) <= Zones!VolumeOf(zView, j) => share[i] <= share[j]
    BY DEF Zones!ScalesTogether
  <2> DEFINE ids == Zones!GroupIds(zGroupMap, d)
             share == Zones!Scaled(zView, ids, t)
             S == {share[i] : i \in ids}
  <2>1. d \in Zones!Zones /\ t \in 0..100 /\ IsView(zView) /\ IsMap(zGroupMap)
    BY DEF Zones!MediaAssumption, ZonesInv, ZonesKinds, Zones!Zones
  <2>2. ids # {}
    BY <2>1, GroupIdsKinds
  <2> HIDE DEF ids
  <2>3. /\ \A i \in ids : share[i] \in 0..100 /\ share[i] <= t
        /\ \E i \in ids : share[i] = t
        /\ \A i, j \in ids : Zones!VolumeOf(zView, i) <= Zones!VolumeOf(zView, j) => share[i] <= share[j]
    BY <2>1, <2>2, Shares
  <2> HIDE DEF share
  <2>4. S \in SUBSET (0..100) /\ t \in S /\ \A y \in S : y <= t
    BY <2>3
  <2>5. Zones!Max(S) \in S /\ \A y \in S : y <= Zones!Max(S)
    <3> HIDE DEF S
    <3> QED
      BY <2>4, Loudest
  <2>6. Zones!Max(S) = t
    <3> HIDE DEF S
    <3>1. Zones!Max(S) \in 0..100 /\ Zones!Max(S) <= t /\ t <= Zones!Max(S)
      BY <2>4, <2>5
    <3> QED
      BY <3>1, <2>1
  <2> QED
    BY <2>3, <2>6 DEF ids, share
<1> QED
  BY <1>1, <1>2 DEF Zones!ZonesSound, ZonesInv, ZonesKinds, Zones!TypesOK, IsView, IsMap, Shown

LEMMA ZonesStart == Zones!MediaAssumption /\ Zones!Init => ZonesInv
<1> SUFFICES ASSUME Zones!MediaAssumption, Zones!Init PROVE ZonesInv
  OBVIOUS
<1>1. Zones!Base \in Shown /\ Zones!Base.role = "none" /\ Zones!Base.lead = None
  BY DEF Zones!Base, Shown
<1>2. zDrivers \in zHouses /\ zDrivers \subseteq Zones!Zones
  BY DEF Zones!MediaAssumption, Zones!Init, Zones!Zones
<1>3. IsView(zView) /\ Agrees(zView, zGroupMap) /\ DOMAIN zView = zDrivers
  BY <1>1, <1>2 DEF Zones!Init, IsView, Agrees
<1>4. IsMap(zGroupMap)
  BY DEF Zones!Init, IsMap
<1>5. zHw \in [Zones!Zones -> Speakers] /\ \A d \in Zones!Zones : zHw[d].lead # d
  BY DEF Zones!MediaAssumption, Zones!Init, Speakers, Zones!Zones
<1>6. ZonesKinds
  <2>1. zPolls = {} /\ zJoins = {} /\ zWrites = {} /\ zUuidKnown = {} /\ zUuidTried = {}
        /\ zLeft = [r \in zRounds |-> None] /\ zAsks = [r \in zRounds |-> None] /\ zCalm = "no"
    BY DEF Zones!Init
  <2> QED
    BY <2>1, <1>2, <1>3, <1>4, <1>5 DEF ZonesKinds
<1>7. AsksQuietly /\ Zones!GroupsCatchUp
  BY DEF Zones!Init, AsksQuietly, Zones!GroupsCatchUp
<1> QED
  BY <1>3, <1>6, <1>7 DEF ZonesInv

(* After a step that was not part of a quiet round nothing is promised.        *)
LEMMA Restless == zCalm' = "no" => AsksQuietly' /\ Zones!GroupsCatchUp'
  BY DEF AsksQuietly, Zones!GroupsCatchUp

LEMMA ReplyKinds ==
    ASSUME Zones!MediaAssumption, ZonesKinds, NEW d \in Zones!Zones, NEW r \in Zones!Replies(d)
    PROVE  r \in Shown /\ Fresh(d, r)
<1>1. Zones!Base \in Shown /\ Zones!Base.lead = None
  BY DEF Zones!Base, Shown
<1>2. zHw[d].vol \in 0..100 /\ Zones!Uri(d) \in Zones!Zones \cup {None}
  BY DEF ZonesKinds, Speakers, Zones!Uri
<1>3. ASSUME NEW u \in {Zones!Uri(d), None}, NEW v \in {zHw[d].vol, None}, r = Zones!Answer(u, v)
      PROVE  r \in Shown /\ Fresh(d, r)
  <2>1. r = [online |-> TRUE, lead |-> u, vol |-> v, role |-> "none", coord |-> None,
             members |-> {}, gvol |-> None]
    BY <1>3 DEF Zones!Answer, Zones!Base
  <2>2. u \in Zones!Zones \cup {None} /\ v \in 0..100 \cup {None}
    BY <1>2
  <2> QED
    BY <2>1, <2>2 DEF Shown, Fresh
<1>4. CASE r = Zones!Base
  BY <1>1, <1>4 DEF Fresh
<1> QED
  BY <1>3, <1>4 DEF Zones!Replies

LEMMA RebuildStep ==
    ASSUME Zones!MediaAssumption, ZonesInv, NEW house \in zHouses, NEW moved \in SUBSET zSonos,
           Zones!Rebuild(house, moved)
    PROVE  ZonesInv'
<1> DEFINE kept == (house \cap zDrivers) \ moved
<1>k. ZonesKinds /\ IsView(zView) /\ IsMap(zGroupMap) /\ Agrees(zView, zGroupMap)
  BY DEF ZonesInv, ZonesKinds
<1>1. Zones!Base \in Shown /\ Zones!Base.role = "none" /\ Zones!Base.lead = None
  BY DEF Zones!Base, Shown
<1>2. /\ zView' = [d \in house \cup (DOMAIN zView \ zDrivers) |->
                    IF d \in house \ kept THEN Zones!Base ELSE zView[d]]
      /\ zDrivers' = house /\ zCalm' = "no"
      /\ UNCHANGED <<zGroupMap, zUuidTried, zUuidKnown, zHw, zPolls, zJoins, zWrites, zLeft, zAsks>>
  BY DEF Zones!Rebuild, Zones!Move
<1>3. house \subseteq Zones!Zones /\ zDrivers \subseteq DOMAIN zView
  BY <1>k DEF Zones!MediaAssumption, Zones!Zones, ZonesKinds
<1>4. kept \subseteq zDrivers
  OBVIOUS
<1> HIDE DEF kept
<1>5. IsView(zView') /\ Agrees(zView', zGroupMap) /\ house \subseteq DOMAIN zView'
  <2>1. DOMAIN zView' = house \cup (DOMAIN zView \ zDrivers)
    BY <1>2
  <2>2. ASSUME NEW d \in DOMAIN zView'
        PROVE  zView'[d] = Zones!Base \/ (d \in DOMAIN zView /\ zView'[d] = zView[d])
    BY <1>2, <1>3, <1>4, <2>1
  <2>3. \A d \in DOMAIN zView' : zView'[d] \in Shown
    BY <2>2, <1>1, <1>k DEF IsView
  <2>4. IsView(zView')
    BY <2>1, <2>3, <1>2, <1>3, <1>k DEF IsView
  <2>5. Agrees(zView', zGroupMap)
    BY <2>2, <1>1, <1>k DEF Agrees
  <2> QED
    BY <2>1, <2>4, <2>5
<1>6. ZonesKinds'
  BY <1>2, <1>5, <1>k DEF ZonesKinds
<1> QED
  BY <1>2, <1>5, <1>6, Restless DEF ZonesInv

(* A poll's answer is stored.                                                  *)
LEMMA StoredView ==
    ASSUME ZonesInv, NEW d \in Zones!Zones, NEW s \in Shown, Zones!Stored(d, s)
    PROVE  /\ IsView(zView') /\ DOMAIN zView' = DOMAIN zView \cup {d} /\ Agrees(zView', zGroupMap)
           /\ zView'[d].lead = s.lead
           /\ \A i \in DOMAIN zView \ {d} : zView'[i] = zView[i]
<1>1. IsView(zView) /\ IsMap(zGroupMap) /\ Agrees(zView, zGroupMap)
  BY DEF ZonesInv, ZonesKinds
<1>2. zView' = Zones!With(zView, d, Zones!ApplyGroupFields(zView, zGroupMap, d, s))
  BY DEF Zones!Stored
<1>3. ASSUME NEW nv, nv = Zones!With(zView, d, Zones!ApplyGroupFields(zView, zGroupMap, d, s))
      PROVE  /\ IsView(nv) /\ DOMAIN nv = DOMAIN zView \cup {d} /\ Agrees(nv, zGroupMap)
             /\ nv[d].online = s.online /\ nv[d].lead = s.lead
             /\ \A i \in DOMAIN zView \ {d} : nv[i] = zView[i]
  BY <1>1, <1>3, StoresStamped
<1> QED
  BY <1>2, <1>3

(* Whatever answer of a round is stored, a map that was right is no longer     *)
(* promised to be.                                                             *)
LEMMA Restirred ==
    ASSUME Zones!Stirred, ZonesKinds
    PROVE  /\ zCalm' \in {"no", "polling"} /\ (zCalm' = "no" <=> zCalm = "no")
           /\ Zones!GroupsCatchUp'
<1>1. zCalm' = (IF zCalm = "synced" THEN "polling" ELSE zCalm)
  BY DEF Zones!Stirred
<1>2. zCalm' \in {"no", "polling"} /\ (zCalm' = "no" <=> zCalm = "no")
  BY <1>1 DEF ZonesKinds
<1> QED
  BY <1>2 DEF Zones!GroupsCatchUp

LEMMA PollStep ==
    ASSUME Zones!MediaAssumption, ZonesInv, NEW p \in zPolls, Zones!PollEnds(p)
    PROVE  ZonesInv'
<1>k. ZonesKinds /\ AsksQuietly
  BY DEF ZonesInv
<1>1. p.zone \in Zones!Zones /\ p.reply \in Shown
  BY <1>k DEF ZonesKinds, PollCalls
<1>2. /\ zPolls' = zPolls \ {p} /\ Zones!Stored(p.zone, p.reply) /\ Zones!Stirred
      /\ UNCHANGED <<zDrivers, zGroupMap, zUuidTried, zUuidKnown, zHw, zJoins, zWrites, zLeft, zAsks>>
  BY DEF Zones!PollEnds
<1>3. /\ IsView(zView') /\ DOMAIN zView' = DOMAIN zView \cup {p.zone} /\ Agrees(zView', zGroupMap)
      /\ zView'[p.zone].lead = p.reply.lead
      /\ \A i \in DOMAIN zView \ {p.zone} : zView'[i] = zView[i]
  BY <1>1, <1>2, StoredView
<1>4. zCalm' \in {"no", "polling"} /\ (zCalm' = "no" <=> zCalm = "no") /\ Zones!GroupsCatchUp'
  BY <1>2, <1>k, Restirred
<1>5. ZonesKinds'
  BY <1>2, <1>3, <1>4, <1>k DEF ZonesKinds
<1>6. ASSUME zCalm # "no", NEW r \in zRounds, NEW d \in zDrivers \cap zSonos,
             zLeft[r] # None, d \notin zLeft[r],
             ~\E q \in zPolls \ {p} : q.zone = d /\ q.round = r
      PROVE  Fresh(d, zView'[d])
  <2>1. CASE d = p.zone
    <3>1. Fresh(d, p.reply)
      BY <1>6, <1>k, <2>1 DEF AsksQuietly
    <3> QED
      BY <3>1, <2>1, <1>3 DEF Fresh
  <2>2. CASE d # p.zone
    <3>1. d \in DOMAIN zView
      BY <1>6, <1>k DEF ZonesKinds
    <3>2. ~\E q \in zPolls : q.zone = d /\ q.round = r
      BY <1>6, <2>2
    <3>3. Fresh(d, zView[d])
      BY <3>2, <1>6, <1>k DEF AsksQuietly
    <3> QED
      BY <3>1, <3>3, <2>2, <1>3
  <2> QED
    BY <2>1, <2>2
<1>7. AsksQuietly'
  <2>1. \A d, t : Fresh(d, t)' <=> Fresh(d, t)
    BY <1>2 DEF Fresh, Zones!Uri
  <2> QED
    BY <2>1, <1>2, <1>4, <1>6, <1>k DEF AsksQuietly, Fresh, Zones!Uri
<1> QED
  BY <1>2, <1>3, <1>4, <1>5, <1>7 DEF ZonesInv

LEMMA RoundStep ==
    ASSUME Zones!MediaAssumption, ZonesInv, NEW r \in zRounds, NEW d \in Zones!Zones,
           NEW reply \in Zones!Replies(d), Zones!RoundPolls(r, d, reply)
    PROVE  ZonesInv'
<1> DEFINE poll == [zone |-> d, round |-> r, reply |-> reply]
<1>k. ZonesKinds /\ AsksQuietly /\ Agrees(zView, zGroupMap) /\ Zones!GroupsCatchUp
  BY DEF ZonesInv
<1>1. reply \in Shown /\ Fresh(d, reply)
  BY <1>k, ReplyKinds
<1>2. /\ zLeft[r] # None /\ d \in zLeft[r] /\ zLeft' = [zLeft EXCEPT ![r] = @ \ {d}]
      /\ UNCHANGED <<zDrivers, zGroupMap, zUuidTried, zUuidKnown, zHw, zJoins, zWrites, zAsks>>
  BY DEF Zones!RoundPolls
<1>3. /\ zLeft' \in [zRounds -> (SUBSET Zones!Zones) \cup {None}]
      /\ zLeft'[r] = zLeft[r] \ {d} /\ \A q \in zRounds \ {r} : zLeft'[q] = zLeft[q]
  <2>1. zLeft[r] \in SUBSET Zones!Zones
    BY <1>2, <1>k DEF ZonesKinds
  <2>2. zLeft[r] \ {d} \in SUBSET Zones!Zones
    BY <2>1
  <2> QED
    BY <2>2, <1>2, <1>k DEF ZonesKinds
<1>4. \A z, t : Fresh(z, t)' <=> Fresh(z, t)
  BY <1>2 DEF Fresh, Zones!Uri
<1>5. CASE Zones!Stored(d, reply) /\ Zones!Stirred /\ UNCHANGED zPolls
  <2>1. /\ IsView(zView') /\ DOMAIN zView' = DOMAIN zView \cup {d} /\ Agrees(zView', zGroupMap)
        /\ zView'[d].lead = reply.lead
        /\ \A i \in DOMAIN zView \ {d} : zView'[i] = zView[i]
    BY <1>1, <1>5, StoredView
  <2>2. zCalm' \in {"no", "polling"} /\ (zCalm' = "no" <=> zCalm = "no") /\ Zones!GroupsCatchUp'
    BY <1>5, <1>k, Restirred
  <2>3. ZonesKinds'
    BY <1>2, <1>3, <1>5, <2>1, <2>2, <1>k DEF ZonesKinds
  <2>4. ASSUME zCalm # "no", NEW q \in zRounds, NEW z \in zDrivers \cap zSonos,
               zLeft'[q] # None, z \notin zLeft'[q], ~\E p \in zPolls : p.zone = z /\ p.round = q
        PROVE  Fresh(z, zView'[z])
    <3>1. CASE z = d
      BY <3>1, <2>1, <1>1 DEF Fresh
    <3>2. CASE z # d
      <4>1. zLeft[q] # None /\ z \notin zLeft[q]
        BY <3>2, <2>4, <1>2, <1>3
      <4>2. Fresh(z, zView[z]) /\ z \in DOMAIN zView
        BY <4>1, <2>4, <1>k DEF AsksQuietly, ZonesKinds
      <4> QED
        BY <4>2, <3>2, <2>1
    <3> QED
      BY <3>1, <3>2
  <2>5. AsksQuietly'
    BY <1>2, <1>4, <1>5, <2>2, <2>4, <1>k DEF AsksQuietly, Fresh, Zones!Uri
  <2> QED
    BY <1>2, <2>1, <2>2, <2>3, <2>5 DEF ZonesInv
<1>6. CASE zPolls' = zPolls \cup {poll} /\ UNCHANGED <<zView, zCalm>>
  <2>1. poll \in PollCalls /\ poll.zone = d /\ poll.round = r /\ poll.reply = reply
    BY <1>1 DEF PollCalls
  <2> HIDE DEF poll
  <2>2. ZonesKinds'
    BY <1>2, <1>3, <1>6, <2>1, <1>k DEF ZonesKinds
  <2>3. ASSUME zCalm # "no", NEW q \in zRounds, NEW z \in zDrivers \cap zSonos,
               zLeft'[q] # None, z \notin zLeft'[q],
               ~\E p \in zPolls \cup {poll} : p.zone = z /\ p.round = q
        PROVE  Fresh(z, zView[z])
    <3>1. zLeft[q] # None /\ z \notin zLeft[q]
      BY <2>3, <2>1, <1>2, <1>3
    <3> QED
      BY <3>1, <2>3, <1>k DEF AsksQuietly
  <2>4. AsksQuietly'
    BY <1>1, <1>2, <1>4, <1>6, <2>1, <2>3, <1>k DEF AsksQuietly, Fresh, Zones!Uri
  <2>5. Zones!GroupsCatchUp'
    BY <1>2, <1>6, <1>k DEF Zones!GroupsCatchUp
  <2> QED
    BY <1>2, <1>6, <2>2, <2>4, <2>5, <1>k DEF ZonesInv
<1> QED
  BY <1>5, <1>6 DEF Zones!RoundPolls

LEMMA AsksUuidStep ==
    ASSUME Zones!MediaAssumption, ZonesInv, NEW r \in zRounds, NEW d \in Zones!Zones, Zones!AsksUuid(r, d)
    PROVE  ZonesInv'
<1>k. ZonesKinds /\ AsksQuietly /\ Agrees(zView, zGroupMap) /\ Zones!GroupsCatchUp
  BY DEF ZonesInv
<1>1. /\ d \in zSonos /\ zUuidTried' = zUuidTried \cup {d} /\ zAsks' = [zAsks EXCEPT ![r] = d]
      /\ UNCHANGED <<zDrivers, zView, zGroupMap, zUuidKnown, zHw, zPolls, zJoins, zWrites, zLeft, zCalm>>
  BY DEF Zones!AsksUuid
<1>2. ZonesKinds'
  BY <1>1, <1>k DEF ZonesKinds
<1>3. AsksQuietly' /\ Zones!GroupsCatchUp'
  BY <1>1, <1>k DEF AsksQuietly, Fresh, Zones!Uri, Zones!GroupsCatchUp
<1> QED
  BY <1>1, <1>2, <1>3, <1>k DEF ZonesInv

LEMMA UuidStep ==
    ASSUME Zones!MediaAssumption, ZonesInv, NEW r \in zRounds, NEW ok \in BOOLEAN, Zones!UuidAnswered(r, ok)
    PROVE  ZonesInv'
<1>k. ZonesKinds /\ AsksQuietly /\ Agrees(zView, zGroupMap)
  BY DEF ZonesInv
<1>1. /\ zAsks[r] # None /\ zAsks' = [zAsks EXCEPT ![r] = None]
      /\ zUuidKnown' = (IF ok THEN zUuidKnown \cup {zAsks[r]} ELSE zUuidKnown)
      /\ UNCHANGED <<zDrivers, zView, zGroupMap, zUuidTried, zHw, zPolls, zJoins, zWrites, zLeft>>
      /\ Zones!Stirred
  BY DEF Zones!UuidAnswered
<1>2. zCalm' \in {"no", "polling"} /\ (zCalm' = "no" <=> zCalm = "no") /\ Zones!GroupsCatchUp'
  BY <1>1, <1>k, Restirred
<1>3. zUuidKnown' \subseteq zUuidTried
  BY <1>1, <1>k DEF ZonesKinds
<1>4. ZonesKinds'
  BY <1>1, <1>2, <1>3, <1>k DEF ZonesKinds
<1>5. AsksQuietly'
  BY <1>1, <1>2, <1>k DEF AsksQuietly, Fresh, Zones!Uri
<1> QED
  BY <1>1, <1>2, <1>4, <1>5, <1>k DEF ZonesInv

(* The round that comes in corrects the map, and with it what is shown.        *)
LEMMA SyncStep ==
    ASSUME Zones!MediaAssumption, ZonesInv, NEW r \in zRounds, Zones!SyncSonosGroups(r)
    PROVE  ZonesInv'
<1> DEFINE known == zUuidKnown
           gm == Zones!Synced(zView, zGroupMap, known)
<1>k. /\ ZonesKinds /\ IsView(zView) /\ IsMap(zGroupMap) /\ Agrees(zView, zGroupMap)
      /\ AsksQuietly
  BY DEF ZonesInv, ZonesKinds
<1>1. /\ zLeft' = [zLeft EXCEPT ![r] = None] /\ zGroupMap' = gm
      /\ zView' = (IF gm = zGroupMap THEN zView ELSE Zones!ApplyGroupState(zView, gm))
      /\ zCalm' = (IF zCalm = "no" THEN "no" ELSE "synced")
      /\ UNCHANGED <<zDrivers, zUuidTried, zUuidKnown, zHw, zPolls, zJoins, zWrites, zAsks>>
  BY DEF Zones!SyncSonosGroups
<1>2. zCalm # "no" => \A d \in zDrivers \cap zSonos : Fresh(d, zView[d])
  <2>1. zLeft[r] = {} /\ ~\E p \in zPolls : p.round = r
    BY DEF Zones!SyncSonosGroups, Zones!Polled
  <2>2. {} # None
    BY DEF Zones!MediaAssumption
  <2> QED
    BY <2>1, <2>2, <1>k DEF AsksQuietly
<1>3. /\ DOMAIN gm \subseteq Zones!Zones /\ gm = [m \in DOMAIN gm |-> gm[m]]
      /\ \A d \in Zones!Zones :
            LET follows == d \in DOMAIN zView /\ zView[d].lead \notin {None, d}
                named == follows /\ zView[d].lead \in known
            IN /\ named => d \in DOMAIN gm /\ gm[d] = zView[d].lead
               /\ d \in DOMAIN gm /\ ~named => d \in DOMAIN zGroupMap /\ gm[d] = zGroupMap[d]
               /\ ~follows /\ d \in DOMAIN zView => d \notin DOMAIN gm
  BY DEF Zones!Synced
<1> HIDE DEF gm
<1>4. IsMap(gm)
  <2>1. ASSUME NEW m \in DOMAIN gm PROVE gm[m] \in Zones!Zones /\ gm[m] # m
    <3>1. m \in Zones!Zones
      BY <1>3
    <3>2. CASE m \in DOMAIN zView /\ zView[m].lead \notin {None, m} /\ zView[m].lead \in known
      BY <1>3, <1>k, <3>1, <3>2 DEF IsView, Shown
    <3>3. CASE ~(m \in DOMAIN zView /\ zView[m].lead \notin {None, m} /\ zView[m].lead \in known)
      BY <1>3, <1>k, <3>1, <3>3 DEF IsMap
    <3> QED
      BY <3>2, <3>3
  <2> QED
    BY <1>3, <2>1 DEF IsMap
<1>5. /\ IsView(zView') /\ DOMAIN zView' = DOMAIN zView /\ Agrees(zView', gm)
      /\ \A d \in DOMAIN zView : zView'[d].lead = zView[d].lead
  <2>1. CASE gm = zGroupMap
    BY <2>1, <1>1, <1>k
  <2>2. CASE gm # zGroupMap
    <3>1. zView' = Zones!ApplyGroupState(zView, gm)
      BY <2>2, <1>1
    <3>2. ASSUME NEW nv, nv = Zones!ApplyGroupState(zView, gm)
          PROVE  /\ IsView(nv) /\ DOMAIN nv = DOMAIN zView /\ Agrees(nv, gm)
                 /\ \A d \in DOMAIN zView : nv[d].lead = zView[d].lead
      BY <1>4, <1>k, <3>2, Restamps
    <3> QED
      BY <3>1, <3>2
  <2> QED
    BY <2>1, <2>2
<1>6. ZonesKinds'
  BY <1>1, <1>4, <1>5, <1>k DEF ZonesKinds
<1>7. AsksQuietly'
  <2>1. \A q \in zRounds : zLeft'[q] # None => q # r /\ zLeft'[q] = zLeft[q]
    BY <1>1, <1>k DEF ZonesKinds
  <2>2. \A d \in zDrivers : zView'[d].lead = zView[d].lead
    BY <1>5, <1>k DEF ZonesKinds
  <2> QED
    BY <2>1, <2>2, <1>1, <1>k DEF AsksQuietly, Fresh, Zones!Uri
<1>8. Zones!GroupsCatchUp'
  <2> SUFFICES ASSUME zCalm # "no", NEW d \in zDrivers \cap zSonos,
                      zView'[d].lead # None, zHw[d].lead \in known \cup {None}
               PROVE  /\ (d \in DOMAIN gm) = (zHw[d].lead # None)
                      /\ zHw[d].lead # None => gm[d] = zHw[d].lead /\ zView'[d].coord = zHw[d].lead
    BY <1>1 DEF Zones!GroupsCatchUp
  <2>1. d \in DOMAIN zView /\ d \in Zones!Zones /\ zHw[d].lead # d
    BY <1>k DEF ZonesKinds, IsView
  <2>2. /\ zView[d].lead = zView'[d].lead /\ d # None /\ zView'[d].role # "none"
        /\ zView[d].lead = IF zHw[d].lead = None THEN d ELSE zHw[d].lead
    <3>1. zView[d].lead = zView'[d].lead /\ zView'[d].role # "none"
      BY <2>1, <1>5 DEF Agrees
    <3>2. d # None /\ d \notin zBluesound
      BY DEF Zones!MediaAssumption
    <3>3. Zones!Uri(d) = IF zHw[d].lead = None THEN d ELSE zHw[d].lead
      BY <3>2 DEF Zones!Uri
    <3> QED
      BY <3>1, <3>2, <3>3, <1>2 DEF Fresh
  <2>3. zView'[d].coord = IF d \in DOMAIN gm THEN gm[d] ELSE None
    BY <2>1, <2>2, <1>5 DEF Agrees, StampedBy
  <2> QED
    BY <2>1, <2>2, <2>3, <1>3
<1> QED
  BY <1>1, <1>5, <1>6, <1>7, <1>8 DEF ZonesInv

LEMMA RegroupStep ==
    ASSUME Zones!MediaAssumption, ZonesInv, NEW gm, IsMap(gm), NEW call \in JoinCalls,
           call.op = "join" => call.zone # call.lead, Zones!Regroup(gm, call)
    PROVE  ZonesInv'
<1>k. ZonesKinds /\ IsView(zView)
  BY DEF ZonesInv, ZonesKinds
<1>1. /\ zGroupMap' = gm /\ zView' = Zones!ApplyGroupState(zView, gm) /\ zJoins' = {call} /\ zCalm' = "no"
      /\ UNCHANGED <<zDrivers, zUuidTried, zUuidKnown, zHw, zPolls, zWrites, zLeft, zAsks>>
  BY DEF Zones!Regroup, Zones!Move
<1>2. ASSUME NEW nv, nv = Zones!ApplyGroupState(zView, gm)
      PROVE  IsView(nv) /\ DOMAIN nv = DOMAIN zView /\ Agrees(nv, gm)
  BY <1>k, <1>2, Restamps
<1>3. IsView(zView') /\ DOMAIN zView' = DOMAIN zView /\ Agrees(zView', gm)
  BY <1>1, <1>2
<1>4. ZonesKinds'
  BY <1>1, <1>3, <1>k DEF ZonesKinds
<1> QED
  BY <1>1, <1>3, <1>4, Restless DEF ZonesInv

LEMMA GroupStep ==
    ASSUME Zones!MediaAssumption, ZonesInv, NEW f \in Zones!Zones, NEW c \in Zones!Zones, Zones!Group(f, c)
    PROVE  ZonesInv'
<1> DEFINE call == [op |-> "join", zone |-> f, lead |-> c, others |-> {}]
<1>1. f # c /\ Zones!Regroup(Zones!With(zGroupMap, f, c), call)
  BY DEF Zones!Group
<1>2. IsMap(Zones!With(zGroupMap, f, c))
  BY <1>1 DEF ZonesInv, ZonesKinds, IsMap, Zones!With
<1>3. call \in JoinCalls /\ (call.op = "join" => call.zone # call.lead)
  BY <1>1 DEF JoinCalls
<1> HIDE DEF call
<1> QED
  BY <1>1, <1>2, <1>3, RegroupStep

LEMMA UngroupStep ==
    ASSUME Zones!MediaAssumption, ZonesInv, NEW d \in Zones!Zones, Zones!Ungroup(d)
    PROVE  ZonesInv'
<1> DEFINE mine == Zones!MembersOf(zGroupMap, d)
           rest == Zones!Restrict(zGroupMap, DOMAIN zGroupMap \ ({d} \cup mine))
           call == [op |-> "leave", zone |-> d, others |-> mine,
                    lead |-> IF d \in DOMAIN zGroupMap THEN zGroupMap[d] ELSE None]
<1>1. Zones!Regroup(rest, call)
  BY DEF Zones!Ungroup
<1>2. IsMap(zGroupMap)
  BY DEF ZonesInv, ZonesKinds
<1>3. IsMap(rest)
  BY <1>2 DEF IsMap, Zones!Restrict
<1>4. call \in JoinCalls /\ call.op # "join"
  BY <1>2 DEF JoinCalls, IsMap, Zones!MembersOf
<1> HIDE DEF call, rest
<1> QED
  BY <1>1, <1>3, <1>4, RegroupStep

(* The speakers never follow themselves.                                       *)
LEMMA ObeyedKinds ==
    ASSUME Zones!MediaAssumption, ZonesKinds, NEW call \in zJoins, NEW to, to = Zones!Obeyed(call)
    PROVE  to \in [Zones!Zones -> Speakers] /\ \A d \in Zones!Zones : to[d].lead # d
<1> DEFINE heir == IF call.zone \in zSonos /\ call.others \cap zSonos # {}
                     THEN CHOOSE m \in call.others \cap zSonos : TRUE ELSE None
           freed == {call.zone} \cup (IF call.zone \in zBluesound THEN call.others ELSE {})
           led(d) == IF d \in freed \/ d = heir THEN None
                     ELSE IF d \in call.others \cap zSonos /\ heir # None THEN heir
                     ELSE zHw[d].lead
<1>1. /\ call \in JoinCalls /\ (call.op = "join" => call.zone # call.lead)
      /\ zHw \in [Zones!Zones -> Speakers] /\ \A d \in Zones!Zones : zHw[d].lead # d
  BY DEF ZonesKinds
<1>2. heir \in Zones!Zones \cup {None}
  BY DEF Zones!Zones
<1>3. CASE call.op = "join"
  <2>1. \/ to = zHw
        \/ call.lead \in Zones!Zones /\ to = [zHw EXCEPT ![call.zone].lead = call.lead]
    BY <1>3 DEF Zones!Obeyed, Zones!Zones
  <2>2. call.zone \in Zones!Zones /\ call.zone # call.lead
    BY <1>1, <1>3 DEF JoinCalls
  <2>3. CASE call.lead \in Zones!Zones /\ to = [zHw EXCEPT ![call.zone].lead = call.lead]
    <3> DEFINE r == [zHw[call.zone] EXCEPT !.lead = call.lead]
    <3>1. r \in Speakers /\ r.lead = call.lead
      BY <2>2, <2>3, <1>1 DEF Speakers
    <3>2. to = [zHw EXCEPT ![call.zone] = r]
      BY <2>3
    <3> HIDE DEF r
    <3> QED
      BY <3>1, <3>2, <2>2, <1>1
  <2> QED
    BY <2>1, <2>3, <1>1
<1>4. CASE call.op # "join"
  <2>1. to = [d \in Zones!Zones |-> [zHw[d] EXCEPT !.lead = led(d)]]
    BY <1>4 DEF Zones!Obeyed
  <2>2. ASSUME NEW d \in Zones!Zones PROVE led(d) \in Zones!Zones \cup {None} /\ led(d) # d
    <3>1. zHw[d].lead \in Zones!Zones \cup {None} /\ zHw[d].lead # d /\ None # d
      BY <1>1 DEF Speakers, Zones!MediaAssumption, Zones!Zones
    <3> HIDE DEF heir, freed
    <3> QED
      BY <3>1, <1>2
  <2> HIDE DEF led
  <2>3. ASSUME NEW d \in Zones!Zones PROVE to[d] \in Speakers /\ to[d].lead # d
    <3>1. to[d] = [zHw[d] EXCEPT !.lead = led(d)]
      BY <2>1
    <3>2. zHw[d] \in Speakers
      BY <1>1
    <3>3. to[d] = [lead |-> led(d), vol |-> zHw[d].vol]
      BY <3>1, <3>2 DEF Speakers
    <3> QED
      BY <3>3, <3>2, <2>2 DEF Speakers
  <2> QED
    BY <2>1, <2>3
<1> QED
  BY <1>3, <1>4

LEMMA JoinStep ==
    ASSUME Zones!MediaAssumption, ZonesInv, NEW call \in zJoins, NEW ok \in BOOLEAN, Zones!JoinEnds(call, ok)
    PROVE  ZonesInv'
<1>k. ZonesKinds /\ Agrees(zView, zGroupMap)
  BY DEF ZonesInv
<1>1. /\ zJoins' = zJoins \ {call} /\ zCalm' = "no" /\ (zHw' = Zones!Obeyed(call) \/ zHw' = zHw)
      /\ UNCHANGED <<zDrivers, zView, zGroupMap, zUuidTried, zUuidKnown, zPolls, zWrites, zLeft, zAsks>>
  BY DEF Zones!JoinEnds
<1>2. ASSUME NEW to, to = Zones!Obeyed(call)
      PROVE  to \in [Zones!Zones -> Speakers] /\ \A d \in Zones!Zones : to[d].lead # d
  BY <1>k, <1>2, ObeyedKinds
<1>3. zHw' \in [Zones!Zones -> Speakers] /\ \A d \in Zones!Zones : zHw'[d].lead # d
  BY <1>1, <1>2, <1>k DEF ZonesKinds
<1>4. ZonesKinds'
  BY <1>1, <1>3, <1>k DEF ZonesKinds
<1> QED
  BY <1>1, <1>4, <1>k, Restless DEF ZonesInv

LEMMA GroupVolumeStep ==
    ASSUME Zones!MediaAssumption, ZonesInv, NEW d \in Zones!Zones, NEW v \in zLevels, Zones!SetGroupVolume(d, v)
    PROVE  ZonesInv'
<1> DEFINE ids == Zones!GroupIds(zGroupMap, d)
           share == Zones!Scaled(zView, ids, v)
<1>k. ZonesKinds /\ Agrees(zView, zGroupMap) /\ IsView(zView) /\ IsMap(zGroupMap)
  BY DEF ZonesInv, ZonesKinds
<1>1. /\ zWrites' = {[zone |-> i, vol |-> share[i], whole |-> TRUE] : i \in ids \cap zDrivers}
      /\ zCalm' = "no"
      /\ UNCHANGED <<zDrivers, zView, zGroupMap, zUuidTried, zUuidKnown, zHw, zPolls, zJoins, zLeft, zAsks>>
  BY DEF Zones!SetGroupVolume, Zones!Move
<1>2. ids # {} /\ ids \subseteq Zones!Zones /\ v \in 0..100
  BY <1>k, GroupIdsKinds DEF Zones!MediaAssumption
<1> HIDE DEF ids
<1>3. \A i \in ids : share[i] \in 0..100
  BY <1>2, <1>k, Shares
<1> HIDE DEF share
<1>4. \A i \in ids : [zone |-> i, vol |-> share[i], whole |-> TRUE] \in WriteCalls
  <2>1. TRUE \in BOOLEAN
    OBVIOUS
  <2> QED
    BY <2>1, <1>2, <1>3 DEF WriteCalls
<1>5. zWrites' \subseteq WriteCalls
  BY <1>1, <1>4
<1>6. ZonesKinds'
  BY <1>1, <1>5, <1>k DEF ZonesKinds
<1> QED
  BY <1>1, <1>6, <1>k, Restless DEF ZonesInv

LEMMA VolumeStep ==
    ASSUME Zones!MediaAssumption, ZonesInv, NEW d \in Zones!Zones, NEW v \in zLevels, Zones!SetVolume(d, v)
    PROVE  ZonesInv'
<1>k. ZonesKinds /\ Agrees(zView, zGroupMap)
  BY DEF ZonesInv
<1>1. /\ zWrites' = {[zone |-> d, vol |-> v, whole |-> FALSE]} /\ zCalm' = "no"
      /\ UNCHANGED <<zDrivers, zView, zGroupMap, zUuidTried, zUuidKnown, zHw, zPolls, zJoins, zLeft, zAsks>>
  BY DEF Zones!SetVolume, Zones!Move
<1>2. zWrites' \subseteq WriteCalls
  BY <1>1 DEF WriteCalls, Zones!MediaAssumption
<1>3. ZonesKinds'
  BY <1>1, <1>2, <1>k DEF ZonesKinds
<1> QED
  BY <1>1, <1>3, <1>k, Restless DEF ZonesInv

(* A write that came back is shown in its zone and its group.                  *)
LEMMA ToldView ==
    ASSUME Zones!MediaAssumption, ZonesKinds, Agrees(zView, zGroupMap), NEW w \in zWrites,
           w.zone \in DOMAIN zView, NEW nv, nv = Zones!Told(w)
    PROVE  IsView(nv) /\ DOMAIN nv = DOMAIN zView /\ Agrees(nv, zGroupMap)
<1> DEFINE ids == Zones!GroupIds(zGroupMap, w.zone)
           s == [zView[w.zone] EXCEPT !.vol = w.vol]
           mine == Zones!ApplyGroupFields(zView, zGroupMap, w.zone, s)
           now == Zones!With(zView, w.zone, mine)
<1>k. /\ IsView(zView) /\ IsMap(zGroupMap) /\ w.zone \in Zones!Zones /\ w.vol \in 0..100
  BY DEF ZonesKinds, WriteCalls
<1>1. s \in Shown
  <2>1. zView[w.zone] \in Shown
    BY <1>k DEF IsView
  <2> QED
    BY <2>1, <1>k DEF Shown
<1> HIDE DEF s
<1>2. IsView(now) /\ DOMAIN now = DOMAIN zView /\ Agrees(now, zGroupMap)
  <2>1. ASSUME NEW z \in Zones!Zones, NEW t \in Shown,
               NEW x, x = Zones!With(zView, z, Zones!ApplyGroupFields(zView, zGroupMap, z, t))
        PROVE  IsView(x) /\ DOMAIN x = DOMAIN zView \cup {z} /\ Agrees(x, zGroupMap)
    <3>1. IsView(zView) /\ IsMap(zGroupMap) /\ Agrees(zView, zGroupMap)
      BY <1>k
    <3> QED
      BY <2>1, <3>1, StoresStamped, SMTT(60)
  <2>2. IsView(now) /\ DOMAIN now = DOMAIN zView \cup {w.zone} /\ Agrees(now, zGroupMap)
    BY <1>1, <1>k, <2>1
  <2> QED
    BY <2>2
<1>3. nv = IF w.whole \/ ~Zones!Grouped(zGroupMap, w.zone) THEN now
           ELSE [i \in DOMAIN now |-> IF i \in ids \ {w.zone}
                    THEN [now[i] EXCEPT !.gvol = Zones!GroupVolumeOf(now, ids)] ELSE now[i]]
  BY DEF Zones!Told, s
<1> HIDE DEF now
<1>4. Zones!GroupVolumeOf(now, ids) \in 0..100
  <2>1. ids # {}
    BY <1>k, GroupIdsKinds
  <2> HIDE DEF ids
  <2> QED
    BY <1>2, <2>1, GroupLoudest
<1> DEFINE loud == Zones!GroupVolumeOf(now, ids)
<1> HIDE DEF loud, ids
<1>5. CASE nv = now
  BY <1>2, <1>5
<1>6. CASE nv = [i \in DOMAIN now |-> IF i \in ids \ {w.zone}
                    THEN [now[i] EXCEPT !.gvol = loud] ELSE now[i]]
  <2>1. ASSUME NEW i \in DOMAIN now
        PROVE  /\ nv[i] \in Shown /\ nv[i].role = now[i].role /\ nv[i].coord = now[i].coord
               /\ nv[i].members = now[i].members /\ nv[i].lead = now[i].lead
    <3>1. now[i] \in Shown
      BY <1>2 DEF IsView
    <3>2. CASE i \in ids \ {w.zone}
      <4>1. nv[i] = [now[i] EXCEPT !.gvol = loud]
        BY <1>6, <3>2
      <4>2. nv[i] = [online |-> now[i].online, lead |-> now[i].lead, vol |-> now[i].vol,
                     role |-> now[i].role, coord |-> now[i].coord,
                     members |-> now[i].members, gvol |-> loud]
        BY <4>1, <3>1 DEF Shown
      <4> QED
        BY <4>2, <3>1, <1>4 DEF Shown, loud
    <3>3. CASE i \notin ids \ {w.zone}
      BY <3>1, <3>3, <1>6
    <3> QED
      BY <3>2, <3>3
  <2>2. IsView(nv) /\ DOMAIN nv = DOMAIN now
    BY <2>1, <1>2, <1>6 DEF IsView
  <2>3. Agrees(nv, zGroupMap)
    BY <2>1, <2>2, <1>2 DEF Agrees, StampedBy
  <2> QED
    BY <2>2, <2>3, <1>2
<1> QED
  BY <1>3, <1>5, <1>6 DEF loud

LEMMA WriteStep ==
    ASSUME Zones!MediaAssumption, ZonesInv, NEW w \in zWrites, NEW ok \in BOOLEAN, Zones!WriteEnds(w, ok)
    PROVE  ZonesInv'
<1>k. ZonesKinds /\ Agrees(zView, zGroupMap) /\ IsView(zView)
  BY DEF ZonesInv, ZonesKinds
<1>1. /\ zWrites' = zWrites \ {w} /\ zCalm' = "no"
      /\ zHw' = (IF ok THEN [zHw EXCEPT ![w.zone].vol = w.vol] ELSE zHw)
      /\ zView' = (IF (ok \/ w.whole) /\ w.zone \in DOMAIN zView THEN Zones!Told(w) ELSE zView)
      /\ UNCHANGED <<zDrivers, zGroupMap, zUuidTried, zUuidKnown, zPolls, zJoins, zLeft, zAsks>>
  BY DEF Zones!WriteEnds
<1>2. ASSUME NEW nv, nv = Zones!Told(w), w.zone \in DOMAIN zView
      PROVE  IsView(nv) /\ DOMAIN nv = DOMAIN zView /\ Agrees(nv, zGroupMap)
  BY <1>k, <1>2, ToldView
<1>3. IsView(zView') /\ DOMAIN zView' = DOMAIN zView /\ Agrees(zView', zGroupMap)
  BY <1>1, <1>2, <1>k
<1>4. zHw' \in [Zones!Zones -> Speakers] /\ \A d \in Zones!Zones : zHw'[d].lead # d
  <2> DEFINE r == [zHw[w.zone] EXCEPT !.vol = w.vol]
  <2>1. w.zone \in Zones!Zones /\ w.vol \in 0..100
    BY <1>k DEF ZonesKinds, WriteCalls
  <2>2. r \in Speakers /\ r.lead = zHw[w.zone].lead
    BY <2>1, <1>k DEF ZonesKinds, Speakers
  <2>3. zHw' = [zHw EXCEPT ![w.zone] = r] \/ zHw' = zHw
    BY <1>1
  <2> HIDE DEF r
  <2> QED
    BY <2>1, <2>2, <2>3, <1>k DEF ZonesKinds
<1>5. ZonesKinds'
  BY <1>1, <1>3, <1>4, <1>k DEF ZonesKinds
<1> QED
  BY <1>1, <1>3, <1>5, Restless DEF ZonesInv

LEMMA ElsewhereStep ==
    ASSUME Zones!MediaAssumption, ZonesInv, NEW d \in zSonos, NEW lead \in zSonos \cup {None},
           Zones!Elsewhere(d, lead)
    PROVE  ZonesInv'
<1>k. ZonesKinds /\ Agrees(zView, zGroupMap)
  BY DEF ZonesInv
<1>1. /\ lead # d /\ zHw' = [zHw EXCEPT ![d].lead = lead] /\ zCalm' = "no"
      /\ UNCHANGED <<zDrivers, zView, zGroupMap, zUuidTried, zUuidKnown, zPolls, zJoins, zWrites, zLeft, zAsks>>
  BY DEF Zones!Elsewhere, Zones!Move, Zones!MediaAssumption, Zones!Zones
<1> DEFINE r == [zHw[d] EXCEPT !.lead = lead]
<1>2. d \in Zones!Zones /\ r \in Speakers /\ r.lead = lead
  BY <1>k DEF ZonesKinds, Speakers, Zones!Zones
<1>3. zHw' = [zHw EXCEPT ![d] = r]
  BY <1>1
<1> HIDE DEF r
<1>4. zHw' \in [Zones!Zones -> Speakers] /\ \A z \in Zones!Zones : zHw'[z].lead # z
  BY <1>1, <1>2, <1>3, <1>k DEF ZonesKinds
<1>5. ZonesKinds'
  BY <1>1, <1>4, <1>k DEF ZonesKinds
<1> QED
  BY <1>1, <1>5, <1>k, Restless DEF ZonesInv

LEMMA TickStep ==
    ASSUME Zones!MediaAssumption, ZonesInv, NEW r \in zRounds, Zones!TickStarts(r)
    PROVE  ZonesInv'
<1>k. ZonesKinds /\ AsksQuietly /\ Agrees(zView, zGroupMap) /\ Zones!GroupsCatchUp
  BY DEF ZonesInv
<1> DEFINE quiet == zPolls \cup zJoins \cup zWrites = {} /\ \A q \in zRounds : zLeft[q] = None
<1>1. /\ zLeft' = [zLeft EXCEPT ![r] = zDrivers] /\ zCalm' = (IF quiet THEN "polling" ELSE zCalm)
      /\ UNCHANGED <<zDrivers, zView, zGroupMap, zUuidTried, zUuidKnown, zHw, zPolls, zJoins, zWrites, zAsks>>
  BY DEF Zones!TickStarts
<1>2. zDrivers \in SUBSET Zones!Zones
  BY <1>k DEF ZonesKinds, Zones!MediaAssumption, Zones!Zones
<1>3. zLeft'[r] = zDrivers /\ \A q \in zRounds \ {r} : zLeft'[q] = zLeft[q]
  BY <1>1, <1>k DEF ZonesKinds
<1>4. ZonesKinds'
  BY <1>1, <1>2, <1>k DEF ZonesKinds
<1>5. ASSUME quiet PROVE AsksQuietly' /\ Zones!GroupsCatchUp'
  <2>1. zPolls' = {} /\ zJoins' = {} /\ zWrites' = {} /\ zCalm' = "polling"
    BY <1>1, <1>5
  <2>2. \A q \in zRounds : zLeft'[q] # None => zLeft'[q] = zDrivers'
    BY <1>1, <1>3, <1>5
  <2> QED
    BY <2>1, <2>2 DEF AsksQuietly, Zones!GroupsCatchUp
<1>6. ASSUME ~quiet PROVE AsksQuietly' /\ Zones!GroupsCatchUp'
  <2>1. UNCHANGED zCalm
    BY <1>1, <1>6
  <2> HIDE DEF quiet
  <2>2. AsksQuietly'
    BY <2>1, <1>1, <1>3, <1>k DEF AsksQuietly, Fresh, Zones!Uri
  <2>3. Zones!GroupsCatchUp'
    BY <2>1, <1>1, <1>k DEF Zones!GroupsCatchUp
  <2> QED
    BY <2>2, <2>3
<1> QED
  BY <1>1, <1>4, <1>5, <1>6, <1>k DEF ZonesInv

LEMMA RePollStep ==
    ASSUME Zones!MediaAssumption, ZonesInv, NEW d \in Zones!Zones, NEW reply \in Zones!Replies(d),
           Zones!RePolls(d, reply)
    PROVE  ZonesInv'
<1> DEFINE poll == [zone |-> d, round |-> None, reply |-> reply]
<1>k. ZonesKinds /\ Agrees(zView, zGroupMap)
  BY DEF ZonesInv
<1>1. reply \in Shown
  BY <1>k, ReplyKinds
<1>2. /\ zPolls' = zPolls \cup {poll} /\ zCalm' = "no"
      /\ UNCHANGED <<zDrivers, zView, zGroupMap, zUuidTried, zUuidKnown, zHw, zJoins, zWrites, zLeft, zAsks>>
  BY DEF Zones!RePolls, Zones!Move
<1>3. poll \in PollCalls
  BY <1>1 DEF PollCalls
<1> HIDE DEF poll
<1>4. ZonesKinds'
  BY <1>2, <1>3, <1>k DEF ZonesKinds
<1> QED
  BY <1>2, <1>4, <1>k, Restless DEF ZonesInv

LEMMA ZonesStep == Zones!MediaAssumption /\ ZonesInv /\ [Zones!Next]_zVars => ZonesInv'
<1> SUFFICES ASSUME Zones!MediaAssumption, ZonesInv, [Zones!Next]_zVars PROVE ZonesInv'
  OBVIOUS
<1>1. ASSUME NEW d \in Zones!Zones, NEW reply \in Zones!Replies(d), Zones!RePolls(d, reply)
      PROVE  ZonesInv'
  BY <1>1, RePollStep
<1>2. ASSUME NEW d \in Zones!Zones, NEW v \in zLevels, Zones!SetGroupVolume(d, v) \/ Zones!SetVolume(d, v)
      PROVE  ZonesInv'
  BY <1>2, GroupVolumeStep, VolumeStep
<1>3. ASSUME NEW r \in zRounds,
             \/ Zones!TickStarts(r) \/ Zones!SyncSonosGroups(r)
             \/ \E d \in Zones!Zones : \/ Zones!AsksUuid(r, d)
                                       \/ \E reply \in Zones!Replies(d) : Zones!RoundPolls(r, d, reply)
             \/ \E ok \in BOOLEAN : Zones!UuidAnswered(r, ok)
      PROVE  ZonesInv'
  BY <1>3, TickStep, SyncStep, AsksUuidStep, RoundStep, UuidStep
<1>4. CASE UNCHANGED zVars
  BY <1>4 DEF zVars, ZonesInv, ZonesKinds, AsksQuietly, Fresh, Zones!Uri, Zones!GroupsCatchUp
<1> QED
  BY <1>1, <1>2, <1>3, <1>4, RebuildStep, PollStep, GroupStep, UngroupStep,
     JoinStep, WriteStep, ElsewhereStep DEF Zones!Next

(* What each zone is shown to be in is what the group map says, a group's      *)
(* volumes keep their order and its loudest becomes the target, and after a    *)
(* quiet round the zones that told their URI are shown in the groups the       *)
(* speakers are in: polls, overlapping rounds, queries that fail, groupings,   *)
(* writes and saves of media/manager.ts in any order, for any number of        *)
(* speakers and of rounds.                                                     *)
THEOREM ZonesSoundAlways == Spec => []ZonesSound
<1> DEFINE Inv == part = "zones" => ZonesInv
<1>a. Zones!MediaAssumption
  BY HouseAssumption
<1>1. Init => Inv
  BY <1>a, InitOf, ZonesStart
<1>2. Inv /\ [Next]_allVars => Inv'
  BY <1>a, StepOf, ZonesStep
<1>3. Inv => ZonesSound
  BY <1>a, ZonesAreSound DEF ZonesSound
<1> QED
  BY <1>1, <1>2, <1>3, PTL DEF Spec
==============================================================================
