------------------------- MODULE HouseProgramsProofs -------------------------
(* The programs the backend keeps running, the link to Asterisk and the agent  *)
(* on the host; then what people do in the house: the doors they answer, the   *)
(* accounts they have, the household's link to Spotify and its telephone book; *)
(* last the types of every part of the house.  For every setup: see            *)
(* HouseProofs.                                                                *)
EXTENDS HouseProofs, SequenceTheorems

------------------------------------------------------------------------------
(* The child processes: asteriskProcess.ts, go2rtcSpawn.ts.                    *)

Stands == {"up", "killed", "gone"}

ProcsKinds ==
    /\ cKid \in [Procs!Programs -> Procs!Pids \cup {None}]
    /\ cProcs \in [Procs!Programs -> Seq(Stands)]
    /\ \A p \in Procs!Programs : Len(cProcs[p]) <= cMaxStarts
    /\ \A p \in Procs!Programs : cKid[p] # None => cKid[p] \in DOMAIN cProcs[p]
    /\ cEnabled \in [Procs!Programs -> BOOLEAN] /\ cFailed \in [Procs!Programs -> BOOLEAN]
    /\ cTimers \in [Procs!Programs -> Nat] /\ cHeld \in BOOLEAN

(* The handle in restartTimer is that of a timer which will fire, so that      *)
(* clearing it takes one away.                                                 *)
ProcsHeld == cHeld => cTimers["asterisk"] > 0

ProcsInv == ProcsKinds /\ ProcsHeld /\ Procs!ProcsSound

(* What a start does to the table of its program: the new process is the one   *)
(* in `child`, and is up.                                                      *)
LEMMA LaunchedEffect ==
    ASSUME Procs!ProcsAssumption, ProcsKinds, NEW p \in Procs!Programs, NEW was \in Seq(Stands),
           Procs!Launched(p, was)
    PROVE  /\ cKid' \in [Procs!Programs -> Procs!Pids \cup {None}]
           /\ cProcs' \in [Procs!Programs -> Seq(Stands)]
           /\ cFailed' \in [Procs!Programs -> BOOLEAN]
           /\ cKid'[p] = Len(was) + 1 /\ cKid'[p] # None /\ cKid'[p] \in DOMAIN cProcs'[p]
           /\ Len(cProcs'[p]) <= cMaxStarts
           /\ cProcs'[p][cKid'[p]] = "up"
           /\ \A i \in DOMAIN cProcs'[p] : i # cKid'[p] =>
                i \in DOMAIN was /\ cProcs'[p][i] = was[i]
           /\ \A q \in Procs!Programs \ {p} : UNCHANGED <<cKid[q], cProcs[q], cFailed[q]>>
<1>1. Append(was, "up") \in Seq(Stands) /\ Len(Append(was, "up")) = Len(was) + 1
  BY DEF Stands
<1>2. /\ \A i \in 1..Len(was) : Append(was, "up")[i] = was[i]
      /\ Append(was, "up")[Len(was) + 1] = "up"
  OBVIOUS
<1>3. Len(was) \in Nat /\ Len(was) + 1 \in Procs!Pids
  BY DEF Procs!Launched, Procs!ProcsAssumption, Procs!Pids
<1>4. cProcs'[p] = Append(was, "up") /\ cKid'[p] = Len(was) + 1
  BY DEF Procs!Launched, ProcsKinds
<1>5. /\ cKid' \in [Procs!Programs -> Procs!Pids \cup {None}] /\ cProcs' \in [Procs!Programs -> Seq(Stands)]
      /\ cFailed' \in [Procs!Programs -> BOOLEAN]
      /\ \A q \in Procs!Programs \ {p} : UNCHANGED <<cKid[q], cProcs[q], cFailed[q]>>
  BY <1>1, <1>3 DEF Procs!Launched, ProcsKinds
<1>6. DOMAIN was = 1..Len(was) /\ DOMAIN cProcs'[p] = 1..(Len(was) + 1)
  BY <1>1, <1>4
<1> QED
  BY <1>1, <1>2, <1>3, <1>4, <1>5, <1>6 DEF Procs!ProcsAssumption, Procs!Pids, Procs!Launched

(* None is no process of a table.                                              *)
LEMMA NoneIsNoProcess ==
    ASSUME Procs!ProcsAssumption, ProcsKinds, NEW p \in Procs!Programs
    PROVE  None \notin DOMAIN cProcs[p]
<1>1. DOMAIN cProcs[p] = 1..Len(cProcs[p]) /\ Len(cProcs[p]) \in Nat /\ Len(cProcs[p]) <= cMaxStarts
  BY DEF ProcsKinds
<1> QED
  BY <1>1 DEF Procs!ProcsAssumption

(* What a kill does: nothing is up that `child` names.                         *)
LEMMA KilledEffect ==
    ASSUME Procs!ProcsAssumption, ProcsKinds, NEW p \in Procs!Programs
    PROVE  /\ Procs!Killed(p) \in Seq(Stands) /\ Len(Procs!Killed(p)) = Len(cProcs[p])
           /\ DOMAIN Procs!Killed(p) = DOMAIN cProcs[p]
           /\ \A i \in DOMAIN cProcs[p] :
                Procs!Killed(p)[i] = "up" => cProcs[p][i] = "up" /\ i # cKid[p]
<1>1. CASE cKid[p] = None \/ cProcs[p][cKid[p]] # "up"
  <2>1. Procs!Killed(p) = cProcs[p] /\ cProcs[p] \in Seq(Stands)
    BY <1>1 DEF Procs!Killed, ProcsKinds
  <2>2. \A i \in DOMAIN cProcs[p] : cProcs[p][i] = "up" => i # cKid[p]
    BY <1>1, NoneIsNoProcess DEF ProcsKinds
  <2> QED
    BY <2>1, <2>2
<1>2. CASE cKid[p] # None /\ cProcs[p][cKid[p]] = "up"
  <2>1. Procs!Killed(p) = [cProcs[p] EXCEPT ![cKid[p]] = "killed"]
    BY <1>2 DEF Procs!Killed
  <2>2. cKid[p] \in DOMAIN cProcs[p] /\ cProcs[p] \in Seq(Stands)
    BY <1>2 DEF ProcsKinds
  <2> QED
    BY <2>1, <2>2 DEF Stands
<1> QED
  BY <1>1, <1>2

LEMMA ProcsStart == Procs!ProcsAssumption /\ Procs!Init => ProcsInv
<1> SUFFICES ASSUME Procs!ProcsAssumption, Procs!Init PROVE ProcsInv
  OBVIOUS
<1>e. <<>> \in Seq(Stands) /\ Len(<<>>) = 0
  OBVIOUS
<1>2. \A p \in Procs!Programs : cProcs[p] = <<>> /\ cKid[p] = None /\ ~cEnabled[p]
  BY DEF Procs!Init
<1>1. ProcsKinds
  <2>1. cProcs \in [Procs!Programs -> Seq(Stands)]
    BY <1>e DEF Procs!Init
  <2>2. /\ cKid \in [Procs!Programs -> Procs!Pids \cup {None}] /\ cTimers \in [Procs!Programs -> Nat]
        /\ cEnabled \in [Procs!Programs -> BOOLEAN] /\ cFailed \in [Procs!Programs -> BOOLEAN]
        /\ cHeld \in BOOLEAN
    BY DEF Procs!Init
  <2>3. \A p \in Procs!Programs : Len(cProcs[p]) <= cMaxStarts
    BY <1>e, <1>2 DEF Procs!ProcsAssumption
  <2> QED
    BY <2>1, <2>2, <2>3, <1>2 DEF ProcsKinds
<1>3. ProcsHeld /\ Procs!ComesBack
  BY <1>2 DEF Procs!Init, ProcsHeld, Procs!ComesBack
<1>4. Procs!OneAsterisk /\ Procs!StreamsAsSaved
  BY <1>2 DEF Procs!OneAsterisk, Procs!StreamsAsSaved, Procs!Up, Procs!Programs
<1> QED
  BY <1>1, <1>3, <1>4 DEF ProcsInv, Procs!ProcsSound

(* A start of one program leaves the kinds as they are, and makes it the one   *)
(* that is up: nothing else is asked of it.                                    *)
LEMMA AfterLaunch ==
    ASSUME Procs!ProcsAssumption, ProcsKinds, NEW p \in Procs!Programs, NEW was \in Seq(Stands),
           Procs!Launched(p, was),
           cTimers' \in [Procs!Programs -> Nat], cEnabled' \in [Procs!Programs -> BOOLEAN], cHeld' \in BOOLEAN
    PROVE  ProcsKinds'
<1>1. \A q \in Procs!Programs : Len(cProcs'[q]) <= cMaxStarts
  BY LaunchedEffect DEF ProcsKinds
<1>2. \A q \in Procs!Programs : cKid'[q] # None => cKid'[q] \in DOMAIN cProcs'[q]
  BY LaunchedEffect DEF ProcsKinds
<1> QED
  BY <1>1, <1>2, LaunchedEffect DEF ProcsKinds

LEMMA ProcsStep == Procs!ProcsAssumption /\ ProcsInv /\ [Procs!Next]_cVars => ProcsInv'
<1> SUFFICES ASSUME Procs!ProcsAssumption, ProcsInv, [Procs!Next]_cVars PROVE ProcsInv'
  OBVIOUS
<1> DEFINE a == "asterisk"
           g == "go2rtc"
<1>a. /\ a \in Procs!Programs /\ g \in Procs!Programs /\ a # g
      /\ \A p \in Procs!Programs : p = a \/ p = g
  BY DEF Procs!Programs
<1>k. ProcsKinds /\ ProcsHeld /\ Procs!OneAsterisk /\ Procs!ComesBack /\ Procs!StreamsAsSaved
  BY DEF ProcsInv, Procs!ProcsSound
<1>b. \A p \in Procs!Programs : /\ cProcs[p] \in Seq(Stands) /\ cTimers[p] \in Nat
                                /\ cKid[p] # None => cKid[p] \in DOMAIN cProcs[p]
  BY <1>k DEF ProcsKinds
<1>c. cTimers[a] - (IF cHeld THEN 1 ELSE 0) \in Nat
  BY <1>k, <1>b, <1>a DEF ProcsHeld, ProcsKinds
<1>q. ASSUME ProcsKinds', ProcsHeld', Procs!OneAsterisk', Procs!ComesBack', Procs!StreamsAsSaved' PROVE ProcsInv'
  BY <1>q DEF ProcsInv, Procs!ProcsSound
<1>1. CASE Procs!EnsureAsterisk
  <2>1. CASE cKid["asterisk"] # None /\ UNCHANGED <<cKid, cProcs, cTimers, cFailed, cHeld>>
    <3>1. /\ cEnabled' \in [Procs!Programs -> BOOLEAN] /\ cEnabled'[g] = cEnabled[g]
          /\ UNCHANGED <<cKid, cProcs, cTimers, cFailed, cHeld, cYaml, cWritten>>
      BY <1>1, <2>1, <1>k, <1>a DEF Procs!EnsureAsterisk, ProcsKinds
    <3>2. ProcsKinds'
      BY <3>1, <1>k DEF ProcsKinds
    <3>3. Procs!ComesBack'
      BY <2>1, <3>1, <1>k, <1>a DEF Procs!ComesBack
    <3> QED
      BY <3>1, <3>2, <3>3, <1>k, <1>q DEF ProcsHeld, Procs!OneAsterisk, Procs!StreamsAsSaved, Procs!Up
  <2>2. CASE cKid["asterisk"] = None /\ Procs!Launched("asterisk", cProcs["asterisk"])
             /\ cTimers' = [cTimers EXCEPT !["asterisk"] = IF cHeld THEN @ - 1 ELSE @]
             /\ cHeld' = FALSE
    <3>1. /\ cTimers' \in [Procs!Programs -> Nat] /\ cEnabled' \in [Procs!Programs -> BOOLEAN]
          /\ cTimers'[g] = cTimers[g] /\ cEnabled'[g] = cEnabled[g]
          /\ cHeld' = FALSE /\ UNCHANGED <<cYaml, cWritten>>
      BY <1>1, <2>2, <1>k, <1>a, <1>c DEF Procs!EnsureAsterisk, ProcsKinds
    <3>2. ProcsKinds'
      BY <2>2, <3>1, <1>k, <1>a, <1>b, AfterLaunch
    <3>3. /\ cKid'[a] # None /\ UNCHANGED <<cKid[g], cProcs[g], cFailed[g]>>
          /\ \A i \in DOMAIN cProcs'[a] : i # cKid'[a] =>
                i \in DOMAIN cProcs[a] /\ cProcs'[a][i] = cProcs[a][i]
      BY <2>2, <1>k, <1>a, <1>b, LaunchedEffect
    <3>4. Procs!OneAsterisk'
      BY <2>2, <3>3, <1>k, <1>a, NoneIsNoProcess DEF Procs!OneAsterisk, Procs!Up
    <3> QED
      BY <3>1, <3>2, <3>3, <3>4, <1>k, <1>a, <1>q DEF ProcsHeld, Procs!ComesBack, Procs!StreamsAsSaved
  <2> QED
    BY <1>1, <2>1, <2>2 DEF Procs!EnsureAsterisk
<1>2. CASE Procs!StopAsterisk
  <2>1. /\ cTimers' \in [Procs!Programs -> Nat] /\ cEnabled' \in [Procs!Programs -> BOOLEAN]
        /\ ~cEnabled'[a] /\ cEnabled'[g] = cEnabled[g] /\ cTimers'[g] = cTimers[g]
        /\ cHeld' = FALSE /\ UNCHANGED <<cFailed, cYaml, cWritten>>
    BY <1>2, <1>k, <1>a, <1>c DEF Procs!StopAsterisk, ProcsKinds
  <2>2. /\ cProcs'[a] = Procs!Killed(a) /\ cProcs'[g] = cProcs[g]
        /\ cKid'[a] = None /\ cKid'[g] = cKid[g]
        /\ cProcs' \in [Procs!Programs -> Seq(Stands)] /\ cKid' \in [Procs!Programs -> Procs!Pids \cup {None}]
    BY <1>2, <1>k, <1>a, KilledEffect DEF Procs!StopAsterisk, ProcsKinds
  <2>3. ProcsKinds'
    <3>1. \A p \in Procs!Programs : Len(cProcs'[p]) = Len(cProcs[p]) /\ DOMAIN cProcs'[p] = DOMAIN cProcs[p]
      BY <2>2, <1>k, <1>a, KilledEffect
    <3>2. \A p \in Procs!Programs : cKid'[p] # None => cKid'[p] = cKid[p]
      BY <2>2, <1>a
    <3> QED
      BY <2>1, <2>2, <3>1, <3>2, <1>k DEF ProcsKinds
  <2>4. Procs!OneAsterisk'
    BY <2>2, <1>k, <1>a, KilledEffect DEF Procs!OneAsterisk, Procs!Up
  <2> QED
    BY <2>1, <2>2, <2>3, <2>4, <1>k, <1>a, <1>q DEF ProcsHeld, Procs!ComesBack, Procs!StreamsAsSaved
<1>3. CASE Procs!AsteriskTimer
  <2>0. /\ cTimers' \in [Procs!Programs -> Nat] /\ cTimers'[g] = cTimers[g]
        /\ cHeld' = FALSE /\ UNCHANGED <<cEnabled, cYaml, cWritten>>
    BY <1>3, <1>k, <1>a, <1>b DEF Procs!AsteriskTimer, ProcsKinds
  <2>1. CASE cEnabled["asterisk"] /\ cKid["asterisk"] = None
             /\ Procs!Launched("asterisk", cProcs["asterisk"])
    <3>2. ProcsKinds'
      BY <2>0, <2>1, <1>k, <1>a, <1>b, AfterLaunch DEF ProcsKinds
    <3>3. /\ cKid'[a] # None /\ UNCHANGED <<cKid[g], cProcs[g], cFailed[g]>>
          /\ \A i \in DOMAIN cProcs'[a] : i # cKid'[a] =>
                i \in DOMAIN cProcs[a] /\ cProcs'[a][i] = cProcs[a][i]
      BY <2>1, <1>k, <1>a, <1>b, LaunchedEffect
    <3>4. Procs!OneAsterisk'
      BY <2>1, <3>3, <1>k, <1>a, NoneIsNoProcess DEF Procs!OneAsterisk, Procs!Up
    <3> QED
      BY <2>0, <3>2, <3>3, <3>4, <1>k, <1>a, <1>q DEF ProcsHeld, Procs!ComesBack, Procs!StreamsAsSaved
  <2>2. CASE ~(cEnabled["asterisk"] /\ cKid["asterisk"] = None) /\ UNCHANGED <<cKid, cProcs, cFailed>>
    <3>1. ProcsKinds'
      BY <2>0, <2>2, <1>k DEF ProcsKinds
    <3>2. Procs!ComesBack'
      BY <2>0, <2>2, <1>k, <1>a DEF Procs!ComesBack
    <3> QED
      BY <2>0, <2>2, <3>1, <3>2, <1>k, <1>q DEF ProcsHeld, Procs!OneAsterisk, Procs!StreamsAsSaved, Procs!Up
  <2> QED
    BY <1>3, <2>1, <2>2 DEF Procs!AsteriskTimer
<1>4. CASE Procs!StopGo2rtc
  <2>1. /\ cEnabled' \in [Procs!Programs -> BOOLEAN] /\ ~cEnabled'[g] /\ cEnabled'[a] = cEnabled[a]
        /\ UNCHANGED <<cTimers, cFailed, cHeld, cYaml, cWritten>>
    BY <1>4, <1>k, <1>a DEF Procs!StopGo2rtc, ProcsKinds
  <2>2. /\ cProcs'[g] = Procs!Killed(g) /\ cProcs'[a] = cProcs[a]
        /\ cKid'[g] = None /\ cKid'[a] = cKid[a]
        /\ cProcs' \in [Procs!Programs -> Seq(Stands)] /\ cKid' \in [Procs!Programs -> Procs!Pids \cup {None}]
    BY <1>4, <1>k, <1>a, KilledEffect DEF Procs!StopGo2rtc, ProcsKinds
  <2>3. ProcsKinds'
    <3>1. \A p \in Procs!Programs : Len(cProcs'[p]) = Len(cProcs[p]) /\ DOMAIN cProcs'[p] = DOMAIN cProcs[p]
      BY <2>2, <1>k, <1>a, KilledEffect
    <3>2. \A p \in Procs!Programs : cKid'[p] # None => cKid'[p] = cKid[p]
      BY <2>2, <1>a
    <3> QED
      BY <2>1, <2>2, <3>1, <3>2, <1>k DEF ProcsKinds
  <2> QED
    BY <2>1, <2>2, <2>3, <1>k, <1>a, <1>q
       DEF ProcsHeld, Procs!OneAsterisk, Procs!ComesBack, Procs!StreamsAsSaved, Procs!Up
<1>5. CASE Procs!Go2rtcTimer
  <2>0. /\ cTimers' \in [Procs!Programs -> Nat] /\ cTimers'[a] = cTimers[a]
        /\ UNCHANGED <<cEnabled, cHeld, cWritten>>
    BY <1>5, <1>k, <1>a, <1>b DEF Procs!Go2rtcTimer, ProcsKinds
  <2>1. CASE cEnabled["go2rtc"] /\ cYaml' = cWritten /\ Procs!Launched("go2rtc", cProcs["go2rtc"])
    <3>1. ProcsKinds'
      BY <2>0, <2>1, <1>k, <1>a, <1>b, AfterLaunch DEF ProcsKinds
    <3>2. cKid'[g] # None /\ UNCHANGED <<cKid[a], cProcs[a], cFailed[a]>>
      BY <2>1, <1>k, <1>a, <1>b, LaunchedEffect
    <3> QED
      BY <2>0, <2>1, <3>1, <3>2, <1>k, <1>a, <1>q
         DEF ProcsHeld, Procs!OneAsterisk, Procs!ComesBack, Procs!StreamsAsSaved, Procs!Up
  <2>2. CASE ~cEnabled["go2rtc"] /\ UNCHANGED <<cKid, cProcs, cFailed, cYaml>>
    <3>1. ProcsKinds'
      BY <2>0, <2>2, <1>k DEF ProcsKinds
    <3>2. Procs!ComesBack'
      BY <2>0, <2>2, <1>k, <1>a DEF Procs!ComesBack
    <3> QED
      BY <2>0, <2>2, <3>1, <3>2, <1>k, <1>q DEF ProcsHeld, Procs!OneAsterisk, Procs!StreamsAsSaved, Procs!Up
  <2> QED
    BY <1>5, <2>1, <2>2 DEF Procs!Go2rtcTimer
<1>6. ASSUME NEW y \in cYamls, Procs!SyncGo2rtc(y) PROVE ProcsInv'
  <2>1. CASE cKid["go2rtc"] # None /\ y = cWritten
    <3>1. UNCHANGED cVars
      BY <1>6, <2>1 DEF Procs!SyncGo2rtc, cVars
    <3> QED
      BY <3>1 DEF cVars, ProcsKinds, ProcsInv, Procs!ProcsSound, ProcsHeld, Procs!OneAsterisk, Procs!ComesBack,
                  Procs!StreamsAsSaved, Procs!Up
  <2>2. CASE ~(cKid["go2rtc"] # None /\ y = cWritten)
    <3>1. Procs!Killed("go2rtc") \in Seq(Stands)
      BY <1>a, <1>k, KilledEffect
    <3>2. /\ Procs!Launched("go2rtc", Procs!Killed("go2rtc"))
          /\ cEnabled' \in [Procs!Programs -> BOOLEAN] /\ cEnabled'[a] = cEnabled[a]
          /\ cYaml' = cWritten' /\ UNCHANGED <<cTimers, cHeld>>
      BY <1>6, <2>2, <1>k, <1>a DEF Procs!SyncGo2rtc, ProcsKinds
    <3>3. ProcsKinds'
      BY <3>1, <3>2, <1>k, <1>a, AfterLaunch DEF ProcsKinds
    <3>4. cKid'[g] # None /\ UNCHANGED <<cKid[a], cProcs[a], cFailed[a]>>
      BY <3>1, <3>2, <1>k, <1>a, LaunchedEffect
    <3> QED
      BY <3>2, <3>3, <3>4, <1>k, <1>a, <1>q
         DEF ProcsHeld, Procs!OneAsterisk, Procs!ComesBack, Procs!StreamsAsSaved, Procs!Up
  <2> QED
    BY <2>1, <2>2
<1>7. ASSUME NEW p \in Procs!Programs, Procs!SpawnFails(p) PROVE ProcsInv'
  <2>1. /\ cProcs' = [cProcs EXCEPT ![p] = [cProcs[p] EXCEPT ![cKid[p]] = "gone"]]
        /\ cKid' = [cKid EXCEPT ![p] = None] /\ cFailed' = [cFailed EXCEPT ![p] = TRUE]
        /\ UNCHANGED <<cEnabled, cTimers, cHeld, cYaml, cWritten>>
    BY <1>7 DEF Procs!SpawnFails
  <2>2. [cProcs[p] EXCEPT ![cKid[p]] = "gone"] \in Seq(Stands)
        /\ Len([cProcs[p] EXCEPT ![cKid[p]] = "gone"]) = Len(cProcs[p])
    BY <1>7, <1>b DEF Procs!SpawnFails, Stands
  <2>3. ProcsKinds'
    BY <2>1, <2>2, <1>k DEF ProcsKinds
  <2>4. Procs!OneAsterisk' /\ Procs!StreamsAsSaved'
    BY <1>7, <2>1, <2>2, <1>b, <1>k, <1>a DEF Procs!OneAsterisk, Procs!StreamsAsSaved, Procs!Up, ProcsKinds
  <2> QED
    BY <2>1, <2>3, <2>4, <1>k, <1>q DEF ProcsHeld, Procs!ComesBack, ProcsKinds
<1>8. ASSUME NEW p \in Procs!Programs, NEW i \in DOMAIN cProcs[p], Procs!Exits(p, i) PROVE ProcsInv'
  <2>1. /\ cProcs' = [cProcs EXCEPT ![p] = [cProcs[p] EXCEPT ![i] = "gone"]]
        /\ cKid' = [cKid EXCEPT ![p] = IF cKid[p] = i THEN None ELSE cKid[p]]
        /\ UNCHANGED <<cEnabled, cFailed, cYaml, cWritten>>
    BY <1>8 DEF Procs!Exits
  <2>2. [cProcs[p] EXCEPT ![i] = "gone"] \in Seq(Stands)
        /\ Len([cProcs[p] EXCEPT ![i] = "gone"]) = Len(cProcs[p])
    BY <1>b DEF Stands
  <2>3. /\ cTimers' \in [Procs!Programs -> Nat]
        /\ \A q \in Procs!Programs : cTimers'[q] >= cTimers[q]
        /\ Procs!Restarts(p) => cTimers'[p] > 0
        /\ cHeld' = IF p = a /\ Procs!Restarts(p) THEN TRUE ELSE cHeld
    BY <1>8, <1>k, <1>b DEF Procs!Exits, ProcsKinds
  <2>4. ProcsKinds'
    BY <2>1, <2>2, <2>3, <1>k DEF ProcsKinds
  <2>5. ProcsHeld'
    <3>1. CASE p = a /\ Procs!Restarts(p)
      BY <2>3, <3>1 DEF ProcsHeld
    <3>2. CASE ~(p = a /\ Procs!Restarts(p))
      <4>1. cHeld' = cHeld /\ cTimers'[a] \in Nat /\ cTimers[a] \in Nat /\ cTimers'[a] >= cTimers[a]
        BY <2>3, <3>2, <1>b, <1>a
      <4> QED
        BY <4>1, <1>k DEF ProcsHeld
    <3> QED
      BY <3>1, <3>2
  <2>6. Procs!OneAsterisk' /\ Procs!StreamsAsSaved'
    BY <2>1, <2>2, <1>b, <1>k, <1>a DEF Procs!OneAsterisk, Procs!StreamsAsSaved, Procs!Up, ProcsKinds
  <2>7. Procs!ComesBack'
    BY <2>1, <2>3, <2>4, <1>k, <1>a, <1>b DEF Procs!ComesBack, Procs!Restarts, ProcsKinds
  <2> QED
    BY <2>4, <2>5, <2>6, <2>7, <1>q
<1>9. CASE UNCHANGED cVars
  BY <1>9 DEF cVars, ProcsKinds, ProcsInv, Procs!ProcsSound, ProcsHeld, Procs!OneAsterisk, Procs!ComesBack, Procs!StreamsAsSaved,
              Procs!Up
<1> QED
  BY <1>1, <1>2, <1>3, <1>4, <1>5, <1>6, <1>7, <1>8, <1>9 DEF Procs!Next

LEMMA ProcsAreSound == ProcsInv => Procs!ProcsSound
  BY DEF ProcsInv

------------------------------------------------------------------------------
(* The agent on the host: docker/update-agent.sh.                              *)

Statuses ==
    [state : {"idle", "running", "success", "error"}, beat : BOOLEAN,
     start : {"recent", "old", None}]

(* Where the agent is when no update runs and no status is being written.      *)
Waiting == {"poll", "enroll", "enrolling", "endError", "endSuccess"}
Others == {"down", "boot", "take", "start"}

(* Where it goes when a status is written.                                     *)
AfterWrite == {"begin", "build", "poll", "endError", "endSuccess"}

HostKinds ==
    /\ uPc \in Host!Updating \cup Waiting \cup Others \cup {"write"}
    /\ uStatus \in Statuses \cup {Torn}
    /\ uPc = "write" => /\ uStatus = Torn
                        /\ uNext \in [status : Statuses, then : AfterWrite]
    /\ uCode \in uCodes \cup {None} /\ uHand \in uCodes \cup {None}
    /\ uPc \in {"enroll", "enrolling"} => uHand \in uCodes
    /\ uTried \in [uCodes -> Nat] /\ uSaves \in Nat

(* OneAtATime, and already in the moment in which a second request is taken.   *)
HostTaken ==
    /\ uAsked /\ uPc \in Host!Updating \cup {"start"} => uHasty
    /\ uAsked /\ uPc = "write" /\ uNext.then \in Host!Updating => uHasty

(* The status says that an update runs when one does; a torn one says nothing, *)
(* and then no agent is seen that a request could be left for.                 *)
HostRunning ==
    /\ uPc \in Host!Updating => uStatus = Torn \/ uStatus.state = "running"
    /\ uPc \in Waiting => uStatus = Torn \/ uStatus.state # "running"
    /\ uPc = "write" => IF uNext.then \in Host!Updating THEN uNext.status.state = "running"
                       ELSE uNext.status.state # "running"

(* What the house has saved is in each of its copies that will be read again,  *)
(* but for the saves made while the program is fetched.                        *)
HostSaves ==
    /\ 1..uSaves \subseteq uMem \cup uDuring
    /\ 1..uSaves \subseteq uDisk \cup uDuring
    /\ uPc = "fetch" => 1..uSaves \subseteq uBak \cup uDuring

(* A code that is in a request, or in the agent's hand before the request is   *)
(* removed, was not used.                                                      *)
HostCodes ==
    /\ uCode # None => uTried[uCode] = 0
    /\ uPc = "enroll" => uTried[uHand] = 0
    /\ \A c \in uCodes : uTried[c] <= 1

HostInv == HostKinds /\ HostTaken /\ HostRunning /\ HostSaves /\ HostCodes

(* While an update runs, or is about to, the backend refuses another: the      *)
(* status is running, or it is torn and reads as one without an agent.         *)
LEMMA BusyRefuses ==
    ASSUME HostKinds, HostRunning,
           uPc \in Host!Updating \/ (uPc = "write" /\ uNext.then \in Host!Updating)
    PROVE  ~Host!MayAsk
  BY DEF HostKinds, HostRunning, Host!MayAsk, Host!AgentReady, Host!ShownState, Host!Busy, Host!Read, Host!Empty, Statuses,
         AfterWrite

(* What is read of a status is a status.                                       *)
LEMMA ReadKind ==
    ASSUME HostKinds
    PROVE  /\ Host!Read \in Statuses
           /\ uStatus = Torn \/ uStatus.state # "running" => Host!Read.state # "running"
  BY DEF HostKinds, Host!Read, Host!Empty, Statuses

LEMMA HostStart == Host!Init => HostInv
  BY DEF Host!Init, HostInv, HostKinds, HostTaken, HostRunning, HostSaves, HostCodes, Host!Empty, Statuses,
         Host!Updating, Waiting, Others

LEMMA HostStep == HostInv /\ [Host!Next]_uVars => HostInv'
<1> SUFFICES ASSUME HostInv, [Host!Next]_uVars PROVE HostInv'
  OBVIOUS
<1> USE DEF HostInv, HostKinds, HostTaken, HostRunning, HostSaves, HostCodes, Host!Updating,
            Waiting, Others, AfterWrite, Host!files, Host!house, Host!cloud
<1>a. /\ Host!Read \in Statuses
      /\ uStatus = Torn \/ uStatus.state # "running" => Host!Read.state # "running"
  BY ReadKind
<1>1. CASE Host!AskUpdate
  BY <1>1, BusyRefuses DEF Host!AskUpdate
<1>2. CASE Host!SaveHouse
  <2>1. 1..uSaves' = (1..uSaves) \cup {uSaves'}
    BY <1>2 DEF Host!SaveHouse
  <2> QED
    BY <1>2, <2>1 DEF Host!SaveHouse
<1>3. CASE Host!BackendRestarts
  BY <1>3 DEF Host!BackendRestarts
<1>4. CASE Host!LookAtEnrol
  BY <1>4 DEF Host!LookAtEnrol, Host!CodeSeen
<1>5. CASE Host!CodeQueued
  BY <1>5 DEF Host!CodeQueued
<1>6. ASSUME NEW c \in uCodes, Host!GiveCode(c) PROVE HostInv'
  BY <1>6 DEF Host!GiveCode
<1>7. CASE Host!WriteEnds
  <2>1. /\ uNext.status \in Statuses /\ uNext.then \in AfterWrite
        /\ IF uNext.then \in Host!Updating THEN uNext.status.state = "running"
           ELSE uNext.status.state # "running"
        /\ uAsked /\ uNext.then \in Host!Updating => uHasty
    BY <1>7 DEF Host!WriteEnds
  <2>2. /\ uPc' = uNext.then /\ uStatus' = uNext.status
        /\ UNCHANGED <<uAsked, uLock, uBoots, uHasty, Host!house, Host!cloud>>
    BY <1>7 DEF Host!WriteEnds
  <2>3. HostKinds' /\ HostTaken'
    BY <2>1, <2>2
  <2>4. HostRunning'
    BY <2>1, <2>2
  <2>5. HostSaves' /\ HostCodes'
    BY <2>1, <2>2
  <2> QED
    BY <2>3, <2>4, <2>5
<1>8. CASE Host!AgentStarts
  BY <1>8 DEF Host!AgentStarts
<1>9. CASE Host!Boot
  <2>1. Host!BootStatus \in Statuses /\ Host!BootStatus.state # "running"
    BY <1>a DEF Host!BootStatus, Statuses
  <2> QED
    BY <1>9, <2>1 DEF Host!Boot, Host!Writes
<1>10. CASE Host!Heartbeat
  <2> DEFINE seen == [Host!Read EXCEPT !.beat = TRUE]
  <2>1. seen \in Statuses /\ seen.state # "running"
    BY <1>10, <1>a DEF Host!Heartbeat, Statuses
  <2> HIDE DEF seen
  <2>2. /\ uPc' = "write" /\ uStatus' = Torn /\ uNext' = [status |-> seen, then |-> "poll"]
        /\ UNCHANGED <<uAsked, uLock, uBoots, uHasty, Host!house, Host!cloud>>
    BY <1>10 DEF Host!Heartbeat, Host!Writes, seen
  <2> QED
    BY <2>1, <2>2
<1>11. CASE Host!TakeUpdate
  BY <1>11 DEF Host!TakeUpdate
<1>12. CASE Host!RemoveRequest
  BY <1>12 DEF Host!RemoveRequest
<1>13. CASE Host!StartUpdate
  BY <1>13 DEF Host!StartUpdate, Host!Writes, Statuses
<1>b. \A st \in {"running", "success", "error"} :
        Host!Ended(st) \in Statuses /\ Host!Ended(st).state = st
  BY <1>a DEF Host!Ended, Statuses
<1>14. CASE Host!BeginUpdate
  BY <1>14, <1>b DEF Host!BeginUpdate, Host!Writes, Host!Copy
<1>15. CASE Host!FetchEnds
  BY <1>15, <1>b DEF Host!FetchEnds, Host!Writes
<1>16. CASE Host!BuildEnds
  BY <1>16, <1>b DEF Host!BuildEnds, Host!Writes
<1>17. CASE Host!UpdateEnds
  BY <1>17 DEF Host!UpdateEnds
<1>18. CASE Host!ReadCode
  BY <1>18 DEF Host!ReadCode
<1>19. CASE Host!UseCode
  BY <1>19 DEF Host!UseCode, Host!RequestUsed
<1>20. CASE Host!EnrolEnds
  BY <1>20 DEF Host!EnrolEnds
<1>21. CASE Host!AgentDies
  BY <1>21 DEF Host!AgentDies
<1>22. CASE Host!BeatAges
  BY <1>22 DEF Host!BeatAges, Statuses
<1>23. CASE Host!StartAges
  BY <1>23 DEF Host!StartAges, Statuses
<1>24. CASE Host!EnrolAges
  BY <1>24 DEF Host!EnrolAges
<1>25. CASE UNCHANGED uVars
  BY <1>25 DEF uVars
<1> QED
  BY <1>1, <1>2, <1>3, <1>4, <1>5, <1>6, <1>7, <1>8, <1>9, <1>10, <1>11, <1>12, <1>13, <1>14,
     <1>15, <1>16, <1>17, <1>18, <1>19, <1>20, <1>21, <1>22, <1>23, <1>24, <1>25 DEF Host!Next

LEMMA HostIsSound == HostInv => Host!HostSound
  BY DEF HostInv, HostKinds, HostTaken, HostRunning, HostSaves, HostCodes, Host!HostSound, Host!OneAtATime,
         Host!ComesFree, Host!SavesSurvive, Host!CodesOnce, Waiting, Host!Updating

------------------------------------------------------------------------------
(* The link to Asterisk: voip/ami.ts, voip/manager.ts.                         *)
Reports == [list : BOOLEAN, is : BOOLEAN]
AmiClients == [sock : {"connecting", "up", "closed"}, by : {"watch", "reload"},
               list : {"none", "asked", "sent", "had"}, reports : Seq(Reports)]

AmiKinds ==
    /\ mEnabled \in BOOLEAN /\ mPbx \in BOOLEAN /\ mOverlapped \in BOOLEAN /\ mOutrun \in BOOLEAN
    /\ mContact \in BOOLEAN /\ mRegistered \in BOOLEAN /\ mChanges \in 0..mMaxChanges
    /\ mClients \in Seq(AmiClients) /\ Len(mClients) <= mMaxClients
    /\ mAmi \in DOMAIN mClients \cup {None} /\ mVia \in DOMAIN mClients \cup {None}
    /\ mReload \in {"idle", "login", "command"} /\ ((mVia # None) <=> (mReload = "command"))

(* Who logs in waits for nothing yet, and reloads with one login at a time.     *)
AmiLogins ==
    /\ \A i \in DOMAIN mClients : mClients[i].sock = "connecting" =>
        /\ mClients[i].reports = <<>> /\ mAmi # i
        /\ mClients[i].by = "reload" =>
            mReload = "login" /\ \A j \in DOMAIN mClients :
                mClients[j].sock = "connecting" /\ mClients[j].by = "reload" => j = i
    /\ \A i \in DOMAIN mClients :
        Len(mClients[i].reports) <= IF mClients[i].list \in {"none", "asked"} THEN mMaxQueue
                                   ELSE mMaxQueue + 1

(* Without overlap one is open, and it is `ami` when it is logged in.           *)
AmiOne ==
    mOverlapped # TRUE =>
        /\ \A i, j \in DOMAIN mClients : Ami!Open(i) /\ Ami!Open(j) => i = j
        /\ \A i \in Ami!UpSet : i = mAmi

(* The last report on a socket is what Asterisk has.                            *)
AmiNews ==
    \A i \in Ami!UpSet :
        /\ mClients[i].reports # <<>> =>
            (mClients[i].reports[Len(mClients[i].reports)].is = TRUE <=> mContact = TRUE)
        /\ mClients[i].list = "sent" =>
            \E k \in DOMAIN mClients[i].reports : mClients[i].reports[k].list = TRUE
        /\ mOverlapped # TRUE /\ mOutrun # TRUE /\ mClients[i].list = "had" /\ mClients[i].reports = <<>> =>
            (mRegistered = TRUE <=> mContact = TRUE)

AmiInv == AmiKinds /\ AmiLogins /\ AmiOne /\ AmiNews

(* A client that is closed has nothing left to read.                            *)
Shut(c) == c.sock = "closed" /\ c.list = "none" /\ c.reports = <<>>

LEMMA AmiClosed ==
    ASSUME NEW cs \in Seq(AmiClients), NEW i \in DOMAIN cs \cup {None}, None \notin DOMAIN cs
    PROVE  /\ Ami!Closed(cs, i) \in Seq(AmiClients) /\ Len(Ami!Closed(cs, i)) = Len(cs)
           /\ DOMAIN Ami!Closed(cs, i) = DOMAIN cs
           /\ \A j \in DOMAIN cs : j # i => Ami!Closed(cs, i)[j] = cs[j]
           /\ i # None => Shut(Ami!Closed(cs, i)[i])
<1>1. CASE i = None
  BY <1>1 DEF Ami!Closed
<1>2. CASE i # None
  <2> DEFINE c == [cs[i] EXCEPT !.sock = "closed", !.list = "none", !.reports = <<>>]
  <2>1. i \in DOMAIN cs /\ cs[i] \in AmiClients
    BY <1>2
  <2>2. c \in AmiClients /\ Shut(c)
    <3>1. <<>> \in Seq(Reports)
      OBVIOUS
    <3> QED
      BY <2>1, <3>1 DEF AmiClients, Shut
  <2>3. Ami!Closed(cs, i) = [cs EXCEPT ![i] = c]
    BY <1>2, <2>1 DEF Ami!Closed, AmiClients
  <2> HIDE DEF c
  <2> QED
    BY <2>1, <2>2, <2>3
<1> QED
  BY <1>1, <1>2

(* Closing a socket, also the one in use, keeps the invariant.                  *)
LEMMA AmiCloses ==
    ASSUME Ami!AmiAssumption, AmiInv,
           mEnabled' \in BOOLEAN, mPbx' \in BOOLEAN, mContact' \in BOOLEAN,
           mClients' \in Seq(AmiClients), DOMAIN mClients' = DOMAIN mClients,
           Len(mClients') = Len(mClients),
           \A i \in DOMAIN mClients : mClients'[i] = mClients[i] \/ Shut(mClients'[i]),
           \/ mAmi' = mAmi
           \/ mAmi' = None /\ (mAmi # None => Shut(mClients'[mAmi])),
           mVia' \in DOMAIN mClients \cup {None}, mReload' \in {"idle", "login", "command"},
           (mVia' # None) <=> (mReload' = "command"),
           \/ mReload' = mReload \/ mReload # "login"
           \/ \A i \in DOMAIN mClients :
                  mClients[i].by = "reload" => mClients'[i].sock # "connecting",
           mContact' = mContact \/ Ami!UpSet' = {},
           UNCHANGED <<mRegistered, mChanges, mOverlapped, mOutrun>>
    PROVE  AmiInv'
<1>k. AmiKinds /\ AmiLogins /\ AmiOne /\ AmiNews
  BY DEF AmiInv
<1>1. AmiKinds'
  BY <1>k DEF AmiKinds
<1>2. AmiLogins'
  <2>1. ASSUME NEW i \in DOMAIN mClients, mClients'[i].sock = "connecting"
        PROVE  mClients'[i] = mClients[i]
    BY <2>1 DEF Shut
  <2>2. ASSUME NEW i \in DOMAIN mClients, mClients'[i].sock = "connecting"
        PROVE  mClients'[i].reports = <<>> /\ mAmi' # i
    <3>1. i # None
      BY <1>k DEF AmiKinds, Ami!AmiAssumption
    <3> QED
      BY <1>k, <2>1, <2>2, <3>1 DEF AmiLogins
  <2>3. ASSUME NEW i \in DOMAIN mClients, mClients'[i].sock = "connecting", mClients'[i].by = "reload"
        PROVE  /\ mReload' = "login"
               /\ \A j \in DOMAIN mClients :
                     mClients'[j].sock = "connecting" /\ mClients'[j].by = "reload" => j = i
    BY <1>k, <2>1, <2>3 DEF AmiLogins
  <2>4. ASSUME NEW i \in DOMAIN mClients
        PROVE  Len(mClients'[i].reports) <= IF mClients'[i].list \in {"none", "asked"} THEN mMaxQueue
                                           ELSE mMaxQueue + 1
    <3>1. CASE mClients'[i] = mClients[i]
      BY <1>k, <3>1 DEF AmiLogins
    <3>2. CASE Shut(mClients'[i])
      BY <3>2 DEF Shut, Ami!AmiAssumption
    <3> QED
      BY <3>1, <3>2
  <2> QED
    BY <2>2, <2>3, <2>4 DEF AmiLogins
<1>o. ASSUME NEW i \in DOMAIN mClients, mClients'[i].sock # "closed"
      PROVE  mClients'[i] = mClients[i]
  BY <1>o DEF Shut
<1>3. AmiOne'
  <2> SUFFICES ASSUME mOverlapped # TRUE PROVE AmiOne'
    BY DEF AmiOne
  <2>1. \A i, j \in DOMAIN mClients : Ami!Open(i)' /\ Ami!Open(j)' => i = j
    BY <1>k, <1>o DEF AmiOne, Ami!Open
  <2>2. \A i \in Ami!UpSet' : i = mAmi'
    <3> SUFFICES ASSUME NEW i \in DOMAIN mClients, mClients'[i].sock = "up" PROVE i = mAmi'
      BY DEF Ami!UpSet
    <3>1. i = mAmi /\ i # None
      BY <1>k, <1>o DEF AmiOne, Ami!UpSet, AmiKinds, Ami!AmiAssumption
    <3> QED
      BY <3>1 DEF Shut
  <2> QED
    BY <2>1, <2>2 DEF AmiOne
<1>4. AmiNews'
  <2> SUFFICES ASSUME NEW i \in Ami!UpSet' PROVE i \in Ami!UpSet /\ mClients'[i] = mClients[i] /\ mContact' = mContact
    BY <1>k DEF AmiNews
  <2>1. i \in DOMAIN mClients /\ mClients'[i].sock = "up"
    BY DEF Ami!UpSet
  <2> QED
    BY <2>1, <1>o DEF Ami!UpSet
<1> QED
  BY <1>1, <1>2, <1>3, <1>4 DEF AmiInv

(* A login begins.                                                              *)
LEMMA AmiLogsIn ==
    ASSUME Ami!AmiAssumption, AmiInv, NEW by \in {"watch", "reload"}, Ami!LogsIn(by), ~Ami!Connected,
           by = "reload" => mReload = "idle" /\ mReload' = "login",
           by = "watch" => mReload' = mReload,
           UNCHANGED <<mEnabled, mPbx, mAmi, mVia, mContact, mRegistered, mChanges, mOutrun>>
    PROVE  AmiInv'
<1>k. AmiKinds /\ AmiLogins /\ AmiOne /\ AmiNews
  BY DEF AmiInv
<1> DEFINE new == [sock |-> "connecting", by |-> by, list |-> "none", reports |-> <<>>]
           n == Len(mClients) + 1
<1>0. new \in AmiClients
  <2>1. <<>> \in Seq(Reports)
    OBVIOUS
  <2> QED
    BY <2>1 DEF AmiClients
<1>1. /\ mClients' \in Seq(AmiClients) /\ Len(mClients') = n /\ n \in Nat /\ n <= mMaxClients
      /\ DOMAIN mClients = 1..(n - 1) /\ DOMAIN mClients' = 1..n /\ n # None
      /\ mClients'[n] = new /\ \A i \in DOMAIN mClients : mClients'[i] = mClients[i]
  BY <1>k, <1>0 DEF AmiKinds, Ami!LogsIn, Ami!AmiAssumption
<1>n. /\ new.sock = "connecting" /\ new.by = by /\ new.list = "none" /\ new.reports = <<>>
      /\ Len(new.reports) = 0
  OBVIOUS
<1> HIDE DEF new, n
<1>d. \A i \in DOMAIN mClients' : i = n \/ (i \in DOMAIN mClients /\ mClients'[i] = mClients[i])
  BY <1>1
<1>o. mOverlapped' \in BOOLEAN /\ (mOverlapped' # TRUE => mOverlapped # TRUE
          /\ \A i \in DOMAIN mClients : mClients[i].sock # "connecting")
  BY <1>k DEF AmiKinds, Ami!LogsIn
<1>2. AmiKinds'
  BY <1>k, <1>1, <1>o DEF AmiKinds
<1>3. AmiLogins'
  <2>1. ASSUME NEW i \in DOMAIN mClients', mClients'[i].sock = "connecting"
        PROVE  mClients'[i].reports = <<>> /\ mAmi' # i
    BY <1>k, <1>1, <1>d, <1>n, <2>1 DEF AmiLogins, AmiKinds
  <2>2. ASSUME NEW i \in DOMAIN mClients', mClients'[i].sock = "connecting",
               mClients'[i].by = "reload"
        PROVE  mReload' = "login" /\ \A j \in DOMAIN mClients' :
                   mClients'[j].sock = "connecting" /\ mClients'[j].by = "reload" => j = i
    <3>1. CASE by = "watch"
      BY <1>k, <1>1, <1>d, <1>n, <2>2, <3>1 DEF AmiLogins
    <3>2. CASE by = "reload"
      BY <1>k, <1>1, <1>d, <1>n, <2>2, <3>2 DEF AmiLogins
    <3> QED
      BY <3>1, <3>2
  <2>3. ASSUME NEW i \in DOMAIN mClients'
        PROVE  Len(mClients'[i].reports) <= IF mClients'[i].list \in {"none", "asked"} THEN mMaxQueue
                                           ELSE mMaxQueue + 1
    BY <1>k, <1>1, <1>d, <1>n DEF AmiLogins, Ami!AmiAssumption
  <2> QED
    BY <2>1, <2>2, <2>3 DEF AmiLogins
<1>4. AmiOne'
  <2> SUFFICES ASSUME mOverlapped' # TRUE PROVE AmiOne'
    BY DEF AmiOne
  <2>1. \A i \in DOMAIN mClients : ~Ami!Open(i)
    BY <1>k, <1>o DEF Ami!Open, AmiOne, Ami!UpSet, Ami!Connected, AmiKinds, Ami!AmiAssumption
  <2>2. \A i \in DOMAIN mClients' : Ami!Open(i)' => i = n
    BY <1>d, <2>1 DEF Ami!Open
  <2>3. Ami!UpSet' = {}
    BY <1>d, <1>1, <1>n, <2>1 DEF Ami!UpSet, Ami!Open
  <2> QED
    BY <2>2, <2>3 DEF AmiOne
<1>5. AmiNews'
  <2> SUFFICES ASSUME NEW i \in Ami!UpSet'
               PROVE  i \in Ami!UpSet /\ mClients'[i] = mClients[i] /\ (mOverlapped' # TRUE => mOverlapped # TRUE)
    BY <1>k DEF AmiNews
  <2> QED
    BY <1>d, <1>1, <1>n, <1>o DEF Ami!UpSet
<1> QED
  BY <1>2, <1>3, <1>4, <1>5 DEF AmiInv

LEMMA AmiStart == Ami!AmiAssumption /\ Ami!Init => AmiInv
<1> SUFFICES ASSUME Ami!AmiAssumption, Ami!Init PROVE AmiInv
  OBVIOUS
<1>1. AmiKinds
  <2>1. mClients \in Seq(AmiClients)
    BY DEF Ami!Init
  <2>2. Len(mClients) = 0 /\ mMaxClients \in Nat /\ mMaxChanges \in Nat
    BY DEF Ami!Init, Ami!AmiAssumption
  <2>3. mChanges \in 0..mMaxChanges /\ Len(mClients) <= mMaxClients
    BY <2>2 DEF Ami!Init
  <2> QED
    BY <2>1, <2>3 DEF AmiKinds, Ami!Init
<1> QED
  BY <1>1 DEF AmiInv, AmiLogins, AmiOne, AmiNews, Ami!Init, Ami!UpSet, Ami!Open

(* A login is answered.                                                         *)
LEMMA AmiLoggedIn ==
    ASSUME Ami!AmiAssumption, AmiInv, NEW i \in DOMAIN mClients, Ami!LoggedIn(i)
    PROVE  AmiInv'
<1>k. AmiKinds /\ AmiLogins /\ AmiOne /\ AmiNews
  BY DEF AmiInv
<1>0. mClients[i] \in AmiClients /\ mClients[i].sock = "connecting" /\ mClients[i].reports = <<>>
  BY <1>k DEF AmiKinds, AmiLogins, Ami!LoggedIn
<1> DEFINE c == [mClients[i] EXCEPT !.sock = "up", !.list = "asked"]
<1>1. /\ c \in AmiClients /\ c.sock = "up" /\ c.list = "asked" /\ c.reports = <<>>
      /\ c.by = mClients[i].by /\ Len(c.reports) = 0
  BY <1>0 DEF AmiClients
<1>2. mClients' = [mClients EXCEPT ![i] = c]
  BY <1>0 DEF Ami!LoggedIn, AmiClients
<1> HIDE DEF c
<1>3. /\ mClients' \in Seq(AmiClients) /\ Len(mClients') = Len(mClients)
      /\ DOMAIN mClients' = DOMAIN mClients /\ mClients'[i] = c
      /\ \A j \in DOMAIN mClients : j # i => mClients'[j] = mClients[j]
  BY <1>k, <1>1, <1>2 DEF AmiKinds
<1>n. i # None
  BY <1>k DEF AmiKinds, Ami!AmiAssumption
<1>r. /\ mReload' \in {"idle", "login", "command"} /\ mVia' \in DOMAIN mClients \cup {None}
      /\ ((mVia' # None) <=> (mReload' = "command"))
      /\ \/ mClients[i].by = "reload" \/ mReload' = mReload
  BY <1>k, <1>n DEF Ami!LoggedIn, AmiKinds
<1>4. AmiKinds'
  BY <1>k, <1>3, <1>r DEF AmiKinds, Ami!LoggedIn
<1>5. AmiLogins'
  <2>1. ASSUME NEW j \in DOMAIN mClients, mClients'[j].sock = "connecting"
        PROVE  j # i /\ mClients'[j].reports = <<>> /\ mAmi' # j
    BY <1>k, <1>1, <1>3, <2>1 DEF AmiLogins, Ami!LoggedIn
  <2>2. ASSUME NEW j \in DOMAIN mClients, mClients'[j].sock = "connecting", mClients'[j].by = "reload"
        PROVE  mReload' = "login" /\ \A m \in DOMAIN mClients :
                   mClients'[m].sock = "connecting" /\ mClients'[m].by = "reload" => m = j
    <3>1. mClients[i].by # "reload" /\ mReload' = mReload
      BY <1>k, <1>0, <1>r, <1>3, <2>1, <2>2 DEF AmiLogins
    <3> QED
      BY <1>k, <1>1, <1>3, <2>1, <2>2, <3>1 DEF AmiLogins
  <2>3. ASSUME NEW j \in DOMAIN mClients
        PROVE  Len(mClients'[j].reports) <= IF mClients'[j].list \in {"none", "asked"} THEN mMaxQueue
                                           ELSE mMaxQueue + 1
    BY <1>k, <1>1, <1>3 DEF AmiLogins, Ami!AmiAssumption
  <2> QED
    BY <1>3, <2>1, <2>2, <2>3 DEF AmiLogins
<1>6. AmiOne'
  BY <1>k, <1>0, <1>1, <1>3 DEF AmiOne, Ami!Open, Ami!UpSet, Ami!LoggedIn
<1>7. AmiNews'
  <2>1. \A j \in Ami!UpSet' : j # i => j \in Ami!UpSet /\ mClients'[j] = mClients[j]
    BY <1>3 DEF Ami!UpSet
  <2>2. UNCHANGED <<mContact, mRegistered, mOverlapped, mOutrun>>
    BY DEF Ami!LoggedIn
  <2> QED
    BY <1>k, <1>1, <1>3, <2>1, <2>2 DEF AmiNews
<1> QED
  BY <1>4, <1>5, <1>6, <1>7 DEF AmiInv

(* Asterisk sends its contacts.                                                 *)
LEMMA AmiListSent ==
    ASSUME Ami!AmiAssumption, AmiInv, NEW i \in DOMAIN mClients, Ami!ListSent(i)
    PROVE  AmiInv'
<1>k. AmiKinds /\ AmiLogins /\ AmiOne /\ AmiNews
  BY DEF AmiInv
<1> DEFINE r == [list |-> TRUE, is |-> mContact]
           n == Len(mClients[i].reports) + 1
           c == [mClients[i] EXCEPT !.list = "sent", !.reports = Append(@, r)]
<1>0. /\ mClients[i] \in AmiClients /\ mClients[i].sock = "up" /\ mClients[i].list = "asked"
      /\ mClients[i].reports \in Seq(Reports) /\ n \in Nat /\ n <= mMaxQueue + 1
  <2>1. /\ mClients[i] \in AmiClients /\ mClients[i].sock = "up" /\ mClients[i].list = "asked"
        /\ mClients[i].reports \in Seq(Reports)
    <3>1. mClients[i] \in AmiClients /\ mClients[i].sock = "up" /\ mClients[i].list = "asked"
      BY <1>k DEF AmiKinds, Ami!ListSent
    <3> QED
      BY <3>1 DEF AmiClients
  <2>2. Len(mClients[i].reports) <= mMaxQueue /\ mMaxQueue \in Nat
    BY <1>k, <2>1 DEF AmiLogins, Ami!AmiAssumption
  <2> QED
    BY <2>1, <2>2
<1>r. r \in Reports /\ r.list = TRUE /\ r.is = mContact
  BY <1>k DEF Reports, AmiKinds
<1> HIDE DEF r
<1>1. /\ c \in AmiClients /\ c.sock = "up" /\ c.list = "sent" /\ Len(c.reports) = n
      /\ c.reports # <<>> /\ c.reports[n] = r /\ n \in DOMAIN c.reports
      /\ c.by = mClients[i].by
  <2>1. /\ Append(mClients[i].reports, r) \in Seq(Reports) /\ Len(Append(mClients[i].reports, r)) = n
        /\ Append(mClients[i].reports, r)[n] = r
    BY <1>0, <1>r
  <2>2. /\ c \in AmiClients /\ c.sock = "up" /\ c.list = "sent" /\ c.by = mClients[i].by
        /\ c.reports = Append(mClients[i].reports, r)
    BY <1>0, <2>1 DEF AmiClients
  <2> HIDE DEF c
  <2>3. n \in Nat /\ n >= 1
    BY <1>0
  <2> QED
    BY <2>1, <2>2, <2>3
<1>2. mClients' = [mClients EXCEPT ![i] = c]
  BY <1>0 DEF Ami!ListSent, AmiClients, r
<1> HIDE DEF c, n
<1>3. /\ mClients' \in Seq(AmiClients) /\ Len(mClients') = Len(mClients)
      /\ DOMAIN mClients' = DOMAIN mClients /\ mClients'[i] = c
      /\ \A j \in DOMAIN mClients : j # i => mClients'[j] = mClients[j]
  BY <1>k, <1>1, <1>2 DEF AmiKinds
<1>4. AmiKinds'
  BY <1>k, <1>3 DEF AmiKinds, Ami!ListSent
<1>5. AmiLogins'
  <2>1. \A j \in DOMAIN mClients : mClients'[j].sock = "connecting" => mClients'[j] = mClients[j]
    BY <1>1, <1>3
  <2>2. \A j \in DOMAIN mClients : Len(mClients'[j].reports) <=
            IF mClients'[j].list \in {"none", "asked"} THEN mMaxQueue ELSE mMaxQueue + 1
    BY <1>k, <1>0, <1>1, <1>3 DEF AmiLogins
  <2> QED
    BY <1>k, <1>3, <2>1, <2>2 DEF AmiLogins, Ami!ListSent
<1>6. AmiOne'
  BY <1>k, <1>0, <1>1, <1>3 DEF AmiOne, Ami!Open, Ami!UpSet, Ami!ListSent
<1>7. AmiNews'
  <2>1. \A j \in Ami!UpSet' : j # i => j \in Ami!UpSet /\ mClients'[j] = mClients[j]
    BY <1>3 DEF Ami!UpSet
  <2>2. c.reports[Len(c.reports)].is = mContact /\ c.reports[n].list = TRUE
    BY <1>1, <1>r
  <2>3. UNCHANGED <<mContact, mRegistered, mOverlapped, mOutrun>>
    BY DEF Ami!ListSent
  <2>4. /\ mClients'[i].reports # <<>> =>
              (mClients'[i].reports[Len(mClients'[i].reports)].is = TRUE <=> mContact' = TRUE)
        /\ mClients'[i].list = "sent" =>
              \E k \in DOMAIN mClients'[i].reports : mClients'[i].reports[k].list = TRUE
        /\ mClients'[i].list # "had"
    BY <1>1, <1>3, <2>2, <2>3
  <2> QED
    BY <1>k, <2>1, <2>3, <2>4 DEF AmiNews
<1> QED
  BY <1>4, <1>5, <1>6, <1>7 DEF AmiInv

(* A phone registers or leaves.                                                 *)
LEMMA AmiContactChanges ==
    ASSUME Ami!AmiAssumption, AmiInv, Ami!ContactChanges
    PROVE  AmiInv'
<1>k. AmiKinds /\ AmiLogins /\ AmiOne /\ AmiNews
  BY DEF AmiInv
<1> DEFINE r == [list |-> FALSE, is |-> ~mContact]
           more(i) == [mClients[i] EXCEPT !.reports = Append(@, r)]
<1>r. r \in Reports /\ (r.is = TRUE <=> mContact' = TRUE) /\ mContact' \in BOOLEAN
  BY <1>k DEF Reports, AmiKinds, Ami!ContactChanges
<1>0. /\ DOMAIN mClients' = DOMAIN mClients
      /\ \A i \in DOMAIN mClients : mClients'[i] = IF i \in Ami!UpSet THEN more(i) ELSE mClients[i]
  BY DEF Ami!ContactChanges
<1> HIDE DEF r
<1>1. ASSUME NEW i \in Ami!UpSet
      PROVE  /\ i \in DOMAIN mClients /\ mClients[i] \in AmiClients
             /\ more(i) \in AmiClients /\ more(i).sock = "up" /\ more(i).list = mClients[i].list
             /\ more(i).by = mClients[i].by
             /\ more(i).reports # <<>> /\ more(i).reports[Len(more(i).reports)] = r
             /\ Len(more(i).reports) <= mMaxQueue
             /\ \A k \in DOMAIN mClients[i].reports : k \in DOMAIN more(i).reports
                    /\ more(i).reports[k] = mClients[i].reports[k]
  <2>1. /\ i \in DOMAIN mClients /\ mClients[i] \in AmiClients /\ mClients[i].sock = "up"
        /\ mClients[i].reports \in Seq(Reports) /\ Len(mClients[i].reports) < mMaxQueue
        /\ Len(mClients[i].reports) \in Nat /\ mMaxQueue \in Nat
    <3>1. i \in DOMAIN mClients /\ mClients[i] \in AmiClients /\ mClients[i].sock = "up"
      BY <1>k DEF Ami!UpSet, AmiKinds
    <3>2. mClients[i].reports \in Seq(Reports)
      BY <3>1 DEF AmiClients
    <3> QED
      BY <3>1, <3>2 DEF Ami!ContactChanges, Ami!AmiAssumption
  <2>2. more(i).reports = Append(mClients[i].reports, r)
    BY <2>1 DEF AmiClients
  <2>3. /\ more(i) \in AmiClients /\ more(i).sock = "up" /\ more(i).list = mClients[i].list
        /\ more(i).by = mClients[i].by
    BY <2>1, <1>r DEF AmiClients
  <2> HIDE DEF more
  <2> QED
    BY <2>1, <2>2, <2>3, <1>r
<1> HIDE DEF more
<1>2. \A i \in DOMAIN mClients : mClients'[i] \in AmiClients
  BY <1>k, <1>0, <1>1 DEF AmiKinds
<1>3. mClients' \in Seq(AmiClients) /\ Len(mClients') = Len(mClients)
  <2>1. mClients' = [i \in 1..Len(mClients) |-> mClients'[i]]
    BY <1>k DEF Ami!ContactChanges, AmiKinds
  <2> QED
    BY <1>k, <1>2, <2>1 DEF AmiKinds
<1>4. AmiKinds'
  BY <1>k, <1>0, <1>3, <1>r DEF AmiKinds, Ami!ContactChanges, Ami!AmiAssumption
<1>s. \A i \in DOMAIN mClients : mClients'[i].sock = mClients[i].sock /\ mClients'[i].by = mClients[i].by
         /\ mClients'[i].list = mClients[i].list
         /\ (mClients[i].sock = "connecting" => mClients'[i] = mClients[i])
  BY <1>0, <1>1 DEF Ami!UpSet
<1>5. AmiLogins'
  <2>2. \A j \in DOMAIN mClients : Len(mClients'[j].reports) <=
            IF mClients'[j].list \in {"none", "asked"} THEN mMaxQueue ELSE mMaxQueue + 1
    BY <1>k, <1>0, <1>1 DEF AmiLogins, Ami!AmiAssumption
  <2>3. \A i \in DOMAIN mClients : mClients'[i].sock = "connecting" =>
            mClients'[i].reports = <<>> /\ mAmi # i
    BY <1>k, <1>s DEF AmiLogins
  <2>4. \A i \in DOMAIN mClients : mClients'[i].sock = "connecting" /\ mClients'[i].by = "reload" =>
            mReload = "login" /\ \A j \in DOMAIN mClients :
                mClients'[j].sock = "connecting" /\ mClients'[j].by = "reload" => j = i
    BY <1>k, <1>s DEF AmiLogins
  <2> QED
    BY <1>0, <2>2, <2>3, <2>4 DEF AmiLogins, Ami!ContactChanges
<1>6. AmiOne'
  BY <1>k, <1>0, <1>s DEF AmiOne, Ami!Open, Ami!UpSet, Ami!ContactChanges
<1>7. AmiNews'
  <2> SUFFICES ASSUME NEW i \in Ami!UpSet'
               PROVE  /\ mClients'[i].reports # <<>>
                      /\ mClients'[i].reports[Len(mClients'[i].reports)].is = TRUE <=> mContact' = TRUE
                      /\ mClients'[i].list = "sent" =>
                            \E k \in DOMAIN mClients'[i].reports : mClients'[i].reports[k].list = TRUE
    BY DEF AmiNews
  <2>1. i \in Ami!UpSet /\ mClients'[i] = more(i)
    BY <1>0, <1>s DEF Ami!UpSet
  <2>2. /\ mClients'[i].reports # <<>>
        /\ mClients'[i].reports[Len(mClients'[i].reports)].is = TRUE <=> mContact' = TRUE
    BY <1>1, <1>r, <2>1
  <2>3. mClients'[i].list = "sent" =>
            \E k \in DOMAIN mClients'[i].reports : mClients'[i].reports[k].list = TRUE
    <3>1. mClients[i].list = "sent" =>
              \E k \in DOMAIN mClients[i].reports : mClients[i].reports[k].list = TRUE
      BY <1>k, <2>1 DEF AmiNews
    <3> QED
      BY <1>1, <2>1, <3>1
  <2> QED
    BY <2>2, <2>3
<1> QED
  BY <1>4, <1>5, <1>6, <1>7 DEF AmiInv

(* A chunk is handled: unless a report came behind the list in it, what is     *)
(* registered is what its last report says.                                    *)
LEMMA AmiChunk ==
    ASSUME NEW chunk \in Seq(Reports), chunk # <<>>
    PROVE  /\ Ami!After(chunk) \in BOOLEAN
           /\ ~(\E k \in Ami!Lists(chunk) : k < Len(chunk)) => Ami!After(chunk) = chunk[Len(chunk)].is
<1>1. Len(chunk) \in Nat /\ Len(chunk) \in DOMAIN chunk /\ DOMAIN chunk = 1..Len(chunk)
  OBVIOUS
<1>2. \A k \in DOMAIN chunk : chunk[k].is \in BOOLEAN
  <2>1. \A k \in DOMAIN chunk : chunk[k] \in Reports
    OBVIOUS
  <2> QED
    BY <2>1 DEF Reports
<1>3. CASE Ami!Lists(chunk) = {}
  BY <1>1, <1>2, <1>3 DEF Ami!After
<1>4. CASE Ami!Lists(chunk) # {}
  <2> DEFINE at == CHOOSE k \in Ami!Lists(chunk) : TRUE
  <2>1. at \in Ami!Lists(chunk)
    BY <1>4
  <2>2. Ami!After(chunk) = chunk[at].is
    BY <1>4 DEF Ami!After, Ami!AfterList
  <2>3. at \in DOMAIN chunk
    BY <2>1 DEF Ami!Lists
  <2> HIDE DEF at
  <2>4. at < Len(chunk) \/ at = Len(chunk)
    BY <1>1, <2>3
  <2> QED
    BY <1>2, <2>1, <2>2, <2>3, <2>4
<1> QED
  BY <1>3, <1>4

LEMMA AmiHandles ==
    ASSUME Ami!AmiAssumption, AmiInv, NEW i \in DOMAIN mClients, Ami!Handles(i)
    PROVE  AmiInv'
<1>k. AmiKinds /\ AmiLogins /\ AmiOne /\ AmiNews
  BY DEF AmiInv
<1>u. /\ mClients[i].sock = "up"
      /\ mEnabled' = mEnabled /\ mPbx' = mPbx /\ mAmi' = mAmi /\ mReload' = mReload /\ mVia' = mVia
      /\ mContact' = mContact /\ mChanges' = mChanges /\ mOverlapped' = mOverlapped
  BY Zenon DEF Ami!Handles
<1> DEFINE old == mClients[i].reports
<1>0. /\ mClients[i] \in AmiClients /\ mClients[i].sock = "up" /\ old \in Seq(Reports)
      /\ i \in Ami!UpSet
  <2>1. mClients[i] \in AmiClients
    BY <1>k DEF AmiKinds
  <2>2. mClients[i].sock = "up"
    BY <1>u
  <2> QED
    BY <2>1, <2>2 DEF AmiClients, Ami!UpSet
<1>l. Len(old) \in Nat /\ DOMAIN old = 1..Len(old) /\ \A k \in 1..Len(old) : old[k] \in Reports
  BY <1>0
<1>p. PICK n \in 1..Len(old) :
        LET chunk == SubSeq(old, 1, n)
        IN  /\ mRegistered' = Ami!After(chunk)
            /\ mOutrun' = (\E k \in Ami!Lists(chunk) : k < n)
            /\ mClients' =
                [mClients EXCEPT ![i].reports = SubSeq(@, n + 1, Len(@)),
                                 ![i].list = IF Ami!Lists(chunk) = {} THEN @ ELSE "had"]
  BY DEF Ami!Handles
<1> DEFINE chunk == SubSeq(old, 1, n)
           rest == SubSeq(old, n + 1, Len(old))
           lists == Ami!Lists(chunk)
           c == [mClients[i] EXCEPT !.reports = rest,
                                    !.list = IF lists = {} THEN @ ELSE "had"]
<1>q. n \in Nat /\ n >= 1 /\ n <= Len(old)
  <2>1. n \in 1..Len(old)
    BY <1>p, Zenon
  <2> HIDE DEF old, chunk, rest, lists, c
  <2> QED
    BY <1>l, <2>1
<1>c. /\ chunk \in Seq(Reports) /\ Len(chunk) = n /\ chunk # <<>>
      /\ \A k \in 1..n : chunk[k] = old[k]
  <2>1. \A k \in 1..n : old[k] \in Reports
    BY <1>l, <1>q
  <2>2. /\ chunk \in Seq(Reports) /\ Len(chunk) = IF 1 <= n THEN n - 1 + 1 ELSE 0
        /\ \A k \in 1..n - 1 + 1 : chunk[k] = old[1 + k - 1]
    BY <1>q, <2>1, SubSeqProperties
  <2>3. Len(chunk) = n /\ n # 0
    BY <1>q, <2>2
  <2>4. \A k \in 1..n : chunk[k] = old[k]
    BY <1>q, <2>2
  <2>5. chunk # <<>>
    <3> HIDE DEF chunk
    <3> QED
      BY <2>3
  <2> QED
    BY <2>2, <2>3, <2>4, <2>5
<1>t. /\ rest \in Seq(Reports) /\ Len(rest) = Len(old) - n
      /\ \A k \in 1..(Len(old) - n) : rest[k] = old[n + k]
  <2>1. \A k \in n + 1..Len(old) : old[k] \in Reports
    BY <1>l, <1>q
  <2>2. /\ rest \in Seq(Reports)
        /\ Len(rest) = IF n + 1 <= Len(old) THEN Len(old) - (n + 1) + 1 ELSE 0
        /\ \A k \in 1..Len(old) - (n + 1) + 1 : rest[k] = old[n + 1 + k - 1]
    BY <1>l, <1>q, <2>1, SubSeqProperties
  <2>3. Len(rest) = Len(old) - n
    BY <1>l, <1>q, <2>2
  <2>4. \A k \in 1..(Len(old) - n) : rest[k] = old[n + k]
    <3> SUFFICES ASSUME NEW k \in 1..(Len(old) - n) PROVE rest[k] = old[n + k]
      OBVIOUS
    <3>1. k \in 1..Len(old) - (n + 1) + 1 /\ n + 1 + k - 1 = n + k
      BY <1>l, <1>q
    <3> QED
      BY <2>2, <3>1
  <2> QED
    BY <2>2, <2>3, <2>4
<1>a. /\ mRegistered' = Ami!After(chunk) /\ mOutrun' = (\E k \in lists : k < n)
      /\ mClients' = [mClients EXCEPT ![i] = c]
  BY <1>p, <1>0 DEF AmiClients
<1>g. /\ mRegistered' \in BOOLEAN /\ mOutrun' \in BOOLEAN
      /\ mOutrun' # TRUE => mRegistered' = old[n].is
  <2>1. /\ Ami!After(chunk) \in BOOLEAN
        /\ ~(\E k \in lists : k < n) => Ami!After(chunk) = chunk[n].is
    BY <1>c, AmiChunk
  <2>2. chunk[n] = old[n]
    BY <1>c, <1>q
  <2> HIDE DEF chunk, lists
  <2> QED
    BY <1>a, <2>1, <2>2
<1>e. lists = {} => \A k \in 1..n : old[k].list # TRUE
  <2> HIDE DEF chunk, old
  <2>1. DOMAIN chunk = 1..n
    BY <1>c
  <2>2. lists = {k \in 1..n : chunk[k].list}
    BY <2>1 DEF Ami!Lists
  <2> HIDE DEF lists
  <2> QED
    BY <1>c, <2>2
<1>w. old = mClients[i].reports
  OBVIOUS
<1>1. /\ c \in AmiClients /\ c.sock = "up" /\ c.by = mClients[i].by /\ c.reports = rest
      /\ c.list = IF lists = {} THEN mClients[i].list ELSE "had"
  <2> HIDE DEF rest, lists
  <2> QED
    BY <1>0, <1>t DEF AmiClients
<1> HIDE DEF c, rest, lists, chunk, old
<1>3. /\ mClients' \in Seq(AmiClients) /\ Len(mClients') = Len(mClients)
      /\ DOMAIN mClients' = DOMAIN mClients /\ mClients'[i] = c
      /\ \A j \in DOMAIN mClients : j # i => mClients'[j] = mClients[j]
  BY <1>k, <1>1, <1>a DEF AmiKinds
<1>4. AmiKinds'
  BY <1>k, <1>u, <1>3, <1>g DEF AmiKinds
<1>5. AmiLogins'
  <2>1. \A j \in DOMAIN mClients : mClients'[j].sock = "connecting" => mClients'[j] = mClients[j]
    BY <1>1, <1>3
  <2>2. \A j \in DOMAIN mClients : Len(mClients'[j].reports) <=
            IF mClients'[j].list \in {"none", "asked"} THEN mMaxQueue ELSE mMaxQueue + 1
    <3>1. Len(old) <= mMaxQueue + 1 /\ mMaxQueue \in Nat
      BY <1>k, <1>w DEF AmiLogins, Ami!AmiAssumption
    <3>2. Len(c.reports) <= mMaxQueue
      BY <1>1, <1>t, <1>l, <1>q, <3>1
    <3> QED
      BY <1>k, <3>1, <3>2, <1>3 DEF AmiLogins
  <2> QED
    BY <1>k, <1>u, <1>3, <2>1, <2>2 DEF AmiLogins
<1>6. AmiOne'
  <2>1. \A j \in DOMAIN mClients : mClients'[j].sock = mClients[j].sock
    BY <1>0, <1>1, <1>3
  <2> QED
    BY <1>k, <1>u, <1>3, <2>1 DEF AmiOne, Ami!Open, Ami!UpSet
<1>7. AmiNews'
  <2>1. \A j \in Ami!UpSet' : j # i => j \in Ami!UpSet /\ mClients'[j] = mClients[j]
    BY <1>3 DEF Ami!UpSet
  <2>o. old # <<>>
    BY <1>l, <1>q
  <2>n. old[Len(old)].is = TRUE <=> mContact = TRUE
    BY <1>0, <1>k, <1>w, <2>o DEF AmiNews
  <2>2. ASSUME c.reports # <<>>
        PROVE  c.reports[Len(c.reports)].is = TRUE <=> mContact = TRUE
    <3>1. Len(old) - n \in 1..(Len(old) - n)
      <4>1. Len(rest) # 0
        BY <1>1, <1>t, <2>2
      <4> QED
        BY <4>1, <1>t, <1>l, <1>q
    <3>2. n + (Len(old) - n) = Len(old)
      BY <1>l, <1>q
    <3>3. c.reports[Len(c.reports)] = old[Len(old)]
      BY <1>1, <1>t, <3>1, <3>2
    <3> QED
      BY <3>3, <2>n
  <2>3. ASSUME c.list = "sent"
        PROVE  \E k \in DOMAIN c.reports : c.reports[k].list = TRUE
    <3>1. lists = {} /\ mClients[i].list = "sent"
      BY <1>1, <2>3
    <3>2. PICK k \in DOMAIN old : old[k].list = TRUE
      BY <1>k, <1>0, <1>w, <3>1 DEF AmiNews
    <3>3. k \in 1..Len(old) /\ ~(k <= n)
      <4>1. k \in 1..Len(old) /\ k \notin 1..n
        BY <1>l, <1>e, <3>1, <3>2
      <4> QED
        BY <4>1, <1>l, <1>q
    <3>4. k - n \in 1..(Len(old) - n) /\ n + (k - n) = k
      BY <1>l, <1>q, <3>3
    <3>5. k - n \in DOMAIN c.reports /\ c.reports[k - n] = old[k]
      BY <1>1, <1>t, <3>4
    <3> QED
      BY <3>2, <3>5
  <2>4. ASSUME c.reports = <<>>, mOutrun' # TRUE
        PROVE  mRegistered' = TRUE <=> mContact = TRUE
    <3>1. n = Len(old)
      <4>1. Len(rest) = 0
        BY <1>1, <2>4
      <4> QED
        BY <4>1, <1>t, <1>l, <1>q
    <3> QED
      BY <3>1, <1>g, <2>4, <2>n
  <2>5. mOverlapped # TRUE => \A j \in Ami!UpSet' : j = i
    BY <1>k, <1>0, <1>3, <2>1 DEF AmiOne
  <2> SUFFICES ASSUME NEW j \in Ami!UpSet'
      PROVE  /\ mClients'[j].reports # <<>> =>
                  (mClients'[j].reports[Len(mClients'[j].reports)].is = TRUE <=> mContact = TRUE)
             /\ mClients'[j].list = "sent" =>
                  \E k \in DOMAIN mClients'[j].reports : mClients'[j].reports[k].list = TRUE
             /\ mOverlapped # TRUE /\ mOutrun' # TRUE /\ mClients'[j].reports = <<>> =>
                  (mRegistered' = TRUE <=> mContact = TRUE)
    BY <1>u DEF AmiNews
  <2>6. CASE j = i
    BY <2>6, <2>2, <2>3, <2>4, <1>3
  <2>7. CASE j # i
    BY <2>7, <2>1, <2>5, <1>k DEF AmiNews
  <2> QED
    BY <2>6, <2>7
<1> QED
  BY <1>4, <1>5, <1>6, <1>7 DEF AmiInv

LEMMA AmiStep ==
    ASSUME Ami!AmiAssumption, AmiInv, [Ami!Next]_mVars
    PROVE  AmiInv'
<1>k. AmiKinds /\ AmiLogins
  BY DEF AmiInv
<1>n. None \notin DOMAIN mClients /\ mClients \in Seq(AmiClients)
  BY <1>k DEF AmiKinds, Ami!AmiAssumption
<1>1. CASE Ami!WatchTicks
  BY <1>1, AmiLogsIn DEF Ami!WatchTicks
<1>2. CASE Ami!Reload
  <2>1. CASE ~Ami!Connected /\ Ami!LogsIn("reload") /\ mReload' = "login" /\ UNCHANGED mVia
    BY <1>2, <2>1, AmiLogsIn DEF Ami!Reload
  <2>2. CASE Ami!Connected /\ mReload' = "command" /\ mVia' = mAmi /\ UNCHANGED <<mClients, mOverlapped>>
    <3>1. mAmi \in DOMAIN mClients /\ mVia' # None
      BY <1>k, <2>2 DEF Ami!Connected, AmiKinds
    <3> QED
      BY <1>2, <1>k, <1>n, <2>2, <3>1, AmiCloses DEF Ami!Reload, AmiKinds
  <2> QED
    BY <1>2, <2>1, <2>2 DEF Ami!Reload
<1>3. CASE Ami!CommandEnds
  <2>1. CASE UNCHANGED <<mClients, mAmi>>
    BY <1>3, <1>k, <1>n, <2>1, AmiCloses DEF Ami!CommandEnds, AmiKinds
  <2>2. CASE mClients' = Ami!GivenUp(mClients) /\ mAmi' = None
    <3>1. /\ mClients' \in Seq(AmiClients) /\ Len(mClients') = Len(mClients)
          /\ DOMAIN mClients' = DOMAIN mClients
          /\ \A j \in DOMAIN mClients : j # mAmi => mClients'[j] = mClients[j]
          /\ mAmi # None => Shut(mClients'[mAmi])
      BY <1>k, <1>n, <2>2, AmiClosed DEF Ami!GivenUp, AmiKinds
    <3>2. \A j \in DOMAIN mClients : mClients'[j] = mClients[j] \/ Shut(mClients'[j])
      BY <1>n, <3>1
    <3> QED
      BY <1>3, <1>k, <2>2, <3>1, <3>2, AmiCloses DEF Ami!CommandEnds, AmiKinds
  <2> QED
    BY <1>3, <2>1, <2>2 DEF Ami!CommandEnds
<1>4. CASE Ami!ContactChanges
  BY <1>4, AmiContactChanges
<1>5. CASE Ami!PbxStarts
  BY <1>5, <1>k, <1>n, AmiCloses DEF Ami!PbxStarts, AmiKinds
<1>6. CASE Ami!PbxStops
  <2>1. ASSUME NEW i \in Ami!UpSet
        PROVE  i \in DOMAIN mClients /\ Ami!Closed(mClients, i)[i] \in AmiClients
               /\ Shut(Ami!Closed(mClients, i)[i])
    <3>1. i \in DOMAIN mClients /\ i # None
      BY <1>n DEF Ami!UpSet
    <3>2. Ami!Closed(mClients, i) \in Seq(AmiClients) /\ DOMAIN Ami!Closed(mClients, i) = DOMAIN mClients
          /\ Shut(Ami!Closed(mClients, i)[i])
      BY <1>n, <3>1, AmiClosed
    <3> QED
      BY <3>1, <3>2
  <2>2. \A i \in DOMAIN mClients : /\ mClients'[i] = mClients[i] \/ Shut(mClients'[i])
                                   /\ mClients'[i] \in AmiClients
                                   /\ mClients'[i].sock # "up"
    BY <1>6, <1>n, <2>1 DEF Ami!PbxStops, Ami!UpSet, Shut
  <2>3. mClients' = [i \in 1..Len(mClients) |-> mClients'[i]] /\ DOMAIN mClients' = DOMAIN mClients
    BY <1>6, <1>n DEF Ami!PbxStops
  <2>4. mClients' \in Seq(AmiClients) /\ Len(mClients') = Len(mClients)
    BY <1>n, <2>2, <2>3
  <2>5. Ami!UpSet' = {}
    BY <2>2, <2>3 DEF Ami!UpSet
  <2> QED
    BY <1>6, <1>k, <2>2, <2>3, <2>4, <2>5, AmiCloses DEF Ami!PbxStops, AmiKinds
<1>7. CASE Ami!Enable
  BY <1>7, <1>k, <1>n, AmiCloses DEF Ami!Enable, AmiKinds
<1>8. CASE Ami!Disable
  <2>1. /\ mClients' \in Seq(AmiClients) /\ Len(mClients') = Len(mClients)
        /\ DOMAIN mClients' = DOMAIN mClients
        /\ \A j \in DOMAIN mClients : j # mAmi => mClients'[j] = mClients[j]
        /\ mAmi # None => Shut(mClients'[mAmi])
    BY <1>k, <1>n, <1>8, AmiClosed DEF Ami!Disable, AmiKinds
  <2>2. \A j \in DOMAIN mClients : mClients'[j] = mClients[j] \/ Shut(mClients'[j])
    BY <1>n, <2>1
  <2> QED
    BY <1>8, <1>k, <2>1, <2>2, AmiCloses DEF Ami!Disable, AmiKinds
<1>9. ASSUME NEW i \in DOMAIN mClients, Ami!LoggedIn(i)
      PROVE  AmiInv'
  BY <1>9, AmiLoggedIn
<1>10. ASSUME NEW i \in DOMAIN mClients, Ami!LoginFails(i)
       PROVE  AmiInv'
  <2>0. /\ i # None /\ Ami!Closed(mClients, i) \in Seq(AmiClients)
        /\ Len(Ami!Closed(mClients, i)) = Len(mClients) /\ DOMAIN Ami!Closed(mClients, i) = DOMAIN mClients
        /\ \A j \in DOMAIN mClients : j # i => Ami!Closed(mClients, i)[j] = mClients[j]
        /\ Shut(Ami!Closed(mClients, i)[i])
    BY <1>n, AmiClosed
  <2>1. CASE mClients[i].by = "watch"
    BY <1>10, <1>k, <2>0, <2>1, AmiCloses DEF Ami!LoginFails, AmiKinds
  <2>2. CASE mClients[i].by = "reload"
    <3>1. /\ mReload = "login" /\ mReload' = "idle" /\ mVia' = None /\ mAmi' = None
          /\ \A j \in DOMAIN mClients : mClients[j].by = "reload" /\ j # i => mClients[j].sock # "connecting"
      BY <1>10, <1>k, <2>2 DEF Ami!LoginFails, AmiLogins, AmiKinds
    <3>2. /\ mClients' \in Seq(AmiClients) /\ Len(mClients') = Len(mClients)
          /\ DOMAIN mClients' = DOMAIN mClients
          /\ \A j \in DOMAIN mClients : j # mAmi => mClients'[j] = Ami!Closed(mClients, i)[j]
          /\ mAmi # None => Shut(mClients'[mAmi])
      BY <1>10, <1>k, <1>n, <2>0, <2>2, AmiClosed DEF Ami!LoginFails, Ami!GivenUp, AmiKinds
    <3>3. \A j \in DOMAIN mClients : mClients'[j] = mClients[j] \/ Shut(mClients'[j])
      BY <1>n, <2>0, <3>2
    <3>4. \A j \in DOMAIN mClients : mClients[j].by = "reload" => mClients'[j].sock # "connecting"
      BY <1>n, <2>0, <3>1, <3>2, <3>3 DEF Shut
    <3> QED
      BY <1>10, <1>k, <3>1, <3>2, <3>3, <3>4, AmiCloses DEF Ami!LoginFails, AmiKinds
  <2> QED
    BY <1>10, <2>1, <2>2 DEF Ami!LoginFails
<1>11. ASSUME NEW i \in DOMAIN mClients, Ami!ListSent(i)
       PROVE  AmiInv'
  BY <1>11, AmiListSent
<1>12. ASSUME NEW i \in DOMAIN mClients, Ami!Handles(i)
       PROVE  AmiInv'
  BY <1>12, AmiHandles
<1>13. ASSUME NEW i \in DOMAIN mClients, Ami!Breaks(i)
       PROVE  AmiInv'
  <2>0. /\ i # None /\ Ami!Closed(mClients, i) \in Seq(AmiClients)
        /\ Len(Ami!Closed(mClients, i)) = Len(mClients) /\ DOMAIN Ami!Closed(mClients, i) = DOMAIN mClients
        /\ \A j \in DOMAIN mClients : j # i => Ami!Closed(mClients, i)[j] = mClients[j]
        /\ Shut(Ami!Closed(mClients, i)[i])
    BY <1>n, AmiClosed
  <2> QED
    BY <1>13, <1>k, <2>0, AmiCloses DEF Ami!Breaks, AmiKinds
<1>14. CASE UNCHANGED mVars
  BY <1>14, <1>k, <1>n, AmiCloses DEF mVars, AmiKinds
<1> QED
  BY <1>1, <1>2, <1>3, <1>4, <1>5, <1>6, <1>7, <1>8, <1>9, <1>10, <1>11, <1>12, <1>13, <1>14 DEF Ami!Next

LEMMA AmiIsSound == Ami!AmiAssumption /\ AmiInv => Ami!LinkSound /\ Ami!TypesOK
<1> SUFFICES ASSUME Ami!AmiAssumption, AmiInv PROVE Ami!LinkSound /\ Ami!TypesOK
  OBVIOUS
<1>k. AmiKinds /\ AmiLogins /\ AmiOne /\ AmiNews
  BY DEF AmiInv
<1>1. Ami!OneLink
  BY <1>k DEF Ami!OneLink, AmiOne, AmiKinds
<1>2. Ami!RegisteredCatchUp
  <2> SUFFICES ASSUME ~mOverlapped, ~mOutrun, Ami!Connected, mClients[mAmi].list = "had",
                      mClients[mAmi].reports = <<>>
               PROVE  mRegistered = mContact
    BY DEF Ami!RegisteredCatchUp
  <2>1. mAmi \in Ami!UpSet
    BY <1>k DEF Ami!Connected, AmiKinds, AmiLogins, Ami!Open, Ami!UpSet
  <2>2. mRegistered = TRUE <=> mContact = TRUE
    BY <1>k, <2>1 DEF AmiNews
  <2> QED
    BY <1>k, <2>2 DEF AmiKinds
<1>3. Ami!TypesOK
  <2>1. \A i \in DOMAIN mClients :
          /\ mClients[i].sock \in {"connecting", "up", "closed"}
          /\ mClients[i].by \in {"watch", "reload"}
          /\ mClients[i].list \in {"none", "asked", "sent", "had"}
          /\ mClients[i].reports \in Seq(Reports)
    <3>1. \A i \in DOMAIN mClients : mClients[i] \in AmiClients
      BY <1>k DEF AmiKinds
    <3> QED
      BY <3>1 DEF AmiClients
  <2>2. \A i \in DOMAIN mClients : Len(mClients[i].reports) <= mMaxQueue + 1
    BY <1>k, <2>1 DEF AmiLogins, Ami!AmiAssumption
  <2>3. DOMAIN mClients \subseteq 1..mMaxClients
    BY <1>k DEF AmiKinds, Ami!AmiAssumption
  <2>4. (mVia # None) = (mReload = "command")
    BY <1>k DEF AmiKinds
  <2> QED
    BY <1>k, <2>1, <2>2, <2>3, <2>4 DEF AmiKinds, Ami!TypesOK
<1> QED
  BY <1>1, <1>2, <1>3 DEF Ami!LinkSound

------------------------------------------------------------------------------
(* One Asterisk with one link to it, whose contacts and calls are those the    *)
(* house is shown, programs that come back, streams as they were saved last;   *)
(* one update or enrolment at a time, no save lost and no code used twice also *)
(* when the agent is cut short: asteriskProcess.ts, go2rtcSpawn.ts, ami.ts,    *)
(* serverUpdate.ts, remoteEnroll.ts and docker/update-agent.sh.                *)
THEOREM ProcsAlwaysSound == Spec => []ProcsSound
<1> DEFINE Inv == /\ part = "procs" => ProcsInv
                  /\ part = "ami" => AmiInv
                  /\ part = "update" => HostInv
<1>a. Procs!ProcsAssumption /\ Ami!AmiAssumption /\ Host!HostAssumption
  BY HouseAssumption
<1>1. Init => Inv
  BY <1>a, InitOf, ProcsStart, AmiStart, HostStart
<1>2. Inv /\ [Next]_allVars => Inv'
  <2> SUFFICES ASSUME Inv, [Next]_allVars PROVE Inv'
    OBVIOUS
  <2>1. part' = "procs" => ProcsInv'
    BY <1>a, StepOf, ProcsStep
  <2>2. part' = "ami" => AmiInv'
    BY <1>a, StepOf, AmiStep
  <2>3. part' = "update" => HostInv'
    BY <1>a, StepOf, HostStep
  <2> QED
    BY <2>1, <2>2, <2>3
<1>3. Inv => ProcsSound
  BY <1>a, ProcsAreSound, AmiIsSound, HostIsSound DEF ProcsSound
<1> QED
  BY <1>1, <1>2, <1>3, PTL DEF Spec

------------------------------------------------------------------------------
(* The doors: voip/manager.ts, intercoms.ts, hookState.ts.                     *)

DoorKinds ==
    /\ dCall \in [dDoors -> Rings!Stages]
    /\ dShown \in [dDoors -> BOOLEAN] /\ dHook \in [dDoors -> BOOLEAN]
    /\ dLast \in dDoors \cup {None} /\ dAnswered \in dDoors \cup {None}
    /\ dChan \in [dDoors -> {"none", "live", "dead"}]
    /\ dPulse \subseteq dDoors /\ dTold \in {"ok", "error"} /\ dCrossed \in BOOLEAN
    /\ dHeard \in [from : dDoors \cup {None}, opened : dDoors \cup {None}]

(* What is shown of a door that is idle, its webhook showed, always.           *)
DoorsIdle == \A d \in dDoors : dCall[d] = "none" /\ dShown[d] = TRUE => dHook[d] = TRUE

(* And when nothing crossed, there is one call: while it rings the panels show *)
(* it, nobody is told yet that it was answered, and it is the last ring; when  *)
(* it was answered it still is, and what is shown its webhook showed.          *)
DoorsAlone ==
    dCrossed # TRUE => \A d \in dDoors :
        /\ dCall[d] # "none" => \A e \in dDoors : dCall[e] # "none" => e = d
        /\ dCall[d] = "ring" => dShown[d] = TRUE /\ dAnswered # d
        /\ dCall[d] \in {"ring", "talk"} => dLast = d
        /\ dCall[d] \in {"talk", "dialed"} /\ dShown[d] = TRUE => dHook[d] = TRUE

DoorsInv == DoorKinds /\ DoorsIdle /\ DoorsAlone

LEMMA DoorsStart == Rings!Init => DoorsInv
<1> SUFFICES ASSUME Rings!Init PROVE DoorsInv
  OBVIOUS
<1>1. DoorKinds
  BY DEF DoorKinds, Rings!Init, Rings!Stages
<1> QED
  BY <1>1 DEF DoorsInv, DoorsIdle, DoorsAlone, Rings!Init

(* The overlay as a record, and what is done to it.                            *)
Overlays == [shown : [dDoors -> BOOLEAN], hook : [dDoors -> BOOLEAN], answered : dDoors \cup {None}]

LEMMA OverlayKinds ==
    ASSUME DoorKinds
    PROVE  /\ Rings!Overlay \in Overlays
           /\ Rings!Overlay.shown = dShown /\ Rings!Overlay.hook = dHook /\ Rings!Overlay.answered = dAnswered
  BY DEF DoorKinds, Rings!Overlay, Overlays

LEMMA RungKinds ==
    ASSUME NEW o \in Overlays, NEW d \in dDoors, NEW b \in BOOLEAN
    PROVE  /\ Rings!Rung(o, d, b) \in Overlays /\ Rings!Rung(o, d, b).answered = o.answered
           /\ Rings!Rung(o, d, b).shown[d] = TRUE
           /\ b = TRUE => Rings!Rung(o, d, b).hook[d] = TRUE
           /\ \A e \in dDoors : e # d => /\ Rings!Rung(o, d, b).shown[e] = o.shown[e]
                                         /\ Rings!Rung(o, d, b).hook[e] = o.hook[e]
<1> DEFINE s == [o.shown EXCEPT ![d] = TRUE]
           h == [o.hook EXCEPT ![d] = IF b THEN TRUE ELSE @]
<1>0. o.shown \in [dDoors -> BOOLEAN] /\ o.hook \in [dDoors -> BOOLEAN] /\ o.answered \in dDoors \cup {None}
  BY DEF Overlays
<1>1. Rings!Rung(o, d, b) = [shown |-> s, hook |-> h, answered |-> o.answered]
  <2>1. o = [shown |-> o.shown, hook |-> o.hook, answered |-> o.answered]
    BY DEF Overlays
  <2>2. Rings!Rung(o, d, b) = [[o EXCEPT !.shown = s] EXCEPT !.hook = h]
    BY <2>1 DEF Rings!Rung
  <2> HIDE DEF s, h
  <2> QED
    BY <2>1, <2>2
<1>2. s \in [dDoors -> BOOLEAN] /\ s[d] = TRUE /\ \A e \in dDoors : e # d => s[e] = o.shown[e]
  BY <1>0
<1>3. h \in [dDoors -> BOOLEAN] /\ (b = TRUE => h[d] = TRUE)
      /\ \A e \in dDoors : e # d => h[e] = o.hook[e]
  BY <1>0
<1> HIDE DEF s, h
<1> QED
  BY <1>0, <1>1, <1>2, <1>3 DEF Overlays

LEMMA HiddenKinds ==
    ASSUME NEW o \in Overlays, NEW d \in dDoors
    PROVE  /\ Rings!Hidden(o, d) \in Overlays /\ Rings!Hidden(o, d).answered = o.answered
           /\ Rings!Hidden(o, d).shown[d] = FALSE /\ Rings!Hidden(o, d).hook[d] = FALSE
           /\ \A e \in dDoors : e # d => /\ Rings!Hidden(o, d).shown[e] = o.shown[e]
                                         /\ Rings!Hidden(o, d).hook[e] = o.hook[e]
<1> DEFINE s == [o.shown EXCEPT ![d] = FALSE]
           h == [o.hook EXCEPT ![d] = FALSE]
<1>0. o.shown \in [dDoors -> BOOLEAN] /\ o.hook \in [dDoors -> BOOLEAN] /\ o.answered \in dDoors \cup {None}
  BY DEF Overlays
<1>1. Rings!Hidden(o, d) = [shown |-> s, hook |-> h, answered |-> o.answered]
  <2>1. o = [shown |-> o.shown, hook |-> o.hook, answered |-> o.answered]
    BY DEF Overlays
  <2>2. Rings!Hidden(o, d) = [[o EXCEPT !.shown = s] EXCEPT !.hook = h]
    BY <2>1 DEF Rings!Hidden
  <2> HIDE DEF s, h
  <2> QED
    BY <2>1, <2>2
<1>2. s \in [dDoors -> BOOLEAN] /\ s[d] = FALSE /\ \A e \in dDoors : e # d => s[e] = o.shown[e]
  BY <1>0
<1>3. h \in [dDoors -> BOOLEAN] /\ h[d] = FALSE /\ \A e \in dDoors : e # d => h[e] = o.hook[e]
  BY <1>0
<1> HIDE DEF s, h
<1> QED
  BY <1>0, <1>1, <1>2, <1>3 DEF Overlays

(* Whoever is taken to have been answered is hidden, unless it was already.    *)
LEMMA AnsweredKinds ==
    ASSUME NEW o \in Overlays, NEW d \in dDoors \cup {None}
    PROVE  /\ Rings!Answered(o, d) \in Overlays
           /\ d # None => Rings!Answered(o, d).answered = d
           /\ \A e \in dDoors : \/ /\ Rings!Answered(o, d).shown[e] = o.shown[e]
                                   /\ Rings!Answered(o, d).hook[e] = o.hook[e]
                                \/ Rings!Answered(o, d).shown[e] = FALSE
           /\ d # None /\ o.answered # d => Rings!Answered(o, d).shown[d] = FALSE
<1>1. CASE d = None \/ o.answered = d
  BY <1>1 DEF Rings!Answered
<1>2. CASE d # None /\ o.answered # d
  <2> DEFINE h == Rings!Hidden(o, d)
  <2>1. /\ h \in Overlays /\ h.shown[d] = FALSE
        /\ \A e \in dDoors : e # d => h.shown[e] = o.shown[e] /\ h.hook[e] = o.hook[e]
    BY <1>2, HiddenKinds
  <2>2. Rings!Answered(o, d) = [h EXCEPT !.answered = d]
    BY <1>2 DEF Rings!Answered
  <2> HIDE DEF h
  <2>3. [h EXCEPT !.answered = d] \in Overlays
    BY <2>1 DEF Overlays
  <2>4. /\ [h EXCEPT !.answered = d].shown = h.shown /\ [h EXCEPT !.answered = d].hook = h.hook
        /\ [h EXCEPT !.answered = d].answered = d
    BY <2>1 DEF Overlays
  <2> QED
    BY <1>2, <2>1, <2>2, <2>3, <2>4
<1> QED
  BY <1>1, <1>2

LEMMA DoorsStep == Rings!SetupAssumption /\ DoorsInv /\ [Rings!Next]_dVars => DoorsInv'
<1> SUFFICES ASSUME Rings!SetupAssumption, DoorsInv, [Rings!Next]_dVars PROVE DoorsInv'
  OBVIOUS
<1>k. DoorKinds /\ DoorsIdle /\ DoorsAlone /\ None \notin dDoors
  BY DEF DoorsInv, Rings!SetupAssumption
<1>q. ASSUME DoorKinds', DoorsIdle', DoorsAlone' PROVE DoorsInv'
  BY <1>q DEF DoorsInv
<1>o. /\ Rings!Overlay \in Overlays
      /\ Rings!Overlay.shown = dShown /\ Rings!Overlay.hook = dHook /\ Rings!Overlay.answered = dAnswered
  BY <1>k, OverlayKinds
<1>s. ASSUME NEW o \in Overlays, Rings!Shows(o)
      PROVE  /\ dShown' \in [dDoors -> BOOLEAN] /\ dHook' \in [dDoors -> BOOLEAN]
             /\ dAnswered' \in dDoors \cup {None}
  BY <1>s DEF Rings!Shows, Overlays
<1>c. ASSUME NEW d \in dDoors, Rings!Crosses(d)
      PROVE  /\ dCrossed' \in BOOLEAN
             /\ dCrossed' # TRUE => dCrossed # TRUE /\ \A e \in dDoors : e # d => dCall[e] = "none"
  BY <1>c, <1>k DEF Rings!Crosses, Rings!Others, DoorKinds
<1>1. ASSUME NEW d \in dDoors, Rings!DoorRings(d) PROVE DoorsInv'
  <2>b. /\ Rings!Rung(Rings!Overlay, d, FALSE) \in Overlays /\ Rings!Rung(Rings!Overlay, d, FALSE).answered = Rings!Overlay.answered
        /\ Rings!Rung(Rings!Overlay, d, FALSE).shown[d] = TRUE
        /\ \A e \in dDoors : e # d => /\ Rings!Rung(Rings!Overlay, d, FALSE).shown[e] = Rings!Overlay.shown[e]
                                      /\ Rings!Rung(Rings!Overlay, d, FALSE).hook[e] = Rings!Overlay.hook[e]
    BY <1>o, RungKinds, Zenon
  <2> DEFINE r == Rings!Rung(Rings!Overlay, d, FALSE)
             o == [r EXCEPT !.answered = None]
  <2>1. /\ r \in Overlays /\ r.shown[d] = TRUE
        /\ \A e \in dDoors : e # d => r.shown[e] = dShown[e] /\ r.hook[e] = dHook[e]
    BY <1>o, <2>b
  <2> HIDE DEF r
  <2>2. o \in Overlays /\ o.shown = r.shown /\ o.hook = r.hook /\ o.answered = None
    BY <2>1 DEF Overlays
  <2>3. dShown' = r.shown /\ dHook' = r.hook /\ dAnswered' = None
    BY <1>1, <2>2 DEF Rings!DoorRings, Rings!Shows, r
  <2>4. dCall' \in [dDoors -> Rings!Stages] /\ dCall'[d] = "ring" /\ \A e \in dDoors : e # d => dCall'[e] = dCall[e]
    BY <1>1, <1>k DEF Rings!DoorRings, DoorKinds, Rings!Stages
  <2>5. DoorKinds'
    <3>1. dChan' \in [dDoors -> {"none", "live", "dead"}]
      BY <1>1, <1>k DEF Rings!DoorRings, DoorKinds
    <3>2. dCrossed' \in BOOLEAN
      BY <1>1, <1>c DEF Rings!DoorRings
    <3> QED
      BY <1>1, <1>k, <2>1, <2>3, <2>4, <3>1, <3>2 DEF Rings!DoorRings, DoorKinds, Overlays
  <2>6. DoorsIdle'
    BY <1>k, <2>1, <2>3, <2>4 DEF DoorsIdle
  <2>7. DoorsAlone'
    <3> SUFFICES ASSUME dCrossed' # TRUE PROVE DoorsAlone'
      BY DEF DoorsAlone
    <3>1. dLast' = d /\ \A e \in dDoors : e # d => dCall'[e] = "none"
      BY <1>1, <1>c, <2>4 DEF Rings!DoorRings
    <3> QED
      BY <1>k, <2>1, <2>3, <2>4, <3>1 DEF DoorsAlone
  <2> QED
    BY <2>5, <2>6, <2>7, <1>q
<1>2. ASSUME NEW d \in dDoors, Rings!PanelAnswers(d) PROVE DoorsInv'
  <2>0. dLast \in dDoors \cup {None}
    BY <1>k DEF DoorKinds
  <2>1. dCall' \in [dDoors -> Rings!Stages] /\ dCall'[d] = "talk" /\ dCall[d] = "ring"
        /\ \A e \in dDoors : e # d => dCall'[e] = dCall[e]
    BY <1>2, <1>k DEF Rings!PanelAnswers, DoorKinds, Rings!Stages
  <2>2. PICK x \in dDoors \cup {None}, y \in dDoors \cup {None} :
            Rings!Shows(Rings!Answered(Rings!Answered(Rings!Overlay, x), y)) /\ {x, y} = {dLast, d}
    BY <1>2, <2>0 DEF Rings!PanelAnswers
  <2> DEFINE a == Rings!Answered(Rings!Overlay, x)
             o == Rings!Answered(a, y)
  <2>3. /\ a \in Overlays /\ (x # None => a.answered = x)
        /\ \A e \in dDoors : (a.shown[e] = dShown[e] /\ a.hook[e] = dHook[e]) \/ a.shown[e] = FALSE
        /\ x # None /\ dAnswered # x => a.shown[x] = FALSE
    BY <1>o, AnsweredKinds
  <2> HIDE DEF a
  <2>4. /\ o \in Overlays
        /\ \A e \in dDoors : (o.shown[e] = a.shown[e] /\ o.hook[e] = a.hook[e]) \/ o.shown[e] = FALSE
        /\ y # None /\ a.answered # y => o.shown[y] = FALSE
    BY <2>3, AnsweredKinds
  <2> HIDE DEF o
  <2>5. dShown' = o.shown /\ dHook' = o.hook /\ dAnswered' = o.answered
    BY <2>2 DEF Rings!Shows, o, a
  <2>6. \A e \in dDoors : (dShown'[e] = dShown[e] /\ dHook'[e] = dHook[e]) \/ dShown'[e] = FALSE
    BY <2>3, <2>4, <2>5
  <2>7. DoorKinds'
    BY <1>2, <1>k, <2>1, <2>4, <2>5 DEF Rings!PanelAnswers, DoorKinds, Overlays
  <2>8. DoorsIdle'
    BY <1>k, <2>1, <2>6 DEF DoorsIdle
  <2>9. DoorsAlone'
    <3> SUFFICES ASSUME dCrossed' # TRUE PROVE DoorsAlone'
      BY DEF DoorsAlone
    <3>1. dCrossed # TRUE /\ dLast' = dLast
      BY <1>2 DEF Rings!PanelAnswers
    <3>2. dLast = d /\ dAnswered # d /\ \A e \in dDoors : e # d => dCall[e] = "none"
      BY <1>k, <2>1, <3>1 DEF DoorsAlone
    <3>3. x = d /\ y = d
      BY <2>2, <3>2
    <3>4. a.shown[d] = FALSE
      BY <1>k, <2>3, <3>2, <3>3
    <3>5. dShown'[d] = FALSE
      BY <2>4, <2>5, <3>4
    <3>6. \A e \in dDoors : e # d => dCall'[e] = "none"
      BY <2>1, <3>2
    <3> QED
      BY <2>1, <3>1, <3>2, <3>5, <3>6 DEF DoorsAlone
  <2> QED
    BY <2>7, <2>8, <2>9, <1>q
<1>3. ASSUME NEW d \in dDoors, Rings!PanelCalls(d) PROVE DoorsInv'
  <2>0. dLast \in dDoors \cup {None}
    BY <1>k DEF DoorKinds
  <2>1. dCall' \in [dDoors -> Rings!Stages] /\ dCall'[d] = "dialed" /\ dCall[d] = "none"
        /\ \A e \in dDoors : e # d => dCall'[e] = dCall[e]
    BY <1>3, <1>k DEF Rings!PanelCalls, DoorKinds, Rings!Stages
  <2> DEFINE a == Rings!Answered(Rings!Overlay, dLast)
  <2>3. /\ a \in Overlays
        /\ \A e \in dDoors : (a.shown[e] = dShown[e] /\ a.hook[e] = dHook[e]) \/ a.shown[e] = FALSE
    BY <1>o, <2>0, AnsweredKinds
  <2>4. dShown' = a.shown /\ dHook' = a.hook /\ dAnswered' = a.answered
    BY <1>3 DEF Rings!PanelCalls, Rings!Shows
  <2> HIDE DEF a
  <2>5. DoorKinds'
    <3>1. dCrossed' \in BOOLEAN
      BY <1>3, <1>c DEF Rings!PanelCalls
    <3> QED
      BY <1>3, <1>k, <2>1, <2>3, <2>4, <3>1 DEF Rings!PanelCalls, DoorKinds, Overlays
  <2>6. DoorsIdle'
    BY <1>k, <2>1, <2>3, <2>4 DEF DoorsIdle
  <2>7. DoorsAlone'
    <3> SUFFICES ASSUME dCrossed' # TRUE PROVE DoorsAlone'
      BY DEF DoorsAlone
    <3>1. \A e \in dDoors : e # d => dCall'[e] = "none"
      BY <1>3, <1>c, <2>1 DEF Rings!PanelCalls
    <3>2. dShown'[d] = TRUE => dHook'[d] = TRUE
      BY <1>k, <2>1, <2>3, <2>4 DEF DoorsIdle
    <3> QED
      BY <2>1, <3>1, <3>2 DEF DoorsAlone
  <2> QED
    BY <2>5, <2>6, <2>7, <1>q
<1>4. ASSUME NEW d \in dDoors, Rings!CallEnds(d) PROVE DoorsInv'
  <2>1. dCall' \in [dDoors -> Rings!Stages] /\ dCall'[d] = "none" /\ dCall[d] # "none"
        /\ \A e \in dDoors : e # d => dCall'[e] = dCall[e]
    BY <1>4, <1>k DEF Rings!CallEnds, DoorKinds, Rings!Stages
  <2> DEFINE h == Rings!Hidden(Rings!Overlay, d)
  <2>2. /\ h \in Overlays /\ h.shown[d] = FALSE
        /\ \A e \in dDoors : e # d => h.shown[e] = dShown[e] /\ h.hook[e] = dHook[e]
    BY <1>o, HiddenKinds
  <2>3. dShown' = h.shown /\ dHook' = h.hook /\ dAnswered' = h.answered
        /\ dLast' = IF dLast = d THEN None ELSE dLast
    BY <1>4 DEF Rings!CallEnds, Rings!Cleared, Rings!Shows
  <2> HIDE DEF h
  <2>4. dCrossed' \in BOOLEAN
    BY <1>4, <1>k DEF Rings!CallEnds, DoorKinds
  <2>5. DoorKinds'
    <3>1. dChan' \in [dDoors -> {"none", "live", "dead"}]
      BY <1>4, <1>k DEF Rings!CallEnds, DoorKinds
    <3> QED
      BY <1>4, <1>k, <2>1, <2>2, <2>3, <2>4, <3>1 DEF Rings!CallEnds, DoorKinds, Overlays
  <2>6. DoorsIdle'
    BY <1>k, <2>1, <2>2, <2>3 DEF DoorsIdle
  <2>7. DoorsAlone'
    <3> SUFFICES ASSUME dCrossed' # TRUE PROVE DoorsAlone'
      BY DEF DoorsAlone
    <3>1. dCrossed # TRUE \/ Rings!Others(d) = {}
      BY <1>4, <1>k DEF Rings!CallEnds, DoorKinds
    <3>2. \A e \in dDoors : e # d => dCall[e] = "none"
      BY <1>k, <2>1, <3>1 DEF DoorsAlone, Rings!Others
    <3>3. \A e \in dDoors : dCall'[e] = "none"
      BY <2>1, <3>2
    <3> QED
      BY <3>3 DEF DoorsAlone
  <2> QED
    BY <2>5, <2>6, <2>7, <1>q
<1>5. ASSUME NEW d \in dDoors, Rings!Webhook(d) PROVE DoorsInv'
  <2>b. /\ Rings!Rung(Rings!Overlay, d, TRUE) \in Overlays /\ Rings!Rung(Rings!Overlay, d, TRUE).answered = Rings!Overlay.answered
        /\ Rings!Rung(Rings!Overlay, d, TRUE).shown[d] = TRUE /\ Rings!Rung(Rings!Overlay, d, TRUE).hook[d] = TRUE
        /\ \A e \in dDoors : e # d => /\ Rings!Rung(Rings!Overlay, d, TRUE).shown[e] = Rings!Overlay.shown[e]
                                      /\ Rings!Rung(Rings!Overlay, d, TRUE).hook[e] = Rings!Overlay.hook[e]
    BY <1>o, RungKinds, Zenon
  <2> DEFINE r == Rings!Rung(Rings!Overlay, d, TRUE)
  <2>1. /\ r \in Overlays /\ r.shown[d] = TRUE /\ r.hook[d] = TRUE /\ r.answered = dAnswered
        /\ \A e \in dDoors : e # d => r.shown[e] = dShown[e] /\ r.hook[e] = dHook[e]
    BY <1>o, <2>b
  <2>2. dShown' = r.shown /\ dHook' = r.hook /\ dAnswered' = r.answered
        /\ UNCHANGED <<dCall, dLast, dChan, dPulse, dTold, dHeard, dCrossed>>
    BY <1>5 DEF Rings!Webhook, Rings!Shows
  <2> HIDE DEF r
  <2>3. DoorKinds'
    BY <1>k, <2>1, <2>2 DEF DoorKinds, Overlays
  <2>4. DoorsIdle' /\ DoorsAlone'
    BY <1>k, <2>1, <2>2 DEF DoorsIdle, DoorsAlone
  <2> QED
    BY <2>3, <2>4, <1>q
<1>6. ASSUME NEW d \in dDoors, Rings!OverlayTimesOut(d) PROVE DoorsInv'
  <2> DEFINE h == Rings!Hidden(Rings!Overlay, d)
  <2>1. /\ h \in Overlays /\ h.shown[d] = FALSE /\ h.answered = dAnswered
        /\ \A e \in dDoors : e # d => h.shown[e] = dShown[e] /\ h.hook[e] = dHook[e]
    BY <1>o, HiddenKinds
  <2>2. dShown' = h.shown /\ dHook' = h.hook /\ dAnswered' = h.answered /\ dCall[d] # "ring"
        /\ UNCHANGED <<dCall, dLast, dChan, dPulse, dTold, dHeard, dCrossed>>
    BY <1>6 DEF Rings!OverlayTimesOut, Rings!Shows
  <2> HIDE DEF h
  <2>3. DoorKinds'
    BY <1>k, <2>1, <2>2 DEF DoorKinds, Overlays
  <2>4. DoorsIdle' /\ DoorsAlone'
    BY <1>k, <2>1, <2>2 DEF DoorsIdle, DoorsAlone
  <2> QED
    BY <2>3, <2>4, <1>q
<1>7. ASSUME NEW d \in dDoors, Rings!TestRing(d) PROVE DoorsInv'
  <2>b. /\ Rings!Rung(Rings!Overlay, d, TRUE) \in Overlays /\ Rings!Rung(Rings!Overlay, d, TRUE).answered = Rings!Overlay.answered
        /\ Rings!Rung(Rings!Overlay, d, TRUE).shown[d] = TRUE /\ Rings!Rung(Rings!Overlay, d, TRUE).hook[d] = TRUE
        /\ \A e \in dDoors : e # d => /\ Rings!Rung(Rings!Overlay, d, TRUE).shown[e] = Rings!Overlay.shown[e]
                                      /\ Rings!Rung(Rings!Overlay, d, TRUE).hook[e] = Rings!Overlay.hook[e]
    BY <1>o, RungKinds, Zenon
  <2> DEFINE r == Rings!Rung(Rings!Overlay, d, TRUE)
             o == [r EXCEPT !.answered = None]
  <2>1. /\ r \in Overlays /\ r.shown[d] = TRUE /\ r.hook[d] = TRUE
        /\ \A e \in dDoors : e # d => r.shown[e] = dShown[e] /\ r.hook[e] = dHook[e]
    BY <1>o, <2>b
  <2> HIDE DEF r
  <2>2. o \in Overlays /\ o.shown = r.shown /\ o.hook = r.hook /\ o.answered = None
    BY <2>1 DEF Overlays
  <2>3. dShown' = r.shown /\ dHook' = r.hook /\ dAnswered' = None
    BY <1>7, <2>2 DEF Rings!TestRing, Rings!Shows, r
  <2>4. DoorKinds'
    BY <1>7, <1>k, <2>1, <2>3 DEF Rings!TestRing, DoorKinds, Overlays
  <2>5. DoorsIdle' /\ DoorsAlone'
    BY <1>7, <1>k, <2>1, <2>3 DEF Rings!TestRing, DoorsIdle, DoorsAlone
  <2> QED
    BY <2>4, <2>5, <1>q
<1>8. ASSUME NEW d \in dDoors, Rings!PulseEnds(d) PROVE DoorsInv'
  BY <1>8, <1>k, <1>q DEF Rings!PulseEnds, DoorKinds, DoorsIdle, DoorsAlone
<1>9. ASSUME NEW d \in dDoors, NEW status \in Rings!Statuses, Rings!AppReleases(d, status) PROVE DoorsInv'
  <2>1. dPulse' \subseteq dDoors /\ dTold' \in {"ok", "error"}
    BY <1>9, <1>k DEF Rings!AppReleases, Rings!Pulsed, DoorKinds
  <2> QED
    BY <1>9, <2>1, <1>k, <1>q DEF Rings!AppReleases, DoorKinds, DoorsIdle, DoorsAlone
<1>10. ASSUME NEW d \in dDoors, NEW status \in Rings!Statuses, Rings!Digit(d, status) PROVE DoorsInv'
  <2>0. Rings!DigitOpens(d, status) \subseteq dDoors
    BY <1>k DEF Rings!DigitOpens, Rings!Meant, DoorKinds
  <2>1. dPulse' \subseteq dDoors
    BY <1>10, <1>k, <2>0 DEF Rings!Digit, Rings!Pulsed, DoorKinds
  <2>2. dHeard' \in [from : dDoors \cup {None}, opened : dDoors \cup {None}]
    BY <1>10, <2>0 DEF Rings!Digit
  <2> QED
    BY <1>10, <2>1, <2>2, <1>k, <1>q DEF Rings!Digit, DoorKinds, DoorsIdle, DoorsAlone
<1>11. CASE UNCHANGED dVars
  BY <1>11, <1>k, <1>q DEF dVars, DoorKinds, DoorsIdle, DoorsAlone
<1> QED
  BY <1>1, <1>2, <1>3, <1>4, <1>5, <1>6, <1>7, <1>8, <1>9, <1>10, <1>11 DEF Rings!Next

LEMMA DoorsAreSound == DoorsInv => Rings!LoneRing /\ Rings!TypesOK
<1> SUFFICES ASSUME DoorsInv PROVE Rings!LoneRing /\ Rings!TypesOK
  OBVIOUS
<1>k. DoorKinds /\ DoorsIdle /\ DoorsAlone
  BY DEF DoorsInv
<1>1. Rings!PanelsKeepUp
  <2> SUFFICES ASSUME ~dCrossed, NEW d \in dDoors
               PROVE  (dCall[d] = "ring" => dShown[d]) /\ (dCall[d] # "ring" /\ ~dHook[d] => ~dShown[d])
    BY DEF Rings!PanelsKeepUp
  <2>1. dShown[d] \in BOOLEAN /\ dHook[d] \in BOOLEAN /\ dCall[d] \in Rings!Stages
    BY <1>k DEF DoorKinds
  <2>2. /\ dCall[d] = "ring" => dShown[d] = TRUE
        /\ dCall[d] # "ring" /\ dShown[d] = TRUE => dHook[d] = TRUE
    BY <1>k, <2>1 DEF DoorsIdle, DoorsAlone, Rings!Stages
  <2> QED
    BY <2>1, <2>2
<1>2. Rings!DigitsGoHome
  BY <1>k DEF Rings!DigitsGoHome, DoorsAlone, Rings!Meant, DoorKinds
<1>3. Rings!TypesOK
  BY <1>k DEF DoorKinds, Rings!TypesOK
<1> QED
  BY <1>1, <1>2, <1>3 DEF Rings!LoneRing

(* When doors ring one at a time, the panels show the door that rings until it *)
(* is answered or over, and a digit is meant for the door that was answered:   *)
(* doorbell telegrams, AMI events and app commands in any order.               *)
THEOREM LoneRingAlways == Spec => []LoneRing
<1> DEFINE Inv == part = "doors" => DoorsInv
<1>a. Rings!SetupAssumption
  BY HouseAssumption
<1>1. Init => Inv
  BY <1>a, InitOf, DoorsStart
<1>2. Inv /\ [Next]_allVars => Inv'
  BY <1>a, StepOf, DoorsStep
<1>3. Inv => LoneRing
  BY <1>a, DoorsAreSound DEF LoneRing
<1> QED
  BY <1>1, <1>2, <1>3, PTL DEF Spec

------------------------------------------------------------------------------
(* The accounts: routes.ts, userAccess.ts, sessions.ts.                        *)
UserLists == [aPeople -> Accts!Account \cup {None}]
Edits == [actor : aPeople, role : {"installer", "superuser", "user"}, previous : UserLists,
          next : UserLists, changed : SUBSET aPeople]

AcctKinds ==
    /\ aUsers \in UserLists /\ aPuts \in 0..aMaxPuts
    /\ aSessions \in [aSids -> Accts!Session \cup {None, Gone}]
    /\ aCodes \in [aPairing -> aPeople \cup {None}]
    /\ aLogin \in [user : aPeople, pw : 0..aMaxPuts] \cup {None}
    /\ aEditor \in UserLists \cup {None} /\ aEdit \in Edits \cup {None}

(* A password is no later than the last list that was sent.                    *)
AcctPasswords ==
    \A u \in aPeople :
        /\ aUsers[u] # None => aUsers[u].pw <= aPuts
        /\ aEdit # None /\ aEdit.previous[u] # None => aEdit.previous[u].pw <= aPuts
        /\ aEdit # None /\ aEdit.next[u] # None => aEdit.next[u].pw <= aPuts

(* A session that is live, and not loose, is of an account there is, and was   *)
(* obtained under its password or a later one.                                 *)
AcctCut ==
    \A s \in aSids : Accts!Live(s) /\ aSessions[s].loose # TRUE =>
        aUsers[aSessions[s].user] # None /\ aSessions[s].pw >= aUsers[aSessions[s].user].pw

(* A list that will be written changes the passwords it says it changes, and   *)
(* was read no later than the passwords there are.                             *)
Honest(e) ==
    \A u \in aPeople : e.previous[u] # None =>
        /\ aUsers[u] # None => aUsers[u].pw >= e.previous[u].pw
        /\ e.next[u] # None /\ u \notin e.changed => e.next[u].pw = e.previous[u].pw
AcctEdit == aEdit # None => Honest(aEdit)

AcctInv == AcctKinds /\ AcctPasswords /\ AcctCut /\ AcctEdit

LEMMA SessionKinds ==
    ASSUME NEW x \in Accts!Session
    PROVE  /\ x.user \in aPeople /\ x.revoked \in BOOLEAN /\ x.pw \in 0..aMaxPuts /\ x.loose \in BOOLEAN
           /\ [x EXCEPT !.loose = TRUE] \in Accts!Session
           /\ [x EXCEPT !.loose = TRUE].loose = TRUE
           /\ [x EXCEPT !.revoked = TRUE] \in Accts!Session
           /\ [x EXCEPT !.revoked = TRUE].revoked = TRUE
  BY DEF Accts!Session

LEMMA AccountKinds ==
    ASSUME NEW x \in Accts!Account, NEW n \in 0..aMaxPuts
    PROVE  /\ x.pw \in 0..aMaxPuts /\ x.enabled \in BOOLEAN
           /\ x.role \in {"installer", "superuser", "user"}
           /\ [x EXCEPT !.pw = n] \in Accts!Account /\ [x EXCEPT !.pw = n].pw = n
           /\ \A b \in BOOLEAN : [x EXCEPT !.enabled = b] \in Accts!Account
                                 /\ [x EXCEPT !.enabled = b].pw = x.pw
           /\ \A r \in {"installer", "superuser", "user"} :
                 [x EXCEPT !.role = r] \in Accts!Account /\ [x EXCEPT !.role = r].pw = x.pw
  BY DEF Accts!Account

(* What is asked of one account leaves the others, and a password changes when *)
(* that is what is asked.                                                      *)
LEMMA WishedKinds ==
    ASSUME Accts!AccountsAssumption, NEW list \in UserLists, NEW w, NEW u \in aPeople, NEW n \in 0..aMaxPuts
    PROVE  /\ Accts!Wished(list, w, u, n) \in UserLists
           /\ \A v \in aPeople : v # u => Accts!Wished(list, w, u, n)[v] = list[v]
           /\ list[u] # None /\ Accts!Wished(list, w, u, n)[u] # None /\ w # "password" =>
                 Accts!Wished(list, w, u, n)[u].pw = list[u].pw
           /\ Accts!Wished(list, w, u, n)[u] # None =>
                 \/ Accts!Wished(list, w, u, n)[u].pw = n /\ w \in {"add", "password"}
                 \/ list[u] # None /\ Accts!Wished(list, w, u, n)[u].pw = list[u].pw
<1> DEFINE old == list[u]
           new == Accts!Wished(list, w, u, n)[u]
<1>1. /\ Accts!Wished(list, w, u, n) = [list EXCEPT ![u] = new]
      /\ old \in Accts!Account \cup {None} /\ aMaxPuts \in Nat
  BY DEF Accts!Wished, UserLists, Accts!AccountsAssumption
<1>2. new = IF w = "remove" THEN None
            ELSE IF old = None
                 THEN IF w = "add" THEN [role |-> "user", enabled |-> TRUE, pw |-> n] ELSE None
            ELSE CASE w = "password"              -> [old EXCEPT !.pw = n]
                   [] w \in {"disable", "enable"} -> [old EXCEPT !.enabled = (w = "enable")]
                   [] w \in {"installer", "superuser"} -> [old EXCEPT !.role = w]
                   [] OTHER                       -> old
  BY DEF Accts!Wished, UserLists
<1> HIDE DEF old, new
<1>3. /\ new \in Accts!Account \cup {None}
      /\ new # None => (new.pw = n /\ w \in {"add", "password"}) \/ (old # None /\ new.pw = old.pw)
      /\ old # None /\ new # None /\ w # "password" => new.pw = old.pw
  <2>1. CASE w = "remove" \/ (old = None /\ w # "add")
    BY <1>2, <2>1
  <2>2. CASE w = "add" /\ old = None
    <3>1. new = [role |-> "user", enabled |-> TRUE, pw |-> n]
      BY <1>2, <2>2
    <3>2. new \in Accts!Account /\ new.pw = n /\ w \in {"add", "password"}
      BY <2>2, <3>1 DEF Accts!Account
    <3> HIDE DEF Accts!Account
    <3> QED
      BY <2>2, <3>2, Zenon
  <2>3. CASE w # "remove" /\ old # None
    <3>0. old \in Accts!Account
      BY <1>1, <2>3
    <3>1. CASE w = "password"
      <4>1. new = [old EXCEPT !.pw = n]
        BY <1>2, <2>3, <3>1
      <4>2. new \in Accts!Account /\ new.pw = n
        BY <1>1, <3>0, <4>1, AccountKinds
      <4> QED
        BY <3>1, <4>2, Zenon
    <3>2. CASE w \in {"disable", "enable"}
      <4>1. PICK b \in BOOLEAN : b = (w = "enable")
        OBVIOUS
      <4>2. new = [old EXCEPT !.enabled = (w = "enable")]
        BY <1>2, <2>3, <3>2
      <4>3. new = [old EXCEPT !.enabled = b]
        BY <4>1, <4>2
      <4>4. new \in Accts!Account /\ new.pw = old.pw
        BY <1>1, <3>0, <4>3, AccountKinds
      <4> QED
        BY <2>3, <4>4
    <3>3. CASE w \in {"installer", "superuser"}
      <4>1. new = [old EXCEPT !.role = w]
        BY <1>2, <2>3, <3>3
      <4>2. new \in Accts!Account /\ new.pw = old.pw
        BY <1>1, <3>0, <3>3, <4>1, AccountKinds
      <4> QED
        BY <2>3, <4>2
    <3>4. CASE w \notin {"remove", "password", "disable", "enable", "installer", "superuser"}
      <4>1. new = old
        BY <1>2, <2>3, <3>4
      <4> QED
        BY <1>1, <2>3, <4>1
    <3> QED
      BY <2>3, <3>1, <3>2, <3>3, <3>4
  <2> QED
    BY <2>1, <2>2, <2>3
<1> QED
  BY <1>1, <1>3 DEF UserLists, old, new

(* The list PUT /users will write, as it was asked for.                        *)
LEMMA PutOfKinds ==
    ASSUME Accts!AccountsAssumption, AcctKinds, NEW actor \in aPeople, NEW u \in aPeople, NEW w,
           NEW n \in 0..aMaxPuts, aUsers[actor] # None
    PROVE  /\ Accts!PutOf(actor, w, u, n) \in Edits /\ Accts!PutOf(actor, w, u, n).previous = aUsers
           /\ Honest(Accts!PutOf(actor, w, u, n))
           /\ \A v \in aPeople : Accts!PutOf(actor, w, u, n).next[v] # None =>
                 \/ Accts!PutOf(actor, w, u, n).next[v].pw = n /\ w \in {"add", "password"}
                 \/ aUsers[v] # None /\ Accts!PutOf(actor, w, u, n).next[v].pw = aUsers[v].pw
<1> DEFINE e == Accts!PutOf(actor, w, u, n)
<1>1. aUsers \in UserLists /\ aUsers[actor] \in Accts!Account
  BY DEF AcctKinds, UserLists
<1>2. aUsers[actor].role \in {"installer", "superuser", "user"} /\ aMaxPuts \in Nat
  BY <1>1 DEF Accts!Account, Accts!AccountsAssumption
<1>3. Accts!Wished(aUsers, w, u, n) \in UserLists
  BY <1>1, WishedKinds
<1>4. {v \in {u} : w = "password"} \in SUBSET aPeople
  OBVIOUS
<1>5. e \in Edits /\ e.previous = aUsers /\ e.next = Accts!Wished(aUsers, w, u, n)
      /\ e.changed = {v \in {u} : w = "password"}
  BY <1>1, <1>2, <1>3, <1>4 DEF Accts!PutOf, Edits
<1> HIDE DEF e
<1>6. Honest(e)
  <2> SUFFICES ASSUME NEW v \in aPeople, aUsers[v] # None
               PROVE  /\ aUsers[v].pw >= aUsers[v].pw
                      /\ e.next[v] # None /\ v \notin e.changed => e.next[v].pw = aUsers[v].pw
    BY <1>5 DEF Honest
  <2>1. aUsers[v].pw \in 0..aMaxPuts
    BY <1>1 DEF UserLists, Accts!Account
  <2>2. aUsers[v].pw >= aUsers[v].pw
    BY <2>1, <1>2
  <2>3. e.next[v] # None /\ v \notin e.changed => e.next[v].pw = aUsers[v].pw
    BY <1>1, <1>5, WishedKinds
  <2> QED
    BY <2>2, <2>3
<1>7. ASSUME NEW v \in aPeople, e.next[v] # None
      PROVE  \/ e.next[v].pw = n /\ w \in {"add", "password"}
             \/ aUsers[v] # None /\ e.next[v].pw = aUsers[v].pw
  <2>1. CASE v = u
    BY <1>1, <1>5, <1>7, <2>1, WishedKinds
  <2>2. CASE v # u
    <3>1. e.next[v] = aUsers[v]
      BY <1>1, <1>5, <2>2, WishedKinds
    <3> QED
      BY <1>7, <3>1
  <2> QED
    BY <2>1, <2>2
<1> QED
  BY <1>5, <1>6, <1>7 DEF e

(* What a written list does to accounts and sessions.                          *)
LEMMA PutKeeps ==
    ASSUME Accts!AccountsAssumption, AcctKinds, AcctCut, NEW e \in Edits, Honest(e),
           NEW keep, Accts!Put(e, keep)
    PROVE  /\ aUsers' \in UserLists /\ aSessions' \in [aSids -> Accts!Session \cup {None, Gone}]
           /\ AcctCut'
           /\ \/ UNCHANGED aUsers
              \/ \A u \in aPeople : /\ (aUsers'[u] = None) <=> (e.next[u] = None)
                                    /\ aUsers'[u] # None => aUsers'[u].pw = e.next[u].pw
                                                           \/ (e.previous[u] # None /\ aUsers'[u].pw = e.previous[u].pw)
<1> DEFINE next == Accts!PutBackBy(e.role, e.previous, e.next)
           gone == Accts!UnseatedUsers(e.previous, next, e.changed)
           kept == Accts!Revoked(gone, e.actor, keep)
<1>k. /\ e.previous \in UserLists /\ e.next \in UserLists /\ e.changed \in SUBSET aPeople
      /\ aUsers \in UserLists /\ aSessions \in [aSids -> Accts!Session \cup {None, Gone}]
      /\ aMaxPuts \in Nat /\ None \notin Accts!Account
  BY DEF AcctKinds, Edits, Accts!AccountsAssumption
<1>1. CASE UNCHANGED <<aUsers, aSessions>>
  <2>1. AcctCut'
    BY <1>1 DEF AcctCut, Accts!Live, Accts!Stored
  <2> QED
    BY <1>1, <1>k, <2>1
<1>2. CASE /\ aUsers' = next
           /\ aSessions' = [s \in aSids |->
                  IF Accts!Live(s) /\ e.previous[aSessions[s].user] = None
                  THEN [kept[s] EXCEPT !.loose = TRUE] ELSE kept[s]]
  <2>0. ASSUME NEW u \in aPeople
        PROVE  /\ next[u] \in Accts!Account \cup {None}
               /\ (next[u] = None) <=> (e.next[u] = None)
               /\ next[u] # None => next[u].pw = e.next[u].pw
                                    \/ (e.previous[u] # None /\ next[u].pw = e.previous[u].pw)
    <3>1. CASE e.role = "superuser" /\ u \in Accts!Installers(e.previous) /\ e.next[u] # None
      <4> DEFINE x == [e.next[u] EXCEPT !.role = "installer", !.pw = e.previous[u].pw]
      <4>1. e.next[u] \in Accts!Account /\ e.previous[u] \in Accts!Account /\ e.previous[u] # None
        BY <1>k, <3>1 DEF UserLists, Accts!Installers
      <4>2. x \in Accts!Account /\ x.pw = e.previous[u].pw
        BY <4>1 DEF Accts!Account
      <4>3. next[u] = x
        BY <3>1 DEF Accts!PutBackBy
      <4> HIDE DEF x, next
      <4> QED
        BY <1>k, <3>1, <4>1, <4>2, <4>3
    <3>2. CASE ~(e.role = "superuser" /\ u \in Accts!Installers(e.previous) /\ e.next[u] # None)
      <4>1. next[u] = e.next[u]
        BY <3>2 DEF Accts!PutBackBy
      <4> HIDE DEF next
      <4>2. e.next[u] \in Accts!Account \cup {None}
        BY <1>k DEF UserLists
      <4>3. (next[u] = None) <=> (e.next[u] = None)
        BY <4>1
      <4>4. next[u].pw = e.next[u].pw
        BY <4>1
      <4> QED
        BY <4>1, <4>2, <4>3, <4>4
    <3> QED
      BY <3>1, <3>2
  <2>1. aUsers' \in UserLists
    BY <1>2, <2>0 DEF Accts!PutBackBy, UserLists
  <2> HIDE DEF next
  <2>2. ASSUME NEW s \in aSids
        PROVE  /\ aSessions'[s] \in Accts!Session \cup {None, Gone}
               /\ ~Accts!Live(s) => aSessions'[s] = aSessions[s]
               /\ Accts!Live(s) /\ e.previous[aSessions[s].user] = None => aSessions'[s].loose = TRUE
               /\ Accts!Live(s) /\ aSessions[s].user \in gone =>
                      aSessions'[s].loose = TRUE \/ aSessions'[s].revoked = TRUE
               /\ Accts!Live(s) /\ e.previous[aSessions[s].user] # None /\ aSessions[s].user \notin gone =>
                      aSessions'[s] = aSessions[s]
    <3>0. /\ kept[s] = IF Accts!Live(s) /\ aSessions[s].user \in gone
                       THEN IF s = keep /\ aSessions[s].user = e.actor
                            THEN [aSessions[s] EXCEPT !.loose = TRUE]
                            ELSE [aSessions[s] EXCEPT !.revoked = TRUE]
                       ELSE aSessions[s]
          /\ aSessions'[s] = IF Accts!Live(s) /\ e.previous[aSessions[s].user] = None
                            THEN [kept[s] EXCEPT !.loose = TRUE] ELSE kept[s]
      BY <1>2 DEF Accts!Revoked
    <3> HIDE DEF kept, gone
    <3>1. CASE ~Accts!Live(s)
      BY <1>k, <3>0, <3>1
    <3>2. CASE Accts!Live(s)
      <4>1. aSessions[s] \in Accts!Session
        BY <1>k, <3>2 DEF Accts!Live, Accts!Stored
      <4> DEFINE l == [aSessions[s] EXCEPT !.loose = TRUE]
                 r == [aSessions[s] EXCEPT !.revoked = TRUE]
      <4>a. l \in Accts!Session /\ l.loose = TRUE /\ r \in Accts!Session /\ r.revoked = TRUE
        BY <4>1, SessionKinds
      <4>b. kept[s] = IF aSessions[s].user \in gone
                      THEN IF s = keep /\ aSessions[s].user = e.actor THEN l ELSE r
                      ELSE aSessions[s]
        BY <3>0, <3>2
      <4> HIDE DEF l, r
      <4>2. kept[s] \in Accts!Session /\ (aSessions[s].user \in gone => kept[s].loose = TRUE \/ kept[s].revoked = TRUE)
        BY <4>1, <4>a, <4>b
      <4>3. [kept[s] EXCEPT !.loose = TRUE] \in Accts!Session /\ [kept[s] EXCEPT !.loose = TRUE].loose = TRUE
        BY <4>2, SessionKinds
      <4> QED
        BY <3>0, <3>2, <4>1, <4>2, <4>3
    <3> QED
      BY <3>1, <3>2
  <2>3. aSessions' \in [aSids -> Accts!Session \cup {None, Gone}]
    <3>1. aSessions' = [s \in aSids |-> aSessions'[s]]
      BY <1>2
    <3> QED
      BY <2>2, <3>1
  <2>4. AcctCut'
    <3> SUFFICES ASSUME NEW s \in aSids, Accts!Live(s)', aSessions'[s].loose # TRUE
                 PROVE  aUsers'[aSessions'[s].user] # None
                        /\ aSessions'[s].pw >= aUsers'[aSessions'[s].user].pw
      BY DEF AcctCut
    <3>1. Accts!Live(s)
      BY <2>2 DEF Accts!Live, Accts!Stored
    <3> DEFINE u == aSessions[s].user
    <3>2. aSessions[s] \in Accts!Session /\ u \in aPeople
      BY <1>k, <3>1 DEF Accts!Live, Accts!Stored, Accts!Session
    <3>r. aSessions'[s].revoked # TRUE
      BY DEF Accts!Live
    <3>3. e.previous[u] # None /\ u \notin gone /\ aSessions'[s] = aSessions[s]
      BY <2>2, <3>1, <3>r
    <3>4. next[u] # None /\ next[u].pw = e.previous[u].pw /\ u \notin e.changed
      BY <3>2, <3>3 DEF Accts!UnseatedUsers, Accts!Unseated
    <3>5. aSessions[s].pw >= aUsers[u].pw /\ aUsers[u] # None
      BY <3>1, <3>3 DEF AcctCut
    <3>6. aUsers[u].pw >= e.previous[u].pw
      BY <3>2, <3>3, <3>5 DEF Honest
    <3>7. /\ aSessions[s].pw \in 0..aMaxPuts /\ aUsers[u].pw \in 0..aMaxPuts
          /\ e.previous[u].pw \in 0..aMaxPuts
      BY <1>k, <3>2, <3>3, <3>5 DEF UserLists, Accts!Account, Accts!Session
    <3> HIDE DEF u
    <3>8. aSessions[s].pw >= e.previous[u].pw
      BY <1>k, <3>5, <3>6, <3>7
    <3>9. aUsers'[u] = next[u] /\ aSessions'[s].user = u
      BY <1>2, <3>3 DEF u
    <3> QED
      BY <3>3, <3>4, <3>8, <3>9
  <2>5. \A u \in aPeople : /\ (aUsers'[u] = None) <=> (e.next[u] = None)
                           /\ aUsers'[u] # None => aUsers'[u].pw = e.next[u].pw
                                                  \/ (e.previous[u] # None /\ aUsers'[u].pw = e.previous[u].pw)
    BY <1>2, <2>0
  <2> QED
    BY <2>1, <2>3, <2>4, <2>5
<1> QED
  BY <1>1, <1>2 DEF Accts!Put

LEMMA AcctStart == Accts!AccountsAssumption /\ Accts!Init => AcctInv
<1> SUFFICES ASSUME Accts!AccountsAssumption, Accts!Init PROVE AcctInv
  OBVIOUS
<1>1. aUsers \in UserLists /\ \A u \in aPeople : aUsers[u] # None => aUsers[u].pw = 0
  BY DEF Accts!AccountsAssumption, Accts!Init, UserLists, Accts!Account
<1>2. AcctKinds
  BY <1>1 DEF AcctKinds, Accts!Init, Accts!AccountsAssumption
<1> QED
  BY <1>1, <1>2 DEF AcctInv, AcctPasswords, AcctCut, AcctEdit, Accts!Init, Accts!Live, Accts!Stored

(* A session that is issued is under the password of the account.              *)
LEMMA IssueKeeps ==
    ASSUME AcctKinds, AcctCut, NEW s \in aSids, NEW u \in aPeople, NEW n \in 0..aMaxPuts,
           NEW b \in BOOLEAN, Accts!Issue(s, u, n, b), UNCHANGED aUsers, aMaxPuts \in Nat,
           aUsers[u] # None, b # TRUE => aUsers[u].pw = n
    PROVE  aSessions' \in [aSids -> Accts!Session \cup {None, Gone}] /\ AcctCut'
<1> DEFINE x == [user |-> u, revoked |-> FALSE, pw |-> n, loose |-> b]
<1>1. x \in Accts!Session /\ x.user = u /\ x.pw = n /\ x.loose = b
  BY DEF Accts!Session
<1> HIDE DEF x
<1>2. /\ aSessions' = [t \in aSids |-> aSessions'[t]] /\ aSessions'[s] = x
      /\ \A t \in aSids : t # s => aSessions'[t] \in {Gone, aSessions[t]}
  BY DEF Accts!Issue, x
<1>3. aSessions \in [aSids -> Accts!Session \cup {None, Gone}]
  BY DEF AcctKinds
<1>4. aSessions' \in [aSids -> Accts!Session \cup {None, Gone}]
  <2>1. \A t \in aSids : aSessions'[t] \in Accts!Session \cup {None, Gone}
    BY <1>1, <1>2, <1>3
  <2> QED
    BY <1>2, <2>1
<1>5. AcctCut'
  <2> SUFFICES ASSUME NEW t \in aSids, Accts!Live(t)', aSessions'[t].loose # TRUE
               PROVE  aUsers[aSessions'[t].user] # None
                      /\ aSessions'[t].pw >= aUsers[aSessions'[t].user].pw
    BY DEF AcctCut
  <2>1. CASE t = s
    <3>1. n >= n
      OBVIOUS
    <3>2. aSessions'[t].pw = n /\ aSessions'[t].user = u /\ aUsers[u].pw = n
      BY <1>1, <1>2, <2>1
    <3> QED
      BY <3>1, <3>2
  <2>2. CASE t # s
    BY <1>2, <2>2 DEF Accts!Live, Accts!Stored, AcctCut
  <2> QED
    BY <2>1, <2>2
<1> QED
  BY <1>4, <1>5

(* A list that was read is still honest when no password got older.            *)
LEMMA HonestLater ==
    ASSUME AcctKinds, AcctPasswords, AcctEdit, UNCHANGED aEdit, aMaxPuts \in Nat, aPuts <= aPuts',
           aPuts' \in 0..aMaxPuts, aUsers' \in UserLists,
           \A u \in aPeople : aUsers'[u] # None =>
               \/ aUsers[u] # None /\ aUsers'[u].pw = aUsers[u].pw
               \/ aUsers'[u].pw = aPuts'
    PROVE  AcctEdit' /\ AcctPasswords'
<1>k. aUsers \in UserLists /\ aPuts \in 0..aMaxPuts /\ aEdit \in Edits \cup {None}
  BY DEF AcctKinds
<1>1. ASSUME aEdit # None, NEW u \in aPeople, aEdit.previous[u] # None
      PROVE  aEdit.previous[u].pw \in 0..aMaxPuts /\ aEdit.previous[u].pw <= aPuts
  BY <1>k, <1>1 DEF Edits, UserLists, Accts!Account, AcctPasswords
<1>6. ASSUME aEdit # None, NEW u \in aPeople, aEdit.next[u] # None
      PROVE  aEdit.next[u].pw \in 0..aMaxPuts /\ aEdit.next[u].pw <= aPuts
  BY <1>k, <1>6 DEF Edits, UserLists, Accts!Account, AcctPasswords
<1>2. \A u \in aPeople : aUsers[u] # None => aUsers[u].pw \in 0..aMaxPuts /\ aUsers[u].pw <= aPuts
  BY <1>k DEF UserLists, Accts!Account, AcctPasswords
<1>3. ASSUME aEdit # None, NEW u \in aPeople, aEdit.previous[u] # None, aUsers'[u] # None
      PROVE  aUsers'[u].pw >= aEdit.previous[u].pw
  <2>1. CASE aUsers[u] # None /\ aUsers'[u].pw = aUsers[u].pw
    BY <1>3, <2>1 DEF AcctEdit, Honest
  <2>2. CASE aUsers'[u].pw = aPuts'
    <3>1. aEdit.previous[u].pw \in 0..aMaxPuts /\ aEdit.previous[u].pw <= aPuts
      BY <1>1, <1>3
    <3> QED
      BY <1>k, <2>2, <3>1
  <2> QED
    BY <1>3, <2>1, <2>2
<1>4. AcctEdit'
  BY <1>3 DEF AcctEdit, Honest
<1>5. AcctPasswords'
  <2> SUFFICES ASSUME NEW u \in aPeople
               PROVE  /\ aUsers'[u] # None => aUsers'[u].pw <= aPuts'
                      /\ aEdit # None /\ aEdit.previous[u] # None => aEdit.previous[u].pw <= aPuts'
                      /\ aEdit # None /\ aEdit.next[u] # None => aEdit.next[u].pw <= aPuts'
    BY DEF AcctPasswords
  <2>1. aUsers'[u] # None => aUsers'[u].pw <= aPuts'
    BY <1>k, <1>2
  <2>2. aEdit # None /\ aEdit.previous[u] # None => aEdit.previous[u].pw <= aPuts'
    BY <1>k, <1>1
  <2>3. aEdit # None /\ aEdit.next[u] # None => aEdit.next[u].pw <= aPuts'
    BY <1>k, <1>6
  <2> QED
    BY <2>1, <2>2, <2>3
<1> QED
  BY <1>4, <1>5

LEMMA AcctStep == Accts!AccountsAssumption /\ AcctInv /\ [Accts!Next]_aVars => AcctInv'
<1> SUFFICES ASSUME Accts!AccountsAssumption, AcctInv, [Accts!Next]_aVars PROVE AcctInv'
  OBVIOUS
<1>k. AcctKinds /\ AcctPasswords /\ AcctCut /\ AcctEdit /\ aMaxPuts \in Nat /\ None \notin Accts!Account
  BY DEF AcctInv, Accts!AccountsAssumption
<1>u. aUsers \in UserLists /\ \A u \in aPeople : aUsers[u] # None => aUsers[u] \in Accts!Account
          /\ aUsers[u].pw \in 0..aMaxPuts
  BY <1>k DEF AcctKinds, UserLists, Accts!Account
<1>q. ASSUME AcctKinds', AcctPasswords', AcctCut', AcctEdit' PROVE AcctInv'
  BY <1>q DEF AcctInv
<1>1. ASSUME NEW u \in aPeople, Accts!LoginStarts(u) PROVE AcctInv'
  <2>1. aLogin' \in [user : aPeople, pw : 0..aMaxPuts] \cup {None}
    BY <1>1, <1>u DEF Accts!LoginStarts, Accts!Enabled
  <2> QED
    BY <1>1, <2>1, <1>k, <1>q DEF Accts!LoginStarts, AcctKinds, AcctPasswords, AcctCut, AcctEdit, Honest,
                                  Accts!Live, Accts!Stored
<1>2. ASSUME NEW s \in aSids, Accts!LoginEnds(s) PROVE AcctInv'
  <2>0. aLogin \in [user : aPeople, pw : 0..aMaxPuts] /\ aLogin.user \in aPeople /\ aLogin.pw \in 0..aMaxPuts
    BY <1>2, <1>k DEF Accts!LoginEnds, AcctKinds
  <2>1. CASE Accts!Enabled(aLogin.user) /\ Accts!Issue(s, aLogin.user, aLogin.pw, aUsers[aLogin.user].pw # aLogin.pw)
    <3>1. aUsers[aLogin.user] # None /\ UNCHANGED aUsers
      BY <1>2, <2>1 DEF Accts!Enabled, Accts!LoginEnds
    <3>2. PICK b \in BOOLEAN : b = (aUsers[aLogin.user].pw # aLogin.pw)
      OBVIOUS
    <3>3. Accts!Issue(s, aLogin.user, aLogin.pw, b) /\ (b # TRUE => aUsers[aLogin.user].pw = aLogin.pw)
      BY <2>1, <3>2
    <3>4. aSessions' \in [aSids -> Accts!Session \cup {None, Gone}] /\ AcctCut'
      BY <1>k, <2>0, <3>1, <3>3, IssueKeeps
    <3> QED
      BY <1>2, <1>k, <3>4, <1>q DEF Accts!LoginEnds, AcctKinds, AcctPasswords, AcctEdit, Honest
  <2>2. CASE UNCHANGED aSessions
    BY <1>2, <2>2, <1>k, <1>q DEF Accts!LoginEnds, AcctKinds, AcctPasswords, AcctCut, AcctEdit, Honest,
                                  Accts!Live, Accts!Stored
  <2> QED
    BY <1>2, <2>1, <2>2 DEF Accts!LoginEnds
<1>3. ASSUME NEW s \in aSids, Accts!Revokes(s) PROVE AcctInv'
  <2>1. aSessions[s] \in Accts!Session
    BY <1>3, <1>k DEF Accts!Revokes, Accts!Live, Accts!Stored, AcctKinds
  <2>2. aSessions' = [aSessions EXCEPT ![s] = [aSessions[s] EXCEPT !.revoked = TRUE]]
    BY <1>3 DEF Accts!Revokes
  <2>3. [aSessions[s] EXCEPT !.revoked = TRUE] \in Accts!Session
        /\ [aSessions[s] EXCEPT !.revoked = TRUE].revoked = TRUE
    BY <2>1, SessionKinds
  <2>4. /\ aSessions' \in [aSids -> Accts!Session \cup {None, Gone}] /\ aSessions'[s].revoked = TRUE
        /\ \A t \in aSids : t # s => aSessions'[t] = aSessions[t]
    BY <1>k, <2>2, <2>3 DEF AcctKinds
  <2>5. AcctCut'
    BY <1>3, <1>k, <2>4 DEF Accts!Revokes, AcctCut, Accts!Live, Accts!Stored
  <2> QED
    BY <1>3, <2>4, <2>5, <1>k, <1>q DEF Accts!Revokes, AcctKinds, AcctPasswords, AcctEdit, Honest
<1>4. ASSUME NEW c \in aPairing, NEW by \in aPeople, NEW u \in aPeople, Accts!PairStarts(c, by, u) PROVE AcctInv'
  <2>1. aCodes' \in [aPairing -> aPeople \cup {None}]
    BY <1>4, <1>k DEF Accts!PairStarts, AcctKinds
  <2> QED
    BY <1>4, <2>1, <1>k, <1>q DEF Accts!PairStarts, AcctKinds, AcctPasswords, AcctCut, AcctEdit, Honest,
                                  Accts!Live, Accts!Stored
<1>5. ASSUME NEW c \in aPairing, NEW s \in aSids, Accts!PairClaims(c, s) PROVE AcctInv'
  <2>0. aCodes[c] \in aPeople /\ aCodes' \in [aPairing -> aPeople \cup {None}]
    BY <1>5, <1>k DEF Accts!PairClaims, AcctKinds
  <2>1. CASE Accts!Enabled(aCodes[c]) /\ Accts!Issue(s, aCodes[c], aUsers[aCodes[c]].pw, FALSE)
    <3>1. aUsers[aCodes[c]] # None /\ UNCHANGED aUsers /\ aUsers[aCodes[c]].pw \in 0..aMaxPuts
      BY <1>5, <1>u, <2>0, <2>1 DEF Accts!Enabled, Accts!PairClaims
    <3>2. PICK b \in BOOLEAN : b = FALSE
      OBVIOUS
    <3>3. Accts!Issue(s, aCodes[c], aUsers[aCodes[c]].pw, b)
      BY <2>1, <3>2
    <3>4. aSessions' \in [aSids -> Accts!Session \cup {None, Gone}] /\ AcctCut'
      BY <1>k, <2>0, <3>1, <3>3, IssueKeeps
    <3> QED
      BY <1>5, <1>k, <2>0, <3>4, <1>q DEF Accts!PairClaims, AcctKinds, AcctPasswords, AcctEdit, Honest
  <2>2. CASE UNCHANGED aSessions
    BY <1>5, <2>0, <2>2, <1>k, <1>q DEF Accts!PairClaims, AcctKinds, AcctPasswords, AcctCut, AcctEdit,
                                        Honest, Accts!Live, Accts!Stored
  <2> QED
    BY <1>5, <2>1, <2>2 DEF Accts!PairClaims
<1>6. ASSUME NEW actor \in aPeople, NEW u \in aPeople, NEW w \in aWishes, Accts!PutStarts(actor, w, u)
      PROVE  AcctInv'
  <2>0. aUsers[actor] # None /\ aPuts \in 0..aMaxPuts /\ aPuts' = aPuts + 1 /\ aPuts' \in 0..aMaxPuts
    BY <1>6, <1>k DEF Accts!PutStarts, Accts!Enabled, AcctKinds
  <2>1. /\ aEdit' = Accts!PutOf(actor, w, u, aPuts') /\ aEdit' \in Edits /\ aEdit'.previous = aUsers
        /\ Honest(aEdit')
        /\ \A v \in aPeople : aEdit'.next[v] # None =>
              \/ aEdit'.next[v].pw = aPuts'
              \/ aUsers[v] # None /\ aEdit'.next[v].pw = aUsers[v].pw
    BY <1>6, <1>k, <2>0, PutOfKinds DEF Accts!PutStarts
  <2>2. AcctKinds'
    BY <1>6, <1>k, <2>0, <2>1 DEF Accts!PutStarts, AcctKinds
  <2>3. AcctPasswords'
    <3>1. \A v \in aPeople : aUsers[v] # None => aUsers[v].pw \in 0..aMaxPuts /\ aUsers[v].pw <= aPuts
      BY <1>k, <1>u DEF AcctPasswords
    <3>2. \A v \in aPeople : aUsers[v] # None => aUsers[v].pw <= aPuts'
      BY <2>0, <3>1
    <3>3. UNCHANGED aUsers
      BY <1>6 DEF Accts!PutStarts
    <3>4. aPuts' <= aPuts'
      BY <2>0
    <3>5. \A v \in aPeople : aEdit'.next[v] # None => aEdit'.next[v].pw <= aPuts'
      BY <2>1, <3>2, <3>4
    <3> QED
      BY <2>1, <3>2, <3>3, <3>5 DEF AcctPasswords
  <2>4. AcctCut' /\ AcctEdit'
    BY <1>6, <1>k, <2>1 DEF Accts!PutStarts, AcctCut, AcctEdit, Honest, Accts!Live, Accts!Stored
  <2> QED
    BY <2>2, <2>3, <2>4, <1>q
<1>7. ASSUME NEW keep \in aSids \cup {None}, Accts!PutEnds(keep) PROVE AcctInv'
  <2>0. aEdit \in Edits /\ Honest(aEdit) /\ Accts!Put(aEdit, keep) /\ aEdit' = None
        /\ UNCHANGED <<aCodes, aLogin, aEditor, aPuts>>
    BY <1>7, <1>k DEF Accts!PutEnds, AcctKinds, AcctEdit
  <2>1. /\ aUsers' \in UserLists /\ aSessions' \in [aSids -> Accts!Session \cup {None, Gone}] /\ AcctCut'
        /\ \/ UNCHANGED aUsers
           \/ \A u \in aPeople : /\ (aUsers'[u] = None) <=> (aEdit.next[u] = None)
                                 /\ aUsers'[u] # None => aUsers'[u].pw = aEdit.next[u].pw
                                                        \/ (aEdit.previous[u] # None /\ aUsers'[u].pw = aEdit.previous[u].pw)
    BY <1>k, <2>0, PutKeeps
  <2>2. AcctKinds'
    BY <1>k, <2>0, <2>1 DEF AcctKinds
  <2>3. AcctPasswords'
    <3>1. ASSUME NEW u \in aPeople, aUsers'[u] # None PROVE aUsers'[u].pw <= aPuts
      <4>1. aEdit # None
        BY <1>7 DEF Accts!PutEnds
      <4>2. CASE UNCHANGED aUsers
        BY <1>k, <3>1, <4>2 DEF AcctPasswords
      <4>3. CASE aEdit.next[u] # None /\ aUsers'[u].pw = aEdit.next[u].pw
        BY <1>k, <4>1, <4>3 DEF AcctPasswords
      <4>4. CASE aEdit.previous[u] # None /\ aUsers'[u].pw = aEdit.previous[u].pw
        BY <1>k, <4>1, <4>4 DEF AcctPasswords
      <4> QED
        BY <2>1, <3>1, <4>2, <4>3, <4>4
    <3> QED
      BY <2>0, <3>1 DEF AcctPasswords
  <2> QED
    BY <2>0, <2>1, <2>2, <2>3, <1>q DEF AcctEdit
<1>8. ASSUME NEW actor \in aPeople, NEW u \in aPeople, NEW w \in aWishes, NEW keep \in aSids \cup {None},
             Accts!PutAtOnce(actor, w, u, keep)
      PROVE  AcctInv'
  <2> DEFINE e == Accts!PutOf(actor, w, u, 0)
  <2>0. /\ aUsers[actor] # None /\ 0 \in 0..aMaxPuts /\ w \notin {"add", "password"} /\ Accts!Put(e, keep)
        /\ UNCHANGED <<aCodes, aEdit, aLogin, aEditor, aPuts>>
    BY <1>8, <1>k DEF Accts!PutAtOnce, Accts!Enabled, Accts!Hashed
  <2>1. /\ e \in Edits /\ e.previous = aUsers /\ Honest(e)
        /\ \A v \in aPeople : e.next[v] # None => aUsers[v] # None /\ e.next[v].pw = aUsers[v].pw
    BY <1>k, <2>0, PutOfKinds
  <2> HIDE DEF e
  <2>2. /\ aUsers' \in UserLists /\ aSessions' \in [aSids -> Accts!Session \cup {None, Gone}] /\ AcctCut'
        /\ \/ UNCHANGED aUsers
           \/ \A v \in aPeople : /\ (aUsers'[v] = None) <=> (e.next[v] = None)
                                 /\ aUsers'[v] # None => aUsers'[v].pw = e.next[v].pw
                                                        \/ (e.previous[v] # None /\ aUsers'[v].pw = e.previous[v].pw)
    BY <1>k, <2>0, <2>1, PutKeeps
  <2>3. \A v \in aPeople : aUsers'[v] # None => aUsers[v] # None /\ aUsers'[v].pw = aUsers[v].pw
    BY <2>1, <2>2
  <2>4. aPuts \in 0..aMaxPuts /\ aPuts' = aPuts /\ aPuts <= aPuts' /\ aPuts' \in 0..aMaxPuts
    BY <1>k, <2>0 DEF AcctKinds
  <2>5. AcctEdit' /\ AcctPasswords'
    BY <1>k, <2>0, <2>2, <2>3, <2>4, HonestLater
  <2>6. AcctKinds'
    BY <1>k, <2>0, <2>2 DEF AcctKinds
  <2> QED
    BY <2>2, <2>5, <2>6, <1>q
<1>9. CASE Accts!EditorOpens
  BY <1>9, <1>u, <1>k, <1>q DEF Accts!EditorOpens, AcctKinds, AcctPasswords, AcctCut, AcctEdit, Honest,
                                Accts!Live, Accts!Stored
<1>10. ASSUME NEW new \in SUBSET aPeople, Accts!EditorSaves(new) PROVE AcctInv'
  <2>0. /\ aEditor \in UserLists /\ aPuts \in 0..aMaxPuts /\ aPuts <= aPuts' /\ aPuts' \in 0..aMaxPuts
        /\ aEditor' = None /\ UNCHANGED <<aCodes, aEdit, aLogin>>
    BY <1>10, <1>k DEF Accts!EditorSaves, AcctKinds
  <2>1. CASE UNCHANGED <<aUsers, aSessions>>
    <3>1. AcctCut'
      BY <1>k, <2>1 DEF AcctCut, Accts!Live, Accts!Stored
    <3>2. AcctEdit' /\ AcctPasswords'
      BY <1>k, <1>u, <2>0, <2>1, HonestLater
    <3> QED
      BY <1>k, <2>0, <2>1, <3>1, <3>2, <1>q DEF AcctKinds
  <2>2. CASE /\ \A u \in aPeople \ new : aEditor[u] # None => aUsers[u] # None
             /\ aUsers' = [u \in aPeople |-> IF aEditor[u] = None THEN None
                   ELSE [aEditor[u] EXCEPT !.pw = IF u \in new THEN aPuts' ELSE aUsers[u].pw]]
             /\ aSessions' = [s \in aSids |->
                   IF Accts!Stored(s) /\ (aSessions[s].user \in new \/ aEditor[aSessions[s].user] = None)
                   THEN [aSessions[s] EXCEPT !.loose = TRUE] ELSE aSessions[s]]
    <3>1. ASSUME NEW u \in aPeople
          PROVE  /\ aUsers'[u] \in Accts!Account \cup {None}
                 /\ (aUsers'[u] = None) <=> (aEditor[u] = None)
                 /\ aUsers'[u] # None =>
                       \/ u \in new /\ aUsers'[u].pw = aPuts'
                       \/ u \notin new /\ aUsers[u] # None /\ aUsers'[u].pw = aUsers[u].pw
      <4>1. CASE aEditor[u] = None
        BY <2>2, <4>1
      <4>2. CASE aEditor[u] # None
        <5> DEFINE n == IF u \in new THEN aPuts' ELSE aUsers[u].pw
        <5>1. aEditor[u] \in Accts!Account
          BY <2>0, <4>2 DEF UserLists
        <5>2. n \in 0..aMaxPuts
          BY <1>u, <2>0, <2>2, <4>2
        <5>3. aUsers'[u] = [aEditor[u] EXCEPT !.pw = n]
          BY <2>2, <4>2
        <5>4. /\ u \in new => n = aPuts'
              /\ u \notin new => aUsers[u] # None /\ n = aUsers[u].pw
          BY <2>2, <4>2
        <5> HIDE DEF n
        <5>a. [aEditor[u] EXCEPT !.pw = n] \in Accts!Account /\ [aEditor[u] EXCEPT !.pw = n].pw = n
          BY <5>1, <5>2, AccountKinds
        <5>5. aUsers'[u] \in Accts!Account /\ aUsers'[u].pw = n
          BY <5>3, <5>a
        <5>6. aUsers'[u] # None
          BY <1>k, <5>5
        <5> QED
          BY <4>2, <5>4, <5>5, <5>6, Zenon
      <4> QED
        BY <4>1, <4>2
    <3>2. aUsers' \in UserLists
      <4>1. aUsers' = [u \in aPeople |-> aUsers'[u]]
        BY <2>2
      <4> QED
        BY <3>1, <4>1 DEF UserLists
    <3>3. ASSUME NEW s \in aSids
          PROVE  /\ aSessions'[s] \in Accts!Session \cup {None, Gone}
                 /\ ~Accts!Stored(s) => aSessions'[s] = aSessions[s]
                 /\ Accts!Stored(s) /\ (aSessions[s].user \in new \/ aEditor[aSessions[s].user] = None) =>
                       aSessions'[s].loose = TRUE
                 /\ Accts!Stored(s) /\ ~(aSessions[s].user \in new \/ aEditor[aSessions[s].user] = None) =>
                       aSessions'[s] = aSessions[s]
      <4>1. aSessions[s] \in Accts!Session \cup {None, Gone} /\ (Accts!Stored(s) => aSessions[s] \in Accts!Session)
        BY <1>k DEF AcctKinds, Accts!Stored
      <4>2. CASE Accts!Stored(s) /\ (aSessions[s].user \in new \/ aEditor[aSessions[s].user] = None)
        <5>1. aSessions'[s] = [aSessions[s] EXCEPT !.loose = TRUE]
          BY <2>2, <4>2
        <5>a. aSessions[s] \in Accts!Session
          BY <4>1, <4>2
        <5>b. [aSessions[s] EXCEPT !.loose = TRUE] \in Accts!Session /\ [aSessions[s] EXCEPT !.loose = TRUE].loose = TRUE
          BY <5>a, SessionKinds
        <5>2. aSessions'[s] \in Accts!Session /\ aSessions'[s].loose = TRUE
          BY <5>1, <5>b
        <5> QED
          BY <4>2, <5>2
      <4>3. CASE ~(Accts!Stored(s) /\ (aSessions[s].user \in new \/ aEditor[aSessions[s].user] = None))
        <5>1. aSessions'[s] = aSessions[s]
          BY <2>2, <4>3
        <5> QED
          BY <4>1, <4>3, <5>1
      <4> QED
        BY <4>2, <4>3
    <3>4. aSessions' \in [aSids -> Accts!Session \cup {None, Gone}]
      <4>1. aSessions' = [s \in aSids |-> aSessions'[s]]
        BY <2>2
      <4> QED
        BY <3>3, <4>1
    <3>5. AcctCut'
      <4> SUFFICES ASSUME NEW s \in aSids, Accts!Live(s)', aSessions'[s].loose # TRUE
                   PROVE  aUsers'[aSessions'[s].user] # None
                          /\ aSessions'[s].pw >= aUsers'[aSessions'[s].user].pw
        BY DEF AcctCut
      <4>1. Accts!Stored(s)
        BY <3>3 DEF Accts!Live, Accts!Stored
      <4>2. aSessions'[s] = aSessions[s] /\ aSessions[s].user \notin new /\ aEditor[aSessions[s].user] # None
        BY <3>3, <4>1
      <4>3. aSessions[s].user \in aPeople
        BY <1>k, <4>1 DEF AcctKinds, Accts!Stored, Accts!Session
      <4>4. aUsers[aSessions[s].user] # None /\ aSessions[s].pw >= aUsers[aSessions[s].user].pw
        BY <1>k, <4>2 DEF AcctCut, Accts!Live, Accts!Stored
      <4>5. aUsers'[aSessions[s].user] # None /\ aUsers'[aSessions[s].user].pw = aUsers[aSessions[s].user].pw
        BY <3>1, <4>2, <4>3
      <4> QED
        BY <4>2, <4>4, <4>5
    <3>6. AcctEdit' /\ AcctPasswords'
      BY <1>k, <2>0, <3>1, <3>2, HonestLater
    <3> QED
      BY <1>k, <2>0, <3>2, <3>4, <3>5, <3>6, <1>q DEF AcctKinds
  <2> QED
    BY <1>10, <2>1, <2>2 DEF Accts!EditorSaves
<1>11. CASE UNCHANGED aVars
  BY <1>11, <1>k, <1>q DEF aVars, AcctKinds, AcctPasswords, AcctCut, AcctEdit, Honest, Accts!Live, Accts!Stored
<1>12. {} \in SUBSET aPeople /\ \A u \in aPeople : {u} \in SUBSET aPeople
  OBVIOUS
<1> QED
  BY <1>1, <1>2, <1>3, <1>4, <1>5, <1>6, <1>7, <1>8, <1>9, <1>10, <1>11, <1>12 DEF Accts!Next

LEMMA AcctIsSound == Accts!AccountsAssumption /\ AcctInv => Accts!CutOff /\ Accts!TypesOK
  BY DEF AcctInv, AcctKinds, AcctCut, Accts!CutOff, Accts!TypesOK, Accts!Refreshes, UserLists, Accts!Live

(* Whoever gets a new password is signed out everywhere, whatever logins,      *)
(* pairings, lists on their way and open editors there are at the time: PUT    *)
(* /users, POST /auth/login, the house editor and sessions.ts.                 *)
THEOREM CutOffAlways == Spec => []CutOff
<1> DEFINE Inv == part = "accounts" => AcctInv
<1>a. Accts!AccountsAssumption
  BY HouseAssumption
<1>1. Init => Inv
  BY <1>a, InitOf, AcctStart
<1>2. Inv /\ [Next]_allVars => Inv'
  BY <1>a, StepOf, AcctStep
<1>3. Inv => CutOff
  BY <1>a, AcctIsSound DEF CutOff
<1> QED
  BY <1>1, <1>2, <1>3, PTL DEF Spec

------------------------------------------------------------------------------
(* The link to Spotify: media/spotify.ts.                                      *)

LEMMA SpotifySets ==
    ASSUME NEW S
    PROVE  (Spotify!IsFiniteSet(S) <=> IsFiniteSet(S)) /\ Spotify!Cardinality(S) = Cardinality(S)
  BY DEF Spotify!IsFiniteSet, IsFiniteSet, Spotify!Cardinality, Cardinality

Stores == [app : pApps \cup {None}, tokens : pApps \cup {None}, fresh : BOOLEAN]
TokenCalls == [op : {"exchange", "refresh"}, app : pApps, id : Nat]

SpotifyKinds ==
    /\ pStore \in Stores /\ pLinked \in BOOLEAN /\ pCrossed \in BOOLEAN
    /\ pLogins \in 0..pMaxLogins /\ pNonces \subseteq 1..pLogins /\ pUsed \subseteq 1..pLogins
    /\ pCalls \subseteq TokenCalls /\ IsFiniteSet(pCalls) /\ Cardinality(pCalls) <= pMaxCalls
    /\ pUsed \cap pNonces = {}

(* While nothing crossed: what is linked is what the store has, the tokens     *)
(* are the app's, and so are the requests; one that refreshes has a link.      *)
SpotifyLinked ==
    pCrossed # TRUE =>
        /\ (pStore.tokens # None) <=> (pLinked = TRUE)
        /\ pStore.tokens \in {None, pStore.app}
        /\ \A c \in pCalls : c.app = pStore.app /\ (c.op = "refresh" => pLinked = TRUE)

SpotifyInv == SpotifyKinds /\ SpotifyLinked

LEMMA SpotifyStart == Spotify!SpotifyAssumption /\ Spotify!Init => SpotifyInv
<1> SUFFICES ASSUME Spotify!SpotifyAssumption, Spotify!Init PROVE SpotifyInv
  OBVIOUS
<1>1. SpotifyKinds
  <2>1. pStore \in Stores
    BY DEF Spotify!Init, Stores
  <2>2. IsFiniteSet({}) /\ Cardinality({}) = 0 /\ pMaxCalls \in Nat /\ pMaxLogins \in Nat
    BY FS_EmptySet DEF Spotify!SpotifyAssumption
  <2>3. pLogins \in 0..pMaxLogins /\ pNonces \subseteq 1..pLogins /\ pUsed \subseteq 1..pLogins
    BY <2>2 DEF Spotify!Init
  <2>4. pCalls \subseteq TokenCalls /\ IsFiniteSet(pCalls) /\ Cardinality(pCalls) <= pMaxCalls
    BY <2>2 DEF Spotify!Init
  <2>5. pLinked \in BOOLEAN /\ pCrossed \in BOOLEAN /\ pUsed \cap pNonces = {}
    BY DEF Spotify!Init
  <2> QED
    BY <2>1, <2>3, <2>4, <2>5 DEF SpotifyKinds
<1>2. SpotifyLinked
  BY DEF SpotifyLinked, Spotify!Init
<1> QED
  BY <1>1, <1>2 DEF SpotifyInv

(* A request more, or one less, leaves their number within its bound.          *)
LEMMA CallMore ==
    ASSUME Spotify!SpotifyAssumption, SpotifyKinds, Cardinality(pCalls) < pMaxCalls, NEW c \in TokenCalls,
           pCalls' = pCalls \cup {c}
    PROVE  pCalls' \subseteq TokenCalls /\ IsFiniteSet(pCalls') /\ Cardinality(pCalls') <= pMaxCalls
<1>1. IsFiniteSet(pCalls) /\ Cardinality(pCalls) \in Nat /\ pMaxCalls \in Nat
  BY FS_CardinalityType DEF SpotifyKinds, Spotify!SpotifyAssumption
<1>2. IsFiniteSet(pCalls')
  BY <1>1, FS_AddElement
<1>3. Cardinality(pCalls') = IF c \in pCalls THEN Cardinality(pCalls) ELSE Cardinality(pCalls) + 1
  BY <1>1, FS_AddElement
<1>4. Cardinality(pCalls') <= pMaxCalls
  BY <1>1, <1>3
<1> QED
  BY <1>2, <1>4 DEF SpotifyKinds

LEMMA CallLess ==
    ASSUME Spotify!SpotifyAssumption, SpotifyKinds, NEW c \in pCalls, pCalls' = pCalls \ {c}
    PROVE  pCalls' \subseteq TokenCalls /\ IsFiniteSet(pCalls') /\ Cardinality(pCalls') <= pMaxCalls
<1>1. IsFiniteSet(pCalls) /\ Cardinality(pCalls) \in Nat /\ pMaxCalls \in Nat /\ Cardinality(pCalls) <= pMaxCalls
  BY FS_CardinalityType DEF SpotifyKinds, Spotify!SpotifyAssumption
<1>2. IsFiniteSet(pCalls') /\ Cardinality(pCalls') = Cardinality(pCalls) - 1
  BY <1>1, FS_RemoveElement
<1>3. Cardinality(pCalls') <= pMaxCalls
  BY <1>1, <1>2
<1> QED
  BY <1>2, <1>3 DEF SpotifyKinds

LEMMA SpotifyStep == Spotify!SpotifyAssumption /\ SpotifyInv /\ [Spotify!Next]_pVars => SpotifyInv'
<1> SUFFICES ASSUME Spotify!SpotifyAssumption, SpotifyInv, [Spotify!Next]_pVars PROVE SpotifyInv'
  OBVIOUS
<1>k. SpotifyKinds /\ SpotifyLinked
  BY DEF SpotifyInv
<1>s. pStore \in Stores /\ pCrossed \in BOOLEAN /\ None \notin pApps
  BY <1>k DEF SpotifyKinds, Spotify!SpotifyAssumption
<1>c. /\ Spotify!Cleared(pStore) \in Stores /\ Spotify!Cleared(pStore).tokens = None
      /\ Spotify!Cleared(pStore).app = pStore.app
  BY <1>s DEF Spotify!Cleared, Stores
<1>q. ASSUME SpotifyKinds', SpotifyLinked' PROVE SpotifyInv'
  BY <1>q DEF SpotifyInv
<1>1. ASSUME NEW app \in pApps, Spotify!SaveAppCredentials(app) PROVE SpotifyInv'
  <2>1. /\ Spotify!Half(pStore, app) \in Stores /\ Spotify!Credentials(pStore, app) \in Stores
        /\ Spotify!Credentials(pStore, app).tokens = None
    BY <1>s DEF Spotify!Half, Spotify!Credentials, Spotify!Cleared, Stores
  <2>2. pStore' \in Stores /\ pCrossed' \in BOOLEAN
    BY <1>1, <1>s, <2>1 DEF Spotify!SaveAppCredentials
  <2>3. SpotifyKinds'
    BY <1>1, <1>k, <2>2 DEF Spotify!SaveAppCredentials, SpotifyKinds
  <2>4. SpotifyLinked'
    <3> SUFFICES ASSUME pCrossed' # TRUE PROVE SpotifyLinked'
      BY DEF SpotifyLinked
    <3>1. pStore'.tokens = None /\ pCalls' = {} /\ pLinked' = FALSE
      BY <1>1, <1>s, <2>1 DEF Spotify!SaveAppCredentials
    <3> QED
      BY <3>1 DEF SpotifyLinked
  <2> QED
    BY <2>3, <2>4, <1>q
<1>2. CASE Spotify!Disconnect
  <2>1. pStore' \in Stores /\ pCrossed' \in BOOLEAN
    BY <1>2, <1>s, <1>c DEF Spotify!Disconnect
  <2>2. SpotifyKinds'
    BY <1>2, <1>k, <2>1 DEF Spotify!Disconnect, SpotifyKinds
  <2>3. SpotifyLinked'
    <3> SUFFICES ASSUME pCrossed' # TRUE PROVE SpotifyLinked'
      BY DEF SpotifyLinked
    <3>1. pStore'.tokens = None /\ pCalls' = {} /\ pLinked' = FALSE
      BY <1>2, <1>s, <1>c DEF Spotify!Disconnect
    <3> QED
      BY <3>1 DEF SpotifyLinked
  <2> QED
    BY <2>2, <2>3, <1>q
<1>3. CASE Spotify!Login
  <2>1. SpotifyKinds'
    BY <1>3, <1>k DEF Spotify!Login, SpotifyKinds, Spotify!SpotifyAssumption
  <2>2. SpotifyLinked'
    BY <1>3, <1>k DEF Spotify!Login, SpotifyLinked
  <2> QED
    BY <2>1, <2>2, <1>q
<1>4. CASE Spotify!Refresh
  <2>1. PICK id \in 1..pMaxCalls : pCalls' = pCalls \cup {[op |-> "refresh", app |-> pStore.tokens, id |-> id]}
    BY <1>4 DEF Spotify!Refresh
  <2> DEFINE c == [op |-> "refresh", app |-> pStore.tokens, id |-> id]
  <2>2. c \in TokenCalls
    BY <1>4, <1>s DEF Spotify!Refresh, Stores, TokenCalls, Spotify!SpotifyAssumption
  <2>f. c.app = pStore.tokens /\ c.op = "refresh"
    OBVIOUS
  <2> HIDE DEF c
  <2>3. SpotifyKinds'
    BY <1>4, <1>k, <2>1, <2>2, CallMore, SpotifySets DEF Spotify!Refresh, SpotifyKinds, c
  <2>4. SpotifyLinked'
    BY <1>4, <1>k, <2>1, <2>f DEF Spotify!Refresh, SpotifyLinked, c
  <2> QED
    BY <2>3, <2>4, <1>q
<1>5. CASE Spotify!Ages
  <2>1. pStore' \in Stores /\ pStore'.app = pStore.app /\ pStore'.tokens = pStore.tokens
    BY <1>5, <1>s DEF Spotify!Ages, Stores
  <2> QED
    BY <1>5, <1>k, <2>1, <1>q DEF Spotify!Ages, SpotifyKinds, SpotifyLinked
<1>6. CASE Spotify!Restart
  <2>1. SpotifyKinds'
    BY <1>6, <1>k, FS_EmptySet DEF Spotify!Restart, SpotifyKinds, Spotify!SpotifyAssumption
  <2> QED
    BY <1>6, <1>k, <2>1, <1>q DEF Spotify!Restart, SpotifyLinked
<1>7. ASSUME NEW n \in pNonces, Spotify!Expires(n) PROVE SpotifyInv'
  BY <1>7, <1>k, <1>q DEF Spotify!Expires, SpotifyKinds, SpotifyLinked
<1>8. ASSUME NEW n \in pNonces, Spotify!Callback(n) PROVE SpotifyInv'
  <2> DEFINE c == [op |-> "exchange", app |-> pStore.app, id |-> n]
  <2>1. c \in TokenCalls
    BY <1>8, <1>k, <1>s DEF Spotify!Callback, Stores, TokenCalls, SpotifyKinds
  <2>f. c.app = pStore.app /\ c.op = "exchange" /\ pCalls' = pCalls \cup {c}
    BY <1>8 DEF Spotify!Callback
  <2> HIDE DEF c
  <2>2. SpotifyKinds'
    BY <1>8, <1>k, <2>1, <2>f, CallMore, SpotifySets DEF Spotify!Callback, SpotifyKinds
  <2>3. SpotifyLinked'
    BY <1>8, <1>k, <2>f DEF Spotify!Callback, SpotifyLinked
  <2> QED
    BY <2>2, <2>3, <1>q
<1>9. ASSUME NEW c \in pCalls, Spotify!Granted(c) PROVE SpotifyInv'
  <2> DEFINE s == [pStore EXCEPT !.tokens = c.app, !.fresh = TRUE]
  <2>0. c \in TokenCalls /\ c.app \in pApps /\ c.op \in {"exchange", "refresh"}
    BY <1>k DEF SpotifyKinds, TokenCalls
  <2>1. s \in Stores /\ s.app = pStore.app /\ s.tokens = c.app
    BY <2>0, <1>s DEF Stores
  <2>2. \/ pStore' = s /\ UNCHANGED pCrossed
        \/ pStore' = pStore /\ pCrossed' = TRUE
    BY <1>9 DEF Spotify!Granted, Spotify!Writes
  <2> HIDE DEF s
  <2>3. SpotifyKinds'
    BY <1>9, <1>k, <1>s, <2>1, <2>2, CallLess DEF Spotify!Granted, SpotifyKinds
  <2>4. SpotifyLinked'
    <3> SUFFICES ASSUME pCrossed' # TRUE PROVE SpotifyLinked'
      BY DEF SpotifyLinked
    <3>1. pStore' = s /\ pCrossed # TRUE
      BY <2>2
    <3>2. c.app = pStore.app /\ (c.op = "refresh" => pLinked = TRUE)
      BY <1>k, <3>1 DEF SpotifyLinked
    <3>3. pLinked' = TRUE /\ pCalls' \subseteq pCalls
      BY <1>9, <2>0, <3>2 DEF Spotify!Granted
    <3> QED
      BY <1>k, <1>s, <2>0, <2>1, <3>1, <3>2, <3>3 DEF SpotifyLinked
  <2> QED
    BY <2>3, <2>4, <1>q
<1>10. ASSUME NEW c \in pCalls, Spotify!Refused(c) PROVE SpotifyInv'
  <2>1. pStore' \in Stores /\ pCrossed' \in BOOLEAN
    BY <1>10, <1>s, <1>c DEF Spotify!Refused
  <2>2. SpotifyKinds'
    BY <1>10, <1>k, <2>1, CallLess DEF Spotify!Refused, SpotifyKinds
  <2>3. SpotifyLinked'
    <3> SUFFICES ASSUME pCrossed' # TRUE PROVE SpotifyLinked'
      BY DEF SpotifyLinked
    <3>1. pStore'.tokens = None /\ pCalls' = {} /\ pLinked' = FALSE
      BY <1>10, <1>s, <1>c DEF Spotify!Refused
    <3> QED
      BY <3>1 DEF SpotifyLinked
  <2> QED
    BY <2>2, <2>3, <1>q
<1>11. ASSUME NEW c \in pCalls, Spotify!Failed(c) PROVE SpotifyInv'
  <2>1. SpotifyKinds'
    BY <1>11, <1>k, CallLess DEF Spotify!Failed, SpotifyKinds
  <2> QED
    BY <1>11, <1>k, <2>1, <1>q DEF Spotify!Failed, SpotifyLinked
<1>12. CASE UNCHANGED pVars
  BY <1>12, <1>k, <1>q DEF pVars, SpotifyKinds, SpotifyLinked
<1> QED
  BY <1>1, <1>2, <1>3, <1>4, <1>5, <1>6, <1>7, <1>8, <1>9, <1>10, <1>11, <1>12 DEF Spotify!Next

LEMMA SpotifyIsSound == Spotify!SpotifyAssumption /\ SpotifyInv => Spotify!LinkIsTheWish /\ Spotify!TypesOK
<1> SUFFICES ASSUME Spotify!SpotifyAssumption, SpotifyInv PROVE Spotify!LinkIsTheWish /\ Spotify!TypesOK
  OBVIOUS
<1>k. SpotifyKinds /\ SpotifyLinked
  BY DEF SpotifyInv
<1>1. ~pCrossed => (pStore.tokens # None) = pLinked
  BY <1>k DEF SpotifyKinds, SpotifyLinked
<1>2. ~pCrossed => pStore.tokens \in {None, pStore.app}
  BY <1>k DEF SpotifyKinds, SpotifyLinked
<1>3. Spotify!TypesOK
  BY <1>k, SpotifySets DEF SpotifyKinds, Stores, Spotify!TypesOK
<1> QED
  BY <1>1, <1>2, <1>3, <1>k DEF Spotify!LinkIsTheWish, SpotifyKinds

(* While no save, disconnect or refusal crosses a request for tokens, the      *)
(* household is linked to Spotify exactly when its last login was the last     *)
(* word, with the tokens of its credentials, and no login is exchanged twice:  *)
(* the callback and the token refreshes of media/spotify.ts.                   *)
THEOREM LinkIsTheWishAlways == Spec => []LinkIsTheWish
<1> DEFINE Inv == part = "spotify" => SpotifyInv
<1>a. Spotify!SpotifyAssumption
  BY HouseAssumption
<1>1. Init => Inv
  BY <1>a, InitOf, SpotifyStart
<1>2. Inv /\ [Next]_allVars => Inv'
  BY <1>a, StepOf, SpotifyStep
<1>3. Inv => LinkIsTheWish
  BY <1>a, SpotifyIsSound DEF LinkIsTheWish
<1> QED
  BY <1>1, <1>2, <1>3, PTL DEF Spec

------------------------------------------------------------------------------
(* The telephone book: voip/normalize.ts, voip/asteriskConfig.ts, ringTargets.ts. *)
------------------------------------------------------------------------------
(* The telephone book: voip/normalize.ts.                                      *)
BookNumber == Nat \cup {None}
BookExt == (Nat \ {0}) \cup {None}
BookAccount == [id : Nat, user : bPeople \cup {None}, ext : BookExt, pw : BookNumber]
BookGroup == [id : Nat, ext : BookExt, members : Seq(Nat)]
BookDoor == [ext : BookExt, pw : BookNumber, group : BookNumber, buttons : Seq(Nat)]
Books == [users : SUBSET bPeople, link : [bPeople -> BookNumber], eps : Seq(BookAccount),
          groups : Seq(BookGroup), door : BookDoor, fresh : Nat, typed : SUBSET Nat]

(* Ids are each used once, and so are numbers, by accounts, groups and door,   *)
(* except those that were typed.                                               *)
IdsApart(h) ==
    /\ \A i, j \in DOMAIN h.eps : h.eps[i].id = h.eps[j].id => i = j
    /\ \A i, j \in DOMAIN h.groups : h.groups[i].id = h.groups[j].id => i = j
    /\ \A i \in DOMAIN h.eps : h.eps[i].id < h.fresh
    /\ \A i \in DOMAIN h.groups : h.groups[i].id < h.fresh
    /\ h.fresh > 1
Free(h, n) == n = None \/ n \in h.typed
ExtsApart(h) ==
    /\ \A i, j \in DOMAIN h.eps : h.eps[i].ext = h.eps[j].ext => Free(h, h.eps[i].ext) \/ i = j
    /\ \A i, j \in DOMAIN h.groups : h.groups[i].ext = h.groups[j].ext => Free(h, h.groups[i].ext) \/ i = j
    /\ \A i \in DOMAIN h.eps, j \in DOMAIN h.groups : h.eps[i].ext = h.groups[j].ext => Free(h, h.eps[i].ext)
    /\ \A i \in DOMAIN h.eps : h.eps[i].ext = h.door.ext => Free(h, h.eps[i].ext)
    /\ \A i \in DOMAIN h.groups : h.groups[i].ext = h.door.ext => Free(h, h.groups[i].ext)
BookDraft(h) == h \in Books /\ IdsApart(h) /\ ExtsApart(h)

(* A normalised book: one account per user, noted with it; nothing is missing. *)
Owned(h) ==
    /\ \A i \in DOMAIN h.eps : h.eps[i].user \in h.users /\ h.link[h.eps[i].user] = h.eps[i].id
    /\ \A i, j \in DOMAIN h.eps : h.eps[i].user = h.eps[j].user => i = j
    /\ \A u \in bPeople : (\A i \in DOMAIN h.eps : h.eps[i].user # u) => h.link[u] = None
EpFull(h, i) == h.eps[i].ext # None /\ h.eps[i].pw # None
EpsFull(h) == \A i \in DOMAIN h.eps : EpFull(h, i)
GroupFull(h, i) ==
    /\ h.groups[i].ext # None
    /\ \A k \in DOMAIN h.groups[i].members : h.groups[i].members[k] \in Book!IdsOf(h.eps)
GroupsFull(h) == \A i \in DOMAIN h.groups : GroupFull(h, i)
HasHome(h) == h.groups = <<>> => h.eps = <<>>
DoorFull(h) == h.door.ext # None /\ h.door.pw # None /\ (h.groups # <<>> => h.door.group # None)
Normal(h) == BookDraft(h) /\ Owned(h) /\ EpsFull(h) /\ GroupsFull(h) /\ HasHome(h) /\ DoorFull(h)

LEMMA BookSets ==
    ASSUME NEW S
    PROVE  (Book!IsFiniteSet(S) <=> IsFiniteSet(S)) /\ Book!Cardinality(S) = Cardinality(S)
  BY DEF Book!IsFiniteSet, IsFiniteSet, Book!Cardinality, Cardinality

LEMMA BookFilters ==
    ASSUME NEW s, NEW keep
    PROVE  Book!Picked(s, keep) = Picked(s, keep) /\ Book!Least(keep) = Least(keep)
  BY DEF Book!Picked, Picked, Book!Least, Least

(* There is a free number, since no more are in use than there are.            *)
LEMMA NextExtIsFree ==
    ASSUME NEW used, IsFiniteSet(used), NEW start \in Nat
    PROVE  Book!NextExt(used, start) \in Nat /\ Book!NextExt(used, start) >= start /\ Book!NextExt(used, start) \notin used
<1>1. PICK c \in Nat : c = Book!Cardinality(used) /\ c = Cardinality(used)
  BY FS_CardinalityType, BookSets
<1>2. PICK free : free = {n \in start..start + c : n \notin used}
  OBVIOUS
<1>3. free # {}
  <2> SUFFICES ASSUME free = {} PROVE FALSE
    OBVIOUS
  <2>1. start..start + c \subseteq used
    BY <1>2
  <2>2. Cardinality(start..start + c) <= c
    BY <1>1, <2>1, FS_Subset
  <2>3. Cardinality(start..start + c) = start + c - start + 1
    BY FS_Interval
  <2> QED
    BY <2>2, <2>3
<1>4. free \in SUBSET Nat
  BY <1>2
<1>5. PICK k \in free : \A m \in free : k <= m
  BY <1>3, <1>4, LeastIsOne
<1>6. k \in start..start + c /\ k \notin used /\ \A m \in start..k - 1 : m \in used
  <2>1. k \in start..start + c /\ k \notin used
    BY <1>2, <1>5
  <2>2. ASSUME NEW m \in start..k - 1, m \notin used PROVE FALSE
    <3>1. m \in free
      BY <1>2, <2>1, <2>2
    <3> QED
      BY <1>4, <1>5, <2>1, <3>1
  <2> QED
    BY <2>1, <2>2
<1> DEFINE n == CHOOSE n \in start..start + c : n \notin used /\ \A m \in start..n - 1 : m \in used
<1>7. n \in start..start + c /\ n \notin used
  BY <1>6
<1>8. Book!NextExt(used, start) = n
  BY <1>1 DEF Book!NextExt
<1> HIDE DEF n
<1> QED
  BY <1>7, <1>8

(* The numbers in use.                                                         *)
LEMMA UsedExtsAre ==
    ASSUME NEW h, h \in Books
    PROVE  /\ IsFiniteSet(Book!UsedExts(h))
           /\ \A i \in DOMAIN h.eps : h.eps[i].ext \in Book!UsedExts(h)
           /\ \A i \in DOMAIN h.groups : h.groups[i].ext \in Book!UsedExts(h)
           /\ h.door.ext \in Book!UsedExts(h)
<1>a. PICK eps \in Seq(BookAccount), groups \in Seq(BookGroup) : eps = h.eps /\ groups = h.groups
  BY DEF Books
<1>b. PICK door : door = h.door.ext
  OBVIOUS
<1>2. PICK E : E = {eps[i].ext : i \in DOMAIN eps}
  OBVIOUS
<1>3. PICK G : G = {groups[i].ext : i \in DOMAIN groups}
  OBVIOUS
<1>4. IsFiniteSet(E)
  <2>1. PICK f : f = [i \in 1..Len(eps) |-> eps[i].ext]
    OBVIOUS
  <2>2. Len(eps) \in Nat /\ DOMAIN eps = 1..Len(eps)
    OBVIOUS
  <2>3. f \in [1..Len(eps) -> E]
    BY <1>2, <2>1, <2>2
  <2>4. \A x \in E : \E i \in 1..Len(eps) : f[i] = x
    BY <1>2, <2>1, <2>2
  <2>5. f \in Surjection(1..Len(eps), E)
    BY <2>3, <2>4 DEF Surjection
  <2>6. IsFiniteSet(1..Len(eps))
    BY <2>2, FS_Interval
  <2> QED
    BY <2>5, <2>6, FS_Surjection
<1>5. IsFiniteSet(G)
  <2>1. PICK f : f = [i \in 1..Len(groups) |-> groups[i].ext]
    OBVIOUS
  <2>2. Len(groups) \in Nat /\ DOMAIN groups = 1..Len(groups)
    OBVIOUS
  <2>3. f \in [1..Len(groups) -> G]
    BY <1>3, <2>1, <2>2
  <2>4. \A x \in G : \E i \in 1..Len(groups) : f[i] = x
    BY <1>3, <2>1, <2>2
  <2>5. f \in Surjection(1..Len(groups), G)
    BY <2>3, <2>4 DEF Surjection
  <2>6. IsFiniteSet(1..Len(groups))
    BY <2>2, FS_Interval
  <2> QED
    BY <2>5, <2>6, FS_Surjection
<1>6. Book!UsedExts(h) = (E \cup G) \cup {door}
  <2>1. Book!UsedExts(h) = {r.ext : r \in {eps[i] : i \in DOMAIN eps} \cup {groups[i] : i \in DOMAIN groups}} \cup {door}
    BY <1>a, <1>b DEF Book!UsedExts, Book!Range0
  <2>2. {r.ext : r \in {eps[i] : i \in DOMAIN eps} \cup {groups[i] : i \in DOMAIN groups}} = E \cup G
    BY <1>2, <1>3
  <2> QED
    BY <2>1, <2>2
<1>7. IsFiniteSet(Book!UsedExts(h))
  <2>1. IsFiniteSet(E \cup G)
    BY <1>4, <1>5, FS_Union
  <2>2. IsFiniteSet({door})
    BY FS_Singleton
  <2> QED
    BY <1>6, <2>1, <2>2, FS_Union
<1> QED
  BY <1>a, <1>b, <1>2, <1>3, <1>6, <1>7

(* Each account of g is one of h that kept its password, if it had one.        *)
SecretsFrom(h, g) ==
    \A i \in DOMAIN g.eps : \E k \in DOMAIN h.eps :
        g.eps[i].id = h.eps[k].id /\ (h.eps[k].pw # None => g.eps[i].pw = h.eps[k].pw)

LEMMA LinkedKeeps ==
    ASSUME Book!BookAssumption, NEW h, BookDraft(h), NEW l, l = Book!Linked(h)
    PROVE  /\ BookDraft(l) /\ SecretsFrom(h, l) /\ l = [h EXCEPT !.eps = l.eps]
           /\ EpsFull(h) => EpsFull(l)
           /\ (\A i \in DOMAIN h.eps : h.eps[i].user # None) => l = h
<1> DEFINE new(i) == IF h.eps[i].user = None /\ Book!Claims(h, i) # {}
                     THEN [h.eps[i] EXCEPT !.user = Book!Least(Book!Claims(h, i))] ELSE h.eps[i]
<1>1. h \in Books /\ h.eps \in Seq(BookAccount)
  BY DEF BookDraft, Books
<1>2. l = [h EXCEPT !.eps = [i \in DOMAIN h.eps |-> new(i)]]
  BY DEF Book!Linked
<1>3. ASSUME NEW i \in DOMAIN h.eps
      PROVE  new(i) \in BookAccount /\ new(i).id = h.eps[i].id /\ new(i).ext = h.eps[i].ext /\ new(i).pw = h.eps[i].pw
  <2>1. h.eps[i] \in BookAccount
    BY <1>1
  <2>2. CASE h.eps[i].user = None /\ Book!Claims(h, i) # {}
    <3>1. Book!Claims(h, i) \in SUBSET Nat /\ Book!Claims(h, i) \subseteq bPeople
      BY <1>1 DEF Book!Claims, Book!BookAssumption, Books
    <3>2. PICK u \in bPeople : u = Book!Least(Book!Claims(h, i))
      BY <2>2, <3>1, LeastIsOne, BookFilters
    <3>3. new(i) = [h.eps[i] EXCEPT !.user = u]
      BY <2>2, <3>2
    <3> QED
      BY <2>1, <3>3 DEF BookAccount
  <2>3. CASE ~(h.eps[i].user = None /\ Book!Claims(h, i) # {})
    BY <2>1, <2>3
  <2> QED
    BY <2>2, <2>3
<1>4. ASSUME NEW i \in DOMAIN h.eps, h.eps[i].user # None PROVE new(i) = h.eps[i]
  BY <1>4
<1> HIDE DEF new
<1>5. PICK eps : eps = [i \in DOMAIN h.eps |-> new(i)]
  OBVIOUS
<1>6. DOMAIN h.eps = 1..Len(h.eps) /\ Len(h.eps) \in Nat
  BY <1>1
<1>7. eps \in Seq(BookAccount) /\ DOMAIN eps = DOMAIN h.eps
  BY <1>3, <1>5, <1>6
<1>8. \A i \in DOMAIN eps : eps[i].id = h.eps[i].id /\ eps[i].ext = h.eps[i].ext /\ eps[i].pw = h.eps[i].pw
  BY <1>3, <1>5
<1>9. /\ l = [h EXCEPT !.eps = eps] /\ l \in Books /\ l.eps = eps
      /\ l.groups = h.groups /\ l.door = h.door /\ l.fresh = h.fresh /\ l.typed = h.typed
  BY <1>1, <1>2, <1>5, <1>7 DEF Books
<1>10. IdsApart(l)
  BY <1>7, <1>8, <1>9 DEF BookDraft, IdsApart
<1>11. ExtsApart(l)
  BY <1>7, <1>8, <1>9 DEF BookDraft, ExtsApart, Free
<1>12. SecretsFrom(h, l)
  BY <1>7, <1>8, <1>9 DEF SecretsFrom
<1>13. ASSUME \A i \in DOMAIN h.eps : h.eps[i].user # None PROVE l = h
  <2>1. \A i \in DOMAIN h.eps : eps[i] = h.eps[i]
    BY <1>4, <1>5, <1>13
  <2>2. eps = h.eps
    BY <1>1, <1>6, <1>7, <2>1
  <2> QED
    BY <1>1, <1>9, <2>2 DEF Books
<1>14. EpsFull(h) => EpsFull(l)
  BY <1>7, <1>8, <1>9 DEF EpsFull, EpFull
<1> QED
  BY <1>9, <1>10, <1>11, <1>12, <1>13, <1>14 DEF BookDraft

(* One account is kept of each user, and noted with the user.                  *)
LEMMA NotedKeeps ==
    ASSUME Book!BookAssumption, NEW h, BookDraft(h), NEW n, n = Book!Noted(h, Book!Kept(h))
    PROVE  /\ BookDraft(n) /\ Owned(n) /\ SecretsFrom(h, n)
           /\ n.users = h.users /\ n.groups = h.groups /\ n.door = h.door /\ n.fresh = h.fresh
           /\ EpsFull(h) => EpsFull(n)
           /\ Owned(h) => n = h
<1>1. h \in Books /\ h.eps \in Seq(BookAccount)
  BY DEF BookDraft, Books
<1>2. DOMAIN h.eps = 1..Len(h.eps) /\ Len(h.eps) \in Nat
  BY <1>1
<1>3. PICK keep : keep = {i \in Book!OfUsers(h) : \A j \in 1..i - 1 : h.eps[j].user # h.eps[i].user}
  OBVIOUS
<1>4. PICK eps : eps = Picked(h.eps, keep) /\ Book!Kept(h) = eps
  BY <1>3, BookFilters DEF Book!Kept
<1>5. eps \in Seq(BookAccount) /\ PickedOf(h.eps, keep, Len(h.eps), eps)
  BY <1>1, <1>4, PickedFacts
<1>6. PICK f \in [DOMAIN eps -> 1..Len(h.eps)] :
          /\ \A k \in DOMAIN eps : f[k] \in keep /\ eps[k] = h.eps[f[k]]
          /\ \A j, k \in DOMAIN eps : f[j] = f[k] => j = k
  BY <1>5 DEF PickedOf
<1>7. \A k \in DOMAIN eps : f[k] \in DOMAIN h.eps /\ eps[k] = h.eps[f[k]] /\ f[k] \in keep
  BY <1>2, <1>6
<1>8. \A a, b \in keep : h.eps[a].user = h.eps[b].user => a = b
  <2> SUFFICES ASSUME NEW a \in keep, NEW b \in keep, h.eps[a].user = h.eps[b].user, a < b PROVE FALSE
    BY <1>2, <1>3 DEF Book!OfUsers
  <2>1. a \in 1..b - 1
    BY <1>2, <1>3 DEF Book!OfUsers
  <2> QED
    BY <1>3, <2>1
<1>9. \A j, k \in DOMAIN eps : eps[j].user = eps[k].user => j = k
  BY <1>6, <1>7, <1>8
<1>10. \A k \in DOMAIN eps : eps[k].user \in h.users /\ eps[k].user \in bPeople /\ eps[k].id \in Nat
  <2>1. \A k \in keep : h.eps[k].user \in h.users
    BY <1>3 DEF Book!OfUsers
  <2>2. h.users \subseteq bPeople
    BY <1>1 DEF Books
  <2>3. \A k \in DOMAIN eps : eps[k] \in BookAccount
    BY <1>5
  <2> QED
    BY <1>7, <2>1, <2>2, <2>3 DEF BookAccount
<1> DEFINE note(u) == IF \E e \in Book!Range0(eps) : e.user = u
                      THEN (CHOOSE e \in Book!Range0(eps) : e.user = u).id ELSE None
<1>11. ASSUME NEW k \in DOMAIN eps PROVE note(eps[k].user) = eps[k].id
  <2>1. eps[k] \in Book!Range0(eps)
    BY DEF Book!Range0
  <2>2. PICK e \in Book!Range0(eps) : e = (CHOOSE x \in Book!Range0(eps) : x.user = eps[k].user) /\ e.user = eps[k].user
    BY <2>1
  <2>3. PICK j \in DOMAIN eps : e = eps[j]
    BY <2>2 DEF Book!Range0
  <2>4. j = k
    BY <1>9, <2>2, <2>3
  <2> QED
    BY <2>1, <2>2, <2>3, <2>4
<1>12. ASSUME NEW u, \A k \in DOMAIN eps : eps[k].user # u PROVE note(u) = None
  BY <1>12 DEF Book!Range0
<1> HIDE DEF note
<1>13. \A u \in bPeople : note(u) \in BookNumber
  <2> SUFFICES ASSUME NEW u \in bPeople PROVE note(u) \in BookNumber
    OBVIOUS
  <2>1. CASE \E k \in DOMAIN eps : eps[k].user = u
    BY <1>10, <1>11, <2>1 DEF BookNumber
  <2>2. CASE \A k \in DOMAIN eps : eps[k].user # u
    BY <1>12, <2>2 DEF BookNumber
  <2> QED
    BY <2>1, <2>2
<1>14. n = [h EXCEPT !.eps = eps, !.link = [u \in bPeople |-> note(u)]]
  BY <1>4 DEF Book!Noted, note
<1>15. PICK link : link = [u \in bPeople |-> note(u)]
  OBVIOUS
<1>16. link \in [bPeople -> BookNumber]
  BY <1>13, <1>15
<1>17. /\ n \in Books /\ n.eps = eps /\ n.link = link
       /\ n.users = h.users /\ n.groups = h.groups /\ n.door = h.door /\ n.fresh = h.fresh /\ n.typed = h.typed
  BY <1>1, <1>5, <1>14, <1>15, <1>16 DEF Books
<1>18. IdsApart(n)
  <2>1. \A j, k \in DOMAIN eps : eps[j].id = eps[k].id => j = k
    BY <1>6, <1>7 DEF BookDraft, IdsApart
  <2>2. \A k \in DOMAIN eps : eps[k].id < h.fresh
    BY <1>7 DEF BookDraft, IdsApart
  <2> QED
    BY <1>17, <2>1, <2>2 DEF BookDraft, IdsApart
<1>19. ExtsApart(n)
  <2>1. \A j, k \in DOMAIN eps : eps[j].ext = eps[k].ext => Free(h, eps[j].ext) \/ j = k
    BY <1>6, <1>7 DEF BookDraft, ExtsApart
  <2>2. \A i \in DOMAIN eps, j \in DOMAIN h.groups : eps[i].ext = h.groups[j].ext => Free(h, eps[i].ext)
    BY <1>7 DEF BookDraft, ExtsApart
  <2>3. \A i \in DOMAIN eps : eps[i].ext = h.door.ext => Free(h, eps[i].ext)
    BY <1>7 DEF BookDraft, ExtsApart
  <2> QED
    BY <1>17, <2>1, <2>2, <2>3 DEF BookDraft, ExtsApart, Free
<1>20. Owned(n)
  <2>1. \A i \in DOMAIN eps : eps[i].user \in h.users /\ link[eps[i].user] = eps[i].id
    BY <1>10, <1>11, <1>15
  <2>2. \A u \in bPeople : (\A i \in DOMAIN eps : eps[i].user # u) => link[u] = None
    BY <1>12, <1>15
  <2> QED
    BY <1>9, <1>17, <2>1, <2>2 DEF Owned
<1>21. SecretsFrom(h, n)
  BY <1>7, <1>17 DEF SecretsFrom
<1>22. ASSUME Owned(h) PROVE n = h
  <2>1. \A i \in DOMAIN h.eps : i \in keep
    <3> SUFFICES ASSUME NEW i \in DOMAIN h.eps, NEW j \in 1..i - 1, h.eps[j].user = h.eps[i].user PROVE FALSE
      BY <1>3, <1>22 DEF Book!OfUsers, Owned
    <3>1. j \in DOMAIN h.eps /\ j # i
      BY <1>2
    <3> QED
      BY <1>22, <3>1 DEF Owned
  <2>2. eps = h.eps
    BY <1>1, <1>4, <2>1, PickedWhole
  <2>3. \A u \in bPeople : link[u] = h.link[u]
    <3> SUFFICES ASSUME NEW u \in bPeople PROVE link[u] = h.link[u]
      OBVIOUS
    <3>1. CASE \E k \in DOMAIN eps : eps[k].user = u
      BY <1>11, <1>15, <1>22, <2>2, <3>1 DEF Owned
    <3>2. CASE \A k \in DOMAIN eps : eps[k].user # u
      BY <1>12, <1>15, <1>22, <2>2, <3>2 DEF Owned
    <3> QED
      BY <3>1, <3>2
  <2>4. link = h.link
    BY <1>1, <1>16, <2>3 DEF Books
  <2> QED
    BY <1>1, <1>14, <1>15, <2>2, <2>4 DEF Books
<1>23. EpsFull(h) => EpsFull(n)
  BY <1>7, <1>17 DEF EpsFull, EpFull
<1> QED
  BY <1>17, <1>18, <1>19, <1>20, <1>21, <1>22, <1>23 DEF BookDraft

LEMMA SecretsThrough ==
    ASSUME NEW a, NEW b, NEW c, SecretsFrom(a, b), SecretsFrom(b, c)
    PROVE  SecretsFrom(a, c)
<1> SUFFICES ASSUME NEW i \in DOMAIN c.eps
             PROVE  \E k \in DOMAIN a.eps : c.eps[i].id = a.eps[k].id /\ (a.eps[k].pw # None => c.eps[i].pw = a.eps[k].pw)
  BY DEF SecretsFrom
<1>1. PICK j \in DOMAIN b.eps : c.eps[i].id = b.eps[j].id /\ (b.eps[j].pw # None => c.eps[i].pw = b.eps[j].pw)
  BY DEF SecretsFrom
<1>2. PICK k \in DOMAIN a.eps : b.eps[j].id = a.eps[k].id /\ (a.eps[k].pw # None => b.eps[j].pw = a.eps[k].pw)
  BY DEF SecretsFrom
<1> QED
  BY <1>1, <1>2

(* An account gets a number of its own and a password, if it has none.         *)
LEMMA GivenKeeps ==
    ASSUME Book!BookAssumption, NEW h, BookDraft(h), Owned(h), NEW i \in DOMAIN h.eps, NEW g, g = Book!Given(h, i)
    PROVE  /\ BookDraft(g) /\ Owned(g) /\ SecretsFrom(h, g)
           /\ g.users = h.users /\ g.groups = h.groups /\ g.door = h.door /\ g.fresh >= h.fresh
           /\ Len(g.eps) = Len(h.eps) /\ EpFull(g, i) /\ \A j \in DOMAIN h.eps : j # i => g.eps[j] = h.eps[j]
           /\ EpFull(h, i) => g = h
<1>1. h \in Books /\ h.eps \in Seq(BookAccount) /\ h.eps[i] \in BookAccount /\ h.fresh \in Nat
  BY DEF BookDraft, Books
<1>2. None \notin Nat
  BY DEF Book!BookAssumption
<1>3. PICK next \in Nat \ {0} : next = Book!NextExt(Book!UsedExts(h), 201) /\ next \notin Book!UsedExts(h)
  <2>1. IsFiniteSet(Book!UsedExts(h))
    BY <1>1, UsedExtsAre
  <2>2. PICK next : next = Book!NextExt(Book!UsedExts(h), 201)
    OBVIOUS
  <2>3. next \in Nat /\ next >= 201 /\ next \notin Book!UsedExts(h)
    BY <2>1, <2>2, NextExtIsFree
  <2> QED
    BY <2>2, <2>3
<1>4. PICK ext \in Nat \ {0} : ext = IF h.eps[i].ext = None THEN next ELSE h.eps[i].ext
  BY <1>1 DEF BookAccount, BookExt
<1>5. PICK pw \in Nat : pw = IF h.eps[i].pw = None THEN h.fresh ELSE h.eps[i].pw
  BY <1>1 DEF BookAccount, BookNumber
<1>6. PICK fresh \in Nat : fresh = (IF h.eps[i].pw = None THEN h.fresh + 1 ELSE h.fresh) /\ fresh >= h.fresh
  BY <1>1
<1>7. PICK e \in BookAccount : e = [h.eps[i] EXCEPT !.ext = ext, !.pw = pw]
  BY <1>1 DEF BookAccount, BookExt, BookNumber
<1>8. g = [h EXCEPT !.eps = [h.eps EXCEPT ![i] = e], !.fresh = fresh]
  <2>1. [h.eps[i] EXCEPT !.ext = IF h.eps[i].ext = None THEN Book!NextExt(Book!UsedExts(h), 201) ELSE h.eps[i].ext,
                         !.pw = IF h.eps[i].pw = None THEN h.fresh ELSE h.eps[i].pw] = e
    BY <1>3, <1>4, <1>5, <1>7
  <2> QED
    BY <1>6, <2>1 DEF Book!Given
<1>9. PICK eps : eps = [h.eps EXCEPT ![i] = e]
  OBVIOUS
<1>10. /\ eps \in Seq(BookAccount) /\ DOMAIN eps = DOMAIN h.eps /\ Len(eps) = Len(h.eps)
       /\ eps[i] = e /\ \A j \in DOMAIN h.eps : j # i => eps[j] = h.eps[j]
  BY <1>1, <1>9
<1>11. /\ g \in Books /\ g.eps = eps /\ g.fresh = fresh /\ g.users = h.users /\ g.link = h.link
       /\ g.groups = h.groups /\ g.door = h.door /\ g.typed = h.typed
  BY <1>1, <1>8, <1>9, <1>10 DEF Books
<1>12. e.id = h.eps[i].id /\ e.user = h.eps[i].user /\ e.ext = ext /\ e.pw = pw
  BY <1>1, <1>7 DEF BookAccount
<1>13. \A j \in DOMAIN eps : eps[j].id = h.eps[j].id /\ eps[j].user = h.eps[j].user
  BY <1>10, <1>12
<1>14. IdsApart(g)
  <2>1. fresh > 1 /\ (\A j \in DOMAIN eps : eps[j].id < fresh) /\ (\A j \in DOMAIN h.groups : h.groups[j].id < fresh)
    <3>1. h.fresh > 1 /\ (\A j \in DOMAIN h.eps : h.eps[j].id < h.fresh) /\ (\A j \in DOMAIN h.groups : h.groups[j].id < h.fresh)
      BY DEF BookDraft, IdsApart
    <3>2. (\A j \in DOMAIN h.eps : h.eps[j].id \in Nat) /\ (\A j \in DOMAIN h.groups : h.groups[j].id \in Nat)
      <4>1. \A j \in DOMAIN h.eps : h.eps[j] \in BookAccount
        BY <1>1
      <4>2. h.groups \in Seq(BookGroup)
        BY <1>1 DEF Books
      <4>3. \A j \in DOMAIN h.groups : h.groups[j] \in BookGroup
        BY <4>2
      <4> QED
        BY <4>1, <4>3 DEF BookAccount, BookGroup
    <3> QED
      BY <1>1, <1>6, <1>10, <1>13, <3>1, <3>2
  <2> QED
    BY <1>10, <1>11, <1>13, <2>1 DEF BookDraft, IdsApart
<1>15. ExtsApart(g)
  <2>1. ASSUME NEW x, x \in {h.eps[j].ext : j \in DOMAIN h.eps \ {i}} \cup {h.groups[j].ext : j \in DOMAIN h.groups} \cup {h.door.ext}
        PROVE  x = ext => Free(h, ext)
    <3>1. x \in Book!UsedExts(h)
      BY <1>1, <2>1, UsedExtsAre
    <3>2. CASE h.eps[i].ext = None
      BY <1>3, <1>4, <3>1, <3>2
    <3>3. CASE h.eps[i].ext # None
      BY <1>4, <2>1, <3>3 DEF BookDraft, ExtsApart
    <3> QED
      BY <3>2, <3>3
  <2>2. \A a, b \in DOMAIN eps : eps[a].ext = eps[b].ext => Free(h, eps[a].ext) \/ a = b
    <3> SUFFICES ASSUME NEW a \in DOMAIN eps, NEW b \in DOMAIN eps, eps[a].ext = eps[b].ext, a # b PROVE Free(h, eps[a].ext)
      OBVIOUS
    <3>1. CASE a # i /\ b # i
      BY <1>10, <3>1 DEF BookDraft, ExtsApart
    <3>2. CASE a = i
      BY <1>10, <1>12, <2>1, <3>2
    <3>3. CASE b = i
      BY <1>10, <1>12, <2>1, <3>3
    <3> QED
      BY <3>1, <3>2, <3>3
  <2>3. ASSUME NEW a \in DOMAIN eps, NEW b \in DOMAIN h.groups, eps[a].ext = h.groups[b].ext PROVE Free(h, eps[a].ext)
    <3>1. CASE a = i
      BY <1>10, <1>12, <2>1, <2>3, <3>1
    <3>2. CASE a # i
      BY <1>10, <2>3, <3>2 DEF BookDraft, ExtsApart
    <3> QED
      BY <3>1, <3>2
  <2>4. ASSUME NEW a \in DOMAIN eps, eps[a].ext = h.door.ext PROVE Free(h, eps[a].ext)
    <3>1. CASE a = i
      BY <1>10, <1>12, <2>1, <2>4, <3>1
    <3>2. CASE a # i
      BY <1>10, <2>4, <3>2 DEF BookDraft, ExtsApart
    <3> QED
      BY <3>1, <3>2
  <2>5. \A a, b \in DOMAIN h.groups : h.groups[a].ext = h.groups[b].ext => Free(h, h.groups[a].ext) \/ a = b
    BY DEF BookDraft, ExtsApart
  <2>6. \A a \in DOMAIN h.groups : h.groups[a].ext = h.door.ext => Free(h, h.groups[a].ext)
    BY DEF BookDraft, ExtsApart
  <2>7. \A n : Free(g, n) = Free(h, n)
    BY <1>11 DEF Free
  <2> QED
    BY <1>11, <2>2, <2>3, <2>4, <2>5, <2>6, <2>7 DEF ExtsApart
<1>16. Owned(g)
  BY <1>10, <1>11, <1>13 DEF Owned
<1>17. SecretsFrom(h, g)
  <2>1. \A j \in DOMAIN eps : h.eps[j].pw # None => eps[j].pw = h.eps[j].pw
    BY <1>5, <1>10, <1>12
  <2> QED
    BY <1>10, <1>11, <1>13, <2>1 DEF SecretsFrom
<1>18. EpFull(g, i)
  BY <1>2, <1>10, <1>11, <1>12 DEF EpFull
<1>19. ASSUME EpFull(h, i) PROVE g = h
  <2>1. e = h.eps[i] /\ fresh = h.fresh
    BY <1>1, <1>4, <1>5, <1>6, <1>7, <1>19 DEF EpFull, BookAccount
  <2>2. eps = h.eps
    BY <1>1, <1>9, <2>1
  <2>3. g = [h EXCEPT !.eps = h.eps, !.fresh = h.fresh]
    BY <1>8, <1>9, <2>1, <2>2
  <2> QED
    BY <1>1, <2>3 DEF Books
<1> QED
  BY <1>6, <1>10, <1>11, <1>14, <1>15, <1>16, <1>17, <1>18, <1>19 DEF BookDraft

NumberedUpTo(h, n, f) == f = [m \in 0..n |-> IF m = 0 THEN h ELSE Book!Given(f[m - 1], m)]

LEMMA HasNumbered ==
    ASSUME NEW h
    PROVE  \A n \in Nat : \E f : NumberedUpTo(h, n, f)
<1> DEFINE Have == {k \in Nat : \E f : NumberedUpTo(h, k, f)}
<1>1. 0 \in Have
  <2> DEFINE f == [m \in 0..0 |-> h]
  <2>1. NumberedUpTo(h, 0, f)
    BY DEF NumberedUpTo
  <2> QED
    BY <2>1
<1>2. ASSUME NEW k \in Nat, k \in Have PROVE k + 1 \in Have
  <2>1. PICK f : NumberedUpTo(h, k, f)
    BY <1>2
  <2> DEFINE g == [m \in 0..k + 1 |-> IF m = k + 1 THEN Book!Given(f[k], k + 1) ELSE f[m]]
  <2>2. \A m \in 0..k : f[m] = IF m = 0 THEN h ELSE Book!Given(f[m - 1], m)
    BY <2>1 DEF NumberedUpTo
  <2>3. ASSUME NEW m \in 0..k + 1 PROVE g[m] = IF m = 0 THEN h ELSE Book!Given(g[m - 1], m)
    <3>1. CASE m = k + 1
      <4>1. k \in 0..k + 1 /\ m - 1 = k /\ m # 0 /\ k # k + 1
        BY <3>1
      <4>2. g[m] = Book!Given(f[k], k + 1) /\ g[m - 1] = f[k]
        BY <3>1, <4>1
      <4> QED
        BY <3>1, <4>1, <4>2
    <3>2. CASE m # k + 1
      <4>1. m \in 0..k /\ (m # 0 => m - 1 \in 0..k + 1 /\ m - 1 # k + 1)
        BY <3>2
      <4>2. g[m] = f[m] /\ (m # 0 => g[m - 1] = f[m - 1])
        BY <4>1
      <4> QED
        BY <2>2, <4>1, <4>2
    <3> QED
      BY <3>1, <3>2
  <2>4. NumberedUpTo(h, k + 1, g)
    BY <2>3 DEF NumberedUpTo
  <2> QED
    BY <2>4
<1> HIDE DEF Have
<1>3. \A n \in Nat : n \in Have
  BY <1>1, <1>2, CountsUp
<1> QED
  BY <1>3 DEF Have

NumberedOf(h, n, g) ==
    /\ BookDraft(g) /\ Owned(g) /\ SecretsFrom(h, g)
    /\ g.users = h.users /\ g.groups = h.groups /\ g.door = h.door /\ g.fresh >= h.fresh
    /\ Len(g.eps) = Len(h.eps) /\ \A j \in 1..n : EpFull(g, j)
    /\ EpsFull(h) => g = h

LEMMA NumberedKeeps ==
    ASSUME Book!BookAssumption, NEW h, BookDraft(h), Owned(h), NEW g, g = Book!Numbered(h)
    PROVE  NumberedOf(h, Len(h.eps), g)
<1>1. h.eps \in Seq(BookAccount) /\ Len(h.eps) \in Nat /\ DOMAIN h.eps = 1..Len(h.eps) /\ h.fresh \in Nat
  BY DEF BookDraft, Books
<1> DEFINE u == CHOOSE f : NumberedUpTo(h, Len(h.eps), f)
<1>2. NumberedUpTo(h, Len(h.eps), u)
  BY <1>1, HasNumbered
<1>3. g = u[Len(h.eps)]
  BY DEF Book!Numbered, NumberedUpTo
<1> HIDE DEF u
<1>a. \A m \in 0..Len(h.eps) : u[m] = IF m = 0 THEN h ELSE Book!Given(u[m - 1], m)
  BY <1>2 DEF NumberedUpTo
<1>4. u[0] = h /\ \A m \in 1..Len(h.eps) : u[m] = Book!Given(u[m - 1], m)
  <2>1. u[0] = h
    BY <1>1, <1>a
  <2>2. \A m \in 1..Len(h.eps) : m \in 0..Len(h.eps) /\ m # 0
    BY <1>1
  <2> QED
    BY <1>a, <2>1, <2>2
<1> DEFINE Right == {m \in Nat : m <= Len(h.eps) => NumberedOf(h, m, u[m])}
<1>5. 0 \in Right
  <2>1. SecretsFrom(h, h)
    BY DEF SecretsFrom
  <2>2. NumberedOf(h, 0, h)
    BY <1>1, <2>1 DEF NumberedOf
  <2> QED
    BY <1>4, <2>2
<1>6. ASSUME NEW m \in Nat, m \in Right PROVE m + 1 \in Right
  <2> SUFFICES ASSUME m + 1 <= Len(h.eps) PROVE NumberedOf(h, m + 1, u[m + 1])
    OBVIOUS
  <2>1. m + 1 \in 1..Len(h.eps) /\ (m + 1) - 1 = m /\ m <= Len(h.eps)
    BY <1>1
  <2>2. PICK a, b : a = u[m] /\ b = u[m + 1] /\ b = Book!Given(a, m + 1)
    BY <1>4, <2>1
  <2>3. NumberedOf(h, m, a)
    BY <1>6, <2>1, <2>2
  <2>4. a.eps \in Seq(BookAccount) /\ DOMAIN a.eps = 1..Len(h.eps) /\ a.fresh \in Nat
    BY <1>1, <2>3 DEF NumberedOf, BookDraft, Books
  <2>5. m + 1 \in DOMAIN a.eps
    BY <2>1, <2>4
  <2>6. /\ BookDraft(b) /\ Owned(b) /\ SecretsFrom(a, b)
        /\ b.users = a.users /\ b.groups = a.groups /\ b.door = a.door /\ b.fresh >= a.fresh
        /\ Len(b.eps) = Len(a.eps) /\ EpFull(b, m + 1) /\ \A j \in DOMAIN a.eps : j # m + 1 => b.eps[j] = a.eps[j]
        /\ EpFull(a, m + 1) => b = a
    BY <2>2, <2>3, <2>5, GivenKeeps DEF NumberedOf
  <2>7. SecretsFrom(h, b)
    BY <2>3, <2>6, SecretsThrough DEF NumberedOf
  <2>8. \A j \in 1..m + 1 : EpFull(b, j)
    <3> SUFFICES ASSUME NEW j \in 1..m + 1, j # m + 1 PROVE EpFull(b, j)
      BY <2>6
    <3>1. j \in 1..m /\ j \in DOMAIN a.eps
      BY <2>1, <2>4
    <3> QED
      BY <2>3, <2>6, <3>1 DEF NumberedOf, EpFull
  <2>9. b.fresh \in Nat /\ b.fresh >= h.fresh
    BY <1>1, <2>3, <2>4, <2>6 DEF NumberedOf, BookDraft, Books
  <2>10. EpsFull(h) => b = h
    BY <2>1, <2>3, <2>5, <2>6 DEF NumberedOf, EpsFull
  <2>11. NumberedOf(h, m + 1, b)
    BY <2>3, <2>6, <2>7, <2>8, <2>9, <2>10 DEF NumberedOf
  <2> QED
    BY <2>2, <2>11
<1> HIDE DEF Right
<1>7. \A m \in Nat : m \in Right
  BY <1>5, <1>6, CountsUp
<1> QED
  BY <1>1, <1>3, <1>7 DEF Right

(* A group gets a number, and keeps the members there are.                     *)
LEMMA KnownAre ==
    ASSUME NEW h, NEW members \in Seq(Nat), NEW known, known = Book!Known(h, members)
    PROVE  /\ known \in Seq(Nat) /\ \A k \in DOMAIN known : known[k] \in Book!IdsOf(h.eps)
           /\ (\A k \in DOMAIN members : members[k] \in Book!IdsOf(h.eps)) => known = members
<1>1. PICK keep : keep = {k \in DOMAIN members : members[k] \in Book!IdsOf(h.eps)}
  OBVIOUS
<1>2. known = Picked(members, keep)
  BY <1>1, BookFilters DEF Book!Known
<1>3. known \in Seq(Nat) /\ PickedOf(members, keep, Len(members), known)
  BY <1>2, PickedFacts
<1>4. \A k \in DOMAIN known : \E i \in keep : known[k] = members[i]
  BY <1>3 DEF PickedOf
<1>5. (\A k \in DOMAIN members : k \in keep) => known = members
  BY <1>2, PickedWhole
<1> QED
  BY <1>1, <1>3, <1>4, <1>5

LEMMA FilledKeeps ==
    ASSUME Book!BookAssumption, NEW h, BookDraft(h), Owned(h), EpsFull(h), NEW i \in DOMAIN h.groups,
           NEW g, g = Book!Filled(h, i)
    PROVE  /\ BookDraft(g) /\ Owned(g)
           /\ g.users = h.users /\ g.eps = h.eps /\ g.door = h.door /\ g.fresh = h.fresh
           /\ Len(g.groups) = Len(h.groups) /\ GroupFull(g, i) /\ \A j \in DOMAIN h.groups : j # i => g.groups[j] = h.groups[j]
           /\ GroupFull(h, i) => g = h
<1>1. h \in Books /\ h.groups \in Seq(BookGroup) /\ h.groups[i] \in BookGroup
  BY DEF BookDraft, Books
<1>2. None \notin Nat
  BY DEF Book!BookAssumption
<1>3. PICK next \in Nat \ {0} : next = Book!NextExt(Book!UsedExts(h), 900) /\ next \notin Book!UsedExts(h)
  <2>1. IsFiniteSet(Book!UsedExts(h))
    BY <1>1, UsedExtsAre
  <2>2. PICK next : next = Book!NextExt(Book!UsedExts(h), 900)
    OBVIOUS
  <2>3. next \in Nat /\ next >= 900 /\ next \notin Book!UsedExts(h)
    BY <2>1, <2>2, NextExtIsFree
  <2> QED
    BY <2>2, <2>3
<1>4. PICK ext \in Nat \ {0} : ext = IF h.groups[i].ext = None THEN next ELSE h.groups[i].ext
  BY <1>1 DEF BookGroup, BookExt
<1>5. PICK members \in Seq(Nat) : members = h.groups[i].members
  BY <1>1 DEF BookGroup
<1>6. PICK known \in Seq(Nat) :
          /\ known = Book!Known(h, members) /\ \A k \in DOMAIN known : known[k] \in Book!IdsOf(h.eps)
          /\ (\A k \in DOMAIN members : members[k] \in Book!IdsOf(h.eps)) => known = members
  BY KnownAre
<1>7. PICK e \in BookGroup : e = [id |-> h.groups[i].id, members |-> known, ext |-> ext]
  BY <1>1 DEF BookGroup, BookExt
<1>8. g = [h EXCEPT !.groups = [h.groups EXCEPT ![i] = e]]
  BY <1>3, <1>4, <1>5, <1>6, <1>7 DEF Book!Filled
<1>9. PICK groups : groups = [h.groups EXCEPT ![i] = e]
  OBVIOUS
<1>10. /\ groups \in Seq(BookGroup) /\ DOMAIN groups = DOMAIN h.groups /\ Len(groups) = Len(h.groups)
       /\ groups[i] = e /\ \A j \in DOMAIN h.groups : j # i => groups[j] = h.groups[j]
  BY <1>1, <1>9
<1>11. /\ g \in Books /\ g.eps = h.eps /\ g.fresh = h.fresh /\ g.users = h.users /\ g.link = h.link
       /\ g.groups = groups /\ g.door = h.door /\ g.typed = h.typed
  BY <1>1, <1>8, <1>9, <1>10 DEF Books
<1>12. e.id = h.groups[i].id /\ e.ext = ext /\ e.members = known
  BY <1>7
<1>13. \A j \in DOMAIN groups : groups[j].id = h.groups[j].id
  BY <1>10, <1>12
<1>14. IdsApart(g)
  BY <1>10, <1>11, <1>13 DEF BookDraft, IdsApart
<1>15. ExtsApart(g)
  <2>1. ASSUME NEW x, x \in {h.groups[j].ext : j \in DOMAIN h.groups \ {i}} \cup {h.eps[j].ext : j \in DOMAIN h.eps} \cup {h.door.ext}
        PROVE  x = ext => Free(h, ext)
    <3>1. x \in Book!UsedExts(h)
      BY <1>1, <2>1, UsedExtsAre
    <3>2. CASE h.groups[i].ext = None
      BY <1>3, <1>4, <3>1, <3>2
    <3>3. CASE h.groups[i].ext # None
      BY <1>4, <2>1, <3>3 DEF BookDraft, ExtsApart
    <3> QED
      BY <3>2, <3>3
  <2>2. \A a, b \in DOMAIN groups : groups[a].ext = groups[b].ext => Free(h, groups[a].ext) \/ a = b
    <3> SUFFICES ASSUME NEW a \in DOMAIN groups, NEW b \in DOMAIN groups, groups[a].ext = groups[b].ext, a # b PROVE Free(h, groups[a].ext)
      OBVIOUS
    <3>1. CASE a # i /\ b # i
      BY <1>10, <3>1 DEF BookDraft, ExtsApart
    <3>2. CASE a = i
      BY <1>10, <1>12, <2>1, <3>2
    <3>3. CASE b = i
      BY <1>10, <1>12, <2>1, <3>3
    <3> QED
      BY <3>1, <3>2, <3>3
  <2>3. ASSUME NEW a \in DOMAIN h.eps, NEW b \in DOMAIN groups, h.eps[a].ext = groups[b].ext PROVE Free(h, h.eps[a].ext)
    <3>1. CASE b = i
      BY <1>10, <1>12, <2>1, <2>3, <3>1
    <3>2. CASE b # i
      BY <1>10, <2>3, <3>2 DEF BookDraft, ExtsApart
    <3> QED
      BY <3>1, <3>2
  <2>4. ASSUME NEW a \in DOMAIN groups, groups[a].ext = h.door.ext PROVE Free(h, groups[a].ext)
    <3>1. CASE a = i
      BY <1>10, <1>12, <2>1, <2>4, <3>1
    <3>2. CASE a # i
      BY <1>10, <2>4, <3>2 DEF BookDraft, ExtsApart
    <3> QED
      BY <3>1, <3>2
  <2>5. \A a, b \in DOMAIN h.eps : h.eps[a].ext = h.eps[b].ext => Free(h, h.eps[a].ext) \/ a = b
    BY DEF BookDraft, ExtsApart
  <2>6. \A a \in DOMAIN h.eps : h.eps[a].ext = h.door.ext => Free(h, h.eps[a].ext)
    BY DEF BookDraft, ExtsApart
  <2>7. \A n : Free(g, n) = Free(h, n)
    BY <1>11 DEF Free
  <2> QED
    BY <1>11, <2>2, <2>3, <2>4, <2>5, <2>6, <2>7 DEF ExtsApart
<1>16. Owned(g)
  BY <1>11 DEF Owned
<1>17. GroupFull(g, i)
  <2>1. ext # None
    BY <1>2
  <2> QED
    BY <1>6, <1>10, <1>11, <1>12, <2>1 DEF GroupFull
<1>18. ASSUME GroupFull(h, i) PROVE g = h
  <2>1. known = members /\ ext = h.groups[i].ext
    BY <1>4, <1>5, <1>6, <1>18 DEF GroupFull
  <2>2. e = h.groups[i]
    BY <1>1, <1>5, <1>7, <2>1 DEF BookGroup
  <2>3. groups = h.groups
    <3>1. \A j \in DOMAIN h.groups : groups[j] = h.groups[j]
      BY <1>10, <2>2
    <3> QED
      BY <1>1, <1>10, <3>1
  <2>4. g = [h EXCEPT !.groups = h.groups]
    BY <1>8, <1>9, <2>3
  <2> QED
    BY <1>1, <2>4 DEF Books
<1> QED
  BY <1>10, <1>11, <1>14, <1>15, <1>16, <1>17, <1>18 DEF BookDraft

GroupedUpTo(h, n, f) == f = [m \in 0..n |-> IF m = 0 THEN h ELSE Book!Filled(f[m - 1], m)]

LEMMA HasGrouped ==
    ASSUME NEW h
    PROVE  \A n \in Nat : \E f : GroupedUpTo(h, n, f)
<1> DEFINE Have == {k \in Nat : \E f : GroupedUpTo(h, k, f)}
<1>1. 0 \in Have
  <2> DEFINE f == [m \in 0..0 |-> h]
  <2>1. GroupedUpTo(h, 0, f)
    BY DEF GroupedUpTo
  <2> QED
    BY <2>1
<1>2. ASSUME NEW k \in Nat, k \in Have PROVE k + 1 \in Have
  <2>1. PICK f : GroupedUpTo(h, k, f)
    BY <1>2
  <2> DEFINE g == [m \in 0..k + 1 |-> IF m = k + 1 THEN Book!Filled(f[k], k + 1) ELSE f[m]]
  <2>2. \A m \in 0..k : f[m] = IF m = 0 THEN h ELSE Book!Filled(f[m - 1], m)
    BY <2>1 DEF GroupedUpTo
  <2>3. ASSUME NEW m \in 0..k + 1 PROVE g[m] = IF m = 0 THEN h ELSE Book!Filled(g[m - 1], m)
    <3>1. CASE m = k + 1
      <4>1. k \in 0..k + 1 /\ m - 1 = k /\ m # 0 /\ k # k + 1
        BY <3>1
      <4>2. g[m] = Book!Filled(f[k], k + 1) /\ g[m - 1] = f[k]
        BY <3>1, <4>1
      <4> QED
        BY <3>1, <4>1, <4>2
    <3>2. CASE m # k + 1
      <4>1. m \in 0..k /\ (m # 0 => m - 1 \in 0..k + 1 /\ m - 1 # k + 1)
        BY <3>2
      <4>2. g[m] = f[m] /\ (m # 0 => g[m - 1] = f[m - 1])
        BY <4>1
      <4> QED
        BY <2>2, <4>1, <4>2
    <3> QED
      BY <3>1, <3>2
  <2>4. GroupedUpTo(h, k + 1, g)
    BY <2>3 DEF GroupedUpTo
  <2> QED
    BY <2>4
<1> HIDE DEF Have
<1>3. \A n \in Nat : n \in Have
  BY <1>1, <1>2, CountsUp
<1> QED
  BY <1>3 DEF Have

GroupedOf(h, n, g) ==
    /\ BookDraft(g) /\ Owned(g) /\ EpsFull(g)
    /\ g.users = h.users /\ g.eps = h.eps /\ g.door = h.door /\ g.fresh = h.fresh
    /\ Len(g.groups) = Len(h.groups) /\ \A j \in 1..n : GroupFull(g, j)
    /\ GroupsFull(h) => g = h

LEMMA GroupedKeeps ==
    ASSUME Book!BookAssumption, NEW h, BookDraft(h), Owned(h), EpsFull(h), NEW g, g = Book!Grouped(h)
    PROVE  GroupedOf(h, Len(h.groups), g)
<1>1. h.groups \in Seq(BookGroup) /\ Len(h.groups) \in Nat /\ DOMAIN h.groups = 1..Len(h.groups)
  BY DEF BookDraft, Books
<1> DEFINE u == CHOOSE f : GroupedUpTo(h, Len(h.groups), f)
<1>2. GroupedUpTo(h, Len(h.groups), u)
  BY <1>1, HasGrouped
<1>3. g = u[Len(h.groups)]
  BY DEF Book!Grouped, GroupedUpTo
<1> HIDE DEF u
<1>a. \A m \in 0..Len(h.groups) : u[m] = IF m = 0 THEN h ELSE Book!Filled(u[m - 1], m)
  BY <1>2 DEF GroupedUpTo
<1>4. u[0] = h /\ \A m \in 1..Len(h.groups) : u[m] = Book!Filled(u[m - 1], m)
  <2>1. u[0] = h
    BY <1>1, <1>a
  <2>2. \A m \in 1..Len(h.groups) : m \in 0..Len(h.groups) /\ m # 0
    BY <1>1
  <2> QED
    BY <1>a, <2>1, <2>2
<1> DEFINE Right == {m \in Nat : m <= Len(h.groups) => GroupedOf(h, m, u[m])}
<1>5. 0 \in Right
  <2>1. GroupedOf(h, 0, h)
    BY DEF GroupedOf
  <2> QED
    BY <1>4, <2>1
<1>6. ASSUME NEW m \in Nat, m \in Right PROVE m + 1 \in Right
  <2> SUFFICES ASSUME m + 1 <= Len(h.groups) PROVE GroupedOf(h, m + 1, u[m + 1])
    OBVIOUS
  <2>1. m + 1 \in 1..Len(h.groups) /\ (m + 1) - 1 = m /\ m <= Len(h.groups)
    BY <1>1
  <2>2. PICK a, b : a = u[m] /\ b = u[m + 1] /\ b = Book!Filled(a, m + 1)
    BY <1>4, <2>1
  <2>3. GroupedOf(h, m, a)
    BY <1>6, <2>1, <2>2
  <2>4. a.groups \in Seq(BookGroup) /\ DOMAIN a.groups = 1..Len(h.groups)
    BY <1>1, <2>3 DEF GroupedOf, BookDraft, Books
  <2>5. m + 1 \in DOMAIN a.groups
    BY <2>1, <2>4
  <2>6. /\ BookDraft(b) /\ Owned(b)
        /\ b.users = a.users /\ b.eps = a.eps /\ b.door = a.door /\ b.fresh = a.fresh
        /\ Len(b.groups) = Len(a.groups) /\ GroupFull(b, m + 1) /\ \A j \in DOMAIN a.groups : j # m + 1 => b.groups[j] = a.groups[j]
        /\ GroupFull(a, m + 1) => b = a
    BY <2>2, <2>3, <2>5, FilledKeeps DEF GroupedOf
  <2>7. \A j \in 1..m + 1 : GroupFull(b, j)
    <3> SUFFICES ASSUME NEW j \in 1..m + 1, j # m + 1 PROVE GroupFull(b, j)
      BY <2>6
    <3>1. j \in 1..m /\ j \in DOMAIN a.groups
      BY <2>1, <2>4
    <3> QED
      BY <2>3, <2>6, <3>1 DEF GroupedOf, GroupFull
  <2>8. GroupsFull(h) => b = h
    BY <2>1, <2>3, <2>5, <2>6 DEF GroupedOf, GroupsFull
  <2>9. EpsFull(b)
    BY <2>3, <2>6 DEF GroupedOf, EpsFull, EpFull
  <2>10. GroupedOf(h, m + 1, b)
    BY <2>3, <2>6, <2>7, <2>8, <2>9 DEF GroupedOf
  <2> QED
    BY <2>2, <2>10
<1> HIDE DEF Right
<1>7. \A m \in Nat : m \in Right
  BY <1>5, <1>6, CountsUp
<1> QED
  BY <1>1, <1>3, <1>7 DEF Right

(* The group of the house, when there is none.                                 *)
LEMMA HomedKeeps ==
    ASSUME Book!BookAssumption, NEW h, BookDraft(h), Owned(h), EpsFull(h), GroupsFull(h), NEW g, g = Book!Homed(h)
    PROVE  /\ BookDraft(g) /\ Owned(g) /\ EpsFull(g) /\ GroupsFull(g) /\ HasHome(g)
           /\ g.users = h.users /\ g.eps = h.eps /\ g.door = h.door /\ g.fresh = h.fresh
           /\ HasHome(h) => g = h
<1>1. h \in Books /\ h.eps \in Seq(BookAccount) /\ None \notin Nat
  BY DEF BookDraft, Books, Book!BookAssumption
<1>2. CASE h.groups # <<>> \/ h.eps = <<>>
  <2>1. g = h
    BY <1>2 DEF Book!Homed
  <2> QED
    BY <1>2, <2>1 DEF HasHome
<1>3. CASE h.groups = <<>> /\ h.eps # <<>>
  <2>1. PICK next \in Nat \ {0} : next = Book!NextExt(Book!UsedExts(h), 900) /\ next \notin Book!UsedExts(h)
    <3>1. IsFiniteSet(Book!UsedExts(h))
      BY <1>1, UsedExtsAre
    <3>2. PICK next : next = Book!NextExt(Book!UsedExts(h), 900)
      OBVIOUS
    <3>3. next \in Nat /\ next >= 900 /\ next \notin Book!UsedExts(h)
      BY <3>1, <3>2, NextExtIsFree
    <3> QED
      BY <3>2, <3>3
  <2>2. PICK members : members = [i \in DOMAIN h.eps |-> h.eps[i].id]
    OBVIOUS
  <2>3. members \in Seq(Nat) /\ \A k \in DOMAIN members : members[k] \in Book!IdsOf(h.eps)
    <3>1. Len(h.eps) \in Nat /\ DOMAIN h.eps = 1..Len(h.eps) /\ \A i \in DOMAIN h.eps : h.eps[i] \in BookAccount
      BY <1>1
    <3>2. \A i \in DOMAIN h.eps : h.eps[i].id \in Nat
      BY <3>1 DEF BookAccount
    <3>3. members \in Seq(Nat)
      BY <2>2, <3>1, <3>2
    <3>4. \A i \in DOMAIN h.eps : h.eps[i].id \in Book!IdsOf(h.eps)
      BY DEF Book!IdsOf, Book!Range0
    <3> QED
      BY <2>2, <3>3, <3>4
  <2>4. PICK e \in BookGroup : e = [id |-> 1, ext |-> next, members |-> members]
    BY <2>3 DEF BookGroup, BookExt
  <2>5. PICK groups : groups = <<e>>
    OBVIOUS
  <2>6. groups \in Seq(BookGroup) /\ DOMAIN groups = {1} /\ groups[1] = e /\ groups # <<>>
    BY <2>5
  <2>7. g = [h EXCEPT !.groups = groups]
    BY <1>3, <2>1, <2>2, <2>4, <2>5 DEF Book!Homed, Book!Home
  <2>8. /\ g \in Books /\ g.groups = groups /\ g.users = h.users /\ g.eps = h.eps /\ g.link = h.link
        /\ g.door = h.door /\ g.fresh = h.fresh /\ g.typed = h.typed
    BY <1>1, <2>6, <2>7 DEF Books
  <2>9. e.id = 1 /\ e.ext = next /\ e.members = members
    BY <2>4
  <2>10. IdsApart(g)
    BY <2>6, <2>8, <2>9 DEF BookDraft, IdsApart
  <2>11. ExtsApart(g)
    <3>1. h.door.ext # next /\ \A i \in DOMAIN h.eps : h.eps[i].ext # next
      BY <1>1, <2>1, UsedExtsAre
    <3> QED
      BY <2>6, <2>8, <2>9, <3>1 DEF BookDraft, ExtsApart, Free
  <2>12. GroupsFull(g)
    <3>1. GroupFull(g, 1)
      BY <1>1, <2>3, <2>6, <2>8, <2>9 DEF GroupFull
    <3> QED
      BY <2>6, <2>8, <3>1 DEF GroupsFull
  <2>13. Owned(g) /\ EpsFull(g)
    BY <2>8 DEF Owned, EpsFull, EpFull
  <2> QED
    BY <1>3, <2>6, <2>8, <2>10, <2>11, <2>12, <2>13 DEF BookDraft, HasHome
<1> QED
  BY <1>2, <1>3

(* The door station's number, password and group.                              *)
LEMMA DooredKeeps ==
    ASSUME Book!BookAssumption, NEW h, BookDraft(h), Owned(h), EpsFull(h), GroupsFull(h), HasHome(h), NEW g, g = Book!Doored(h)
    PROVE  /\ Normal(g) /\ g.users = h.users /\ g.eps = h.eps /\ g.fresh \in h.fresh..h.fresh + 1
           /\ h.door.pw # None => g.door.pw = h.door.pw /\ g.fresh = h.fresh
           /\ DoorFull(h) => g = h
<1>1. h \in Books /\ h.groups \in Seq(BookGroup) /\ h.door \in BookDoor /\ h.fresh \in Nat
  BY DEF BookDraft, Books
<1>2. None \notin Nat
  BY DEF Book!BookAssumption
<1>3. PICK next \in Nat \ {0} : next = Book!NextExt(Book!UsedExts(h), 101) /\ next \notin Book!UsedExts(h)
  <2>1. IsFiniteSet(Book!UsedExts(h))
    BY <1>1, UsedExtsAre
  <2>2. PICK next : next = Book!NextExt(Book!UsedExts(h), 101)
    OBVIOUS
  <2>3. next \in Nat /\ next >= 101 /\ next \notin Book!UsedExts(h)
    BY <2>1, <2>2, NextExtIsFree
  <2> QED
    BY <2>2, <2>3
<1>4. PICK ext \in Nat \ {0} : ext = IF h.door.ext = None THEN next ELSE h.door.ext
  BY <1>1 DEF BookDoor, BookExt
<1>5. PICK pw \in Nat : pw = IF h.door.pw = None THEN h.fresh ELSE h.door.pw
  BY <1>1 DEF BookDoor, BookNumber
<1>6. PICK fresh \in Nat : fresh = (IF h.door.pw = None THEN h.fresh + 1 ELSE h.fresh) /\ fresh \in h.fresh..h.fresh + 1
  BY <1>1
<1>7. PICK group \in BookNumber : group = IF h.door.group = None /\ h.groups # <<>> THEN h.groups[1].id ELSE h.door.group
  <2>1. h.groups # <<>> => h.groups[1] \in BookGroup
    BY <1>1
  <2> QED
    BY <1>1, <2>1 DEF BookDoor, BookGroup, BookNumber
<1>8. PICK door \in BookDoor : door = [ext |-> ext, pw |-> pw, group |-> group, buttons |-> h.door.buttons]
  BY <1>1 DEF BookDoor, BookExt, BookNumber
<1>9. g = [h EXCEPT !.door = door, !.fresh = fresh]
  BY <1>3, <1>4, <1>5, <1>6, <1>7, <1>8 DEF Book!Doored
<1>10. door.ext = ext /\ door.pw = pw /\ door.group = group /\ door.buttons = h.door.buttons
  BY <1>8
<1>11. /\ g \in Books /\ g.door = door /\ g.fresh = fresh /\ g.users = h.users /\ g.link = h.link
       /\ g.eps = h.eps /\ g.groups = h.groups /\ g.typed = h.typed
  BY <1>1, <1>9 DEF Books
<1>12. IdsApart(g)
  <2>1. (\A j \in DOMAIN h.eps : h.eps[j].id \in Nat) /\ (\A j \in DOMAIN h.groups : h.groups[j].id \in Nat)
    <3>1. h.eps \in Seq(BookAccount)
      BY <1>1 DEF Books
    <3>2. (\A j \in DOMAIN h.eps : h.eps[j] \in BookAccount) /\ (\A j \in DOMAIN h.groups : h.groups[j] \in BookGroup)
      BY <1>1, <3>1
    <3> QED
      BY <3>2 DEF BookAccount, BookGroup
  <2>2. fresh > 1 /\ (\A j \in DOMAIN h.eps : h.eps[j].id < fresh) /\ (\A j \in DOMAIN h.groups : h.groups[j].id < fresh)
    <3>1. h.fresh > 1 /\ (\A j \in DOMAIN h.eps : h.eps[j].id < h.fresh) /\ (\A j \in DOMAIN h.groups : h.groups[j].id < h.fresh)
      BY DEF BookDraft, IdsApart
    <3> QED
      BY <1>1, <1>6, <2>1, <3>1
  <2> QED
    BY <1>11, <2>2 DEF BookDraft, IdsApart
<1>13. ExtsApart(g)
  <2>2. (\A i \in DOMAIN h.eps : h.eps[i].ext = ext => Free(h, ext)) /\ (\A i \in DOMAIN h.groups : h.groups[i].ext = ext => Free(h, ext))
    <3>1. CASE h.door.ext = None
      BY <1>1, <1>3, <1>4, <3>1, UsedExtsAre
    <3>2. CASE h.door.ext # None
      BY <1>4, <3>2 DEF BookDraft, ExtsApart
    <3> QED
      BY <3>1, <3>2
  <2> QED
    BY <1>10, <1>11, <2>2 DEF BookDraft, ExtsApart, Free
<1>14. Owned(g) /\ EpsFull(g) /\ HasHome(g)
  BY <1>11 DEF Owned, EpsFull, EpFull, HasHome
<1>15. GroupsFull(g)
  BY <1>11 DEF GroupsFull, GroupFull
<1>16. DoorFull(g)
  <2>1. h.groups # <<>> => h.groups[1].id \in Nat
    <3>1. h.groups # <<>> => h.groups[1] \in BookGroup
      BY <1>1
    <3> QED
      BY <3>1 DEF BookGroup
  <2>2. h.groups # <<>> => group # None
    BY <1>2, <1>7, <2>1
  <2> QED
    BY <1>2, <1>10, <1>11, <2>2 DEF DoorFull
<1>17. ASSUME DoorFull(h) PROVE g = h
  <2>1. door = h.door /\ fresh = h.fresh
    BY <1>1, <1>4, <1>5, <1>6, <1>7, <1>8, <1>17 DEF DoorFull, BookDoor
  <2>2. g = [h EXCEPT !.door = h.door, !.fresh = h.fresh]
    BY <1>9, <2>1
  <2> QED
    BY <1>1, <2>2 DEF Books
<1> QED
  BY <1>5, <1>6, <1>10, <1>11, <1>12, <1>13, <1>14, <1>15, <1>16, <1>17 DEF BookDraft, Normal

(* What normalizing makes of any draft of a book, and of a book as it is.      *)
LEMMA NormalizeKeeps ==
    ASSUME Book!BookAssumption, NEW h, BookDraft(h), NEW g, g = Book!NormalizeVoip(h)
    PROVE  /\ Normal(g) /\ SecretsFrom(h, g) /\ g.users = h.users /\ g.fresh >= h.fresh
           /\ h.door.pw # None => g.door.pw = h.door.pw
           /\ EpsFull(h) => g.fresh <= h.fresh + 1
           /\ EpsFull(h) /\ h.door.pw # None => g.fresh = h.fresh
           /\ Normal(h) => g = h
<1>1. PICK l : l = Book!Linked(h)
  OBVIOUS
<1>2. PICK n : n = Book!Noted(l, Book!Kept(l))
  OBVIOUS
<1>3. PICK m : m = Book!Numbered(n)
  OBVIOUS
<1>4. PICK o : o = Book!Grouped(m)
  OBVIOUS
<1>5. PICK q : q = Book!Homed(o)
  OBVIOUS
<1>6. g = Book!Doored(q)
  BY <1>1, <1>2, <1>3, <1>4, <1>5 DEF Book!NormalizeVoip
<1>7. /\ BookDraft(l) /\ SecretsFrom(h, l) /\ l = [h EXCEPT !.eps = l.eps]
      /\ EpsFull(h) => EpsFull(l)
      /\ (\A i \in DOMAIN h.eps : h.eps[i].user # None) => l = h
  BY <1>1, LinkedKeeps
<1>8. l.users = h.users /\ l.door = h.door /\ l.fresh = h.fresh
  <2>1. h \in Books /\ l \in Books
    BY <1>7 DEF BookDraft
  <2> QED
    BY <1>7, <2>1 DEF Books
<1>9. /\ BookDraft(n) /\ Owned(n) /\ SecretsFrom(l, n)
      /\ n.users = l.users /\ n.door = l.door /\ n.fresh = l.fresh
      /\ EpsFull(l) => EpsFull(n)
      /\ Owned(l) => n = l
  BY <1>2, <1>7, NotedKeeps
<1>10. NumberedOf(n, Len(n.eps), m)
  BY <1>3, <1>9, NumberedKeeps
<1>11. BookDraft(m) /\ Owned(m) /\ EpsFull(m) /\ SecretsFrom(n, m)
  <2>1. m.eps \in Seq(BookAccount)
    BY <1>10 DEF NumberedOf, BookDraft, Books
  <2>2. \A j \in DOMAIN m.eps : j \in 1..Len(n.eps)
    BY <1>10, <2>1 DEF NumberedOf
  <2> QED
    BY <1>10, <2>2 DEF NumberedOf, EpsFull
<1>12. GroupedOf(m, Len(m.groups), o)
  BY <1>4, <1>11, GroupedKeeps
<1>13. BookDraft(o) /\ Owned(o) /\ EpsFull(o) /\ GroupsFull(o) /\ o.eps = m.eps
  <2>1. o.groups \in Seq(BookGroup)
    BY <1>12 DEF GroupedOf, BookDraft, Books
  <2>2. \A j \in DOMAIN o.groups : j \in 1..Len(m.groups)
    BY <1>12, <2>1 DEF GroupedOf
  <2> QED
    BY <1>12, <2>2 DEF GroupedOf, GroupsFull
<1>14. /\ BookDraft(q) /\ Owned(q) /\ EpsFull(q) /\ GroupsFull(q) /\ HasHome(q)
       /\ q.users = o.users /\ q.eps = o.eps /\ q.door = o.door /\ q.fresh = o.fresh
       /\ HasHome(o) => q = o
  BY <1>5, <1>13, HomedKeeps
<1>15. /\ Normal(g) /\ g.users = q.users /\ g.eps = q.eps /\ g.fresh \in q.fresh..q.fresh + 1
       /\ q.door.pw # None => g.door.pw = q.door.pw /\ g.fresh = q.fresh
       /\ DoorFull(q) => g = q
  BY <1>6, <1>14, DooredKeeps
<1>16. SecretsFrom(h, g)
  <2>1. SecretsFrom(h, n)
    BY <1>7, <1>9, SecretsThrough
  <2>2. SecretsFrom(h, m)
    BY <1>11, <2>1, SecretsThrough
  <2>3. g.eps = m.eps
    BY <1>13, <1>14, <1>15
  <2> QED
    BY <2>2, <2>3 DEF SecretsFrom
<1>17. g.users = h.users /\ (h.door.pw # None => g.door.pw = h.door.pw)
  BY <1>8, <1>9, <1>10, <1>12, <1>14, <1>15 DEF NumberedOf, GroupedOf
<1>18. g.fresh >= h.fresh
  <2>1. h.fresh \in Nat /\ m.fresh \in Nat /\ g.fresh \in Nat
    BY <1>11, <1>15 DEF BookDraft, Normal, Books
  <2>2. m.fresh >= h.fresh
    BY <1>8, <1>9, <1>10 DEF NumberedOf
  <2>3. g.fresh >= m.fresh
    BY <1>12, <1>14, <1>15 DEF GroupedOf
  <2> QED
    BY <2>1, <2>2, <2>3
<1>19. ASSUME Normal(h) PROVE g = h
  <2>1. l = h
    <3>1. \A i \in DOMAIN h.eps : h.eps[i].user \in Nat
      BY <1>19 DEF Normal, Owned, BookDraft, Books, Book!BookAssumption
    <3> QED
      BY <1>7, <3>1 DEF Book!BookAssumption
  <2>2. n = h
    BY <1>9, <1>19, <2>1 DEF Normal
  <2>3. m = h
    BY <1>10, <1>19, <2>2 DEF Normal, NumberedOf
  <2>4. o = h
    BY <1>12, <1>19, <2>3 DEF Normal, GroupedOf
  <2>5. q = h
    BY <1>14, <1>19, <2>4 DEF Normal
  <2> QED
    BY <1>15, <1>19, <2>5 DEF Normal
<1>20. ASSUME EpsFull(h)
       PROVE  g.fresh <= h.fresh + 1 /\ (h.door.pw # None => g.fresh = h.fresh)
  <2>1. m = n
    BY <1>7, <1>9, <1>10, <1>20 DEF NumberedOf
  <2>2. q.fresh = h.fresh /\ q.door = h.door
    BY <1>8, <1>9, <1>12, <1>14, <2>1 DEF GroupedOf
  <2> QED
    BY <1>15, <2>2
<1> QED
  BY <1>15, <1>16, <1>17, <1>18, <1>19, <1>20

------------------------------------------------------------------------------
(* What the installer may make of a copy of the book is a draft of a book.     *)
EpFrom(old, e, typed, F) ==
    /\ e.id = old.id /\ e.pw \in {old.pw, None, F}
    /\ e.ext = old.ext \/ e.ext = None \/ e.ext \in typed
EpsFrom(c, eps, typed, F) ==
    /\ eps \in Seq(BookAccount)
    /\ \A j, k \in DOMAIN eps : eps[j].id = eps[k].id => j = k
    /\ \A k \in DOMAIN eps :
          \/ eps[k].id = F /\ eps[k].ext = None /\ eps[k].pw = None
          \/ \E a \in DOMAIN c.eps : EpFrom(c.eps[a], eps[k], typed, F)
DoorFrom(old, door, typed, F) ==
    /\ door.pw \in {old.pw, None, F}
    /\ door.ext = old.ext \/ door.ext = None \/ door.ext \in typed
GroupsFrom(c, groups, F) ==
    /\ groups \in Seq(BookGroup)
    /\ \A j, k \in DOMAIN groups : groups[j].id = groups[k].id => j = k
    /\ \A k \in DOMAIN groups :
          \/ groups[k].id = F /\ groups[k].ext = None
          \/ \E a \in DOMAIN c.groups : groups[k].id = c.groups[a].id /\ groups[k].ext = c.groups[a].ext

LEMMA EditedIsDraft ==
    ASSUME Book!BookAssumption, NEW c, BookDraft(c), NEW F \in Nat, c.fresh <= F,
           NEW x, x \in Books, x.fresh = F + 1, c.typed \subseteq x.typed, DoorFrom(c.door, x.door, x.typed, F),
           EpsFrom(c, x.eps, x.typed, F), GroupsFrom(c, x.groups, F)
    PROVE  BookDraft(x)
<1>1. c \in Books /\ c.fresh \in Nat /\ c.fresh > 1
  BY DEF BookDraft, Books, IdsApart
<1>2. (\A j \in DOMAIN c.eps : c.eps[j].id \in Nat /\ c.eps[j].id < c.fresh)
      /\ (\A j \in DOMAIN c.groups : c.groups[j].id \in Nat /\ c.groups[j].id < c.fresh)
  <2>1. c.eps \in Seq(BookAccount) /\ c.groups \in Seq(BookGroup)
    BY <1>1 DEF Books
  <2>2. (\A j \in DOMAIN c.eps : c.eps[j] \in BookAccount) /\ (\A j \in DOMAIN c.groups : c.groups[j] \in BookGroup)
    BY <2>1
  <2>3. (\A j \in DOMAIN c.eps : c.eps[j].id \in Nat) /\ (\A j \in DOMAIN c.groups : c.groups[j].id \in Nat)
    BY <2>2 DEF BookAccount, BookGroup
  <2> QED
    BY <2>3 DEF BookDraft, IdsApart
<1>3. IdsApart(x)
  <2>1. \A k \in DOMAIN x.eps : x.eps[k].id < F + 1
    BY <1>1, <1>2 DEF EpsFrom, EpFrom
  <2>2. \A k \in DOMAIN x.groups : x.groups[k].id < F + 1
    BY <1>1, <1>2 DEF GroupsFrom
  <2>3. F + 1 > 1
    BY <1>1
  <2> QED
    BY <2>1, <2>2, <2>3 DEF IdsApart, EpsFrom, GroupsFrom
<1>t. \A n : Free(c, n) => Free(x, n)
  BY DEF Free
<1>4. ASSUME NEW j \in DOMAIN x.eps, ~Free(x, x.eps[j].ext)
      PROVE  \E a \in DOMAIN c.eps : x.eps[j].id = c.eps[a].id /\ x.eps[j].ext = c.eps[a].ext
  BY <1>4 DEF EpsFrom, EpFrom, Free
<1>5. ASSUME NEW j \in DOMAIN x.groups, ~Free(x, x.groups[j].ext)
      PROVE  \E a \in DOMAIN c.groups : x.groups[j].id = c.groups[a].id /\ x.groups[j].ext = c.groups[a].ext
  BY <1>5 DEF GroupsFrom, Free
<1>d. ~Free(x, x.door.ext) => x.door.ext = c.door.ext
  BY DEF DoorFrom, Free
<1>6. ASSUME NEW j \in DOMAIN x.eps, NEW k \in DOMAIN x.eps, x.eps[j].ext = x.eps[k].ext, ~Free(x, x.eps[j].ext) PROVE j = k
  <2>1. PICK a \in DOMAIN c.eps : x.eps[j].id = c.eps[a].id /\ x.eps[j].ext = c.eps[a].ext
    BY <1>4, <1>6
  <2>2. PICK b \in DOMAIN c.eps : x.eps[k].id = c.eps[b].id /\ x.eps[k].ext = c.eps[b].ext
    BY <1>4, <1>6
  <2>3. a = b
    BY <1>t, <1>6, <2>1, <2>2 DEF BookDraft, ExtsApart
  <2> QED
    BY <2>1, <2>2, <2>3 DEF EpsFrom
<1>7. ASSUME NEW j \in DOMAIN x.groups, NEW k \in DOMAIN x.groups, x.groups[j].ext = x.groups[k].ext, ~Free(x, x.groups[j].ext) PROVE j = k
  <2>1. PICK a \in DOMAIN c.groups : x.groups[j].id = c.groups[a].id /\ x.groups[j].ext = c.groups[a].ext
    BY <1>5, <1>7
  <2>2. PICK b \in DOMAIN c.groups : x.groups[k].id = c.groups[b].id /\ x.groups[k].ext = c.groups[b].ext
    BY <1>5, <1>7
  <2>3. a = b
    BY <1>t, <1>7, <2>1, <2>2 DEF BookDraft, ExtsApart
  <2> QED
    BY <2>1, <2>2, <2>3 DEF GroupsFrom
<1>8. ASSUME NEW j \in DOMAIN x.eps, NEW k \in DOMAIN x.groups, x.eps[j].ext = x.groups[k].ext PROVE Free(x, x.eps[j].ext)
  <2> SUFFICES ASSUME ~Free(x, x.eps[j].ext) PROVE FALSE
    OBVIOUS
  <2>1. PICK a \in DOMAIN c.eps : x.eps[j].ext = c.eps[a].ext
    BY <1>4
  <2>2. PICK b \in DOMAIN c.groups : x.groups[k].ext = c.groups[b].ext
    BY <1>5, <1>8
  <2> QED
    BY <1>t, <1>8, <2>1, <2>2 DEF BookDraft, ExtsApart
<1>9. ASSUME NEW j \in DOMAIN x.eps, x.eps[j].ext = x.door.ext PROVE Free(x, x.eps[j].ext)
  BY <1>t, <1>d, <1>4, <1>9 DEF BookDraft, ExtsApart
<1>10. ASSUME NEW j \in DOMAIN x.groups, x.groups[j].ext = x.door.ext PROVE Free(x, x.groups[j].ext)
  BY <1>t, <1>d, <1>5, <1>10 DEF BookDraft, ExtsApart
<1>11. ExtsApart(x)
  BY <1>6, <1>7, <1>8, <1>9, <1>10 DEF ExtsApart
<1> QED
  BY <1>3, <1>11 DEF BookDraft

LEMMA WithoutOne ==
    ASSUME NEW T, NEW s \in Seq(T), NEW i, NEW r, r = Book!Without(s, i)
    PROVE  /\ r \in Seq(T)
           /\ \E f \in [DOMAIN r -> DOMAIN s] :
                 /\ \A k \in DOMAIN r : r[k] = s[f[k]]
                 /\ \A j, k \in DOMAIN r : f[j] = f[k] => j = k
<1>1. PICK keep : keep = DOMAIN s \ {i}
  OBVIOUS
<1>2. r = Picked(s, keep)
  BY <1>1, BookFilters DEF Book!Without
<1>3. r \in Seq(T) /\ PickedOf(s, keep, Len(s), r)
  BY <1>2, PickedFacts
<1>4. DOMAIN s = 1..Len(s)
  OBVIOUS
<1> QED
  BY <1>3, <1>4 DEF PickedOf

(* One change the installer makes to a copy c of the book; F is a new name.    *)
EditOf(c, d, F) ==
    /\ d \in Books /\ d.users = c.users /\ c.typed \subseteq d.typed
    /\ DoorFrom(c.door, d.door, d.typed, F)
    /\ EpsFrom(c, d.eps, d.typed, F) /\ GroupsFrom(c, d.groups, F)

LEMMA EpsEdited ==
    ASSUME NEW c, c \in Books, NEW F, GroupsFrom(c, c.groups, F), NEW E, EpsFrom(c, E, c.typed, F),
           NEW d, d = [c EXCEPT !.eps = E]
    PROVE  EditOf(c, d, F)
<1>1. E \in Seq(BookAccount)
  BY DEF EpsFrom
<1>2. /\ d \in Books /\ d.eps = E /\ d.users = c.users /\ d.door = c.door /\ d.groups = c.groups
      /\ d.typed = c.typed
  BY <1>1 DEF Books
<1> QED
  BY <1>2 DEF EditOf, DoorFrom

(* A number typed for an account or for the door, and a password for the door. *)
LEMMA TypedFor ==
    ASSUME Book!BookAssumption, NEW c, c \in Books, NEW n \in bNumbers \cup {None},
           NEW t, t = Book!Typing(c, n)
    PROVE  /\ n \in BookExt /\ t \in Books /\ c.typed \subseteq t.typed /\ (n = None \/ n \in t.typed)
           /\ t.users = c.users /\ t.eps = c.eps /\ t.groups = c.groups /\ t.door = c.door
<1>1. n \in BookExt
  BY DEF Book!BookAssumption, BookExt
<1>2. PICK T : T = c.typed \cup ({n} \ {None})
  OBVIOUS
<1>3. T \in SUBSET Nat /\ c.typed \subseteq T /\ (n = None \/ n \in T)
  BY <1>1, <1>2 DEF Books, BookExt
<1>4. t = [c EXCEPT !.typed = T]
  BY <1>2 DEF Book!Typing
<1>5. /\ t \in Books /\ t.typed = T
      /\ t.users = c.users /\ t.eps = c.eps /\ t.groups = c.groups /\ t.door = c.door
  BY <1>3, <1>4 DEF Books
<1> QED
  BY <1>1, <1>3, <1>5

LEMMA EpTyped ==
    ASSUME NEW c, c \in Books, NEW F, EpsFrom(c, c.eps, c.typed, F), GroupsFrom(c, c.groups, F),
           NEW t, t \in Books, c.typed \subseteq t.typed,
           t.users = c.users, t.eps = c.eps, t.groups = c.groups, t.door = c.door,
           NEW n \in BookExt, n = None \/ n \in t.typed, NEW i \in DOMAIN c.eps,
           NEW d, d = [t EXCEPT !.eps[i].ext = n]
    PROVE  EditOf(c, d, F)
<1>1. c.eps \in Seq(BookAccount) /\ c.eps[i] \in BookAccount
  BY DEF Books
<1>2. PICK e : e = [c.eps[i] EXCEPT !.ext = n]
  OBVIOUS
<1>3. e \in BookAccount /\ e.id = c.eps[i].id /\ e.pw = c.eps[i].pw /\ e.ext = n
  BY <1>1, <1>2 DEF BookAccount
<1>4. PICK E : E = [c.eps EXCEPT ![i] = e]
  OBVIOUS
<1>5. E \in Seq(BookAccount) /\ DOMAIN E = DOMAIN c.eps /\ E[i] = e /\ \A k \in DOMAIN c.eps : k # i => E[k] = c.eps[k]
  BY <1>1, <1>3, <1>4
<1>6. d = [t EXCEPT !.eps = E]
  BY <1>2, <1>4
<1>7. /\ d \in Books /\ d.eps = E /\ d.users = c.users /\ d.door = c.door /\ d.groups = c.groups
      /\ d.typed = t.typed
  BY <1>5, <1>6 DEF Books
<1>8. \A k \in DOMAIN E : EpFrom(c.eps[k], E[k], t.typed, F)
  BY <1>3, <1>5 DEF EpFrom
<1>9. \A j, k \in DOMAIN E : E[j].id = E[k].id => j = k
  BY <1>3, <1>5 DEF EpsFrom
<1>10. EpsFrom(c, E, t.typed, F)
  BY <1>5, <1>8, <1>9 DEF EpsFrom
<1> QED
  BY <1>7, <1>10 DEF EditOf, DoorFrom

LEMMA DoorTyped ==
    ASSUME NEW c, c \in Books, NEW F, EpsFrom(c, c.eps, c.typed, F), GroupsFrom(c, c.groups, F),
           NEW t, t \in Books, c.typed \subseteq t.typed,
           t.users = c.users, t.eps = c.eps, t.groups = c.groups, t.door = c.door,
           NEW door \in BookDoor, DoorFrom(c.door, door, t.typed, F),
           NEW d, d = [t EXCEPT !.door = door]
    PROVE  EditOf(c, d, F)
<1>1. /\ d \in Books /\ d.eps = c.eps /\ d.users = c.users /\ d.door = door /\ d.groups = c.groups
      /\ d.typed = t.typed
  BY DEF Books
<1>2. EpsFrom(c, c.eps, t.typed, F)
  BY DEF EpsFrom, EpFrom
<1> QED
  BY <1>1, <1>2 DEF EditOf

LEMMA GroupsEdited ==
    ASSUME NEW c, c \in Books, NEW F, EpsFrom(c, c.eps, c.typed, F), NEW G, GroupsFrom(c, G, F),
           NEW group \in BookNumber, NEW buttons \in Seq(Nat),
           NEW d, d = [c EXCEPT !.groups = G, !.door = [c.door EXCEPT !.group = group, !.buttons = buttons]]
    PROVE  EditOf(c, d, F)
<1>1. G \in Seq(BookGroup)
  BY DEF GroupsFrom
<1>2. PICK door \in BookDoor : door = [c.door EXCEPT !.group = group, !.buttons = buttons]
                               /\ door.ext = c.door.ext /\ door.pw = c.door.pw
  <2>1. c.door \in BookDoor
    BY DEF Books
  <2>2. PICK door : door = [c.door EXCEPT !.group = group, !.buttons = buttons]
    OBVIOUS
  <2>3. door \in BookDoor /\ door.ext = c.door.ext /\ door.pw = c.door.pw
    BY <2>1, <2>2 DEF BookDoor
  <2> QED
    BY <2>2, <2>3
<1>3. /\ d \in Books /\ d.groups = G /\ d.users = c.users /\ d.eps = c.eps /\ d.door = door
      /\ d.typed = c.typed
  BY <1>1, <1>2 DEF Books
<1> QED
  BY <1>2, <1>3 DEF EditOf, DoorFrom

LEMMA EditsKeep ==
    ASSUME Book!BookAssumption, NEW c, BookDraft(c), NEW F \in Nat, F = bHouse.fresh, c.fresh <= F,
           NEW d \in Book!Edits(c)
    PROVE  EditOf(c, d, F)
<1>1. c \in Books /\ c.eps \in Seq(BookAccount) /\ c.groups \in Seq(BookGroup) /\ c.door \in BookDoor /\ c.users \subseteq bPeople /\ c.fresh \in Nat
  BY DEF BookDraft, Books
<1>2. DOMAIN c.eps = 1..Len(c.eps) /\ Len(c.eps) \in Nat /\ DOMAIN c.groups = 1..Len(c.groups) /\ Len(c.groups) \in Nat
  BY <1>1
<1>3. (\A i \in DOMAIN c.eps : c.eps[i] \in BookAccount) /\ (\A i \in DOMAIN c.groups : c.groups[i] \in BookGroup)
  BY <1>1
<1>4. (\A i \in DOMAIN c.eps : c.eps[i].id \in Nat /\ c.eps[i].id # F)
      /\ (\A i \in DOMAIN c.groups : c.groups[i].id \in Nat /\ c.groups[i].id # F)
  <2>1. (\A i \in DOMAIN c.eps : c.eps[i].id \in Nat) /\ (\A i \in DOMAIN c.groups : c.groups[i].id \in Nat)
    BY <1>3 DEF BookAccount, BookGroup
  <2>2. (\A i \in DOMAIN c.eps : c.eps[i].id < c.fresh) /\ (\A i \in DOMAIN c.groups : c.groups[i].id < c.fresh)
    BY DEF BookDraft, IdsApart
  <2> QED
    BY <1>1, <2>1, <2>2
<1>5. (\A i, j \in DOMAIN c.eps : c.eps[i].id = c.eps[j].id => i = j)
      /\ (\A i, j \in DOMAIN c.groups : c.groups[i].id = c.groups[j].id => i = j)
  BY DEF BookDraft, IdsApart
<1>6. EpsFrom(c, c.eps, c.typed, F) /\ GroupsFrom(c, c.groups, F)
  BY <1>1, <1>5 DEF EpsFrom, EpFrom, GroupsFrom
<1>7. c.door.group \in BookNumber /\ c.door.buttons \in Seq(Nat) /\ c.door.ext \in BookExt /\ c.door.pw \in BookNumber
  BY <1>1 DEF BookDoor
<1>8. ASSUME NEW u \in c.users, d = Book!AddAccount(c, u)
      PROVE  EditOf(c, d, F)
  <2>1. PICK e \in BookAccount : e = [id |-> F, user |-> u, ext |-> None, pw |-> None]
                                 /\ e.id = F /\ e.ext = None /\ e.pw = None
    <3>1. PICK e : e = [id |-> F, user |-> u, ext |-> None, pw |-> None]
      OBVIOUS
    <3>2. e \in BookAccount /\ e.id = F /\ e.ext = None /\ e.pw = None
      BY <1>1, <3>1 DEF BookAccount, BookExt, BookNumber
    <3> QED
      BY <3>1, <3>2
  <2>2. PICK E : E = Append(c.eps, e)
    OBVIOUS
  <2>3. E \in Seq(BookAccount) /\ DOMAIN E = 1..Len(c.eps) + 1 /\ E[Len(c.eps) + 1] = e
        /\ \A i \in DOMAIN c.eps : E[i] = c.eps[i]
    BY <1>1, <2>1, <2>2
  <2>4. \A k \in DOMAIN E : k = Len(c.eps) + 1 \/ k \in DOMAIN c.eps
    BY <1>2, <2>3
  <2>5. \A j, k \in DOMAIN E : E[j].id = E[k].id => j = k
    BY <1>4, <1>5, <2>1, <2>3, <2>4
  <2>6. EpsFrom(c, E, c.typed, F)
    BY <2>1, <2>3, <2>4, <2>5 DEF EpsFrom, EpFrom
  <2>7. d = [c EXCEPT !.eps = E]
    BY <1>8, <2>1, <2>2 DEF Book!AddAccount
  <2> QED
    BY <1>1, <1>6, <2>6, <2>7, EpsEdited
<1>9. ASSUME NEW i \in DOMAIN c.eps, d = [c EXCEPT !.eps = Book!Without(c.eps, i)]
      PROVE  EditOf(c, d, F)
  <2>1. PICK E : E = Book!Without(c.eps, i)
    OBVIOUS
  <2>2. E \in Seq(BookAccount) /\ \E f \in [DOMAIN E -> DOMAIN c.eps] :
            (\A k \in DOMAIN E : E[k] = c.eps[f[k]]) /\ (\A j, k \in DOMAIN E : f[j] = f[k] => j = k)
    BY <1>1, <2>1, WithoutOne
  <2>3. PICK f \in [DOMAIN E -> DOMAIN c.eps] :
            (\A k \in DOMAIN E : E[k] = c.eps[f[k]]) /\ (\A j, k \in DOMAIN E : f[j] = f[k] => j = k)
    BY <2>2
  <2>4. \A j, k \in DOMAIN E : E[j].id = E[k].id => j = k
    BY <1>5, <2>3
  <2>5. EpsFrom(c, E, c.typed, F)
    BY <2>2, <2>3, <2>4 DEF EpsFrom, EpFrom
  <2> QED
    BY <1>1, <1>6, <1>9, <2>1, <2>5, EpsEdited
<1>10. ASSUME NEW i \in DOMAIN c.eps, NEW e \in BookAccount, e.id = c.eps[i].id, e.ext = c.eps[i].ext, e.pw \in {c.eps[i].pw, None, F},
              d = [c EXCEPT !.eps = [c.eps EXCEPT ![i] = e]]
       PROVE  EditOf(c, d, F)
  <2>1. PICK E : E = [c.eps EXCEPT ![i] = e]
    OBVIOUS
  <2>2. E \in Seq(BookAccount) /\ DOMAIN E = DOMAIN c.eps
    BY <1>1, <2>1
  <2>3. E[i] = e /\ \A k \in DOMAIN c.eps : k # i => E[k] = c.eps[k]
    BY <2>1
  <2>4. \A k \in DOMAIN E : EpFrom(c.eps[k], E[k], c.typed, F)
    BY <1>10, <2>2, <2>3 DEF EpFrom
  <2>5. \A j, k \in DOMAIN E : E[j].id = E[k].id => j = k
    BY <1>5, <2>2, <2>4 DEF EpFrom
  <2>6. EpsFrom(c, E, c.typed, F)
    BY <2>2, <2>4, <2>5 DEF EpsFrom
  <2> QED
    BY <1>1, <1>6, <1>10, <2>1, <2>6, EpsEdited
<1>11. ASSUME NEW i \in DOMAIN c.eps, NEW u \in c.users \cup {None}, d = [c EXCEPT !.eps[i].user = u]
       PROVE  EditOf(c, d, F)
  <2>1. PICK e \in BookAccount : e = [c.eps[i] EXCEPT !.user = u] /\ e.id = c.eps[i].id /\ e.ext = c.eps[i].ext /\ e.pw = c.eps[i].pw
    <3>1. PICK e : e = [c.eps[i] EXCEPT !.user = u]
      OBVIOUS
    <3>2. e \in BookAccount /\ e.id = c.eps[i].id /\ e.ext = c.eps[i].ext /\ e.pw = c.eps[i].pw
      BY <1>1, <1>3, <3>1 DEF BookAccount
    <3> QED
      BY <3>1, <3>2
  <2>2. d = [c EXCEPT !.eps = [c.eps EXCEPT ![i] = e]]
    BY <1>11, <2>1
  <2> QED
    BY <1>10, <2>1, <2>2
<1>12. ASSUME NEW i \in DOMAIN c.eps, NEW pw \in {None, F}, d = [c EXCEPT !.eps[i].pw = pw]
       PROVE  EditOf(c, d, F)
  <2>1. PICK e \in BookAccount : e = [c.eps[i] EXCEPT !.pw = pw] /\ e.id = c.eps[i].id /\ e.ext = c.eps[i].ext /\ e.pw = pw
    <3>1. PICK e : e = [c.eps[i] EXCEPT !.pw = pw]
      OBVIOUS
    <3>2. e \in BookAccount /\ e.id = c.eps[i].id /\ e.ext = c.eps[i].ext /\ e.pw = pw
      BY <1>3, <3>1 DEF BookAccount, BookNumber
    <3> QED
      BY <3>1, <3>2
  <2>2. d = [c EXCEPT !.eps = [c.eps EXCEPT ![i] = e]]
    BY <1>12, <2>1
  <2> QED
    BY <1>10, <2>1, <2>2
<1>13. ASSUME NEW m \in {<<>>} \cup {<<e.id>> : e \in Book!Range0(c.eps)}, NEW b \in {<<>>, <<F>>},
              d = Book!AddGroup(c, m, b)
       PROVE  EditOf(c, d, F)
  <2>1. m \in Seq(Nat)
    <3>1. ASSUME NEW k \in DOMAIN c.eps PROVE <<c.eps[k].id>> \in Seq(Nat)
      BY <1>4
    <3>2. CASE m = <<>>
      BY <3>2
    <3>3. CASE m # <<>>
      <4>1. PICK e \in Book!Range0(c.eps) : m = <<e.id>>
        BY <3>3
      <4>2. PICK k \in DOMAIN c.eps : e = c.eps[k]
        BY DEF Book!Range0
      <4> QED
        BY <3>1, <4>1, <4>2
    <3> QED
      BY <3>2, <3>3
  <2>2. b \in Seq(Nat)
    <3>1. <<F>> \in Seq(Nat) /\ <<>> \in Seq(Nat)
      OBVIOUS
    <3> QED
      BY <3>1
  <2>3. PICK r \in BookGroup : r = [id |-> F, ext |-> None, members |-> m] /\ r.id = F /\ r.ext = None
    <3>1. PICK r : r = [id |-> F, ext |-> None, members |-> m]
      OBVIOUS
    <3>2. r \in BookGroup /\ r.id = F /\ r.ext = None
      BY <2>1, <3>1 DEF BookGroup, BookExt
    <3> QED
      BY <3>1, <3>2
  <2>4. PICK G : G = Append(c.groups, r)
    OBVIOUS
  <2>5. G \in Seq(BookGroup) /\ DOMAIN G = 1..Len(c.groups) + 1 /\ G[Len(c.groups) + 1] = r
        /\ \A i \in DOMAIN c.groups : G[i] = c.groups[i]
    BY <1>1, <2>3, <2>4
  <2>6. \A k \in DOMAIN G : k = Len(c.groups) + 1 \/ k \in DOMAIN c.groups
    BY <1>2, <2>5
  <2>7. \A j, k \in DOMAIN G : G[j].id = G[k].id => j = k
    BY <1>4, <1>5, <2>3, <2>5, <2>6
  <2>8. GroupsFrom(c, G, F)
    BY <2>3, <2>5, <2>6, <2>7 DEF GroupsFrom
  <2>9. d = [c EXCEPT !.groups = G, !.door = [c.door EXCEPT !.buttons = b]]
    BY <1>1, <1>13, <2>3, <2>4 DEF Books, Book!AddGroup
  <2>10. [c.door EXCEPT !.buttons = b] = [c.door EXCEPT !.group = c.door.group, !.buttons = b]
    BY <1>1 DEF BookDoor
  <2> QED
    BY <1>1, <1>6, <1>7, <2>2, <2>8, <2>9, <2>10, GroupsEdited
<1>14. ASSUME NEW G, GroupsFrom(c, G, F), d = [c EXCEPT !.groups = G]
       PROVE  EditOf(c, d, F)
  <2>1. c.door = [c.door EXCEPT !.group = c.door.group, !.buttons = c.door.buttons]
    BY <1>1 DEF BookDoor
  <2>2. d = [c EXCEPT !.groups = G, !.door = c.door]
    BY <1>1, <1>14 DEF Books
  <2> QED
    <3>1. PICK g \in BookNumber, b \in Seq(Nat) : g = c.door.group /\ b = c.door.buttons
      BY <1>7
    <3>2. d = [c EXCEPT !.groups = G, !.door = [c.door EXCEPT !.group = g, !.buttons = b]]
      BY <2>1, <2>2, <3>1
    <3> QED
      BY <1>1, <1>6, <1>14, <3>2, GroupsEdited
<1>15. ASSUME NEW i \in DOMAIN c.groups, d = [c EXCEPT !.groups = Book!Without(c.groups, i)]
      PROVE  EditOf(c, d, F)
  <2>1. PICK G : G = Book!Without(c.groups, i)
    OBVIOUS
  <2>2. G \in Seq(BookGroup) /\ \E f \in [DOMAIN G -> DOMAIN c.groups] :
            (\A k \in DOMAIN G : G[k] = c.groups[f[k]]) /\ (\A j, k \in DOMAIN G : f[j] = f[k] => j = k)
    BY <1>1, <2>1, WithoutOne
  <2>3. PICK f \in [DOMAIN G -> DOMAIN c.groups] :
            (\A k \in DOMAIN G : G[k] = c.groups[f[k]]) /\ (\A j, k \in DOMAIN G : f[j] = f[k] => j = k)
    BY <2>2
  <2>4. \A j, k \in DOMAIN G : G[j].id = G[k].id => j = k
    BY <1>5, <2>3
  <2>5. GroupsFrom(c, G, F)
    BY <2>2, <2>3, <2>4 DEF GroupsFrom
  <2> QED
    BY <1>14, <1>15, <2>1, <2>5
<1>16. ASSUME NEW i \in DOMAIN c.groups, d = [c EXCEPT !.groups[i].members = <<>>]
       PROVE  EditOf(c, d, F)
  <2>1. PICK r \in BookGroup : r = [c.groups[i] EXCEPT !.members = <<>>] /\ r.id = c.groups[i].id /\ r.ext = c.groups[i].ext
    <3>1. PICK r : r = [c.groups[i] EXCEPT !.members = <<>>]
      OBVIOUS
    <3>2. <<>> \in Seq(Nat)
      OBVIOUS
    <3>3. r \in BookGroup /\ r.id = c.groups[i].id /\ r.ext = c.groups[i].ext
      BY <1>3, <3>1, <3>2 DEF BookGroup
    <3> QED
      BY <3>1, <3>3
  <2>2. PICK G : G = [c.groups EXCEPT ![i] = r]
    OBVIOUS
  <2>3. G \in Seq(BookGroup) /\ DOMAIN G = DOMAIN c.groups
    BY <1>1, <2>2
  <2>4. G[i] = r /\ \A k \in DOMAIN c.groups : k # i => G[k] = c.groups[k]
    BY <2>2
  <2>5. \A k \in DOMAIN G : G[k].id = c.groups[k].id /\ G[k].ext = c.groups[k].ext
    BY <2>1, <2>3, <2>4
  <2>6. GroupsFrom(c, G, F)
    BY <1>5, <2>3, <2>5 DEF GroupsFrom
  <2>7. d = [c EXCEPT !.groups = G]
    BY <1>16, <2>1, <2>2
  <2> QED
    BY <1>14, <2>6, <2>7
<1>17. ASSUME NEW g \in Book!IdsOf(c.groups) \cup {None}, d = Book!SetDoorGroup(c, g)
       PROVE  EditOf(c, d, F)
  <2>1. g \in BookNumber
    <3>1. CASE g = None
      BY <3>1 DEF BookNumber
    <3>2. CASE g # None
      <4>1. PICK r \in Book!Range0(c.groups) : g = r.id
        BY <3>2 DEF Book!IdsOf
      <4>2. PICK k \in DOMAIN c.groups : r = c.groups[k]
        BY DEF Book!Range0
      <4> QED
        BY <1>4, <4>1, <4>2 DEF BookNumber
    <3> QED
      BY <3>1, <3>2
  <2>2. d = [c EXCEPT !.door = [c.door EXCEPT !.group = g, !.buttons = <<>>]]
    BY <1>1, <1>17 DEF Books, Book!SetDoorGroup
  <2>3. d = [c EXCEPT !.groups = c.groups, !.door = [c.door EXCEPT !.group = g, !.buttons = <<>>]]
    BY <1>1, <2>2 DEF Books
  <2>4. <<>> \in Seq(Nat)
    OBVIOUS
  <2> QED
    BY <1>1, <1>6, <2>1, <2>3, <2>4, GroupsEdited
<1>27. ASSUME NEW i \in DOMAIN c.eps, NEW n \in bNumbers \cup {None}, d = Book!SetExt(c, i, n)
       PROVE  EditOf(c, d, F)
  <2>1. PICK t : t = Book!Typing(c, n)
    OBVIOUS
  <2>2. /\ n \in BookExt /\ t \in Books /\ c.typed \subseteq t.typed /\ (n = None \/ n \in t.typed)
        /\ t.users = c.users /\ t.eps = c.eps /\ t.groups = c.groups /\ t.door = c.door
    BY <1>1, <2>1, TypedFor
  <2>3. d = [t EXCEPT !.eps[i].ext = n]
    BY <1>27, <2>1 DEF Book!SetExt
  <2> QED
    BY <1>1, <1>6, <2>2, <2>3, EpTyped
<1>28. ASSUME NEW pw \in {None, F}, d = Book!SetSipPassword(c, pw)
       PROVE  EditOf(c, d, F)
  <2>1. PICK door : door = [c.door EXCEPT !.pw = pw]
    OBVIOUS
  <2>2. door \in BookDoor /\ door.ext = c.door.ext /\ door.pw = pw
    BY <1>1, <2>1 DEF BookDoor, BookNumber
  <2>3. DoorFrom(c.door, door, c.typed, F)
    BY <2>2 DEF DoorFrom
  <2>4. d = [c EXCEPT !.door = door]
    BY <1>28, <2>1 DEF Book!SetSipPassword
  <2> QED
    BY <1>1, <1>6, <2>2, <2>3, <2>4, DoorTyped
<1>29. ASSUME NEW n \in bNumbers \cup {None}, d = Book!SetSipExt(c, n)
       PROVE  EditOf(c, d, F)
  <2>1. PICK t : t = Book!Typing(c, n)
    OBVIOUS
  <2>2. /\ n \in BookExt /\ t \in Books /\ c.typed \subseteq t.typed /\ (n = None \/ n \in t.typed)
        /\ t.users = c.users /\ t.eps = c.eps /\ t.groups = c.groups /\ t.door = c.door
    BY <1>1, <2>1, TypedFor
  <2>3. PICK door : door = [c.door EXCEPT !.ext = n]
    OBVIOUS
  <2>4. door \in BookDoor /\ door.ext = n /\ door.pw = c.door.pw
    BY <1>1, <2>2, <2>3 DEF BookDoor
  <2>5. DoorFrom(c.door, door, t.typed, F)
    BY <2>2, <2>4 DEF DoorFrom
  <2>6. d = [t EXCEPT !.door = door]
    BY <1>29, <2>1, <2>2, <2>3 DEF Book!SetSipExt
  <2> QED
    BY <1>1, <1>6, <2>2, <2>4, <2>5, <2>6, DoorTyped
<1> DEFINE E1 == {Book!AddAccount(c, u) : u \in c.users}
           E2 == {Book!DropAccount(c, i) : i \in DOMAIN c.eps}
           E3 == {Book!SetUser(c, i, u) : i \in DOMAIN c.eps, u \in c.users \cup {None}}
           E4 == {Book!SetPassword(c, i, pw) : i \in DOMAIN c.eps, pw \in Book!Passwords}
           E5 == {Book!AddGroup(c, m, b) : m \in {<<>>} \cup {<<e.id>> : e \in Book!Range0(c.eps)}, b \in {<<>>, <<bHouse.fresh>>}}
           E6 == {Book!DropGroup(c, i) : i \in DOMAIN c.groups}
           E7 == {Book!EmptyGroup(c, i) : i \in DOMAIN c.groups}
           E8 == {Book!SetDoorGroup(c, g) : g \in Book!IdsOf(c.groups) \cup {None}}
           E9 == {Book!SetExt(c, i, n) : i \in DOMAIN c.eps, n \in bNumbers \cup {None}}
           E10 == {Book!SetSipPassword(c, pw) : pw \in Book!Passwords}
           E11 == {Book!SetSipExt(c, n) : n \in bNumbers \cup {None}}
<1>18. \/ d \in E1 \/ d \in E2 \/ d \in E3 \/ d \in E4
       \/ d \in E5 \/ d \in E6 \/ d \in E7 \/ d \in E8
       \/ d \in E9 \/ d \in E10 \/ d \in E11
  BY DEF Book!Edits
<1>19. CASE d \in E1
  BY <1>8, <1>19
<1>20. CASE d \in E2
  BY <1>9, <1>20 DEF Book!DropAccount
<1>21. CASE d \in E3
  BY <1>11, <1>21 DEF Book!SetUser
<1>22. CASE d \in E4
  BY <1>12, <1>22 DEF Book!SetPassword, Book!Passwords
<1>23. CASE d \in E5
  <2>1. PICK M : M = {<<>>} \cup {<<e.id>> : e \in Book!Range0(c.eps)}
    OBVIOUS
  <2>2. PICK B : B = {<<>>, <<F>>}
    OBVIOUS
  <2>3. PICK m \in M, b \in B :
            d = Book!AddGroup(c, m, b)
    BY <1>23, <2>1, <2>2
  <2> QED
    BY <1>13, <2>1, <2>2, <2>3
<1>24. CASE d \in E6
  BY <1>15, <1>24 DEF Book!DropGroup
<1>25. CASE d \in E7
  BY <1>16, <1>25 DEF Book!EmptyGroup
<1>26. CASE d \in E8
  BY <1>17, <1>26
<1>30. CASE d \in E9
  BY <1>27, <1>30
<1>31. CASE d \in E10
  BY <1>28, <1>31 DEF Book!Passwords
<1>32. CASE d \in E11
  BY <1>29, <1>32
<1> HIDE DEF E1, E2, E3, E4, E5, E6, E7, E8, E9, E10, E11
<1> QED
  BY <1>18, <1>19, <1>20, <1>21, <1>22, <1>23, <1>24, <1>25, <1>26, <1>30, <1>31, <1>32

(* The one with an id.                                                         *)
LEMMA WithIsIt ==
    ASSUME NEW s, \A j, k \in DOMAIN s : s[j].id = s[k].id => j = k, NEW i \in DOMAIN s
    PROVE  Book!With(s, s[i].id) = s[i] /\ s[i].id \in Book!IdsOf(s)
<1>1. s[i] \in Book!Range0(s)
  BY DEF Book!Range0
<1>2. \A r \in Book!Range0(s) : r.id = s[i].id => r = s[i]
  BY DEF Book!Range0
<1> QED
  BY <1>1, <1>2 DEF Book!With, Book!IdsOf

LEMMA HasId ==
    ASSUME NEW s, NEW id \in Book!IdsOf(s)
    PROVE  \E i \in DOMAIN s : s[i].id = id
  BY DEF Book!IdsOf, Book!Range0

(* An emptied password becomes the one in use.                                 *)
MergedOf(x, p, m) ==
    /\ BookDraft(m) /\ m.users = x.users /\ m.fresh = x.fresh
    /\ m.door.pw = IF x.door.pw = None THEN p.door.pw ELSE x.door.pw
    /\ DOMAIN m.eps = DOMAIN x.eps
    /\ \A i \in DOMAIN x.eps : m.eps[i].id = x.eps[i].id
    /\ \A i \in DOMAIN x.eps : x.eps[i].pw # None => m.eps[i].pw = x.eps[i].pw
    /\ \A i \in DOMAIN x.eps, k \in DOMAIN p.eps :
          x.eps[i].pw = None /\ x.eps[i].id = p.eps[k].id => m.eps[i].pw = p.eps[k].pw

LEMMA MergeKeeps ==
    ASSUME NEW x, BookDraft(x), NEW p, BookDraft(p), NEW m, m = Book!MergeVoipSecrets(x, p)
    PROVE  MergedOf(x, p, m)
<1>1. x \in Books /\ x.eps \in Seq(BookAccount) /\ p.eps \in Seq(BookAccount) /\ x.door \in BookDoor /\ p.door \in BookDoor
  BY DEF BookDraft, Books
<1> DEFINE new(i) == IF x.eps[i].pw = None /\ x.eps[i].id \in Book!IdsOf(p.eps)
                     THEN [x.eps[i] EXCEPT !.pw = Book!With(p.eps, x.eps[i].id).pw] ELSE x.eps[i]
<1>2. ASSUME NEW k \in DOMAIN p.eps
      PROVE  Book!With(p.eps, p.eps[k].id) = p.eps[k] /\ p.eps[k].id \in Book!IdsOf(p.eps)
  <2>1. \A i, j \in DOMAIN p.eps : p.eps[i].id = p.eps[j].id => i = j
    BY DEF BookDraft, IdsApart
  <2>2. PICK eps : eps = p.eps
    OBVIOUS
  <2>3. Book!With(eps, eps[k].id) = eps[k] /\ eps[k].id \in Book!IdsOf(eps)
    BY <2>1, <2>2, WithIsIt
  <2> QED
    BY <2>2, <2>3
<1>3. ASSUME NEW i \in DOMAIN x.eps
      PROVE  /\ new(i) \in BookAccount /\ new(i).id = x.eps[i].id /\ new(i).ext = x.eps[i].ext
             /\ x.eps[i].pw # None => new(i).pw = x.eps[i].pw
             /\ \A k \in DOMAIN p.eps : x.eps[i].pw = None /\ x.eps[i].id = p.eps[k].id => new(i).pw = p.eps[k].pw
  <2>1. x.eps[i] \in BookAccount
    BY <1>1
  <2>2. CASE x.eps[i].pw = None /\ x.eps[i].id \in Book!IdsOf(p.eps)
    <3>1. PICK k \in DOMAIN p.eps : p.eps[k].id = x.eps[i].id
      BY <2>2, HasId
    <3>2. PICK pw \in BookNumber : pw = p.eps[k].pw
      <4>1. p.eps[k] \in BookAccount
        BY <1>1
      <4> QED
        BY <4>1 DEF BookAccount
    <3>3. new(i) = [x.eps[i] EXCEPT !.pw = pw]
      BY <1>2, <2>2, <3>1, <3>2
    <3>4. \A n \in DOMAIN p.eps : x.eps[i].id = p.eps[n].id => n = k
      BY <3>1 DEF BookDraft, IdsApart
    <3> HIDE DEF new
    <3> QED
      BY <2>1, <2>2, <3>2, <3>3, <3>4 DEF BookAccount
  <2>3. CASE ~(x.eps[i].pw = None /\ x.eps[i].id \in Book!IdsOf(p.eps))
    <3>1. new(i) = x.eps[i]
      BY <2>3
    <3>2. \A k \in DOMAIN p.eps : x.eps[i].pw = None => x.eps[i].id # p.eps[k].id
      BY <1>2, <2>3
    <3> HIDE DEF new
    <3> QED
      BY <2>1, <3>1, <3>2
  <2> QED
    BY <2>2, <2>3
<1>4. PICK E : E = [i \in DOMAIN x.eps |-> new(i)]
  OBVIOUS
<1>p. PICK pw \in BookNumber : pw = IF x.door.pw = None THEN p.door.pw ELSE x.door.pw
  BY <1>1 DEF BookDoor
<1>5. m = [x EXCEPT !.eps = E, !.door = [x.door EXCEPT !.pw = pw]]
  BY <1>1, <1>p, <1>4 DEF Book!MergeVoipSecrets, Book!Merged, Books
<1> HIDE DEF new
<1>6. DOMAIN x.eps = 1..Len(x.eps) /\ Len(x.eps) \in Nat
  BY <1>1
<1>7. E \in Seq(BookAccount) /\ DOMAIN E = DOMAIN x.eps
  BY <1>3, <1>4, <1>6
<1>8. PICK door : door = [x.door EXCEPT !.pw = pw]
  OBVIOUS
<1>9. door \in BookDoor /\ door.ext = x.door.ext /\ door.pw = pw
  BY <1>1, <1>8 DEF BookDoor
<1>10. /\ m \in Books /\ m.eps = E /\ m.users = x.users /\ m.groups = x.groups /\ m.door = door /\ m.fresh = x.fresh
       /\ m.typed = x.typed
  <2>1. m = [x EXCEPT !.eps = E, !.door = door]
    BY <1>5, <1>8
  <2> QED
    BY <1>1, <1>7, <1>9, <2>1 DEF Books
<1>11. \A i \in DOMAIN E : E[i].id = x.eps[i].id /\ E[i].ext = x.eps[i].ext
  BY <1>3, <1>4
<1>12. IdsApart(m)
  BY <1>7, <1>10, <1>11 DEF BookDraft, IdsApart
<1>13. ExtsApart(m)
  BY <1>7, <1>9, <1>10, <1>11 DEF BookDraft, ExtsApart, Free
<1>14. \A i \in DOMAIN x.eps : x.eps[i].pw # None => E[i].pw = x.eps[i].pw
  BY <1>3, <1>4
<1>15. \A i \in DOMAIN x.eps, k \in DOMAIN p.eps :
          x.eps[i].pw = None /\ x.eps[i].id = p.eps[k].id => E[i].pw = p.eps[k].pw
  BY <1>3, <1>4
<1> QED
  BY <1>p, <1>7, <1>9, <1>10, <1>11, <1>12, <1>13, <1>14, <1>15 DEF MergedOf, BookDraft

(* The book after an edited copy c was saved over p: the accounts that stay    *)
(* keep their password, or have a new one, or that of the copy.                *)
KeptOrCopied(p, c, n) ==
    \A i \in DOMAIN p.eps : \A j \in DOMAIN n.eps :
        n.eps[j].id = p.eps[i].id =>
            \/ n.eps[j].pw \in {p.eps[i].pw, p.fresh}
            \/ \E a \in DOMAIN c.eps : c.eps[a].id = p.eps[i].id /\ c.eps[a].pw = n.eps[j].pw

LEMMA SavedKeeps ==
    ASSUME Book!BookAssumption, NEW p, Normal(p), p = bHouse, NEW c, Normal(c), c.fresh <= p.fresh,
           NEW d \in Book!Edits(c), NEW n, n = Book!NormalizeVoip(Book!MergeVoipSecrets([d EXCEPT !.fresh = p.fresh + 1], p))
    PROVE  /\ Normal(n) /\ n.users = c.users /\ n.fresh >= p.fresh
           /\ n.door.pw \in {p.door.pw, c.door.pw, p.fresh} /\ KeptOrCopied(p, c, n)
<1>1. PICK F \in Nat : F = p.fresh
  BY DEF Normal, BookDraft, Books
<1>2. BookDraft(c) /\ BookDraft(p) /\ p.door.pw # None
  BY DEF Normal, DoorFull
<1>3. EditOf(c, d, F)
  BY <1>1, <1>2, EditsKeep
<1>4. PICK x : x = [d EXCEPT !.fresh = F + 1]
  OBVIOUS
<1>5. /\ x \in Books /\ x.fresh = F + 1 /\ x.users = c.users /\ c.typed \subseteq x.typed
      /\ DoorFrom(c.door, x.door, x.typed, F)
      /\ EpsFrom(c, x.eps, x.typed, F) /\ GroupsFrom(c, x.groups, F)
  <2>1. /\ d \in Books /\ d.users = c.users /\ c.typed \subseteq d.typed
        /\ DoorFrom(c.door, d.door, d.typed, F)
        /\ EpsFrom(c, d.eps, d.typed, F) /\ GroupsFrom(c, d.groups, F)
    BY <1>3 DEF EditOf
  <2>2. /\ x \in Books /\ x.fresh = F + 1 /\ x.users = d.users /\ x.door = d.door
        /\ x.eps = d.eps /\ x.groups = d.groups /\ x.typed = d.typed
    <3>1. d \in Books /\ F + 1 \in Nat
      BY <2>1
    <3> QED
      BY <1>4, <3>1 DEF Books
  <2> QED
    BY <2>1, <2>2
<1>6. BookDraft(x)
  BY <1>1, <1>2, <1>5, EditedIsDraft
<1>7. PICK m : m = Book!MergeVoipSecrets(x, p)
  OBVIOUS
<1>8. MergedOf(x, p, m)
  BY <1>2, <1>6, <1>7, MergeKeeps
<1>9. BookDraft(m) /\ m.users = c.users /\ m.door.pw \in {p.door.pw, c.door.pw, p.fresh} /\ m.door.pw # None
  BY <1>1, <1>2, <1>5, <1>8 DEF MergedOf, DoorFrom
<1>10. n = Book!NormalizeVoip(m)
  BY <1>1, <1>4, <1>7
<1>11. Normal(n) /\ SecretsFrom(m, n) /\ n.users = m.users /\ (m.door.pw # None => n.door.pw = m.door.pw)
  BY <1>9, <1>10, NormalizeKeeps
<1>12. ASSUME NEW i \in DOMAIN p.eps, NEW j \in DOMAIN n.eps, n.eps[j].id = p.eps[i].id
       PROVE  \/ n.eps[j].pw \in {p.eps[i].pw, p.fresh}
              \/ \E a \in DOMAIN c.eps : c.eps[a].id = p.eps[i].id /\ c.eps[a].pw = n.eps[j].pw
  <2>1. PICK k \in DOMAIN m.eps : n.eps[j].id = m.eps[k].id /\ (m.eps[k].pw # None => n.eps[j].pw = m.eps[k].pw)
    BY <1>11 DEF SecretsFrom
  <2>2. k \in DOMAIN x.eps /\ x.eps[k].id = p.eps[i].id
    BY <1>8, <1>12, <2>1 DEF MergedOf
  <2>3. p.eps[i].id # F
    <3>1. p.eps[i].id < p.fresh /\ p.eps[i].id \in Nat
      <4>1. p.eps \in Seq(BookAccount)
        BY <1>2 DEF BookDraft, Books
      <4>2. p.eps[i] \in BookAccount
        BY <4>1
      <4> QED
        BY <1>2, <4>2 DEF BookDraft, IdsApart, BookAccount
    <3> QED
      BY <1>1, <3>1
  <2>4. PICK a \in DOMAIN c.eps : x.eps[k].id = c.eps[a].id /\ x.eps[k].pw \in {c.eps[a].pw, None, F}
    BY <1>5, <2>2, <2>3 DEF EpsFrom, EpFrom
  <2>5. p.eps[i].pw # None
    BY DEF Normal, EpsFull, EpFull
  <2>6. CASE x.eps[k].pw = None
    <3>1. m.eps[k].pw = p.eps[i].pw
      BY <1>8, <2>2, <2>6 DEF MergedOf
    <3> QED
      BY <2>1, <2>5, <3>1
  <2>7. CASE x.eps[k].pw # None
    <3>1. m.eps[k].pw = x.eps[k].pw
      BY <1>8, <2>2, <2>7 DEF MergedOf
    <3>2. n.eps[j].pw \in {c.eps[a].pw, p.fresh}
      BY <1>1, <2>1, <2>4, <2>7, <3>1
    <3> QED
      BY <2>2, <2>4, <3>2
  <2> QED
    BY <2>6, <2>7
<1>13. n.fresh >= p.fresh
  <2>1. n.fresh >= m.fresh
    BY <1>9, <1>10, NormalizeKeeps
  <2>2. m.fresh = F + 1
    BY <1>5, <1>8 DEF MergedOf
  <2>3. n.fresh \in Nat
    BY <1>11 DEF Normal, BookDraft, Books
  <2> QED
    BY <1>1, <2>1, <2>2, <2>3
<1> QED
  BY <1>9, <1>11, <1>12, <1>13 DEF KeptOrCopied

(* The inductive invariant.  The book is normalised after every step; the copy *)
(* in the editor, and the house read for a user list that is being saved, are  *)
(* normalised books of before, whose names are older than those to come;       *)
(* Asterisk has the book unless the accounts were saved since.                 *)
BookKinds ==
    /\ Normal(bHouse) /\ bHouse.fresh <= bMaxFresh
    /\ bBehind \in BOOLEAN /\ bSaves \in 0..bMaxSaves
BookCopy ==
    /\ bEdit # None => Normal(bEdit) /\ bEdit.fresh <= bHouse.fresh
    /\ bPut # None => bPut.users \subseteq bPeople /\ Normal(bPut.of) /\ bPut.of.fresh <= bHouse.fresh
BookDialled == ~bBehind => bPbx = Book!BuildAsteriskFiles(bHouse)
BookInv == BookKinds /\ BookCopy /\ BookDialled

LEMMA NormalIs ==
    ASSUME NEW h, Normal(h)
    PROVE  /\ BookDraft(h) /\ h \in Books /\ h.fresh \in Nat /\ h.eps \in Seq(BookAccount) /\ EpsFull(h) /\ h.door.pw # None
           /\ \A i, j \in DOMAIN h.eps : h.eps[i].id = h.eps[j].id => i = j
           /\ \A i \in DOMAIN h.eps : Book!With(h.eps, h.eps[i].id) = h.eps[i] /\ h.eps[i].id \in Book!IdsOf(h.eps)
<1>1. BookDraft(h) /\ h \in Books /\ h.fresh \in Nat /\ h.eps \in Seq(BookAccount) /\ EpsFull(h) /\ h.door.pw # None
  BY DEF Normal, BookDraft, Books, DoorFull
<1>2. \A i, j \in DOMAIN h.eps : h.eps[i].id = h.eps[j].id => i = j
  BY <1>1 DEF BookDraft, IdsApart
<1>3. PICK eps : eps = h.eps
  OBVIOUS
<1>4. ASSUME NEW i \in DOMAIN eps PROVE Book!With(eps, eps[i].id) = eps[i] /\ eps[i].id \in Book!IdsOf(eps)
  BY <1>2, <1>3, WithIsIt
<1> QED
  BY <1>1, <1>2, <1>3, <1>4

LEMMA BookStart == Book!BookAssumption /\ Book!Init => BookInv
<1> SUFFICES ASSUME Book!BookAssumption, Book!Init PROVE BookInv
  OBVIOUS
<1>1. PICK h : h = Book!Book
  OBVIOUS
<1>2. PICK link : link = [u \in bPeople |-> None]
  OBVIOUS
<1>3. PICK door : door = [ext |-> None, pw |-> None, group |-> None, buttons |-> <<>>]
  OBVIOUS
<1>4. link \in [bPeople -> BookNumber] /\ door \in BookDoor /\ door.ext = None
  <2>1. <<>> \in Seq(Nat)
    OBVIOUS
  <2> QED
    BY <1>2, <1>3, <2>1 DEF BookNumber, BookDoor, BookExt
<1>5. h = [users |-> bPeople, link |-> link, eps |-> <<>>, groups |-> <<>>, door |-> door, fresh |-> 2,
           typed |-> {}]
  BY <1>1, <1>2, <1>3 DEF Book!Book
<1>6. <<>> \in Seq(BookAccount) /\ <<>> \in Seq(BookGroup)
  OBVIOUS
<1>7. h \in Books /\ h.eps = <<>> /\ h.groups = <<>> /\ h.fresh = 2
  BY <1>4, <1>5, <1>6 DEF Books
<1>8. BookDraft(h) /\ EpsFull(h)
  BY <1>7 DEF BookDraft, IdsApart, ExtsApart, EpsFull
<1>9. bHouse = Book!NormalizeVoip(h)
  BY <1>1 DEF Book!Init
<1>10. Normal(bHouse) /\ bHouse.fresh <= 3
  BY <1>7, <1>8, <1>9, NormalizeKeeps
<1>11. bHouse.fresh <= bMaxFresh
  BY <1>10, NormalIs DEF Book!BookAssumption
<1>12. 0 \in 0..bMaxSaves
  BY DEF Book!BookAssumption
<1> QED
  BY <1>10, <1>11, <1>12 DEF Book!Init, BookInv, BookKinds, BookCopy, BookDialled

(* A new password for one account.                                             *)
BookReset(h, i) == [h EXCEPT !.eps[i].pw = h.fresh, !.fresh = h.fresh + 1]

LEMMA ResetKeeps ==
    ASSUME Book!BookAssumption, NEW h, Normal(h), NEW i \in DOMAIN h.eps, NEW n, n = BookReset(h, i)
    PROVE  /\ Normal(n) /\ n.fresh = h.fresh + 1 /\ n.door = h.door /\ DOMAIN n.eps = DOMAIN h.eps
           /\ \A k \in DOMAIN h.eps : n.eps[k].id = h.eps[k].id
           /\ \A k \in DOMAIN h.eps : k # i => n.eps[k] = h.eps[k]
<1>1. h \in Books /\ h.fresh \in Nat /\ h.eps \in Seq(BookAccount) /\ h.groups \in Seq(BookGroup)
  BY DEF Normal, BookDraft, Books
<1>2. PICK e : e = [h.eps[i] EXCEPT !.pw = h.fresh]
  OBVIOUS
<1>3. e \in BookAccount /\ e.id = h.eps[i].id /\ e.ext = h.eps[i].ext /\ e.user = h.eps[i].user /\ e.pw = h.fresh
  <2>1. h.eps[i] \in BookAccount
    BY <1>1
  <2> QED
    BY <1>1, <1>2, <2>1 DEF BookAccount, BookNumber
<1>4. PICK E : E = [h.eps EXCEPT ![i] = e]
  OBVIOUS
<1>5. E \in Seq(BookAccount) /\ DOMAIN E = DOMAIN h.eps /\ E[i] = e /\ \A k \in DOMAIN h.eps : k # i => E[k] = h.eps[k]
  BY <1>1, <1>3, <1>4
<1>6. n = [h EXCEPT !.eps = E, !.fresh = h.fresh + 1]
  BY <1>1, <1>2, <1>4 DEF Books, BookReset
<1>7. /\ n \in Books /\ n.eps = E /\ n.fresh = h.fresh + 1 /\ n.users = h.users /\ n.link = h.link /\ n.groups = h.groups /\ n.door = h.door
      /\ n.typed = h.typed
  <2>1. h.fresh + 1 \in Nat
    BY <1>1
  <2> QED
    BY <1>1, <1>5, <1>6, <2>1 DEF Books
<1>8. \A k \in DOMAIN E : E[k].id = h.eps[k].id /\ E[k].ext = h.eps[k].ext /\ E[k].user = h.eps[k].user /\ E[k].pw # None
  <2>1. h.fresh # None
    BY <1>1 DEF Book!BookAssumption
  <2>2. \A k \in DOMAIN h.eps : h.eps[k].pw # None
    BY DEF Normal, EpsFull, EpFull
  <2> QED
    BY <1>3, <1>5, <2>1, <2>2
<1>9. IdsApart(n)
  <2>1. \A k \in DOMAIN h.eps : h.eps[k].id < h.fresh + 1
    <3>1. \A k \in DOMAIN h.eps : h.eps[k].id < h.fresh /\ h.eps[k] \in BookAccount
      BY <1>1 DEF Normal, BookDraft, IdsApart
    <3> QED
      BY <1>1, <3>1 DEF BookAccount
  <2>2. \A k \in DOMAIN h.groups : h.groups[k].id < h.fresh + 1
    <3>1. \A k \in DOMAIN h.groups : h.groups[k].id < h.fresh /\ h.groups[k] \in BookGroup
      BY <1>1 DEF Normal, BookDraft, IdsApart
    <3> QED
      BY <1>1, <3>1 DEF BookGroup
  <2>3. IdsApart(h)
    BY DEF Normal, BookDraft
  <2>4. h.fresh + 1 > 1
    BY <1>1, <2>3 DEF IdsApart
  <2> QED
    BY <1>5, <1>7, <1>8, <2>1, <2>2, <2>3, <2>4 DEF IdsApart
<1>10. ExtsApart(n)
  BY <1>5, <1>7, <1>8 DEF Normal, BookDraft, ExtsApart, Free
<1>11. Owned(n)
  BY <1>5, <1>7, <1>8 DEF Normal, Owned
<1>12. EpsFull(n)
  BY <1>5, <1>7, <1>8 DEF Normal, EpsFull, EpFull
<1>13. GroupsFull(n)
  <2>1. Book!IdsOf(h.eps) \subseteq Book!IdsOf(E)
    <3> SUFFICES ASSUME NEW id \in Book!IdsOf(h.eps) PROVE id \in Book!IdsOf(E)
      OBVIOUS
    <3>1. PICK k \in DOMAIN h.eps : h.eps[k].id = id
      BY HasId
    <3>2. E[k].id = id /\ k \in DOMAIN E
      BY <1>5, <1>8, <3>1
    <3> QED
      BY <3>2 DEF Book!IdsOf, Book!Range0
  <2> QED
    BY <1>7, <2>1 DEF Normal, GroupsFull, GroupFull
<1>14. HasHome(n)
  <2>1. h.eps # <<>>
    BY <1>1
  <2> QED
    BY <1>7, <2>1 DEF Normal, HasHome
<1>15. DoorFull(n)
  BY <1>7 DEF Normal, DoorFull
<1> QED
  BY <1>5, <1>7, <1>8, <1>9, <1>10, <1>11, <1>12, <1>13, <1>14, <1>15 DEF Normal, BookDraft

(* Nothing changed in the passwords.                                           *)
LEMMA SecretsSame ==
    ASSUME NEW h, Normal(h), NEW n, Normal(n), SecretsFrom(h, n)
    PROVE  \A i \in DOMAIN h.eps : h.eps[i].id \in Book!IdsOf(n.eps) => Book!With(n.eps, h.eps[i].id).pw = h.eps[i].pw
<1> SUFFICES ASSUME NEW i \in DOMAIN h.eps, h.eps[i].id \in Book!IdsOf(n.eps)
             PROVE  Book!With(n.eps, h.eps[i].id).pw = h.eps[i].pw
  OBVIOUS
<1>1. PICK j \in DOMAIN n.eps : n.eps[j].id = h.eps[i].id
  BY HasId
<1>2. Book!With(n.eps, n.eps[j].id) = n.eps[j]
  BY NormalIs
<1>3. PICK k \in DOMAIN h.eps : n.eps[j].id = h.eps[k].id /\ (h.eps[k].pw # None => n.eps[j].pw = h.eps[k].pw)
  BY DEF SecretsFrom
<1>4. k = i
  BY <1>1, <1>3, NormalIs
<1>5. h.eps[i].pw # None
  BY DEF Normal, EpsFull, EpFull
<1> QED
  BY <1>1, <1>2, <1>3, <1>4, <1>5

LEMMA SecretsSelf ==
    ASSUME NEW h
    PROVE  SecretsFrom(h, h)
  BY DEF SecretsFrom

LEMMA SecretsAsBefore ==
    ASSUME Normal(bHouse), Normal(bHouse'), SecretsFrom(bHouse, bHouse'), bHouse'.door.pw = bHouse.door.pw
    PROVE  Book!SecretsKept
<1>1. PICK h : h = bHouse
  OBVIOUS
<1>2. PICK n : n = bHouse'
  OBVIOUS
<1>3. \A i \in DOMAIN h.eps : h.eps[i].id \in Book!IdsOf(n.eps) => Book!With(n.eps, h.eps[i].id).pw = h.eps[i].pw
  BY <1>1, <1>2, SecretsSame
<1> QED
  BY <1>1, <1>2, <1>3 DEF Book!SecretsKept

LEMMA BookStep == Book!BookAssumption /\ BookInv /\ [Book!Next]_bVars => BookInv' /\ Book!SecretsKept
<1> SUFFICES ASSUME Book!BookAssumption, BookInv, [Book!Next]_bVars PROVE BookInv' /\ Book!SecretsKept
  OBVIOUS
<1>1. /\ Normal(bHouse) /\ bHouse.fresh <= bMaxFresh /\ bBehind \in BOOLEAN /\ bSaves \in 0..bMaxSaves
      /\ bEdit # None => Normal(bEdit) /\ bEdit.fresh <= bHouse.fresh
      /\ bPut # None => bPut.users \subseteq bPeople /\ Normal(bPut.of) /\ bPut.of.fresh <= bHouse.fresh
      /\ ~bBehind => bPbx = Book!BuildAsteriskFiles(bHouse)
  BY DEF BookInv, BookKinds, BookCopy, BookDialled
<1>2. bMaxFresh \in Nat /\ bMaxSaves \in Nat /\ bHouse.fresh \in Nat
  BY <1>1, NormalIs DEF Book!BookAssumption
<1>3. ASSUME bHouse' = bHouse PROVE Book!SecretsKept
  BY <1>1, <1>3, SecretsSelf, SecretsAsBefore
<1>4. CASE Book!Open
  <2>1. bHouse' = bHouse /\ bEdit' = bHouse /\ bPut' = bPut /\ bPbx' = bPbx /\ bBehind' = bBehind
    BY <1>4 DEF Book!Open
  <2>2. bSaves' \in 0..bMaxSaves
    BY <1>1, <1>2, <1>4 DEF Book!Open
  <2>3. BookKinds' /\ BookCopy' /\ BookDialled'
    BY <1>1, <1>2, <2>1, <2>2 DEF BookKinds, BookCopy, BookDialled
  <2> QED
    BY <1>3, <2>1, <2>3 DEF BookInv
<1>5. CASE Book!Discard
  <2>1. bHouse' = bHouse /\ bEdit' = None /\ bPut' = bPut /\ bPbx' = bPbx /\ bBehind' = bBehind /\ bSaves' = bSaves
    BY <1>5 DEF Book!Discard
  <2>2. BookKinds' /\ BookCopy' /\ BookDialled'
    BY <1>1, <2>1 DEF BookKinds, BookCopy, BookDialled
  <2> QED
    BY <1>3, <2>1, <2>2 DEF BookInv
<1>6. CASE Book!Restart
  <2>1. Book!NormalizeVoip(bHouse) = bHouse
    <3>1. PICK g : g = Book!NormalizeVoip(bHouse)
      OBVIOUS
    <3>2. BookDraft(bHouse)
      BY <1>1, NormalIs
    <3> QED
      BY <1>1, <3>1, <3>2, NormalizeKeeps
  <2>2. /\ bHouse' = bHouse /\ bEdit' = bEdit /\ bPut' = None
        /\ bPbx' = Book!BuildAsteriskFiles(bHouse') /\ bBehind' = FALSE /\ bSaves' = bSaves
    BY <1>6, <2>1 DEF Book!Restart
  <2>3. BookKinds' /\ BookCopy' /\ BookDialled'
    BY <1>1, <2>2 DEF BookKinds, BookCopy, BookDialled
  <2> QED
    BY <1>3, <2>2, <2>3 DEF BookInv
<1>7. ASSUME bEdit # None, NEW d \in Book!Edits(bEdit), Book!Save(d) PROVE BookInv' /\ Book!SecretsKept
  <2>1. PICK p : p = bHouse
    OBVIOUS
  <2>2. PICK c : c = bEdit
    OBVIOUS
  <2>3. PICK n : n = Book!NormalizeVoip(Book!MergeVoipSecrets([d EXCEPT !.fresh = p.fresh + 1], p))
    OBVIOUS
  <2>4. /\ n.fresh <= bMaxFresh /\ bHouse' = n /\ bPbx' = Book!BuildAsteriskFiles(n) /\ bBehind' = FALSE
        /\ bEdit' = None /\ bPut' = bPut /\ bSaves' = bSaves
    BY <1>7, <2>1, <2>3 DEF Book!Save
  <2>5. /\ Normal(n) /\ n.door.pw \in {p.door.pw, c.door.pw, p.fresh} /\ KeptOrCopied(p, c, n)
        /\ n.fresh >= p.fresh
    <3>1. Normal(c) /\ c.fresh <= p.fresh /\ d \in Book!Edits(c) /\ Normal(p)
      BY <1>1, <1>7, <2>1, <2>2
    <3> QED
      BY <2>1, <2>3, <3>1, SavedKeeps
  <2>6. BookKinds' /\ BookCopy' /\ BookDialled'
    <3>1. bPut # None => bPut.of.fresh \in Nat /\ bPut.of.fresh <= p.fresh
      BY <1>1, <2>1, NormalIs
    <3>2. n.fresh \in Nat
      BY <2>5, NormalIs
    <3>3. bPut # None => bPut.of.fresh <= n.fresh
      BY <1>2, <2>1, <2>5, <3>1, <3>2
    <3> QED
      BY <1>1, <2>4, <2>5, <3>3 DEF BookKinds, BookCopy, BookDialled
  <2>7. ASSUME NEW i \in DOMAIN p.eps, p.eps[i].id \in Book!IdsOf(n.eps)
        PROVE  \/ Book!With(n.eps, p.eps[i].id).pw \in {p.eps[i].pw, p.fresh}
               \/ Book!FromCopy(c, p.eps[i].id, Book!With(n.eps, p.eps[i].id).pw)
    <3>1. PICK j \in DOMAIN n.eps : n.eps[j].id = p.eps[i].id
      BY <2>7, HasId
    <3>2. Book!With(n.eps, p.eps[i].id) = n.eps[j]
      BY <2>5, <3>1, NormalIs
    <3>3. \/ n.eps[j].pw \in {p.eps[i].pw, p.fresh}
          \/ \E a \in DOMAIN c.eps : c.eps[a].id = p.eps[i].id /\ c.eps[a].pw = n.eps[j].pw
      BY <2>5, <3>1 DEF KeptOrCopied
    <3>4. ASSUME NEW a \in DOMAIN c.eps, c.eps[a].id = p.eps[i].id, c.eps[a].pw = n.eps[j].pw
          PROVE  Book!FromCopy(c, p.eps[i].id, n.eps[j].pw)
      <4>1. Book!With(c.eps, c.eps[a].id) = c.eps[a] /\ c.eps[a].id \in Book!IdsOf(c.eps)
        BY <1>1, <1>7, <2>2, NormalIs
      <4> QED
        BY <3>4, <4>1 DEF Book!FromCopy
    <3> QED
      BY <3>2, <3>3, <3>4
  <2>8. Book!SecretsKept
    <3>1. bEdit # None /\ bEdit' = None
      BY <1>7, <2>4
    <3> QED
      BY <2>1, <2>2, <2>4, <2>5, <2>7, <3>1 DEF Book!SecretsKept
  <2> QED
    BY <2>6, <2>8 DEF BookInv
<1>8. ASSUME NEW i \in DOMAIN bHouse.eps, Book!ResetPassword(i) PROVE BookInv' /\ Book!SecretsKept
  <2>1. PICK h : h = bHouse
    OBVIOUS
  <2>2. PICK n : n = BookReset(h, i)
    OBVIOUS
  <2>3. /\ bHouse.fresh < bMaxFresh /\ bSaves < bMaxSaves /\ bHouse' = n /\ bPbx' = Book!BuildAsteriskFiles(n) /\ bBehind' = FALSE
        /\ bSaves' = bSaves + 1 /\ bEdit' = bEdit /\ bPut' = bPut
    BY <1>8, <2>1, <2>2 DEF Book!ResetPassword, BookReset
  <2>4. /\ Normal(n) /\ n.fresh = h.fresh + 1 /\ n.door = h.door /\ DOMAIN n.eps = DOMAIN h.eps
        /\ \A k \in DOMAIN h.eps : n.eps[k].id = h.eps[k].id
        /\ \A k \in DOMAIN h.eps : k # i => n.eps[k] = h.eps[k]
    <3>1. Normal(h) /\ i \in DOMAIN h.eps
      BY <1>1, <1>8, <2>1
    <3> QED
      BY <2>2, <3>1, ResetKeeps
  <2>5. BookKinds'
    <3>1. n.fresh <= bMaxFresh
      BY <1>2, <2>1, <2>3, <2>4
    <3>2. bSaves + 1 \in 0..bMaxSaves
      BY <1>1, <1>2, <2>3
    <3> QED
      BY <2>3, <2>4, <3>1, <3>2 DEF BookKinds
  <2>6. BookCopy'
    <3>1. (bEdit # None => bEdit.fresh \in Nat) /\ (bPut # None => bPut.of.fresh \in Nat)
      BY <1>1, NormalIs
    <3> QED
      BY <1>1, <1>2, <2>1, <2>3, <2>4, <3>1 DEF BookCopy
  <2>7. BookDialled'
    BY <2>3 DEF BookDialled
  <2>8. ASSUME NEW k \in DOMAIN h.eps, k # i PROVE Book!With(n.eps, h.eps[k].id).pw = h.eps[k].pw
    <3>1. Book!With(n.eps, n.eps[k].id) = n.eps[k]
      BY <2>4, NormalIs
    <3> QED
      BY <2>4, <2>8, <3>1
  <2>9. Book!SecretsKept
    BY <1>8, <2>1, <2>3, <2>4, <2>8 DEF Book!SecretsKept
  <2> QED
    BY <2>5, <2>6, <2>7, <2>9 DEF BookInv
<1>9. ASSUME NEW U \in SUBSET bPeople, Book!PutUsers(U) PROVE BookInv' /\ Book!SecretsKept
  <2>1. PICK of : of = bHouse
    OBVIOUS
  <2>2. PICK new : new = [users |-> U, of |-> of]
    OBVIOUS
  <2>3. new.users = U /\ new.of = of
    BY <2>2
  <2>4. /\ bSaves < bMaxSaves /\ bHouse' = bHouse /\ bBehind' = bBehind
        /\ bSaves' = bSaves + 1 /\ bEdit' = bEdit /\ bPbx' = bPbx /\ bPut' = new
    BY <1>9, <2>1, <2>2 DEF Book!PutUsers
  <2>5. bSaves' \in 0..bMaxSaves
    BY <1>1, <1>2, <2>4
  <2>6. BookKinds' /\ BookDialled'
    BY <1>1, <2>4, <2>5 DEF BookKinds, BookDialled
  <2>7. BookCopy'
    <3>1. of.fresh <= bHouse.fresh /\ Normal(of)
      BY <1>1, <1>2, <2>1
    <3> QED
      BY <1>1, <2>3, <2>4, <3>1 DEF BookCopy
  <2> QED
    BY <1>3, <2>4, <2>6, <2>7 DEF BookInv
<1>10. CASE UNCHANGED bVars
  <2>1. bHouse' = bHouse /\ bEdit' = bEdit /\ bPut' = bPut /\ bPbx' = bPbx /\ bBehind' = bBehind /\ bSaves' = bSaves
    BY <1>10 DEF bVars
  <2>2. BookKinds' /\ BookCopy' /\ BookDialled'
    BY <1>1, <2>1 DEF BookKinds, BookCopy, BookDialled
  <2> QED
    BY <1>3, <2>1, <2>2 DEF BookInv
<1>11. CASE Book!UsersPut
  <2>1. PICK h : h = bHouse
    OBVIOUS
  <2>2. PICK link : link = [u \in bPeople |-> None]
    OBVIOUS
  <2>3. PICK of, U : of = bPut.of /\ U = bPut.users
    OBVIOUS
  <2>4. PICK q : q = [of EXCEPT !.users = U, !.link = link, !.fresh = h.fresh]
    OBVIOUS
  <2>5. PICK n : n = Book!NormalizeVoip(q)
    OBVIOUS
  <2>6. /\ bPut # None /\ bPut' = None /\ bHouse' = n /\ bBehind' = TRUE
        /\ bSaves' = bSaves /\ bEdit' = bEdit /\ bPbx' = bPbx
    BY <1>11, <2>1, <2>2, <2>3, <2>4, <2>5 DEF Book!UsersPut, Book!Listed
  <2>7. /\ U \subseteq bPeople /\ Normal(of) /\ of.fresh <= h.fresh /\ h.fresh \in Nat /\ Normal(h)
    BY <1>1, <1>2, <2>1, <2>3, <2>6
  <2>8. of \in Books /\ of.fresh \in Nat /\ link \in [bPeople -> BookNumber]
    BY <2>2, <2>7, NormalIs DEF BookNumber
  <2>9. q \in Books /\ q.eps = of.eps /\ q.groups = of.groups /\ q.door = of.door /\ q.fresh = h.fresh
        /\ q.typed = of.typed
    BY <2>4, <2>7, <2>8 DEF Books
  <2>10. BookDraft(q) /\ EpsFull(q) /\ q.door.pw # None
    <3>1. BookDraft(of) /\ EpsFull(of) /\ of.door.pw # None
      BY <2>7, NormalIs
    <3>2. (\A j \in DOMAIN of.eps : of.eps[j].id \in Nat) /\ (\A j \in DOMAIN of.groups : of.groups[j].id \in Nat)
      <4>1. of.eps \in Seq(BookAccount) /\ of.groups \in Seq(BookGroup)
        BY <2>8 DEF Books
      <4>2. (\A j \in DOMAIN of.eps : of.eps[j] \in BookAccount) /\ (\A j \in DOMAIN of.groups : of.groups[j] \in BookGroup)
        BY <4>1
      <4> QED
        BY <4>2 DEF BookAccount, BookGroup
    <3>3. IdsApart(q)
      BY <2>7, <2>8, <2>9, <3>1, <3>2 DEF BookDraft, IdsApart
    <3>4. ExtsApart(q)
      BY <2>9, <3>1 DEF BookDraft, ExtsApart, Free
    <3> QED
      BY <2>9, <3>1, <3>3, <3>4 DEF BookDraft, EpsFull, EpFull
  <2>11. Normal(n) /\ SecretsFrom(q, n) /\ n.door.pw = of.door.pw /\ n.fresh = h.fresh
    BY <2>5, <2>9, <2>10, NormalizeKeeps
  <2>12. BookKinds' /\ BookCopy' /\ BookDialled'
    BY <1>1, <1>2, <2>1, <2>6, <2>11 DEF BookKinds, BookCopy, BookDialled
  <2>13. SecretsFrom(of, n)
    BY <2>9, <2>11 DEF SecretsFrom
  <2>14. ASSUME NEW id, id \in Book!IdsOf(n.eps) PROVE Book!FromCopy(of, id, Book!With(n.eps, id).pw)
    <3>1. PICK j \in DOMAIN n.eps : n.eps[j].id = id
      BY <2>14, HasId
    <3>2. Book!With(n.eps, id) = n.eps[j]
      BY <2>11, <3>1, NormalIs
    <3>3. PICK k \in DOMAIN of.eps : n.eps[j].id = of.eps[k].id /\ (of.eps[k].pw # None => n.eps[j].pw = of.eps[k].pw)
      BY <2>13 DEF SecretsFrom
    <3>4. of.eps[k].pw # None
      BY <2>7 DEF Normal, EpsFull, EpFull
    <3>5. Book!With(of.eps, of.eps[k].id) = of.eps[k] /\ of.eps[k].id \in Book!IdsOf(of.eps)
      BY <2>7, NormalIs
    <3> QED
      BY <3>1, <3>2, <3>3, <3>4, <3>5 DEF Book!FromCopy
  <2>15. Book!SecretsKept
    BY <2>3, <2>6, <2>11, <2>14 DEF Book!SecretsKept
  <2> QED
    BY <2>12, <2>15 DEF BookInv
<1> QED
  BY <1>4, <1>5, <1>6, <1>7, <1>8, <1>9, <1>10, <1>11 DEF Book!Next

(* Who has a number.                                                           *)
LEMMA HoldersAre ==
    ASSUME NEW h, NEW n
    PROVE  /\ \A i \in DOMAIN h.eps : h.eps[i].ext = n => <<"account", i>> \in Book!Holders(h, n)
           /\ \A i \in DOMAIN h.groups : h.groups[i].ext = n => <<"group", i>> \in Book!Holders(h, n)
           /\ \A x \in Book!Holders(h, n) :
                \/ \E i \in DOMAIN h.eps : h.eps[i].ext = n /\ x = <<"account", i>>
                \/ \E i \in DOMAIN h.groups : h.groups[i].ext = n /\ x = <<"group", i>>
                \/ h.door.ext = n /\ x = <<"door", 0>>
  BY DEF Book!Holders

(* A number of one party is on one account only, or on one group.              *)
LEMMA AloneIs ==
    ASSUME NEW h, NEW n, Book!Alone(h, n)
    PROVE  /\ \A i, j \in DOMAIN h.eps : h.eps[i].ext = n /\ h.eps[j].ext = n => i = j
           /\ \A i, j \in DOMAIN h.groups : h.groups[i].ext = n /\ h.groups[j].ext = n => i = j
           /\ \A i \in DOMAIN h.eps, j \in DOMAIN h.groups : ~(h.eps[i].ext = n /\ h.groups[j].ext = n)
<1>1. \A x, y \in Book!Holders(h, n) : x = y
  BY DEF Book!Alone
<1>2. ASSUME NEW i, NEW j, <<"account", i>> = <<"account", j>> PROVE i = j
  BY <1>2
<1>3. ASSUME NEW i, NEW j, <<"group", i>> = <<"group", j>> PROVE i = j
  BY <1>3
<1>4. ASSUME NEW i, NEW j PROVE <<"account", i>> # <<"group", j>>
  OBVIOUS
<1>h. /\ \A i \in DOMAIN h.eps : h.eps[i].ext = n => <<"account", i>> \in Book!Holders(h, n)
      /\ \A i \in DOMAIN h.groups : h.groups[i].ext = n => <<"group", i>> \in Book!Holders(h, n)
  BY HoldersAre
<1>5. ASSUME NEW i \in DOMAIN h.eps, NEW j \in DOMAIN h.eps, h.eps[i].ext = n, h.eps[j].ext = n PROVE i = j
  <2>1. <<"account", i>> = <<"account", j>>
    BY <1>1, <1>h, <1>5
  <2> QED
    BY <1>2, <2>1
<1>6. ASSUME NEW i \in DOMAIN h.groups, NEW j \in DOMAIN h.groups, h.groups[i].ext = n, h.groups[j].ext = n PROVE i = j
  <2>1. <<"group", i>> = <<"group", j>>
    BY <1>1, <1>h, <1>6
  <2> QED
    BY <1>3, <2>1
<1>7. ASSUME NEW i \in DOMAIN h.eps, NEW j \in DOMAIN h.groups, h.eps[i].ext = n, h.groups[j].ext = n PROVE FALSE
  <2>1. <<"account", i>> = <<"group", j>>
    BY <1>1, <1>h, <1>7
  <2> QED
    BY <1>4, <2>1
<1> QED
  BY <1>5, <1>6, <1>7

(* In a normalised book a number that was not typed is one party's.            *)
LEMMA PartiesApart ==
    ASSUME NEW h, Normal(h), NEW n, n \notin h.typed
    PROVE  Book!Alone(h, n)
<1>1. /\ \A i \in DOMAIN h.eps : h.eps[i].ext # None
      /\ \A i \in DOMAIN h.groups : h.groups[i].ext # None
  BY DEF Normal, EpsFull, EpFull, GroupsFull, GroupFull
<1>2. /\ \A i, j \in DOMAIN h.eps : h.eps[i].ext = n /\ h.eps[j].ext = n => i = j
      /\ \A i, j \in DOMAIN h.groups : h.groups[i].ext = n /\ h.groups[j].ext = n => i = j
      /\ \A i \in DOMAIN h.eps, j \in DOMAIN h.groups : ~(h.eps[i].ext = n /\ h.groups[j].ext = n)
      /\ \A i \in DOMAIN h.eps : ~(h.eps[i].ext = n /\ h.door.ext = n)
      /\ \A i \in DOMAIN h.groups : ~(h.groups[i].ext = n /\ h.door.ext = n)
  BY <1>1 DEF Normal, BookDraft, ExtsApart, Free
<1> SUFFICES ASSUME NEW x \in Book!Holders(h, n), NEW y \in Book!Holders(h, n) PROVE x = y
  BY DEF Book!Alone
<1>3. /\ \/ \E i \in DOMAIN h.eps : h.eps[i].ext = n /\ x = <<"account", i>>
         \/ \E i \in DOMAIN h.groups : h.groups[i].ext = n /\ x = <<"group", i>>
         \/ h.door.ext = n /\ x = <<"door", 0>>
      /\ \/ \E i \in DOMAIN h.eps : h.eps[i].ext = n /\ y = <<"account", i>>
         \/ \E i \in DOMAIN h.groups : h.groups[i].ext = n /\ y = <<"group", i>>
         \/ h.door.ext = n /\ y = <<"door", 0>>
  BY HoldersAre
<1>4. CASE \E i \in DOMAIN h.eps : h.eps[i].ext = n /\ x = <<"account", i>>
  <2>1. \E i \in DOMAIN h.eps : h.eps[i].ext = n /\ y = <<"account", i>>
    BY <1>2, <1>3, <1>4
  <2> QED
    BY <1>2, <1>4, <2>1
<1>5. CASE \E i \in DOMAIN h.groups : h.groups[i].ext = n /\ x = <<"group", i>>
  <2>1. \E i \in DOMAIN h.groups : h.groups[i].ext = n /\ y = <<"group", i>>
    BY <1>2, <1>3, <1>5
  <2> QED
    BY <1>2, <1>5, <2>1
<1>6. CASE h.door.ext = n /\ x = <<"door", 0>>
  <2>1. y = <<"door", 0>>
    BY <1>2, <1>3, <1>6
  <2> QED
    BY <1>6, <2>1
<1> QED
  BY <1>3, <1>4, <1>5, <1>6

LEMMA BookIsSound == Book!BookAssumption /\ BookInv => Book!BookSound /\ Book!TypesOK
<1> SUFFICES ASSUME Book!BookAssumption, BookInv PROVE Book!BookSound /\ Book!TypesOK
  OBVIOUS
<1>1. PICK h : h = bHouse
  OBVIOUS
<1>2. Normal(h) /\ h.fresh <= bMaxFresh /\ bBehind \in BOOLEAN /\ bSaves \in 0..bMaxSaves
  BY <1>1 DEF BookInv, BookKinds
<1>3. BookDraft(h) /\ h \in Books /\ h.fresh \in Nat /\ h.fresh > 1 /\ h.eps \in Seq(BookAccount) /\ h.users \subseteq bPeople
  BY <1>2 DEF Normal, BookDraft, IdsApart, Books
<1>4. \A e \in Book!Range0(h.eps) : e.user \in h.users /\ h.link[e.user] = e.id
  BY <1>2 DEF Normal, Owned, Book!Range0
<1>5. \A u \in bPeople : h.link[u] # None => \E e \in Book!Range0(h.eps) : e.user = u
  <2> SUFFICES ASSUME NEW u \in bPeople, h.link[u] # None PROVE \E e \in Book!Range0(h.eps) : e.user = u
    OBVIOUS
  <2>1. PICK i \in DOMAIN h.eps : h.eps[i].user = u
    BY <1>2 DEF Normal, Owned
  <2>2. h.eps[i] \in Book!Range0(h.eps)
    BY DEF Book!Range0
  <2> QED
    BY <2>1, <2>2
<1>6. \A n \in Book!UsedExts(h) \ h.typed : Book!Alone(h, n)
  BY <1>2, PartiesApart
<1>7. \A g \in Book!Range0(h.groups) : Book!Range0(g.members) \subseteq Book!IdsOf(h.eps)
  <2> SUFFICES ASSUME NEW g \in Book!Range0(h.groups), NEW m \in Book!Range0(g.members) PROVE m \in Book!IdsOf(h.eps)
    OBVIOUS
  <2>1. PICK i \in DOMAIN h.groups : g = h.groups[i]
    BY DEF Book!Range0
  <2>2. PICK k \in DOMAIN g.members : m = g.members[k]
    BY DEF Book!Range0
  <2> QED
    BY <1>2, <2>1, <2>2 DEF Normal, GroupsFull, GroupFull
<1>8. Book!NormalizeVoip(h) = h
  <2>1. PICK g : g = Book!NormalizeVoip(h)
    OBVIOUS
  <2> QED
    BY <1>2, <1>3, <2>1, NormalizeKeeps
<1>9. Book!BookSound
  BY <1>1, <1>4, <1>5, <1>6, <1>7, <1>8 DEF Book!BookSound
<1>10. \A e \in Book!Range0(h.eps) : e.user \in bPeople /\ e.ext \in Nat /\ e.pw \in Nat
  <2> SUFFICES ASSUME NEW i \in DOMAIN h.eps PROVE h.eps[i].user \in bPeople /\ h.eps[i].ext \in Nat /\ h.eps[i].pw \in Nat
    BY DEF Book!Range0
  <2>1. h.eps[i] \in BookAccount
    BY <1>3
  <2>2. h.eps[i].ext # None /\ h.eps[i].pw # None /\ h.eps[i].user \in h.users
    BY <1>2 DEF Normal, EpsFull, EpFull, Owned
  <2> QED
    BY <1>3, <2>1, <2>2 DEF BookAccount, BookExt, BookNumber
<1>11. h.fresh \in 1..bMaxFresh
  BY <1>2, <1>3 DEF Book!BookAssumption
<1>12. Book!TypesOK
  BY <1>1, <1>2, <1>3, <1>10, <1>11 DEF Book!TypesOK
<1> QED
  BY <1>9, <1>12

(* A number on one line of the plan only rings what that line says, and one    *)
(* that is on none what the pattern says.                                      *)
LEMMA RingsOne ==
    ASSUME NEW plan, DOMAIN plan.lines \subseteq Nat, NEW number, NEW i \in DOMAIN plan.lines, plan.lines[i][1] = number,
           \A j \in DOMAIN plan.lines : plan.lines[j][1] = number => j = i
    PROVE  Book!Rings(plan, number) = plan.lines[i][2]
<1>1. PICK at : at = {j \in DOMAIN plan.lines : plan.lines[j][1] = number}
  OBVIOUS
<1>2. at = {i}
  BY <1>1
<1>3. (CHOOSE k \in at : \A j \in at : k <= j) = i
  BY <1>2
<1>4. Book!Rings(plan, number) = IF at = {} THEN plan.other ELSE plan.lines[CHOOSE k \in at : \A j \in at : k <= j][2]
  BY <1>1 DEF Book!Rings
<1> QED
  BY <1>2, <1>3, <1>4

LEMMA RingsNone ==
    ASSUME NEW plan, NEW number, \A j \in DOMAIN plan.lines : plan.lines[j][1] # number
    PROVE  Book!Rings(plan, number) = plan.other
<1>1. {j \in DOMAIN plan.lines : plan.lines[j][1] = number} = {}
  OBVIOUS
<1> QED
  BY <1>1 DEF Book!Rings

(* The groups the door rings are each named once, and those that can be rung   *)
(* each have someone in them.                                                  *)
RungGroups(h, u) ==
    /\ u \in Seq(BookNumber)
    /\ \A j, k \in DOMAIN u : u[j] = u[k] => j = k
    /\ \A k \in DOMAIN u : Book!GroupDial(h, u[k]) # {}
    /\ \A g \in Book!Range0(Book!IntercomRingTargets(h.door)) : Book!GroupDial(h, g) # {} => \E k \in DOMAIN u : u[k] = g

LEMMA UsableAre ==
    ASSUME NEW h, h \in Books
    PROVE  RungGroups(h, Book!Usable(h))
<1>1. h.door \in BookDoor
  BY DEF Books
<1>2. PICK named : named = <<h.door.group>> \o h.door.buttons
  OBVIOUS
<1>3. named \in Seq(BookNumber) /\ Len(named) \in Nat /\ DOMAIN named = 1..Len(named)
  <2>1. h.door.group \in BookNumber /\ h.door.buttons \in Seq(BookNumber)
    BY <1>1 DEF BookDoor, BookNumber
  <2>2. <<h.door.group>> \in Seq(BookNumber)
    BY <2>1
  <2>3. named \in Seq(BookNumber)
    BY <1>2, <2>1, <2>2
  <2> QED
    BY <2>3
<1>4. PICK first : first = {i \in DOMAIN named : named[i] # None /\ \A j \in 1..i - 1 : named[j] # named[i]}
  OBVIOUS
<1>5. PICK all : all = Picked(named, first)
  OBVIOUS
<1>6. Book!IntercomRingTargets(h.door) = all
  BY <1>2, <1>4, <1>5, BookFilters DEF Book!IntercomRingTargets
<1>7. all \in Seq(BookNumber) /\ PickedOf(named, first, Len(named), all)
  BY <1>3, <1>5, PickedFacts
<1>8. \A j, k \in DOMAIN all : all[j] = all[k] => j = k
  <2>1. PICK f \in [DOMAIN all -> 1..Len(named)] :
            /\ \A k \in DOMAIN all : f[k] \in first /\ all[k] = named[f[k]]
            /\ \A j, k \in DOMAIN all : f[j] = f[k] => j = k
    BY <1>7 DEF PickedOf
  <2>2. \A a, b \in first : named[a] = named[b] => a = b
    <3> SUFFICES ASSUME NEW a \in first, NEW b \in first, named[a] = named[b], a < b PROVE FALSE
      BY <1>3, <1>4
    <3>1. a \in 1..b - 1
      BY <1>3, <1>4
    <3> QED
      BY <1>4, <3>1
  <2> QED
    BY <2>1, <2>2
<1>9. PICK full : full = {i \in DOMAIN all : Book!GroupDial(h, all[i]) # {}}
  OBVIOUS
<1>10. PICK u : u = Picked(all, full)
  OBVIOUS
<1>11. Book!Usable(h) = u
  BY <1>6, <1>9, <1>10, BookFilters DEF Book!Usable
<1>12. u \in Seq(BookNumber) /\ PickedOf(all, full, Len(all), u)
  BY <1>7, <1>10, PickedFacts
<1>13. DOMAIN all = 1..Len(all)
  BY <1>7
<1>14. PICK f \in [DOMAIN u -> 1..Len(all)] :
           /\ \A k \in DOMAIN u : f[k] \in full /\ u[k] = all[f[k]]
           /\ \A j, k \in DOMAIN u : f[j] = f[k] => j = k
  BY <1>12 DEF PickedOf
<1>15. \A j, k \in DOMAIN u : u[j] = u[k] => j = k
  BY <1>8, <1>13, <1>14
<1>16. \A k \in DOMAIN u : Book!GroupDial(h, u[k]) # {}
  BY <1>9, <1>14
<1>17. ASSUME NEW g \in Book!Range0(all), Book!GroupDial(h, g) # {} PROVE \E k \in DOMAIN u : u[k] = g
  <2>1. PICK i \in DOMAIN all : g = all[i]
    BY DEF Book!Range0
  <2>2. i \in full /\ i \in 1..Len(all)
    BY <1>9, <1>13, <1>17, <2>1
  <2> QED
    BY <1>12, <2>1, <2>2 DEF PickedOf
<1> QED
  BY <1>6, <1>11, <1>12, <1>15, <1>16, <1>17 DEF RungGroups

(* The number of a group that can be rung is its own.                          *)
LEMMA GroupNumbers ==
    ASSUME NEW h, Normal(h), NEW id, Book!GroupDial(h, id) # {}
    PROVE  \E g \in DOMAIN h.groups : h.groups[g].id = id /\ Book!ExtOf(h, id) = h.groups[g].ext
<1>1. id \in Book!IdsOf(h.groups)
  BY DEF Book!GroupDial
<1>2. PICK g \in DOMAIN h.groups : h.groups[g].id = id
  BY <1>1, HasId
<1>3. PICK groups : groups = h.groups
  OBVIOUS
<1>4. \A j, k \in DOMAIN groups : groups[j].id = groups[k].id => j = k
  BY <1>3 DEF Normal, BookDraft, IdsApart
<1>5. Book!With(groups, groups[g].id) = groups[g]
  BY <1>2, <1>3, <1>4, WithIsIt
<1> QED
  BY <1>2, <1>3, <1>5 DEF Book!ExtOf

(* The lines of the door's context: first the groups, then the accounts.       *)
LinesOf(h, u, plan) ==
    /\ DOMAIN plan.lines = 1..Len(u) + Len(h.eps)
    /\ \A i \in DOMAIN u : plan.lines[i][1] = Book!ExtOf(h, u[i]) /\ plan.lines[i][2] = Book!GroupDial(h, u[i])
    /\ \A i \in DOMAIN h.eps : plan.lines[Len(u) + i][1] = h.eps[i].ext /\ plan.lines[Len(u) + i][2] = {h.eps[i].ext}
    /\ u # <<>> => plan.other = Book!GroupDial(h, u[1])

LEMMA LinesAre ==
    ASSUME NEW h, h \in Books, NEW u, u = Book!Usable(h), NEW plan, plan = Book!BuildDoorRingContext(h)
    PROVE  LinesOf(h, u, plan)
<1>1. u \in Seq(BookNumber) /\ h.eps \in Seq(BookAccount)
  BY UsableAre DEF RungGroups, Books
<1>2. PICK n \in Nat, m \in Nat : n = Len(u) /\ m = Len(h.eps) /\ DOMAIN u = 1..n /\ DOMAIN h.eps = 1..m
  BY <1>1
<1>3. PICK rows : rows = [i \in DOMAIN u |-> <<Book!ExtOf(h, u[i]), Book!GroupDial(h, u[i])>>]
  OBVIOUS
<1>4. PICK calls : calls = [i \in DOMAIN h.eps |-> <<h.eps[i].ext, {h.eps[i].ext}>>]
  OBVIOUS
<1>5. calls = Book!MonitorCallbackLines(h)
  BY <1>4 DEF Book!MonitorCallbackLines
<1>6. plan = [lines |-> rows \o calls, other |-> IF rows = <<>> THEN {} ELSE rows[1][2]]
  BY <1>3, <1>5 DEF Book!BuildDoorRingContext
<1>7. PICK T : T = {rows[i] : i \in 1..n} \cup {calls[i] : i \in 1..m}
  OBVIOUS
<1>8. rows \in Seq(T) /\ Len(rows) = n
  <2>1. rows \in [1..n -> T]
    BY <1>2, <1>3, <1>7
  <2> QED
    BY <2>1
<1>9. calls \in Seq(T) /\ Len(calls) = m
  <2>1. calls \in [1..m -> T]
    BY <1>2, <1>4, <1>7
  <2> QED
    BY <2>1
<1>10. PICK lines : lines = rows \o calls
  OBVIOUS
<1>11. DOMAIN lines = 1..n + m /\ (\A i \in 1..n : lines[i] = rows[i]) /\ (\A i \in 1..m : lines[n + i] = calls[i])
  BY <1>8, <1>9, <1>10
<1>12. \A i \in 1..n : rows[i][1] = Book!ExtOf(h, u[i]) /\ rows[i][2] = Book!GroupDial(h, u[i])
  BY <1>2, <1>3
<1>13. \A i \in 1..m : calls[i][1] = h.eps[i].ext /\ calls[i][2] = {h.eps[i].ext}
  BY <1>2, <1>4
<1>14. ASSUME u # <<>> PROVE rows # <<>> /\ 1 \in 1..n
  <2>1. n # 0
    BY <1>1, <1>2, <1>14
  <2> QED
    BY <1>2, <1>8, <2>1
<1>15. plan.lines = lines /\ (u # <<>> => plan.other = Book!GroupDial(h, u[1]))
  BY <1>6, <1>10, <1>12, <1>14
<1> QED
  BY <1>2, <1>11, <1>12, <1>13, <1>15 DEF LinesOf

LEMMA DialIsSound == Book!BookAssumption /\ BookInv => Book!DialSound
<1> SUFFICES ASSUME Book!BookAssumption, BookInv, ~bBehind PROVE Book!DialSound
  BY DEF Book!DialSound
<1>1. PICK h : h = bHouse
  OBVIOUS
<1>2. Normal(h) /\ h \in Books /\ bPbx = Book!BuildAsteriskFiles(h)
  BY <1>1, NormalIs DEF BookInv, BookKinds, BookDialled
<1>3. PICK plan : plan = Book!BuildDoorRingContext(h)
  OBVIOUS
<1>4. bPbx.door = plan /\ \A e \in Book!Range0(h.eps) : <<e.ext, e.pw>> \in bPbx.accounts
  BY <1>2, <1>3 DEF Book!BuildAsteriskFiles
<1>5. PICK u : u = Book!Usable(h)
  OBVIOUS
<1>6. RungGroups(h, u)
  BY <1>2, <1>5, UsableAre
<1>7. LinesOf(h, u, plan)
  BY <1>2, <1>3, <1>5, LinesAre
<1>8. PICK n \in Nat, m \in Nat : n = Len(u) /\ m = Len(h.eps) /\ DOMAIN u = 1..n /\ DOMAIN h.eps = 1..m
  <2>1. u \in Seq(BookNumber) /\ h.eps \in Seq(BookAccount)
    BY <1>2, <1>6 DEF RungGroups, Books
  <2> QED
    BY <2>1
<1>9. PICK lines : lines = plan.lines
  OBVIOUS
<1>10. /\ DOMAIN lines = 1..n + m
       /\ \A i \in 1..n : lines[i][1] = Book!ExtOf(h, u[i]) /\ lines[i][2] = Book!GroupDial(h, u[i])
       /\ \A i \in 1..m : lines[n + i][1] = h.eps[i].ext /\ lines[n + i][2] = {h.eps[i].ext}
  BY <1>7, <1>8, <1>9 DEF LinesOf
<1>11. \A i \in 1..n : \E g \in DOMAIN h.groups : h.groups[g].id = u[i] /\ lines[i][1] = h.groups[g].ext
  <2> SUFFICES ASSUME NEW i \in 1..n PROVE \E g \in DOMAIN h.groups : h.groups[g].id = u[i] /\ lines[i][1] = h.groups[g].ext
    OBVIOUS
  <2>1. PICK id : id = u[i]
    OBVIOUS
  <2>2. Book!GroupDial(h, id) # {}
    BY <1>6, <1>8, <2>1 DEF RungGroups
  <2>3. PICK g \in DOMAIN h.groups : h.groups[g].id = id /\ Book!ExtOf(h, id) = h.groups[g].ext
    BY <1>2, <2>2, GroupNumbers
  <2> QED
    BY <1>10, <2>1, <2>3
<1>12. /\ \A i \in 1..m : h.eps[i].ext # None /\ h.eps[i].ext \in Nat \ {0}
       /\ \A g \in DOMAIN h.groups : h.groups[g].ext # None /\ h.groups[g].ext \in Nat \ {0}
  <2>1. h.eps \in Seq(BookAccount) /\ h.groups \in Seq(BookGroup)
    BY <1>2 DEF Books
  <2>2. (\A i \in 1..m : h.eps[i] \in BookAccount) /\ (\A g \in DOMAIN h.groups : h.groups[g] \in BookGroup)
    BY <1>8, <2>1
  <2>3. (\A i \in 1..m : h.eps[i].ext # None) /\ (\A g \in DOMAIN h.groups : h.groups[g].ext # None)
    BY <1>2, <1>8 DEF Normal, EpsFull, EpFull, GroupsFull, GroupFull
  <2> QED
    BY <2>2, <2>3 DEF BookAccount, BookGroup, BookExt
<1>16. \A i \in 1..n + m : i \in 1..n \/ (i - n \in 1..m /\ lines[i][1] = h.eps[i - n].ext)
  <2> SUFFICES ASSUME NEW i \in 1..n + m, i \notin 1..n PROVE i - n \in 1..m /\ lines[i][1] = h.eps[i - n].ext
    OBVIOUS
  <2>1. PICK k \in 1..m : k = i - n /\ n + k = i
    OBVIOUS
  <2> QED
    BY <1>10, <2>1
<1>17. ASSUME NEW k \in 1..n + m, NEW number, lines[k][1] = number, \A j \in 1..n + m : lines[j][1] = number => j = k
       PROVE  Book!Rings(plan, number) = lines[k][2]
  <2>1. DOMAIN plan.lines \subseteq Nat /\ k \in DOMAIN plan.lines /\ plan.lines[k][1] = number
        /\ \A j \in DOMAIN plan.lines : plan.lines[j][1] = number => j = k
    BY <1>9, <1>10, <1>17
  <2>2. Book!Rings(plan, number) = plan.lines[k][2]
    BY <2>1, RingsOne
  <2> QED
    BY <1>9, <2>2
<1>18. ASSUME NEW e \in Book!Range0(h.eps), Book!Alone(h, e.ext) PROVE Book!Rings(plan, e.ext) = {e.ext}
  <2>1. PICK i \in 1..m : e = h.eps[i]
    BY <1>8 DEF Book!Range0
  <2>2. PICK k \in 1..n + m : k = n + i
    OBVIOUS
  <2>3. lines[k][1] = e.ext /\ lines[k][2] = {e.ext}
    BY <1>10, <2>1, <2>2
  <2>a. /\ \A j \in 1..m : h.eps[j].ext = e.ext => j = i
        /\ \A g \in DOMAIN h.groups : h.groups[g].ext # e.ext
    BY <1>8, <1>18, <2>1, AloneIs
  <2>4. ASSUME NEW j \in 1..n + m, lines[j][1] = e.ext PROVE j = k
    <3>1. j \notin 1..n
      BY <1>11, <2>a, <2>4
    <3>2. j - n \in 1..m /\ h.eps[j - n].ext = e.ext
      BY <1>16, <2>4, <3>1
    <3>3. j - n = i
      BY <2>a, <3>2
    <3> QED
      BY <2>2, <3>3
  <2>5. PICK number : number = e.ext
    OBVIOUS
  <2>6. Book!Rings(plan, number) = lines[k][2]
    BY <1>17, <2>3, <2>4, <2>5
  <2> QED
    BY <2>3, <2>5, <2>6
<1>19. ASSUME NEW g \in Book!Range0(Book!IntercomRingTargets(h.door)), Book!GroupDial(h, g) # {},
              Book!Alone(h, Book!ExtOf(h, g))
       PROVE  Book!Rings(plan, Book!ExtOf(h, g)) = Book!GroupDial(h, g)
  <2>1. PICK k \in 1..n : u[k] = g
    BY <1>6, <1>8, <1>19 DEF RungGroups
  <2>2. PICK number : number = Book!ExtOf(h, g)
    OBVIOUS
  <2>3. lines[k][1] = number /\ lines[k][2] = Book!GroupDial(h, u[k]) /\ k \in 1..n + m
    BY <1>10, <2>1, <2>2
  <2>b. PICK a \in DOMAIN h.groups : h.groups[a].id = u[k] /\ h.groups[a].ext = number
    BY <1>11, <2>3
  <2>a. /\ \A i, j \in DOMAIN h.groups : h.groups[i].ext = number /\ h.groups[j].ext = number => i = j
        /\ \A i \in 1..m : h.eps[i].ext # number
    BY <1>8, <1>19, <2>2, <2>b, AloneIs
  <2>4. ASSUME NEW j \in 1..n + m, lines[j][1] = number PROVE j = k
    <3>1. CASE j \in 1..n
      <4>1. PICK b \in DOMAIN h.groups : h.groups[b].id = u[j] /\ h.groups[b].ext = number
        BY <1>11, <2>4, <3>1
      <4>2. u[j] = u[k]
        BY <2>a, <2>b, <4>1
      <4> QED
        BY <1>6, <1>8, <3>1, <4>2 DEF RungGroups
    <3>2. CASE j \notin 1..n
      <4>1. j - n \in 1..m /\ lines[j][1] = h.eps[j - n].ext
        BY <1>16, <3>2
      <4> QED
        BY <2>a, <2>4, <4>1
    <3> QED
      BY <3>1, <3>2
  <2>5. Book!Rings(plan, number) = lines[k][2]
    BY <1>17, <2>3, <2>4
  <2> QED
    BY <2>1, <2>2, <2>3, <2>5
<1>20. ASSUME Book!Usable(h) # <<>> PROVE Book!Rings(plan, 0) = Book!GroupDial(h, Book!Usable(h)[1])
  <2>1. \A j \in DOMAIN plan.lines : plan.lines[j][1] # 0
    <3> SUFFICES ASSUME NEW j \in 1..n + m PROVE lines[j][1] # 0
      BY <1>9, <1>10
    <3>1. CASE j \in 1..n
      BY <1>11, <1>12, <3>1
    <3>2. CASE j \notin 1..n
      BY <1>12, <1>16, <3>2
    <3> QED
      BY <3>1, <3>2
  <2>2. Book!Rings(plan, 0) = plan.other
    <3>1. PICK number : number = 0
      OBVIOUS
    <3>2. \A j \in DOMAIN plan.lines : plan.lines[j][1] # number
      BY <2>1, <3>1
    <3>3. Book!Rings(plan, number) = plan.other
      BY <3>2, RingsNone
    <3> QED
      BY <3>1, <3>3
  <2>3. plan.other = Book!GroupDial(h, u[1])
    BY <1>5, <1>7, <1>20 DEF LinesOf
  <2> QED
    BY <1>5, <2>2, <2>3
<1> QED
  BY <1>1, <1>4, <1>18, <1>19, <1>20 DEF Book!DialSound

(* Whatever is typed, saved or restarted, each indoor account is one of a user *)
(* of the house and noted with it, two parties share a number only if it was   *)
(* typed for one of them, normalising again changes nothing, and while         *)
(* Asterisk has the book a number that is one party's rings what it should:    *)
(* voip/normalize.ts and voip/asteriskConfig.ts.                               *)
THEOREM ListsAlwaysSound == Spec => []ListsSound
<1> DEFINE Inv == part = "book" => BookInv
<1>a. Book!BookAssumption
  BY HouseAssumption
<1>1. Init => Inv
  BY <1>a, InitOf, BookStart
<1>2. Inv /\ [Next]_allVars => Inv'
  BY <1>a, StepOf, BookStep
<1>3. Inv => ListsSound
  BY <1>a, BookIsSound, DialIsSound DEF ListsSound
<1> QED
  BY <1>1, <1>2, <1>3, PTL DEF Spec

(* An account that stays, and the door station, keep their SIP password unless *)
(* it is reset or typed, or a copy is saved that has an older one: the         *)
(* editor's, or the house that PUT /users read before it hashed a password.    *)
(* mergeVoipSecrets, normalizeVoip and the handlers of routes.ts.              *)
THEOREM PasswordsAlwaysKept == Spec => PasswordsKept
<1> DEFINE Inv == part = "book" => BookInv
<1>a. Book!BookAssumption
  BY HouseAssumption
<1>1. Init => Inv
  BY <1>a, InitOf, BookStart
<1>2. Inv /\ [Next]_allVars => Inv'
  BY <1>a, StepOf, BookStep
<1>3. Inv /\ [Next]_allVars => [part = "book" => Book!SecretsKept]_bVars
  BY <1>a, StepOf, BookStep
<1> QED
  BY <1>1, <1>2, <1>3, PTL DEF Spec, PasswordsKept

------------------------------------------------------------------------------
(* The types of what the programs and the agent have.                          *)
(* What is in the configurations, of which ProcsInv says nothing.              *)
ProcsYamls == cYaml \in cYamls \cup {None} /\ cWritten \in cYamls \cup {None}

LEMMA ProcsYamlsStart == Procs!Init => ProcsYamls
  BY DEF Procs!Init, ProcsYamls

LEMMA ProcsYamlsStep == ProcsYamls /\ [Procs!Next]_cVars => ProcsYamls'
<1> SUFFICES ASSUME ProcsYamls, [Procs!Next]_cVars PROVE ProcsYamls'
  OBVIOUS
<1>1. ASSUME NEW y \in cYamls, Procs!SyncGo2rtc(y) PROVE ProcsYamls'
  BY <1>1 DEF Procs!SyncGo2rtc, ProcsYamls
<1>2. CASE Procs!Go2rtcTimer
  BY <1>2 DEF Procs!Go2rtcTimer, ProcsYamls
<1>3. ASSUME UNCHANGED <<cYaml, cWritten>> PROVE ProcsYamls'
  BY <1>3 DEF ProcsYamls
<1>4. CASE Procs!EnsureAsterisk \/ Procs!StopAsterisk \/ Procs!AsteriskTimer \/ Procs!StopGo2rtc
  BY <1>3, <1>4 DEF Procs!EnsureAsterisk, Procs!StopAsterisk, Procs!AsteriskTimer, Procs!StopGo2rtc
<1>5. ASSUME NEW p \in Procs!Programs, Procs!SpawnFails(p) \/ \E i \in DOMAIN cProcs[p] : Procs!Exits(p, i)
      PROVE  ProcsYamls'
  BY <1>3, <1>5 DEF Procs!SpawnFails, Procs!Exits
<1>6. CASE UNCHANGED cVars
  BY <1>3, <1>6 DEF cVars
<1> QED
  BY <1>1, <1>2, <1>4, <1>5, <1>6 DEF Procs!Next

LEMMA ProcsAreTyped == Procs!ProcsAssumption /\ ProcsInv /\ ProcsYamls => Procs!TypesOK
<1> SUFFICES ASSUME Procs!ProcsAssumption, ProcsInv, ProcsYamls PROVE Procs!TypesOK
  OBVIOUS
<1>k. ProcsKinds
  BY DEF ProcsInv
<1>1. ASSUME NEW p \in Procs!Programs
      PROVE  /\ DOMAIN cProcs[p] \subseteq Procs!Pids
             /\ \A i \in DOMAIN cProcs[p] : cProcs[p][i] \in {"up", "killed", "gone"}
  <2>1. PICK s \in Seq(Stands) : s = cProcs[p] /\ Len(s) <= cMaxStarts
    BY <1>k DEF ProcsKinds
  <2>2. DOMAIN s = 1..Len(s) /\ Len(s) \in Nat /\ \A i \in DOMAIN s : s[i] \in Stands
    BY <2>1
  <2>3. cMaxStarts \in Nat
    BY DEF Procs!ProcsAssumption
  <2> QED
    BY <2>1, <2>2, <2>3 DEF Procs!Pids, Stands
<1> QED
  BY <1>1, <1>k DEF ProcsKinds, ProcsYamls, Procs!TypesOK

Enrolments == [state : {"idle", "queued", "running", "success", "error"}, stale : BOOLEAN]

LEMMA NewEnrolments ==
    ASSUME NEW st \in {"idle", "queued", "running", "success", "error"}
    PROVE  [state |-> st, stale |-> FALSE] \in Enrolments
  BY DEF Enrolments

(* What HostInv leaves out: what else is in the files of the agent, and that a *)
(* copy has no save that the memory has not.                                   *)
HostRest ==
    /\ uAsked \in BOOLEAN /\ uLock \in BOOLEAN /\ uHasty \in BOOLEAN /\ uHalf \in BOOLEAN
    /\ uNext # None => uPc = "write"
    /\ uEnrol \in Enrolments
    /\ uMem \subseteq 1..uSaves /\ uDisk \subseteq uMem /\ uBak \subseteq uDisk

LEMMA HostRestStart == Host!Init => HostRest
<1> SUFFICES ASSUME Host!Init PROVE HostRest
  OBVIOUS
<1>1. uEnrol \in Enrolments
  BY NewEnrolments DEF Host!Init
<1> QED
  BY <1>1 DEF Host!Init, HostRest

LEMMA HostRestStep == HostInv /\ HostRest /\ [Host!Next]_uVars => HostRest'
<1> SUFFICES ASSUME HostInv, HostRest, [Host!Next]_uVars PROVE HostRest'
  OBVIOUS
<1>k. uSaves \in Nat /\ uPc \in Host!Updating \cup Waiting \cup Others \cup {"write"}
  BY DEF HostInv, HostKinds
<1> USE DEF HostRest, Host!files, Host!house, Host!cloud
<1>1. CASE Host!AskUpdate
  BY <1>1 DEF Host!AskUpdate
<1>2. CASE Host!SaveHouse
  <2>1. 1..uSaves' = (1..uSaves) \cup {uSaves'} /\ uMem' = uMem \cup {uSaves'} /\ uDisk' = uMem'
        /\ UNCHANGED <<uPc, Host!files, uBoots, uHasty, Host!cloud, uBak>>
    BY <1>2, <1>k DEF Host!SaveHouse
  <2> QED
    BY <2>1
<1>3. CASE Host!BackendRestarts
  BY <1>3 DEF Host!BackendRestarts
<1>4. CASE Host!LookAtEnrol
  BY <1>4, NewEnrolments DEF Host!LookAtEnrol, Host!EnrolSeen
<1>5. CASE Host!CodeQueued
  BY <1>5, NewEnrolments DEF Host!CodeQueued
<1>6. ASSUME NEW c \in uCodes, Host!GiveCode(c) PROVE HostRest'
  BY <1>6, NewEnrolments DEF Host!GiveCode, Host!EnrolSeen
<1>7. CASE Host!WriteEnds
  BY <1>7 DEF Host!WriteEnds
<1>8. CASE Host!AgentStarts
  BY <1>8 DEF Host!AgentStarts
<1>9. CASE Host!Boot
  BY <1>9 DEF Host!Boot, Host!Writes
<1>10. CASE Host!Heartbeat
  BY <1>10 DEF Host!Heartbeat, Host!Writes
<1>11. CASE Host!TakeUpdate
  BY <1>11 DEF Host!TakeUpdate
<1>12. CASE Host!RemoveRequest
  BY <1>12 DEF Host!RemoveRequest
<1>13. CASE Host!StartUpdate
  BY <1>13 DEF Host!StartUpdate, Host!Writes
<1>14. CASE Host!BeginUpdate
  BY <1>14 DEF Host!BeginUpdate, Host!Writes, Host!Copy
<1>15. CASE Host!FetchEnds
  BY <1>15 DEF Host!FetchEnds, Host!Writes
<1>16. CASE Host!BuildEnds
  BY <1>16 DEF Host!BuildEnds, Host!Writes
<1>17. CASE Host!UpdateEnds
  BY <1>17 DEF Host!UpdateEnds
<1>18. CASE Host!ReadCode
  BY <1>18 DEF Host!ReadCode
<1>19. CASE Host!UseCode
  <2>1. uEnrol' \in Enrolments /\ uPc' # "write"
    BY <1>19, NewEnrolments DEF Host!UseCode
  <2> QED
    BY <1>19, <2>1 DEF Host!UseCode
<1>20. CASE Host!EnrolEnds
  <2>1. uEnrol' \in Enrolments /\ uPc' # "write"
    BY <1>20, NewEnrolments DEF Host!EnrolEnds
  <2> QED
    BY <1>20, <2>1 DEF Host!EnrolEnds
<1>21. CASE Host!AgentDies
  BY <1>21 DEF Host!AgentDies
<1>22. CASE Host!BeatAges
  BY <1>22 DEF Host!BeatAges
<1>23. CASE Host!StartAges
  BY <1>23 DEF Host!StartAges
<1>24. CASE Host!EnrolAges
  BY <1>24 DEF Host!EnrolAges, Enrolments
<1>25. CASE UNCHANGED uVars
  BY <1>25 DEF uVars
<1> QED
  BY <1>1, <1>2, <1>3, <1>4, <1>5, <1>6, <1>7, <1>8, <1>9, <1>10, <1>11, <1>12, <1>13, <1>14,
     <1>15, <1>16, <1>17, <1>18, <1>19, <1>20, <1>21, <1>22, <1>23, <1>24, <1>25 DEF Host!Next

LEMMA HostIsTyped == Host!HostAssumption /\ HostInv /\ HostRest => Host!TypesOK
<1> SUFFICES ASSUME Host!HostAssumption, HostInv, HostRest PROVE Host!TypesOK
  OBVIOUS
<1>1. uPc \in Host!Updating \cup {"down", "boot", "poll", "write", "take", "start", "endError",
                                  "endSuccess", "enroll", "enrolling"}
  BY DEF HostInv, HostKinds, Waiting, Others
<1>2. uStatus = Torn \/ (uStatus.state \in {"idle", "running", "success", "error"}
                         /\ uStatus.beat \in BOOLEAN /\ uStatus.start \in {"recent", "old", None})
  BY DEF HostInv, HostKinds, Statuses
<1>3. (uPc = "write") = (uNext # None)
  <2>1. ASSUME uPc = "write" PROVE uNext # None
    <3>1. /\ uNext.status \in Statuses /\ uNext.then \in AfterWrite
          /\ uNext = [status |-> uNext.status, then |-> uNext.then]
      BY <2>1 DEF HostInv, HostKinds
    <3> QED
      BY <3>1 DEF Statuses, AfterWrite, Host!HostAssumption
  <2>2. ASSUME uNext # None PROVE uPc = "write"
    BY <2>2 DEF HostRest
  <2> QED
    BY <2>1, <2>2
<1>4. uEnrol.state \in {"idle", "queued", "running", "success", "error"} /\ uEnrol.stale \in BOOLEAN
  BY DEF HostRest, Enrolments
<1>5. uMem \subseteq 1..uSaves /\ uDisk \subseteq uMem /\ uBak \subseteq uMem
  BY DEF HostRest
<1> QED
  BY <1>1, <1>2, <1>3, <1>4, <1>5 DEF HostInv, HostKinds, HostRest, Host!TypesOK

------------------------------------------------------------------------------
(* What each component's files, timers, lists and records are at every moment: *)
(* the inductive invariants of all thirteen say it.                            *)
PartsInv ==
    /\ part = "zones" => ZonesInv
    /\ part = "hold" => HoldInv
    /\ part = "skip" => SkipInv
    /\ part = "spotify" => SpotifyInv
    /\ part = "lutron" => LutronInv
    /\ part = "procs" => ProcsInv /\ ProcsYamls
    /\ part = "doors" => DoorsInv
    /\ part = "accounts" => AcctInv
    /\ part = "book" => BookInv
    /\ part = "update" => HostInv /\ HostRest
    /\ part = "ami" => AmiInv
    /\ part = "alarm" => SatelInv
    /\ part = "alarmConfig" => ConfInv

LEMMA PartsStart == Init => PartsInv
<1> SUFFICES ASSUME Init PROVE PartsInv
  OBVIOUS
<1>1. part = "zones" => ZonesInv
  BY HouseAssumption, InitOf, ZonesStart
<1>2. part = "hold" => HoldInv
  BY HouseAssumption, InitOf, HoldStart
<1>3. part = "skip" => SkipInv
  BY HouseAssumption, InitOf, SkipStart
<1>4. part = "spotify" => SpotifyInv
  BY HouseAssumption, InitOf, SpotifyStart
<1>5. part = "lutron" => LutronInv
  BY HouseAssumption, InitOf, LutronStart
<1>6. part = "procs" => ProcsInv /\ ProcsYamls
  BY HouseAssumption, InitOf, ProcsStart, ProcsYamlsStart
<1>7. part = "doors" => DoorsInv
  BY HouseAssumption, InitOf, DoorsStart
<1>8. part = "accounts" => AcctInv
  BY HouseAssumption, InitOf, AcctStart
<1>9. part = "book" => BookInv
  BY HouseAssumption, InitOf, BookStart
<1>10. part = "update" => HostInv /\ HostRest
  BY HouseAssumption, InitOf, HostStart, HostRestStart
<1>11. part = "ami" => AmiInv
  BY HouseAssumption, InitOf, AmiStart
<1>12. part = "alarm" => SatelInv
  BY HouseAssumption, InitOf, SatelStart
<1>13. part = "alarmConfig" => ConfInv
  BY HouseAssumption, InitOf, ConfStart
<1> QED
  BY <1>1, <1>2, <1>3, <1>4, <1>5, <1>6, <1>7, <1>8, <1>9, <1>10, <1>11, <1>12, <1>13 DEF PartsInv

LEMMA PartsStep == PartsInv /\ [Next]_allVars => PartsInv'
<1> SUFFICES ASSUME PartsInv, [Next]_allVars PROVE PartsInv'
  OBVIOUS
<1>p. part' = part
  BY StepOf
<1>1. ASSUME part = "zones" PROVE ZonesInv'
  BY <1>1, HouseAssumption, StepOf, ZonesStep DEF PartsInv
<1>2. ASSUME part = "hold" PROVE HoldInv'
  BY <1>2, HouseAssumption, StepOf, HoldStep DEF PartsInv
<1>3. ASSUME part = "skip" PROVE SkipInv'
  BY <1>3, HouseAssumption, StepOf, SkipStepKeeps DEF PartsInv
<1>4. ASSUME part = "spotify" PROVE SpotifyInv'
  BY <1>4, HouseAssumption, StepOf, SpotifyStep DEF PartsInv
<1>5. ASSUME part = "lutron" PROVE LutronInv'
  BY <1>5, HouseAssumption, StepOf, LutronStep DEF PartsInv
<1>6. ASSUME part = "procs" PROVE (ProcsInv /\ ProcsYamls)'
  BY <1>6, HouseAssumption, StepOf, ProcsStep, ProcsYamlsStep DEF PartsInv
<1>7. ASSUME part = "doors" PROVE DoorsInv'
  BY <1>7, HouseAssumption, StepOf, DoorsStep DEF PartsInv
<1>8. ASSUME part = "accounts" PROVE AcctInv'
  BY <1>8, HouseAssumption, StepOf, AcctStep DEF PartsInv
<1>9. ASSUME part = "book" PROVE BookInv'
  BY <1>9, HouseAssumption, StepOf, BookStep DEF PartsInv
<1>10. ASSUME part = "update" PROVE (HostInv /\ HostRest)'
  BY <1>10, HouseAssumption, StepOf, HostStep, HostRestStep DEF PartsInv
<1>11. ASSUME part = "ami" PROVE AmiInv'
  BY <1>11, HouseAssumption, StepOf, AmiStep DEF PartsInv
<1>12. ASSUME part = "alarm" PROVE SatelInv'
  BY <1>12, HouseAssumption, StepOf, SatelStep DEF PartsInv
<1>13. ASSUME part = "alarmConfig" PROVE ConfInv'
  BY <1>13, HouseAssumption, StepOf, ConfStep DEF PartsInv
<1> QED
  BY <1>p, <1>1, <1>2, <1>3, <1>4, <1>5, <1>6, <1>7, <1>8, <1>9, <1>10, <1>11, <1>12, <1>13 DEF PartsInv

(* The files, lists, timers and records of every component have their types,    *)
(* whatever happens: saves, restarts, lost links, halves of updates.           *)
THEOREM HouseAlwaysTyped == Spec => []TypesOK
<1>1. PartsInv => TypesOK
  <2> SUFFICES ASSUME PartsInv PROVE TypesOK
    OBVIOUS
  <2>1. part = "zones" => Zones!TypesOK
    BY HouseAssumption, ZonesAreSound DEF PartsInv
  <2>2. part = "hold" => Hold!TypesOK
    BY HouseAssumption, HoldIsSound DEF PartsInv
  <2>3. part = "skip" => Skips!TypesOK
    BY HouseAssumption, SkipIsTyped DEF PartsInv
  <2>4. part = "spotify" => Spotify!TypesOK
    BY HouseAssumption, SpotifyIsSound DEF PartsInv
  <2>5. part = "lutron" => Lutron!TypesOK
    BY HouseAssumption, LutronIsSound DEF PartsInv
  <2>6. part = "procs" => Procs!TypesOK
    BY HouseAssumption, ProcsAreTyped DEF PartsInv
  <2>7. part = "doors" => Rings!TypesOK
    BY HouseAssumption, DoorsAreSound DEF PartsInv
  <2>8. part = "accounts" => Accts!TypesOK
    BY HouseAssumption, AcctIsSound DEF PartsInv
  <2>9. part = "book" => Book!TypesOK
    BY HouseAssumption, BookIsSound DEF PartsInv
  <2>10. part = "update" => Host!TypesOK
    BY HouseAssumption, HostIsTyped DEF PartsInv
  <2>11. part = "ami" => Ami!TypesOK
    BY HouseAssumption, AmiIsSound DEF PartsInv
  <2>12. part = "alarm" => Alarm!TypesOK
    BY HouseAssumption, SatelIsSound DEF PartsInv
  <2>13. part = "alarmConfig" => AlarmConf!TypesOK
    BY HouseAssumption, ConfIsSound DEF PartsInv
  <2> QED
    BY <2>1, <2>2, <2>3, <2>4, <2>5, <2>6, <2>7, <2>8, <2>9, <2>10, <2>11, <2>12, <2>13 DEF TypesOK
<1> QED
  BY <1>1, PartsStart, PartsStep, PTL DEF Spec
==============================================================================
