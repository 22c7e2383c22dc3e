----------------------------- MODULE SceneContrast -----------------------------
(***************************************************************************)
(* How the scene wizard finds out which lights and shades a KNX scene sets *)
(* (knxSceneLearn.ts).  A scene's levels live in the actuators; the wizard *)
(* only sees the cached status of each device.  It puts the lights out,    *)
(* recalls the scene, and takes those that left 0; puts the others to 100, *)
(* recalls the scene again, and takes those that left 100; a shade counts  *)
(* when its position moved after the first recall.  A light that does not  *)
(* show the level it was put to is left out of the pass.                   *)
(*                                                                         *)
(* One room, in which nobody else operates a device meanwhile: the wizard  *)
(* cannot tell that from the scene.  Levels are 0, 50 and 100; the sleeps  *)
(* of the code are the steps between its phases, in which reports come in  *)
(* or not.                                                                 *)
(***************************************************************************)
EXTENDS FiniteSets

CONSTANTS
    Lights, Shades,  \* devices of the room that are not Lutron's
    None

Devices == Lights \cup Shades
Levels == {"0", "50", "100"}

SceneContrastAssumption == Lights \cap Shades = {} /\ None \notin Levels

Phases == {"start", "settle0", "button", "pass1", "between", "settle100", "pass2", "done", "failed"}

VARIABLES
    scene,    \* what the scene sets each device to; None: it leaves it alone
    talks,    \* devices with a status address: they report their level
    foreign,  \* lights whose address also serves another room: not written
    level,    \* the devices themselves
    seen,     \* the level in the cache; None: never reported
    fresh,    \* devices with a cache entry written since the last recall
    phase,    \* where the wizard is
    pass,     \* lights the coming test is about (canPass, remaining, still)
    before,   \* shadeSnap
    learned,  \* members and shadeHits
    late,     \* history: devices whose status was not up to date at a recall
    missed    \* history: those not put, or not seen after a recall in time

contrastVars == <<scene, talks, foreign, level, seen, fresh, phase, pass, before, learned, late, missed>>
setting == <<scene, talks, foreign>>

\* The state has its type; what is tested and learned are devices of the room.
TypesOK ==
    /\ scene \in [Devices -> Levels \cup {None}]
    /\ talks \subseteq Devices /\ foreign \subseteq Lights
    /\ level \in [Devices -> Levels] /\ seen \in [Devices -> Levels \cup {None}]
    /\ fresh \subseteq Devices /\ learned \subseteq Devices /\ late \subseteq Devices /\ missed \subseteq Devices
    /\ phase \in Phases /\ pass \subseteq Lights
    /\ before \in [Shades -> Levels \cup {None}]

\* atSentinel on lightLevel: a light that is not known counts as off.
AtSentinel(l, target) == seen[l] = target \/ (target = "0" /\ seen[l] = None)

\* setLightSentinel for each of the lights: an address that serves another room
\* is skipped, a write that fails is logged, and write() caches what it writes.
SetSentinel(lights, target) ==
    \E ok \in {lights \ foreign, {}} :
        /\ level' = [d \in Devices |-> IF d \in ok THEN target ELSE level[d]]
        /\ seen' = [d \in Devices |-> IF d \in ok THEN target ELSE seen[d]]
        /\ fresh' = fresh \cup ok
        /\ missed' = missed \cup (lights \ ok)

\* The actuators carry out the scene; from now on entries count as fresh again.
Recall ==
    /\ level' = [d \in Devices |-> IF scene[d] = None THEN level[d] ELSE scene[d]]
    /\ fresh' = {}
    /\ UNCHANGED seen

Init ==
    /\ scene \in [Devices -> Levels \cup {None}]
    /\ talks \in SUBSET Devices
    /\ foreign \in SUBSET Lights
    /\ level \in [Devices -> {"0", "50"}]
    /\ seen = [d \in Devices |-> None]
    /\ fresh = {} /\ learned = {} /\ late = {} /\ missed = {} /\ pass = {}
    /\ phase = "start" /\ before = [s \in Shades |-> None]

\* startListen puts the lights out, and reads their status meanwhile.
PutOut ==
    /\ phase = "start"
    /\ SetSentinel(Lights, "0")
    /\ phase' = "settle0"
    /\ UNCHANGED <<setting, pass, before, learned, late>>

\* After 1.4 s the shades' positions are noted and the session listens.
Listen ==
    /\ phase = "settle0"
    /\ before' = [s \in Shades |-> seen[s]]
    /\ phase' = "button"
    /\ UNCHANGED <<setting, level, seen, fresh, pass, learned, late, missed>>

\* The button: its telegram starts the wizard before any device has reported.
\* (learnKnxScene without a button recalls the scene itself at this point.)
Button ==
    /\ phase = "button"
    /\ Recall
    /\ pass' = {l \in Lights : AtSentinel(l, "0")}
    /\ late' = late \cup {d \in Devices : seen[d] # level[d]}
    /\ phase' = "pass1"
    /\ UNCHANGED <<setting, before, learned, missed>>

\* The lights that left the level they were put to since the recall.
Hits(target) == {l \in pass \cap fresh : ~AtSentinel(l, target)}

Moved == {s \in Shades \cap fresh : before[s] # None /\ seen[s] # before[s]}
\* The devices that have not yet reported where they are.
Silent == {d \in Devices : seen[d] # level[d] \/ d \notin fresh}

\* 1.5 s after the recall: what left 0 and what moved.
Pass1Ends ==
    /\ phase = "pass1"
    /\ learned' = Hits("0") \cup Moved
    /\ pass' = pass \ Hits("0")
    /\ missed' = missed \cup Silent
    /\ phase' = "between"
    /\ UNCHANGED <<setting, level, seen, fresh, before, late>>

\* The lights that stayed at 0 are put to 100.
PutFull ==
    /\ phase = "between"
    /\ SetSentinel(pass, "100")
    /\ phase' = "settle100"
    /\ UNCHANGED <<setting, pass, before, learned, late>>

\* MUTANT: a light need not have come to 100 to take part.
PutAll(lights) == lights
\* Those that show the level they were put to (still).
Put(lights) == {l \in lights : AtSentinel(l, "100")}

\* After 1.4 s the wizard recalls the scene itself.
SecondRecall ==
    /\ phase = "settle100"
    /\ Recall
    /\ pass' = Put(pass)
    /\ late' = late \cup {d \in pass : seen[d] # level[d]}
    /\ phase' = "pass2"
    /\ UNCHANGED <<setting, before, learned, missed>>

\* The recall fails: the wizard answers that it failed.
Fails ==
    /\ phase = "settle100"
    /\ learned' = {}
    /\ phase' = "failed"
    /\ UNCHANGED <<setting, level, seen, fresh, pass, before, late, missed>>

\* What left 100 is learned too; the lights that are no members are put out.
Pass2Ends ==
    /\ phase = "pass2"
    /\ learned' = learned \cup Hits("100")
    /\ \E ok \in {(Lights \ learned') \ foreign, {}} :
          /\ level' = [d \in Devices |-> IF d \in ok THEN "0" ELSE level[d]]
          /\ seen' = [d \in Devices |-> IF d \in ok THEN "0" ELSE seen[d]]
    /\ missed' = missed \cup (pass \cap Silent)
    /\ phase' = "done"
    /\ UNCHANGED <<setting, fresh, pass, before, late>>

\* A status telegram, of its own accord or as the answer to requestStatuses.
Report(d) ==
    /\ d \in talks /\ phase \notin {"done", "failed"}
    /\ seen' = [seen EXCEPT ![d] = level[d]]
    /\ fresh' = fresh \cup {d}
    /\ UNCHANGED <<setting, level, phase, pass, before, learned, late, missed>>

Next ==
    \/ PutOut \/ Listen \/ Button \/ Pass1Ends \/ PutFull \/ SecondRecall \/ Fails \/ Pass2Ends
    \/ \E d \in Devices : Report(d)
-------------------------------------------------------------------------------
InScene == {d \in Devices : scene[d] # None}

\* What is learned is what the scene sets: no device that it leaves alone, and
\* each light that it does set, whatever level that is.  Only a device whose status
\* lagged behind may be learned wrongly, and only one that lagged, could not be
\* put or was not seen in time may be left out.
LearnsTheScene ==
    phase = "done" =>
        /\ learned \ late \subseteq InScene
        /\ (InScene \cap Lights) \ (late \cup missed) \subseteq learned
===============================================================================
