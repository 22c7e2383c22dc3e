----------------------------- MODULE SatelConfig ------------------------------
(* What the alarm service was told to be (satel/app.py): the configuration in  *)
(* memory, of which _client is made, and the one in config.json.  A save       *)
(* writes the file at once and memory 50 ms later; the PIN goes into both.     *)
EXTENDS Naturals, Sequences

CONSTANT
    MaxPuts      \* bound: how often something is saved

SatelConfigAssumption == MaxPuts \in Nat

VARIABLES
    conf, file,  \* host and PIN, as versions: _config and config.json
    reloads,     \* the reload tasks that wait
    puts,
    crossed      \* history: was the last thing saved a PIN, while a reload waited?

vars == <<conf, file, reloads, puts, crossed>>

Configs == [host : 0..MaxPuts, pin : 0..MaxPuts]

TypesOK ==
    /\ conf \in Configs /\ file \in Configs
    /\ \A i \in DOMAIN reloads : reloads[i] \in Configs
    /\ puts \in 0..MaxPuts /\ crossed \in BOOLEAN

Init ==
    /\ conf = [host |-> 0, pin |-> 0] /\ file = conf
    /\ reloads = <<>> /\ puts = 0 /\ crossed = FALSE

(* post_config: another host, another PIN, or both; the rest as in memory.    *)
PutConfig(fields) ==
    /\ puts < MaxPuts /\ puts' = puts + 1
    /\ file' = [f \in {"host", "pin"} |-> IF f \in fields THEN puts' ELSE conf[f]]
    /\ reloads' = Append(reloads, file')
    /\ crossed' = FALSE
    /\ UNCHANGED conf

(* Mutant: the PIN goes into the file only.                                   *)
PinInFile(f) == conf

PinInMemory(f) == f

(* post_pin: the rest as in memory.                                           *)
PutPin ==
    /\ puts < MaxPuts /\ puts' = puts + 1
    /\ file' = [conf EXCEPT !.pin = puts'] /\ conf' = PinInMemory(file')
    /\ crossed' = (reloads # <<>>)
    /\ UNCHANGED reloads

(* _reload_task, _apply_config: the tasks wait equally long.                  *)
Reload ==
    /\ reloads # <<>>
    /\ conf' = Head(reloads) /\ reloads' = Tail(reloads)
    /\ UNCHANGED <<file, puts, crossed>>

(* The service starts again: with what the file has.                          *)
Restart ==
    /\ conf' = file /\ reloads' = <<>> /\ crossed' = FALSE
    /\ UNCHANGED <<file, puts>>

Next ==
    \/ \E fields \in SUBSET {"host", "pin"} : PutConfig(fields)
    \/ PutPin \/ Reload \/ Restart

Spec == Init /\ [][Next]_vars

-----------------------------------------------------------------------------
(* With no reload to come, memory has what the file has, unless a PIN was set  *)
(* while one was to come (which the reload then takes back, in memory only).   *)
FileIsConfig == reloads = <<>> /\ ~crossed => file = conf
=============================================================================
