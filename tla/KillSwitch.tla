------------------------------ MODULE KillSwitch ------------------------------
(***************************************************************************)
(* governance/kill_switch.py: the kill authority every process of the      *)
(* system carries.  A process is killed when its own latch is set, when it *)
(* was started with OPS_KILL_SWITCH=true, or when the durable KILL file    *)
(* under ROGUE_OPS_HOME exists.  The file is the only part two processes   *)
(* share; the latch lives and dies with its process.                       *)
(***************************************************************************)
CONSTANTS
  Procs,       \* the operating-system processes that import the module
  EnvKill,     \* those started with OPS_KILL_SWITCH=true
  WritesFail   \* whether writing or removing the KILL file may fail (swallowed)

ASSUME KillAssumption ==
  /\ EnvKill \subseteq Procs
  /\ WritesFail \in BOOLEAN

VARIABLES
  killed,      \* killed[p]: _KILL_STATE in process p
  killFile     \* whether $ROGUE_OPS_HOME/KILL exists

killVars == <<killed, killFile>>

KillTypeOK ==
  /\ killed \in [Procs -> BOOLEAN]
  /\ killFile \in BOOLEAN

KillInit ==
  /\ killed = [p \in Procs |-> FALSE]
  /\ killFile \in BOOLEAN

\* Mutants: the file is read once and never again; the latch is forgotten.
KillFileNotPolled(p) == killed[p] \/ p \in EnvKill
KillNotLatched(p) == p \in EnvKill \/ killFile

KillActive(p) == killed[p] \/ p \in EnvKill \/ killFile

WriteKillFile ==
  \/ killFile' = TRUE
  \/ WritesFail /\ UNCHANGED killFile

\* Mutant: the kill stays inside its process.
KillNotDurable(p) == killed' = [killed EXCEPT ![p] = TRUE] /\ UNCHANGED killFile

\* The early return leaves the file alone: a process that latched earlier does
\* not write it again.
EngageKill(p) ==
  IF killed[p]
  THEN UNCHANGED killVars
  ELSE /\ killed' = [killed EXCEPT ![p] = TRUE]
       /\ WriteKillFile

ClearKillFile ==
  /\ \/ killFile' = FALSE
     \/ WritesFail /\ UNCHANGED killFile
  /\ UNCHANGED killed

\* A fresh interpreter: module globals start over, files do not.
StartProcess(p) ==
  /\ killed' = [killed EXCEPT ![p] = FALSE]
  /\ UNCHANGED killFile
===============================================================================
