---------------------------- MODULE MCDeployment ----------------------------
(***************************************************************************)
(* Runs that share a process take turns at every await; how often, is      *)
(* bounded.                                                                *)
(***************************************************************************)
EXTENDS DeploymentProperties

CONSTANT MaxSwitches   \* bound on the turns that pass from one run to another

VARIABLES turn,        \* the run that took the last step
          switches     \* how often the turn has passed

MCInit == Init /\ turn = 1 /\ switches = 0

TakesTurn(p) ==
    /\ turn' = p
    /\ switches' = IF p = turn \/ ~SameProcess THEN switches ELSE switches + 1
    /\ switches' <= MaxSwitches

MCNext ==
    \/ \E p \in Run : Step(p) /\ TakesTurn(p)
    \/ \E p \in Run, s \in Scripts : Start(p, s) /\ UNCHANGED <<turn, switches>>
    \/ (Crash \/ NodeRestarts) /\ UNCHANGED <<turn, switches>>

MCSpec == MCInit /\ [][MCNext]_<<vars, turn, switches>>

=============================================================================
