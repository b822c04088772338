---------------------------- MODULE DiagnosticRuns ----------------------------
(***************************************************************************)
(* What the split diagnostic promises to whoever reads its reports: runs   *)
(* are made one at a time and on clean hosts; a run is reported as passed  *)
(* only after it has shown what its stage asks for and when nothing of it  *)
(* runs any more; a sample is made only with a configuration whose         *)
(* placement was reported.                                                 *)
(*                                                                         *)
(* How a run finds that out, and everything that may go wrong on the way,  *)
(* is left out.  SplitController.tla is shown to implement this, by TLC on *)
(* a small instance and by proof in SplitControllerProofs.tla.             *)
(***************************************************************************)
CONSTANTS Config, NoConfig

VARIABLES
    stage, config,  \* of the run that is made; "none" and NoConfig without one
    shown,          \* whether it has shown what its stage asks for
    alive,          \* the hosts on which a process of a run runs
    reports         \* the reports of runs that passed

runsVars == <<stage, config, shown, alive, reports>>

RunsInit ==
    /\ stage = "none" /\ config = NoConfig
    /\ shown = FALSE
    /\ alive = {}
    /\ reports = {}

BeginRun(s, c) ==
    /\ stage = "none" /\ alive = {}
    /\ s = "sample" => [stage |-> "placement", config |-> c] \in reports
    /\ stage' = s /\ config' = c
    /\ UNCHANGED <<shown, alive, reports>>

Show ==
    /\ stage # "none" /\ ~shown
    /\ shown' = TRUE
    /\ UNCHANGED <<stage, config, alive, reports>>

\* Processes come and go.  The worker comes with a run; the server may come after
\* a run that was killed, for it is on another host.
Processes ==
    /\ alive' \in SUBSET {"tiny", "mac"}
    /\ stage = "none" => "mac" \notin alive' \ alive
    /\ UNCHANGED <<stage, config, shown, reports>>

\* A run ends, by itself or killed, as one that passed or not.
EndRun ==
    /\ stage # "none"
    /\ stage' = "none" /\ config' = NoConfig /\ shown' = FALSE
    /\ \/ UNCHANGED reports
       \/ /\ shown /\ alive = {}
          /\ reports' = reports \cup {[stage |-> stage, config |-> config]}
    /\ UNCHANGED alive

RunsNext ==
    \/ \E s \in {"placement", "sample"}, c \in Config : BeginRun(s, c)
    \/ Show
    \/ Processes
    \/ EndRun

RunsSpec == RunsInit /\ [][RunsNext]_runsVars
=============================================================================
