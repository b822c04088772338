------------------------ MODULE EngineSupervisorProofs ------------------------
(***************************************************************************)
(* Proofs about EngineSupervisor.tla, for every set of server processes    *)
(* and every number of peers.                                              *)
(***************************************************************************)
EXTENDS EngineSupervisor, FiniteSetTheorems, TLAPS

(***************************************************************************)
(* The inductive invariant.                                                *)
(***************************************************************************)

\* The port has not been looked at yet, or the next server not launched.
Ahead == pc \in {"port", "launch"} \/ (Stops /\ after = "start")

\* Each launch but the first and the last uses up a reduced topology.
LaunchesCounted ==
    /\ job.left <= job.peers
    /\ job.launches + job.left <= job.peers + (IF job.stage = "standalone" THEN 1 ELSE 0)
                                            + (IF Ahead THEN 0 ELSE 1)
    /\ pc = "topology" \/ (Stops /\ after = "fallback") => job.stage = "first"

\* Every server that runs is referred to.
LiveKnown == {s \in Server : Live(s)} \subseteq Referenced

\* A thread holds a server only while it kills it.
HeldToKill ==
    /\ held["command"] # NoServer => pc = "kill"
    /\ held["main"] # NoServer => mainPc = "kill"

\* self.process names a server that runs only between commands and while its
\* health is waited for.
ProcessEnded == pc \notin {"idle", "forget", "wait", "confirm"} => ~Live(process)

\* Nothing runs under an agent that ended after its command.
EndedIdle == mainPc # "running" /\ ~interrupted => pc = "idle" /\ process = NoServer

\* Once a start has found the port free, who has it without being a server of this
\* agent took it since.
ForeignIsLate == Past => listener \in Server \cup {Nobody} \/ late

Hosts == LiveKnown /\ HeldToKill /\ ProcessEnded /\ EndedIdle /\ ForeignIsLate

IInv == TypeOK /\ LaunchesCounted /\ Hosts /\ FailedStartLeavesNothing

(***************************************************************************)
(* The records a command works with.                                       *)
(***************************************************************************)

Diagnostic == [own : BOOLEAN, reason : Reason]

LEMMA DiagnosticFact ==
    /\ \A own \in BOOLEAN, r \in Reason : [own |-> own, reason |-> r] \in Diagnostic
    /\ \A d \in Diagnostic : [d EXCEPT !.own = FALSE] \in Diagnostic
  BY DEF Diagnostic

LEMMA JobFact ==
    /\ \A j \in Job, l \in 0..MaxPeers : [j EXCEPT !.stage = "reduced", !.left = l] \in Job
    /\ \A j \in Job : [j EXCEPT !.stage = "standalone"] \in Job
  BY DEF Job

LEMMA InitInv == Init => IInv
  <1> SUFFICES ASSUME Init PROVE IInv
    OBVIOUS
  <1>1. job \in Job
    BY MaxPeersAssumption DEF Init, Job
  <1>2. TypeOK
    BY <1>1, ServerAssumption DEF Init, TypeOK, Reason, Thread, NoServer, Nobody, Leftover
  <1>3. LaunchesCounted
    BY DEF Init, LaunchesCounted, Ahead, Stops
  <1>4. Hosts
    BY DEF Init, Hosts, LiveKnown, Live, HeldToKill, ProcessEnded, EndedIdle,
           ForeignIsLate, Past, Stops, Thread
  <1>5. FailedStartLeavesNothing
    BY DEF Init, FailedStartLeavesNothing
  <1> QED  BY <1>2, <1>3, <1>4, <1>5 DEF IInv

\* One action of the command's start and stop, then of the agent's end and of the
\* host, at a time.
LEMMA PortFreeKeeps ==
    ASSUME IInv, PortFree
    PROVE  IInv'
  <1>1. TypeOK'
    BY DEF PortFree, Live, TypeOK, IInv, hostVars, mainVars
  <1>2. LaunchesCounted'
    BY DEF PortFree, Job, Ahead, Stops, LaunchesCounted, TypeOK, IInv
  <1>3. Hosts'
    BY DEF PortFree, Leftover, Nobody, Live, Stops, Hosts, LiveKnown,
       HeldToKill, ProcessEnded, EndedIdle, ForeignIsLate, Past, Referenced,
       IInv, hostVars, mainVars
  <1>4. FailedStartLeavesNothing'
    BY DEF PortFree, FailedStartLeavesNothing
  <1> QED  BY <1>1, <1>2, <1>3, <1>4 DEF IInv

LEMMA EndCommandKeeps ==
    ASSUME IInv, EndCommand
    PROVE  IInv'
  <1>1. TypeOK'
    BY DEF EndCommand, Live, TypeOK, IInv, hostVars, mainVars
  <1>2. LaunchesCounted'
    BY DEF EndCommand, Ahead, Stops, LaunchesCounted, IInv
  <1>3. Hosts'
    BY DEF EndCommand, Live, Stops, Hosts, LiveKnown, HeldToKill, ProcessEnded,
       EndedIdle, ForeignIsLate, Past, Referenced, IInv, hostVars, mainVars
  <1>4. FailedStartLeavesNothing'
    BY ServerAssumption DEF EndCommand, Live, Hosts, LiveKnown, HeldToKill,
       ProcessEnded, Referenced, IInv, FailedStartLeavesNothing, hostVars,
       mainVars
  <1> QED  BY <1>1, <1>2, <1>3, <1>4 DEF IInv

LEMMA LaunchKeeps ==
    ASSUME IInv, NEW s \in Server, Launch(s)
    PROVE  IInv'
  <1>1. TypeOK'
    BY MaxPeersAssumption DEF Launch, Job, Live, Ahead, LaunchesCounted,
       TypeOK, IInv, mainVars
  <1>2. LaunchesCounted'
    BY DEF Launch, Job, Ahead, Stops, LaunchesCounted, TypeOK, IInv
  <1>3. Hosts'
    BY DEF Launch, Live, Hosts, LiveKnown, HeldToKill, ProcessEnded, EndedIdle,
       ForeignIsLate, Past, Referenced, IInv, mainVars
  <1>4. FailedStartLeavesNothing'
    BY DEF Launch, FailedStartLeavesNothing
  <1> QED  BY <1>1, <1>2, <1>3, <1>4 DEF IInv

LEMMA PopenFailsKeeps ==
    ASSUME IInv, PopenFails
    PROVE  IInv'
  <1>1. TypeOK'
    BY DEF PopenFails, Live, TypeOK, IInv, hostVars, mainVars
  <1>2. LaunchesCounted'
    BY DEF PopenFails, Job, Ahead, Stops, LaunchesCounted, TypeOK, IInv
  <1>3. Hosts'
    BY DEF PopenFails, Live, Hosts, LiveKnown, HeldToKill, ProcessEnded,
       EndedIdle, ForeignIsLate, Past, Referenced, IInv, hostVars, mainVars
  <1>4. FailedStartLeavesNothing'
    BY DEF PopenFails, FailedStartLeavesNothing
  <1> QED  BY <1>1, <1>2, <1>3, <1>4 DEF IInv

LEMMA HealthyKeeps ==
    ASSUME IInv, Healthy
    PROVE  IInv'
  <1>1. TypeOK'
    <2>1. diag' = diag \/ diag' = [own |-> TRUE, reason |-> "ready"]
      BY DEF Healthy
    <2>2. diag' \in Diagnostic
      <3>1. diag \in Diagnostic /\ "ready" \in Reason
        BY DEF IInv, TypeOK, Diagnostic, Reason
      <3> QED  BY <2>1, <3>1, DiagnosticFact
    <2>3. pc' \in {"confirm", "idle"} /\ reply' \in {reply, "ok"}
      BY DEF Healthy
    <2> QED
      BY <2>2, <2>3 DEF Healthy, IInv, TypeOK, Diagnostic, hostVars, mainVars, Live
  <1>2. LaunchesCounted'
    BY DEF Healthy, Ahead, Stops, LaunchesCounted, IInv
  <1>3. Hosts'
    BY DEF Healthy, Live, Hosts, LiveKnown, HeldToKill, ProcessEnded,
       EndedIdle, ForeignIsLate, Past, Referenced, IInv, hostVars, mainVars
  <1>4. FailedStartLeavesNothing'
    BY DEF Healthy, FailedStartLeavesNothing
  <1> QED  BY <1>1, <1>2, <1>3, <1>4 DEF IInv

LEMMA ServerExitedKeeps ==
    ASSUME IInv, ServerExited
    PROVE  IInv'
  <1>1. TypeOK'
    BY DEF ServerExited, Reason, Live, TypeOK, IInv, hostVars, mainVars,
       Failure
  <1>2. LaunchesCounted'
    BY DEF ServerExited, Ahead, Stops, LaunchesCounted, IInv
  <1>3. Hosts'
    BY DEF ServerExited, Live, Hosts, LiveKnown, HeldToKill, ProcessEnded,
       EndedIdle, ForeignIsLate, Past, Referenced, IInv, hostVars, mainVars
  <1>4. FailedStartLeavesNothing'
    BY DEF ServerExited, FailedStartLeavesNothing
  <1> QED  BY <1>1, <1>2, <1>3, <1>4 DEF IInv

LEMMA NotInTimeKeeps ==
    ASSUME IInv, NotInTime
    PROVE  IInv'
  <1>1. TypeOK'
    BY DEF NotInTime, Reason, Live, TypeOK, IInv, hostVars, mainVars, Stopping,
       Failure
  <1>2. LaunchesCounted'
    BY DEF NotInTime, Ahead, Stops, LaunchesCounted, IInv, Stopping
  <1>3. Hosts'
    BY DEF NotInTime, Live, Hosts, LiveKnown, HeldToKill, ProcessEnded,
       EndedIdle, ForeignIsLate, Past, Referenced, IInv, hostVars, mainVars,
       Stopping
  <1>4. FailedStartLeavesNothing'
    BY DEF NotInTime, FailedStartLeavesNothing, Stopping
  <1> QED  BY <1>1, <1>2, <1>3, <1>4 DEF IInv

LEMMA FirstFailedKeeps ==
    ASSUME IInv, FirstFailed
    PROVE  IInv'
  <1>1. TypeOK'
    <2>1. \E own \in BOOLEAN, r \in Reason : diag' = [own |-> own, reason |-> r]
      <3>1. (diag.own \/ diag.reason = "none") \in BOOLEAN /\ diag.reason \in Reason
        BY DEF IInv, TypeOK
      <3> QED  BY <3>1 DEF FirstFailed, Reason
    <2>2. diag' \in Diagnostic
      BY <2>1, DiagnosticFact
    <2>3. pc' \in {"raised", "forget"} /\ after' \in {after, "fallback"}
      BY DEF FirstFailed, Stopping
    <2> QED
      BY <2>2, <2>3 DEF FirstFailed, IInv, TypeOK, Diagnostic, hostVars, mainVars, Live
  <1>2. LaunchesCounted'
    BY DEF FirstFailed, Ahead, Stops, LaunchesCounted, IInv, Stopping
  <1>3. Hosts'
    BY DEF FirstFailed, Live, Hosts, LiveKnown, HeldToKill, ProcessEnded,
       EndedIdle, ForeignIsLate, Past, Referenced, IInv, hostVars, mainVars
  <1>4. FailedStartLeavesNothing'
    BY DEF FirstFailed, FailedStartLeavesNothing, Stopping
  <1> QED  BY <1>1, <1>2, <1>3, <1>4 DEF IInv

LEMMA NextTopologyKeeps ==
    ASSUME IInv, NextTopology
    PROVE  IInv'
  <1>1. TypeOK'
    <2>1. CASE job.left > 0
      <3>1. job' = [job EXCEPT !.stage = "reduced", !.left = @ - 1]
        BY <2>1 DEF NextTopology
      <3>2. job \in Job /\ job.left - 1 \in 0..MaxPeers
        BY <2>1, MaxPeersAssumption DEF IInv, TypeOK, Job
      <3>3. job' \in Job
        BY <3>1, <3>2, JobFact
      <3> QED  BY <3>3 DEF NextTopology, IInv, TypeOK, hostVars, mainVars, Live
    <2>2. CASE ~(job.left > 0)
      <3>1. job' = [job EXCEPT !.stage = "standalone"]
        BY <2>2 DEF NextTopology
      <3>2. job' \in Job
        BY <3>1, JobFact DEF IInv, TypeOK
      <3> QED  BY <3>2 DEF NextTopology, IInv, TypeOK, hostVars, mainVars, Live
    <2> QED  BY <2>1, <2>2
  <1>2. LaunchesCounted'
    BY DEF NextTopology, Job, Stops, LaunchesCounted, TypeOK, IInv
  <1>3. Hosts'
    BY DEF NextTopology, Live, Hosts, LiveKnown, HeldToKill, ProcessEnded,
       EndedIdle, ForeignIsLate, Past, Referenced, IInv, hostVars, mainVars
  <1>4. FailedStartLeavesNothing'
    BY DEF NextTopology, FailedStartLeavesNothing
  <1> QED  BY <1>1, <1>2, <1>3, <1>4 DEF IInv

LEMMA StandaloneFailedKeeps ==
    ASSUME IInv, StandaloneFailed
    PROVE  IInv'
  <1>1. TypeOK'
    BY DEF StandaloneFailed, Live, TypeOK, IInv, hostVars, mainVars
  <1>2. LaunchesCounted'
    BY DEF StandaloneFailed, Ahead, Stops, LaunchesCounted, IInv
  <1>3. Hosts'
    BY DEF StandaloneFailed, Live, Hosts, LiveKnown, HeldToKill, ProcessEnded,
       EndedIdle, ForeignIsLate, Past, Referenced, IInv, hostVars, mainVars
  <1>4. FailedStartLeavesNothing'
    BY DEF StandaloneFailed, FailedStartLeavesNothing
  <1> QED  BY <1>1, <1>2, <1>3, <1>4 DEF IInv

LEMMA CommandForgetsKeeps ==
    ASSUME IInv, CommandForgets
    PROVE  IInv'
  <1>1. TypeOK'
    BY DEF CommandForgets, Live, TypeOK, IInv, mainVars, Proceed, Forget
  <1>2. LaunchesCounted'
    BY DEF CommandForgets, Ahead, Stops, LaunchesCounted, TypeOK, IInv, Proceed
  <1>3. Hosts'
    BY ServerAssumption DEF CommandForgets, Thread, Live, Stops, Hosts,
       LiveKnown, HeldToKill, ProcessEnded, EndedIdle, ForeignIsLate, Past,
       Referenced, TypeOK, IInv, mainVars, Proceed, Forget
  <1>4. FailedStartLeavesNothing'
    BY DEF CommandForgets, TypeOK, IInv, FailedStartLeavesNothing, Proceed
  <1> QED  BY <1>1, <1>2, <1>3, <1>4 DEF IInv

LEMMA CommandKillsKeeps ==
    ASSUME IInv, CommandKills
    PROVE  IInv'
  <1>1. TypeOK'
    BY ServerAssumption DEF CommandKills, Thread, Live, TypeOK, IInv, mainVars,
       Proceed, Raised, Terminate
  <1>2. LaunchesCounted'
    BY DEF CommandKills, Job, Ahead, Stops, LaunchesCounted, TypeOK, IInv,
       Proceed, Raised
  <1>3. Hosts'
    BY DEF CommandKills, Thread, Leftover, Nobody, Live, Stops, Hosts,
       LiveKnown, HeldToKill, ProcessEnded, EndedIdle, ForeignIsLate, Past,
       Referenced, TypeOK, IInv, mainVars, Raised, Terminate
  <1>4. FailedStartLeavesNothing'
    BY DEF CommandKills, TypeOK, IInv, FailedStartLeavesNothing, Proceed,
       Raised
  <1> QED  BY <1>1, <1>2, <1>3, <1>4 DEF IInv

LEMMA BeginStartKeeps ==
    ASSUME IInv, NEW p \in 0..MaxPeers, NEW c \in {0, IF p > 1 THEN p ELSE 0},
           BeginStart(p, c)
    PROVE  IInv'
  <1>1. TypeOK'
    <2>1. job' \in Job
      BY MaxPeersAssumption DEF BeginStart, Job
    <2>2. \/ diag' = [own |-> TRUE, reason |-> "model_missing"]
          \/ diag' = [diag EXCEPT !.own = FALSE]
      BY DEF BeginStart
    <2>3. diag' \in Diagnostic
      <3>1. diag \in Diagnostic /\ "model_missing" \in Reason
        BY DEF IInv, TypeOK, Diagnostic, Reason
      <3> QED  BY <2>2, <3>1, DiagnosticFact
    <2>4. pc' \in {pc, "forget"} /\ after' \in {after, "start"} /\ reply' \in {"none", "error"}
      BY DEF BeginStart, Stopping
    <2>5. late' = FALSE /\ UNCHANGED <<held, process, procs, listener, mainPc, interrupted>>
      BY DEF BeginStart, hostVars
    <2>6. (listener \in Server => Live(listener))'
      BY <2>5 DEF IInv, TypeOK, Live
    <2>7. late' \in BOOLEAN
      BY <2>5
    <2>8. pc' \in {"idle", "forget"} /\ after' \in {"start", "attempt", "fallback", "stop"}
      BY <2>4 DEF BeginStart, Begin, IInv, TypeOK
    <2> QED
      BY <2>1, <2>3, <2>4, <2>5, <2>6, <2>7, <2>8 DEF IInv, TypeOK, Diagnostic
  <1>2. LaunchesCounted'
    BY DEF BeginStart, LaunchesCounted
  <1>3. Hosts'
    BY DEF BeginStart, Live, Stops, Hosts, LiveKnown, HeldToKill, ProcessEnded,
       EndedIdle, ForeignIsLate, Past, Referenced, IInv, hostVars, mainVars,
       Begin, Stopping
  <1>4. FailedStartLeavesNothing'
    BY DEF BeginStart, FailedStartLeavesNothing
  <1> QED  BY <1>1, <1>2, <1>3, <1>4 DEF IInv

LEMMA BeginStopKeeps ==
    ASSUME IInv, BeginStop
    PROVE  IInv'
  <1>1. TypeOK'
    BY DEF BeginStop, Live, TypeOK, IInv, hostVars, mainVars, Stopping
  <1>2. LaunchesCounted'
    BY DEF BeginStop, Ahead, Stops, LaunchesCounted, IInv, Begin, Stopping
  <1>3. Hosts'
    BY DEF BeginStop, Live, Hosts, LiveKnown, HeldToKill, ProcessEnded,
       EndedIdle, ForeignIsLate, Past, Referenced, IInv, hostVars, mainVars,
       Begin, Stopping
  <1>4. FailedStartLeavesNothing'
    BY DEF BeginStop, FailedStartLeavesNothing
  <1> QED  BY <1>1, <1>2, <1>3, <1>4 DEF IInv

LEMMA ShutdownKeeps ==
    ASSUME IInv, Shutdown
    PROVE  IInv'
  <1>1. TypeOK'
    BY DEF Shutdown, Thread, Live, TypeOK, IInv, cmdVars, Forget
  <1>2. LaunchesCounted'
    BY DEF Shutdown, Ahead, Stops, LaunchesCounted, IInv, cmdVars
  <1>3. Hosts'
    BY ServerAssumption DEF Shutdown, Thread, Live, Stops, Hosts, LiveKnown,
       HeldToKill, ProcessEnded, EndedIdle, ForeignIsLate, Past, Referenced,
       TypeOK, IInv, cmdVars, Forget
  <1>4. FailedStartLeavesNothing'
    BY DEF Shutdown, FailedStartLeavesNothing
  <1> QED  BY <1>1, <1>2, <1>3, <1>4 DEF IInv

LEMMA MainKillsKeeps ==
    ASSUME IInv, MainKills
    PROVE  IInv'
  <1>1. TypeOK'
    BY ServerAssumption DEF MainKills, Thread, Live, TypeOK, IInv, cmdVars,
       Terminate
  <1>2. LaunchesCounted'
    BY DEF MainKills, Ahead, Stops, LaunchesCounted, IInv, cmdVars
  <1>3. Hosts'
    BY DEF MainKills, Thread, Leftover, Nobody, Live, Stops, Hosts, LiveKnown,
       HeldToKill, ProcessEnded, EndedIdle, ForeignIsLate, Past, Referenced,
       TypeOK, IInv, cmdVars, Terminate
  <1>4. FailedStartLeavesNothing'
    BY DEF MainKills, FailedStartLeavesNothing
  <1> QED  BY <1>1, <1>2, <1>3, <1>4 DEF IInv

LEMMA BindKeeps ==
    ASSUME IInv, NEW s \in Server, Bind(s)
    PROVE  IInv'
  <1>1. TypeOK'
    BY DEF Bind, Live, TypeOK, IInv, cmdVars, mainVars
  <1>2. LaunchesCounted'
    BY DEF Bind, Ahead, Stops, LaunchesCounted, IInv, cmdVars
  <1>3. Hosts'
    BY ServerAssumption DEF Bind, Live, Hosts, LiveKnown, HeldToKill,
       ProcessEnded, EndedIdle, ForeignIsLate, Referenced, IInv, cmdVars,
       mainVars
  <1>4. FailedStartLeavesNothing'
    BY DEF Bind, IInv, FailedStartLeavesNothing, cmdVars, mainVars
  <1> QED  BY <1>1, <1>2, <1>3, <1>4 DEF IInv

LEMMA LoadKeeps ==
    ASSUME IInv, NEW s \in Server, Load(s)
    PROVE  IInv'
  <1>1. TypeOK'
    BY DEF Load, Live, TypeOK, IInv, cmdVars, mainVars
  <1>2. LaunchesCounted'
    BY DEF Load, Ahead, Stops, LaunchesCounted, IInv, cmdVars
  <1>3. Hosts'
    BY DEF Load, Live, Stops, Hosts, LiveKnown, HeldToKill, ProcessEnded,
       EndedIdle, ForeignIsLate, Past, Referenced, IInv, cmdVars, mainVars
  <1>4. FailedStartLeavesNothing'
    BY DEF Load, TypeOK, IInv, FailedStartLeavesNothing, cmdVars, mainVars
  <1> QED  BY <1>1, <1>2, <1>3, <1>4 DEF IInv

LEMMA ExitKeeps ==
    ASSUME IInv, NEW s \in Server, Exit(s)
    PROVE  IInv'
  <1>1. TypeOK'
    BY ServerAssumption DEF Exit, Live, TypeOK, IInv, cmdVars, mainVars
  <1>2. LaunchesCounted'
    BY DEF Exit, Ahead, Stops, LaunchesCounted, IInv, cmdVars
  <1>3. Hosts'
    BY DEF Exit, Leftover, Nobody, Live, Stops, Hosts, LiveKnown, HeldToKill,
       ProcessEnded, EndedIdle, ForeignIsLate, Past, Referenced, IInv,
       cmdVars, mainVars
  <1>4. FailedStartLeavesNothing'
    BY DEF Exit, IInv, FailedStartLeavesNothing, cmdVars, mainVars
  <1> QED  BY <1>1, <1>2, <1>3, <1>4 DEF IInv

LEMMA OtherTakesPortKeeps ==
    ASSUME IInv, OtherTakesPort
    PROVE  IInv'
  <1>1. TypeOK'
    <2>1. Past \in BOOLEAN
      BY DEF Past
    <2> QED
      BY <2>1, ServerAssumption DEF OtherTakesPort, TypeOK, IInv, cmdVars
  <1>2. LaunchesCounted'
    BY DEF OtherTakesPort, Ahead, Stops, LaunchesCounted, IInv, cmdVars
  <1>3. Hosts'
    <2>1. ForeignIsLate'
      <3>1. Past' = Past /\ late' = Past
        BY DEF OtherTakesPort, Past, Stops, cmdVars
      <3> QED  BY <3>1 DEF ForeignIsLate
    <2> QED
      BY <2>1 DEF OtherTakesPort, Live, Hosts, LiveKnown, HeldToKill, ProcessEnded,
         EndedIdle, Referenced, IInv, cmdVars
  <1>4. FailedStartLeavesNothing'
    BY DEF OtherTakesPort, Live, IInv, FailedStartLeavesNothing, cmdVars
  <1> QED  BY <1>1, <1>2, <1>3, <1>4 DEF IInv

LEMMA OtherEndsKeeps ==
    ASSUME IInv, OtherEnds
    PROVE  IInv'
  <1>1. TypeOK'
    BY ServerAssumption DEF OtherEnds, TypeOK, IInv, cmdVars, mainVars
  <1>2. LaunchesCounted'
    BY DEF OtherEnds, Ahead, Stops, LaunchesCounted, IInv, cmdVars
  <1>3. Hosts'
    BY DEF OtherEnds, Leftover, Nobody, Live, Hosts, LiveKnown, HeldToKill,
       ProcessEnded, EndedIdle, ForeignIsLate, Referenced, IInv, cmdVars,
       mainVars
  <1>4. FailedStartLeavesNothing'
    BY DEF OtherEnds, Live, IInv, FailedStartLeavesNothing, cmdVars, mainVars
  <1> QED  BY <1>1, <1>2, <1>3, <1>4 DEF IInv

(***************************************************************************)
(* The invariant and what follows from it.                                 *)
(***************************************************************************)

LEMMA NextInv == ASSUME IInv, [Next]_vars PROVE IInv'
  <1>1. CASE CommandStep
    BY <1>1, PortFreeKeeps, EndCommandKeeps, LaunchKeeps, PopenFailsKeeps, HealthyKeeps,
       ServerExitedKeeps, NotInTimeKeeps, FirstFailedKeeps, NextTopologyKeeps,
       StandaloneFailedKeeps, CommandForgetsKeeps, CommandKillsKeeps DEF CommandStep
  <1>2. ASSUME NEW p \in 0..MaxPeers, NEW c \in {0, IF p > 1 THEN p ELSE 0}, BeginStart(p, c)
        PROVE  IInv'
    BY <1>2, BeginStartKeeps
  <1>3. CASE BeginStop \/ Shutdown \/ MainKills \/ OtherTakesPort \/ OtherEnds
    BY <1>3, BeginStopKeeps, ShutdownKeeps, MainKillsKeeps, OtherTakesPortKeeps, OtherEndsKeeps
  <1>4. ASSUME NEW s \in Server, Bind(s) \/ Load(s) \/ Exit(s)
        PROVE  IInv'
    BY <1>4, BindKeeps, LoadKeeps, ExitKeeps
  <1>5. CASE UNCHANGED vars
    BY <1>5 DEF vars, cmdVars, hostVars, mainVars, IInv, TypeOK, LaunchesCounted, Ahead,
           Stops, Hosts, LiveKnown, Live, Referenced, HeldToKill, ProcessEnded, EndedIdle,
           ForeignIsLate, Past, FailedStartLeavesNothing
  <1> QED  BY <1>1, <1>2, <1>3, <1>4, <1>5 DEF Next

\* The strengthened invariant holds in every reachable state (EngineSupervisor).
THEOREM Invariance == Spec => []IInv
  BY InitInv, NextInv, PTL DEF Spec

\* Types: the port belongs to a server that runs, and a start makes at most two
\* launches more than it has peers (EngineSupervisor.start).
THEOREM TypeCorrect == Spec => []TypeOK
  <1>1. IInv => TypeOK
    BY DEF IInv
  <1> QED  BY <1>1, Invariance, PTL

LEMMA KnownImpliesNotLost == IInv => NoLostServer
  <1> SUFFICES ASSUME IInv PROVE NoLostServer
    OBVIOUS
  <1> DEFINE live == {s \in Server : Live(s)}
  <1>1. live \subseteq Referenced
    BY DEF IInv, Hosts, LiveKnown
  <1>2. ASSUME mainPc = "ended", ~interrupted PROVE live = {}
    BY <1>1, <1>2, ServerAssumption
       DEF IInv, TypeOK, Hosts, EndedIdle, HeldToKill, Referenced, NoServer
  <1>3. ASSUME mainPc = "ended" PROVE \E s : live \subseteq {s}
    <2>1. held["main"] = NoServer
      BY <1>3 DEF IInv, Hosts, HeldToKill
    <2>2. CASE pc = "kill"
      <3>1. process \notin live
        BY <2>2 DEF IInv, Hosts, ProcessEnded
      <3>2. live \subseteq {held["command"]}
        BY <1>1, <2>1, <3>1, ServerAssumption DEF Referenced, NoServer
      <3> QED  BY <3>2
    <2>3. CASE pc # "kill"
      <3>1. held["command"] = NoServer
        BY <2>3 DEF IInv, Hosts, HeldToKill
      <3>2. live \subseteq {process}
        BY <1>1, <2>1, <3>1, ServerAssumption DEF Referenced, NoServer
      <3> QED  BY <3>2
    <2> QED  BY <2>2, <2>3
  <1>4. ASSUME mainPc = "ended"
        PROVE  Cardinality(live) <= (IF interrupted THEN 1 ELSE 0)
    <2>1. CASE ~interrupted
      BY <1>2, <1>4, <2>1, FS_EmptySet
    <2>2. CASE interrupted
      <3>1. PICK s : live \in SUBSET {s}
        BY <1>3, <1>4
      <3>2. IsFiniteSet({s}) /\ Cardinality({s}) = 1
        BY FS_Singleton
      <3>3. Cardinality(live) <= Cardinality({s})
        BY <3>1, <3>2, FS_Subset
      <3> HIDE DEF live
      <3> QED  BY <2>2, <3>2, <3>3
    <2> QED  BY <2>1, <2>2
  <1> HIDE DEF live
  <1>5. live \subseteq Referenced /\ (mainPc = "ended" => Cardinality(live) <= (IF interrupted THEN 1 ELSE 0))
    BY <1>1, <1>4
  <1> QED  BY <1>5 DEF NoLostServer, live

\* No server is lost, however a start fails and whenever the agent is stopped or
\* interrupted; at most one survives an interrupted agent (_launch_once,
\* _wait_until_healthy, stop).
THEOREM NoServerIsLost == Spec => []NoLostServer
  BY Invariance, KnownImpliesNotLost, PTL

\* A start that launched something and failed leaves nothing running
\* (EngineSupervisor.start).
THEOREM FailedStartsLeaveNothing == Spec => []FailedStartLeavesNothing
  <1>1. IInv => FailedStartLeavesNothing
    BY DEF IInv
  <1> QED  BY <1>1, Invariance, PTL

\* "ok" is the word of the start's own server, or of the one an interrupted agent is
\* killing; a program that had the port when the start looked at it never gives it
\* (start's port check and _wait_until_healthy).
THEOREM ForeignAnswersAreLate == Spec => ForeignAnswerWasLate
  <1>1. ASSUME IInv, Healthy, ~late PROVE listener \in {process, held["main"]}
    <2>1. pc \in {"wait", "confirm"} /\ listener # Nobody
      BY <1>1 DEF Healthy, Answers
    <2>2. listener \in Server /\ Live(listener)
      BY <1>1, <2>1 DEF IInv, TypeOK, Hosts, ForeignIsLate, Past
    <2>3. held["command"] = NoServer
      BY <1>1, <2>1 DEF IInv, Hosts, HeldToKill
    <2> QED
      BY <1>1, <2>2, <2>3, ServerAssumption DEF IInv, Hosts, LiveKnown, Referenced, NoServer
  <1>2. IInv /\ [Next]_vars => [Healthy => listener \in {process, held["main"]} \/ late]_vars
    BY <1>1
  <1> QED  BY <1>2, Invariance, PTL DEF Spec, ForeignAnswerWasLate

(***************************************************************************)
(* How long a command takes.                                               *)
(***************************************************************************)

\* The launches that may still follow when the present one fails.
StillToTry == job.left + (IF job.stage = "standalone" THEN 0 ELSE 1)

\* At most how many steps the command takes until it ends or turns to the next
\* topology.
Rank ==
    CASE pc = "idle" -> 0
      [] pc \in {"raised", "stopped"} -> 1
      [] pc = "topology" -> 2
      [] pc = "kill" /\ after \in {"fallback", "stop"} -> 3
      [] pc = "forget" /\ after \in {"fallback", "stop"} -> 4
      [] pc = "failed" -> 5
      [] pc = "kill" /\ after = "attempt" -> 6
      [] pc = "forget" /\ after = "attempt" -> 7
      [] pc = "confirm" -> 8
      [] pc = "wait" -> 9
      [] pc = "launch" -> 10
      [] pc = "port" -> 11
      [] pc = "kill" /\ after = "start" -> 12
      [] OTHER -> 13

\* At most how many more steps the command thread takes for its command.
StepsLeft == IF pc = "idle" THEN 0 ELSE Rank + 9 * StillToTry

Bound == 9 * (MaxPeers + 1) + 13

\* A step of the command thread brings its command nearer to the end, and no other
\* step takes it further away.
Nearer ==
    /\ CommandStep => StepsLeft' < StepsLeft
    /\ pc # "idle" => StepsLeft' <= StepsLeft

LEMMA StepsType ==
    ASSUME TypeOK
    PROVE  /\ StillToTry \in 0..MaxPeers + 1
           /\ Rank \in 0..13
           /\ StepsLeft \in 0..Bound
  <1>1. job.left \in 0..MaxPeers /\ MaxPeers \in Nat
    BY MaxPeersAssumption DEF TypeOK, Job
  <1>2. StillToTry \in 0..MaxPeers + 1
    BY <1>1 DEF StillToTry
  <1>3. Rank \in 0..13
    BY DEF Rank
  <1> QED  BY <1>1, <1>2, <1>3 DEF StepsLeft, Bound

\* A step that keeps to its topology is judged by the rank.
LEMMA RankDecides ==
    ASSUME TypeOK, StillToTry' = StillToTry, pc # "idle", pc' = "idle" \/ Rank' < Rank
    PROVE  Nearer
  <1>1. StillToTry \in Nat /\ Rank \in 1..13 /\ Rank' \in 0..13
    BY StepsType, MaxPeersAssumption DEF Rank
  <1>2. StepsLeft = Rank + 9 * StillToTry
    BY DEF StepsLeft
  <1>3. StepsLeft' = (IF pc' = "idle" THEN 0 ELSE Rank' + 9 * StillToTry)
    BY DEF StepsLeft
  <1>4. ASSUME NEW n \in Nat, NEW r \in 1..13, NEW q \in 0..13
        PROVE  0 < r + 9 * n /\ (q < r => q + 9 * n < r + 9 * n)
    OBVIOUS
  <1>5. StepsLeft' < StepsLeft
    <2>1. CASE pc' = "idle"
      BY <1>1, <1>2, <1>3, <1>4, <2>1
    <2>2. CASE pc' # "idle" /\ Rank' < Rank
      BY <1>1, <1>2, <1>3, <1>4, <2>2
    <2> QED  BY <2>1, <2>2
  <1>6. StepsLeft \in Int /\ StepsLeft' \in Int
    BY <1>1, <1>2, <1>3
  <1> QED  BY <1>5, <1>6 DEF Nearer

LEMMA TopologyNearer == ASSUME IInv, NextTopology PROVE Nearer
  <1>1. TypeOK /\ job \in Job /\ pc # "idle" /\ pc' = "launch"
    BY DEF IInv, TypeOK, NextTopology
  <1>2. job.stage \in {"first", "reduced"}
    BY DEF NextTopology, IInv, LaunchesCounted
  <1>3. job.left \in Nat
    BY <1>1, MaxPeersAssumption DEF Job
  <1>4. StillToTry = job.left + 1
    BY <1>2 DEF StillToTry
  <1>5. StillToTry' = job.left
    <2>1. CASE job.left > 0
      <3>1. job'.left = job.left - 1 /\ job'.stage = "reduced"
        BY <1>1, <2>1 DEF NextTopology, Job
      <3> QED  BY <1>3, <3>1 DEF StillToTry
    <2>2. CASE job.left = 0
      <3>1. job'.left = 0 /\ job'.stage = "standalone"
        BY <1>1, <2>2 DEF NextTopology, Job
      <3> QED  BY <2>2, <3>1 DEF StillToTry
    <2> QED  BY <1>3, <2>1, <2>2
  <1>6. Rank \in {2, 5} /\ Rank' = 10
    BY <1>1 DEF NextTopology, Rank
  <1>7. StepsLeft = Rank + 9 * (job.left + 1) /\ StepsLeft' = 10 + 9 * job.left
    BY <1>1, <1>4, <1>5, <1>6 DEF StepsLeft
  <1>8. StepsLeft' < StepsLeft /\ StepsLeft' <= StepsLeft
    BY <1>3, <1>6, <1>7
  <1> QED  BY <1>8 DEF Nearer

LEMMA CommandNearer == ASSUME IInv, CommandStep PROVE Nearer
  <1>1. TypeOK /\ job \in Job /\ after \in {"start", "attempt", "fallback", "stop"}
    BY DEF IInv, TypeOK
  <1>2. ASSUME UNCHANGED job PROVE StillToTry' = StillToTry
    BY <1>2 DEF StillToTry
  <1>3. CASE PortFree \/ EndCommand \/ PopenFails \/ Healthy \/ ServerExited \/ StandaloneFailed
    <2>1. UNCHANGED job /\ pc # "idle"
      BY <1>3 DEF PortFree, EndCommand, PopenFails, Healthy, ServerExited, StandaloneFailed
    <2>2. pc' = "idle" \/ Rank' < Rank
      BY <1>3 DEF PortFree, EndCommand, PopenFails, Healthy, ServerExited, StandaloneFailed, Rank
    <2> QED  BY <1>1, <1>2, <2>1, <2>2, RankDecides
  <1>4. CASE NotInTime \/ FirstFailed
    <2>1. UNCHANGED job /\ pc # "idle"
      BY <1>4 DEF NotInTime, FirstFailed
    <2>2. Rank' < Rank
      BY <1>4 DEF NotInTime, FirstFailed, Stopping, Rank
    <2> QED  BY <1>1, <1>2, <2>1, <2>2, RankDecides
  <1>5. CASE \E s \in Server : Launch(s)
    <2>1. job' = [job EXCEPT !.launches = @ + 1] /\ pc = "launch" /\ pc' = "wait"
      BY <1>5 DEF Launch
    <2>2. StillToTry' = StillToTry
      BY <1>1, <2>1 DEF StillToTry, Job
    <2>3. Rank' < Rank
      BY <2>1 DEF Rank
    <2> QED  BY <1>1, <2>1, <2>2, <2>3, RankDecides
  <1>6. CASE CommandForgets \/ CommandKills
    <2>1. UNCHANGED <<job, after>> /\ pc \in {"forget", "kill"}
      BY <1>6 DEF CommandForgets, CommandKills
    <2>2. pc' \in {Proceed(after), Raised(after)} \cup (IF pc = "forget" THEN {"kill"} ELSE {})
      BY <1>6 DEF CommandForgets, CommandKills
    <2>3. Rank' < Rank
      <3>1. CASE after = "start"
        BY <2>1, <2>2, <3>1 DEF Proceed, Raised, Rank
      <3>2. CASE after = "attempt"
        BY <2>1, <2>2, <3>2 DEF Proceed, Raised, Rank
      <3>3. CASE after \in {"fallback", "stop"}
        BY <2>1, <2>2, <3>3 DEF Proceed, Raised, Rank
      <3> QED  BY <1>1, <3>1, <3>2, <3>3
    <2> QED  BY <1>1, <1>2, <2>1, <2>3, RankDecides
  <1> QED  BY <1>3, <1>4, <1>5, <1>6, TopologyNearer DEF CommandStep

LEMMA NearerStep == ASSUME IInv, [Next]_vars PROVE Nearer
  <1>1. CASE CommandStep
    BY <1>1, CommandNearer
  <1>2. ASSUME ~CommandStep, pc = "idle" PROVE Nearer
    BY <1>2 DEF Nearer
  <1>3. ASSUME ~CommandStep, UNCHANGED cmdVars PROVE Nearer
    <2>1. StepsLeft' = StepsLeft
      BY <1>3 DEF cmdVars, StepsLeft, Rank, StillToTry
    <2>2. StepsLeft \in Int
      BY StepsType, MaxPeersAssumption DEF IInv, Bound
    <2> QED  BY <1>3, <2>1, <2>2 DEF Nearer
  <1>4. CASE BeginStop \/ \E p, c \in 0..MaxPeers : BeginStart(p, c)
    BY <1>1, <1>2, <1>4 DEF BeginStop, BeginStart, Begin
  <1>5. ASSUME \/ Shutdown \/ MainKills \/ (\E s \in Server : Bind(s) \/ Load(s) \/ Exit(s))
               \/ OtherTakesPort \/ OtherEnds \/ UNCHANGED vars
        PROVE  UNCHANGED cmdVars
    BY <1>5 DEF Shutdown, MainKills, Bind, Load, Exit, OtherTakesPort, OtherEnds, vars, cmdVars
  <1>6. ASSUME NEW p \in 0..MaxPeers, NEW c \in {0, IF p > 1 THEN p ELSE 0}, BeginStart(p, c)
        PROVE  \E q, d \in 0..MaxPeers : BeginStart(q, d)
    BY <1>6, MaxPeersAssumption
  <1> QED  BY <1>1, <1>3, <1>4, <1>5, <1>6 DEF Next

\* A command ends by itself: whatever its servers, the other programs and the main
\* thread do, a start with all its fallbacks takes the command thread a bounded
\* number of steps, nine for each topology it may turn to (EngineSupervisor.start
\* and stop).
CommandIsBounded ==
    /\ [](StepsLeft \in 0..Bound)
    /\ [][Nearer]_vars

THEOREM CommandsAreBounded == Spec => CommandIsBounded
  <1>1. IInv => StepsLeft \in 0..Bound
    BY StepsType DEF IInv
  <1>2. IInv /\ [Next]_vars => [Nearer]_vars
    BY NearerStep
  <1> QED  BY <1>1, <1>2, Invariance, PTL DEF Spec, CommandIsBounded
================================================================================
