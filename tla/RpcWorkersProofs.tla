-------------------------- MODULE RpcWorkersProofs --------------------------
(***************************************************************************)
(* Proofs about RpcWorkers.tla, for every restart budget and every number  *)
(* of agents.                                                              *)
(***************************************************************************)
EXTENDS RpcWorkers, TLAPS

(***************************************************************************)
(* The inductive invariant.                                                *)
(***************************************************************************)

\* Every agent is counted when it starts, and a later one has no workers yet.
Counted ==
    /\ pc # "off" => agents \in Agent
    /\ \A a \in Agent, r \in Role : a > agents => process[a][r] = "none"

\* Until its first GPU worker is started, an agent has none.
FreshGpu ==
    pc = "port_check" \/ (pc = "spawn" /\ task.role = "gpu" /\ task.boot)
        => process[agents]["gpu"] = "none"

\* A GPU worker that nobody told to end has a handle, by which the agent will tell
\* it, or is being verified, or was given up.
GpuHandled ==
    pc # "off" /\ process[agents]["gpu"] = "running"
        => \/ handle["gpu"] = "held"
           \/ pc = "verify" /\ task.role = "gpu"
           \/ agents \in abandoned

\* An earlier agent's GPU worker that has not bound had not when the agent ended.
UnboundIsLate ==
    \A a \in Agent :
        process[a]["gpu"] # "none" /\ (a = agents => pc = "off") /\ listener["gpu"] # a
            => a \in late

IInv == /\ TypeOK
        /\ Counted
        /\ FreshGpu
        /\ GpuHandled
        /\ UnboundIsLate
        /\ ForeignWorkerWasLate
        /\ NoGpuOrphan

LEMMA InitInv == Init => IInv
  <1> SUFFICES ASSUME Init PROVE IInv
    OBVIOUS
  <1>1. task \in [role : Role, boot : BOOLEAN]
    BY DEF Init, Role
  <1>2. pc \in PC /\ stop = FALSE /\ abandoned \subseteq Agent /\ late \subseteq Agent
    BY DEF Init, PC
  <1>3. agents \in 0..MaxAgents
    BY BudgetAssumption DEF Init
  <1>4. /\ handle \in [Role -> {"none", "held", "stale"}]
        /\ process \in [Agent -> [Role -> {"none", "running", "ending"}]]
        /\ listener \in [Role -> Agent \cup {Nobody}]
        /\ restarts \in [Role -> 0..MaxRestarts]
    BY BudgetAssumption DEF Init
  <1>5. /\ pc = "off"
        /\ \A r \in Role : listener[r] = Nobody
        /\ \A a \in Agent, r \in Role : process[a][r] = "none"
    BY DEF Init
  <1>6. TypeOK
    BY <1>1, <1>2, <1>3, <1>4, <1>5 DEF TypeOK
  <1> QED
    BY <1>5, <1>6 DEF IInv, Counted, FreshGpu, GpuHandled, UnboundIsLate, ForeignWorkerWasLate,
       NoGpuOrphan, Role

(***************************************************************************)
(* The invariant is inductive: one lemma per phase of an agent.            *)
(***************************************************************************)

\* The task of starting worker r.
LEMMA StartFact ==
    ASSUME NEW r \in Role, NEW boot \in BOOLEAN, Start(r, boot)
    PROVE  /\ pc' = "spawn"
           /\ task' \in [role : Role, boot : BOOLEAN]
           /\ task'.role = r /\ task'.boot = boot
  BY DEF Start, Goto

\* What terminate() leaves of the workers.
LEMMA TerminateFact ==
    ASSUME TypeOK, agents \in Agent, NEW rs, Terminate(rs)
    PROVE  /\ process' \in [Agent -> [Role -> {"none", "running", "ending"}]]
           /\ \A a \in Agent, r \in Role :
                 process'[a][r] = IF a = agents /\ r \in rs /\ process[a][r] = "running"
                                  THEN "ending" ELSE process[a][r]
  BY DEF TypeOK, Terminate

\* A step that touches no worker, keeps late, and does not end the agent.
LEMMA QuietStep ==
    ASSUME IInv, UNCHANGED <<process, listener, stop, agents, abandoned, late>>,
           pc # "off", pc' \in PC \ {"off", "port_check"},
           pc # "port_check" \/ listener["gpu"] = Nobody,
           task' \in [role : Role, boot : BOOLEAN],
           handle' \in [Role -> {"none", "held", "stale"}],
           handle'["gpu"] = handle["gpu"],
           restarts' \in [Role -> 0..MaxRestarts],
           pc' = "spawn" /\ task'.role = "gpu" /\ task'.boot => pc = "port_check",
           pc = "verify" => task.role # "gpu"
    PROVE  IInv'
  <1>1. TypeOK'
    BY DEF IInv, TypeOK
  <1>2. Counted' /\ FreshGpu' /\ GpuHandled'
    BY DEF IInv, Counted, FreshGpu, GpuHandled
  <1>3. UnboundIsLate' /\ ForeignWorkerWasLate' /\ NoGpuOrphan'
    BY DEF IInv, UnboundIsLate, ForeignWorkerWasLate, NoGpuOrphan
  <1> QED  BY <1>1, <1>2, <1>3 DEF IInv

\* A step that ends the agent or leads it to its clean-up, and may tell workers to end.
LEMMA EndingStep ==
    ASSUME IInv, UNCHANGED <<task, listener, restarts, agents>>, pc # "off", pc # "port_check",
           NEW place \in {"off", "finally", "payload"}, GoOn(place),
           handle' \in [Role -> {"none", "held", "stale"}],
           place = "off" \/ handle'["gpu"] = handle["gpu"],
           process' \in [Agent -> [Role -> {"none", "running", "ending"}]],
           \A a \in Agent, r \in Role :
              process'[a][r] = process[a][r]
                \/ (a = agents /\ process[a][r] = "running" /\ process'[a][r] = "ending"),
           stop' \in BOOLEAN,
           abandoned' = abandoned \/ abandoned' = abandoned \cup {agents},
           \/ agents \in abandoned'
           \/ process'[agents]["gpu"] # "running"
           \/ place # "off" /\ (pc = "verify" => task.role # "gpu")
    PROVE  IInv'
  <1>1. agents \in Agent /\ pc' = place /\ late \subseteq late'
    BY DEF IInv, Counted, GoOn, Goto
  <1>2. late' \subseteq Agent /\ abandoned' \subseteq Agent /\ abandoned \subseteq abandoned'
    BY <1>1 DEF IInv, TypeOK, GoOn
  <1>3. \A a \in Agent, r \in Role : process'[a][r] = "none" <=> process[a][r] = "none"
    OBVIOUS
  <1>4. TypeOK'
    <2>1. pc' \in PC
      BY <1>1 DEF PC
    <2>2. ASSUME NEW r \in Role, listener'[r] # Nobody PROVE process'[listener'[r]][r] # "none"
      BY <2>2, <1>3 DEF IInv, TypeOK
    <2> QED  BY <1>2, <2>1, <2>2 DEF IInv, TypeOK
  <1>5. Counted' /\ FreshGpu'
    BY <1>1, <1>3 DEF IInv, Counted, FreshGpu
  <1>6. GpuHandled'
    BY <1>1, <1>2 DEF IInv, GpuHandled, Role
  <1>7. UnboundIsLate'
    <2> SUFFICES ASSUME NEW a \in Agent, process'[a]["gpu"] # "none", a = agents => pc' = "off",
                        listener["gpu"] # a
                 PROVE  a \in late'
      BY DEF UnboundIsLate
    <2>1. CASE a = agents
      BY <1>1, <2>1 DEF GoOn
    <2>2. CASE a # agents
      BY <1>1, <1>3, <2>2 DEF IInv, UnboundIsLate, Role
    <2> QED  BY <2>1, <2>2
  <1>8. ForeignWorkerWasLate'
    BY <1>1 DEF IInv, ForeignWorkerWasLate
  <1>9. NoGpuOrphan'
    <2> SUFFICES ASSUME NEW a \in Agent, process'[a]["gpu"] = "running", a = agents => pc' = "off"
                 PROVE  a \in abandoned'
      BY DEF NoGpuOrphan
    <2>1. CASE a = agents
      BY <1>1, <2>1
    <2>2. CASE a # agents
      BY <1>2, <2>2 DEF IInv, NoGpuOrphan, Role
    <2> QED  BY <2>1, <2>2
  <1> QED  BY <1>4, <1>5, <1>6, <1>7, <1>8, <1>9 DEF IInv

LEMMA BootStep ==
    ASSUME IInv, StartAgent \/ PortCheck \/ CpuChoice \/ Payload \/ Setup
    PROVE  IInv'
  <1>1. CASE StartAgent
    <2>1. /\ pc = "off" /\ pc' = "port_check" /\ agents' = agents + 1 /\ agents < MaxAgents
          /\ stop' = FALSE /\ UNCHANGED <<task, handle, process, listener, abandoned, late>>
          /\ restarts' \in [Role -> 0..MaxRestarts]
      BY <1>1, BudgetAssumption DEF StartAgent, Goto, processVars, history
    <2>2. agents \in Nat /\ agents' \in Agent /\ agents' \in 0..MaxAgents
      BY <2>1, BudgetAssumption DEF IInv, TypeOK, Agent
    <2>3. TypeOK'
      BY <2>1, <2>2 DEF IInv, TypeOK, PC
    <2>4. \A r \in Role : process[agents'][r] = "none"
      BY <2>1, <2>2 DEF IInv, Counted
    <2>5. Counted'
      BY <2>1, <2>2 DEF IInv, Counted, Agent
    <2>6. FreshGpu' /\ GpuHandled' /\ ForeignWorkerWasLate'
      BY <2>1, <2>4 DEF FreshGpu, GpuHandled, ForeignWorkerWasLate, Role
    <2>7. UnboundIsLate' /\ NoGpuOrphan'
      BY <2>1 DEF IInv, UnboundIsLate, NoGpuOrphan
    <2> QED  BY <2>3, <2>5, <2>6, <2>7 DEF IInv
  <1>2. CASE PortCheck
    <2>1. /\ pc = "port_check"
          /\ UNCHANGED <<handle, process, listener, restarts, stop, agents, abandoned, late>>
      BY <1>2 DEF PortCheck, processVars, history
    <2>2. CASE listener["gpu"] = Nobody
      <3>1. /\ pc' = "spawn"
            /\ task' \in [role : Role, boot : BOOLEAN]
        BY <1>2, <2>2, StartFact DEF PortCheck, Role
      <3> QED  BY <2>1, <2>2, <3>1, QuietStep DEF IInv, TypeOK, PC
    <2>3. CASE listener["gpu"] # Nobody
      <3>1. pc' = "off" /\ task' = task
        BY <1>2, <2>3 DEF PortCheck, Goto
      <3>2. process[agents]["gpu"] = "none"
        BY <2>1 DEF IInv, FreshGpu
      <3> QED
        BY <2>1, <3>1, <3>2 DEF IInv, TypeOK, PC, Counted, FreshGpu, GpuHandled, UnboundIsLate,
           ForeignWorkerWasLate, NoGpuOrphan
    <2> QED  BY <2>2, <2>3
  <1>3. CASE CpuChoice
    <2>1. /\ pc = "cpu_choice"
          /\ UNCHANGED <<handle, process, listener, restarts, stop, agents, abandoned, late>>
      BY <1>3 DEF CpuChoice, processVars, history
    <2>2. \/ pc' = "spawn" /\ task' \in [role : Role, boot : BOOLEAN] /\ task'.role = "cpu"
          \/ pc' = "payload" /\ task' = task
      BY <1>3, StartFact DEF CpuChoice, Goto, Role
    <2> QED  BY <2>1, <2>2, QuietStep DEF IInv, TypeOK, PC
  <1>4. CASE Payload \/ Setup
    <2>1. /\ pc \in {"payload", "setup"} /\ pc' \in {"setup", "register"}
          /\ UNCHANGED <<task, handle, process, listener, restarts, stop, agents, abandoned, late>>
      BY <1>4 DEF Payload, Setup, Goto, processVars, history
    <2> QED  BY <2>1, QuietStep DEF IInv, TypeOK, PC
  <1> QED  BY <1>1, <1>2, <1>3, <1>4

LEMMA StartStep ==
    ASSUME IInv, Spawn \/ SpawnFails \/ VerifyPasses \/ VerifyFails
    PROVE  IInv'
  <1>1. agents \in Agent /\ task.role \in Role /\ task.boot \in BOOLEAN
    BY DEF IInv, TypeOK, Counted, Spawn, SpawnFails, VerifyPasses, VerifyFails
  <1>2. CASE Spawn
    <2>1. /\ pc = "spawn" /\ pc' = "verify"
          /\ UNCHANGED <<task, listener, restarts, stop, agents, abandoned, late>>
          /\ process' = [process EXCEPT ![agents][task.role] = "running"]
          /\ handle' = [handle EXCEPT ![task.role] = IF task.boot THEN "none" ELSE "stale"]
      BY <1>2 DEF Spawn, Goto, history
    <2>2. /\ process' \in [Agent -> [Role -> {"none", "running", "ending"}]]
          /\ \A a \in Agent, r \in Role :
                process'[a][r] = IF a = agents /\ r = task.role THEN "running" ELSE process[a][r]
      BY <1>1, <2>1 DEF IInv, TypeOK
    <2>3. /\ handle' \in [Role -> {"none", "held", "stale"}]
          /\ task.role # "gpu" => handle'["gpu"] = handle["gpu"]
      BY <1>1, <2>1 DEF IInv, TypeOK, Role
    <2>4. TypeOK'
      <3>1. ASSUME NEW r \in Role, listener'[r] # Nobody PROVE process'[listener'[r]][r] # "none"
        BY <2>1, <2>2, <3>1 DEF IInv, TypeOK
      <3> QED  BY <2>1, <2>2, <2>3, <3>1 DEF IInv, TypeOK, PC
    <2>5. Counted'
      <3>1. ASSUME NEW a \in Agent, NEW r \in Role, a > agents PROVE process'[a][r] = "none"
        <4>1. a # agents
          BY <3>1, BudgetAssumption DEF Agent, IInv, TypeOK
        <4> QED  BY <2>2, <3>1, <4>1 DEF IInv, Counted
      <3> QED  BY <1>1, <2>1, <3>1 DEF Counted
    <2>6. FreshGpu' /\ GpuHandled'
      BY <1>1, <2>1, <2>2, <2>3 DEF IInv, FreshGpu, GpuHandled, Role
    <2>7. UnboundIsLate' /\ ForeignWorkerWasLate' /\ NoGpuOrphan'
      BY <2>1, <2>2 DEF IInv, UnboundIsLate, ForeignWorkerWasLate, NoGpuOrphan, Role
    <2> QED  BY <2>4, <2>5, <2>6, <2>7 DEF IInv
  <1>3. CASE SpawnFails
    <2>1. /\ pc = "spawn" /\ pc' = StartFailed
          /\ UNCHANGED <<task, handle, process, listener, restarts, stop, agents, abandoned, late>>
      BY <1>3 DEF SpawnFails, Goto, processVars, history
    <2>2. CASE task.boot /\ task.role = "gpu"
      <3>1. pc' = "off"
        BY <2>1, <2>2 DEF StartFailed
      <3>2. process[agents]["gpu"] = "none"
        BY <2>1, <2>2 DEF IInv, FreshGpu
      <3> QED
        BY <2>1, <3>1, <3>2 DEF IInv, TypeOK, PC, Counted, FreshGpu, GpuHandled, UnboundIsLate,
           ForeignWorkerWasLate, NoGpuOrphan
    <2>3. CASE ~(task.boot /\ task.role = "gpu")
      <3>1. pc' \in {"payload", "finally"}
        BY <1>1, <2>1, <2>3 DEF StartFailed, Role
      <3> QED  BY <2>1, <3>1, QuietStep DEF IInv, TypeOK, PC
    <2> QED  BY <2>2, <2>3
  <1>4. CASE VerifyPasses
    <2>1. /\ pc = "verify" /\ pc' = Verified
          /\ UNCHANGED <<task, process, listener, restarts, stop, agents, abandoned, late>>
          /\ handle' = [handle EXCEPT ![task.role] = "held"]
      BY <1>4 DEF VerifyPasses, Goto, processVars, history
    <2>2. pc' \in {"cpu_choice", "payload", "check_cpu", "heartbeat"}
      BY <1>1, <2>1 DEF Verified, Role
    <2>3. /\ handle' \in [Role -> {"none", "held", "stale"}]
          /\ handle'["gpu"] = IF task.role = "gpu" THEN "held" ELSE handle["gpu"]
      BY <1>1, <2>1 DEF IInv, TypeOK, Role
    <2>4. TypeOK'
      BY <2>1, <2>2, <2>3 DEF IInv, TypeOK, PC, Loop
    <2>5. Counted' /\ FreshGpu' /\ GpuHandled'
      BY <2>1, <2>2, <2>3 DEF IInv, Counted, FreshGpu, GpuHandled
    <2>6. UnboundIsLate' /\ ForeignWorkerWasLate' /\ NoGpuOrphan'
      BY <2>1, <2>2 DEF IInv, UnboundIsLate, ForeignWorkerWasLate, NoGpuOrphan
    <2> QED  BY <2>4, <2>5, <2>6 DEF IInv
  <1>5. CASE VerifyFails
    <2>1. /\ pc = "verify" /\ GoOn(StartFailed) /\ Terminate({task.role})
          /\ UNCHANGED <<task, handle, listener, restarts, stop, agents, abandoned>>
      BY <1>5 DEF VerifyFails
    <2>2. /\ process' \in [Agent -> [Role -> {"none", "running", "ending"}]]
          /\ \A a \in Agent, r \in Role :
                 process'[a][r] = IF a = agents /\ r \in {task.role} /\ process[a][r] = "running"
                                  THEN "ending" ELSE process[a][r]
      BY <1>1, <2>1, TerminateFact DEF IInv
    <2>3. StartFailed \in {"off", "finally", "payload"}
      BY <1>1 DEF StartFailed, Role
    <2>4. task.role = "gpu" => process'[agents]["gpu"] # "running"
      BY <1>1, <2>2 DEF Role
    <2>5. task.role # "gpu" => StartFailed # "off"
      BY <1>1 DEF StartFailed, Role
    <2>6. /\ handle' \in [Role -> {"none", "held", "stale"}] /\ handle'["gpu"] = handle["gpu"]
          /\ stop' \in BOOLEAN
      BY <2>1 DEF IInv, TypeOK
    <2>7. \A a \in Agent, r \in Role :
              process'[a][r] = process[a][r]
                \/ (a = agents /\ process[a][r] = "running" /\ process'[a][r] = "ending")
      BY <2>2
    <2> QED  BY <2>1, <2>2, <2>3, <2>4, <2>5, <2>6, <2>7, EndingStep
  <1> QED  BY <1>2, <1>3, <1>4, <1>5

\* A restart within the budget.
LEMMA RestartStep ==
    ASSUME IInv, NEW r \in Role, restarts[r] < MaxRestarts, Restart(r), pc \in Loop,
           UNCHANGED <<handle, process, listener, stop, agents, abandoned, late>>
    PROVE  IInv'
  <1>1. restarts' \in [Role -> 0..MaxRestarts]
    BY BudgetAssumption DEF Restart, IInv, TypeOK
  <1>2. \/ pc' = "spawn" /\ task' \in [role : Role, boot : BOOLEAN] /\ ~task'.boot
        \/ pc' = "finally" /\ task' = task
    BY StartFact DEF Restart, Goto
  <1> QED  BY <1>1, <1>2, QuietStep DEF IInv, TypeOK, PC, Loop

LEMMA LoopStep ==
    ASSUME IInv, Register \/ CheckGpu \/ CheckCpu \/ Heartbeat
    PROVE  IInv'
  <1>1. CASE Register \/ Heartbeat
    <2>1. /\ pc \in {"register", "heartbeat"} /\ pc' \in {"check_gpu", "finally"}
          /\ UNCHANGED <<task, handle, process, listener, restarts, stop, agents, abandoned, late>>
      BY <1>1 DEF Register, Heartbeat, Goto, processVars, history
    <2> QED  BY <2>1, QuietStep DEF IInv, TypeOK, PC, Loop
  <1>2. CASE CheckGpu
    <2>1. /\ pc = "check_gpu"
          /\ UNCHANGED <<handle, process, listener, stop, agents, abandoned, late>>
      BY <1>2 DEF CheckGpu, processVars, history
    <2>2. CASE pc' = "finally" /\ task' = task /\ restarts' = restarts
      BY <2>1, <2>2, QuietStep DEF IInv, TypeOK, PC
    <2>3. CASE restarts' = [restarts EXCEPT !["gpu"] = 0] /\ pc' = "check_cpu" /\ task' = task
      <3>1. restarts' \in [Role -> 0..MaxRestarts]
        <4>1. restarts \in [Role -> 0..MaxRestarts] /\ 0 \in 0..MaxRestarts
          BY BudgetAssumption DEF IInv, TypeOK
        <4> QED  BY <2>3, <4>1
      <3> QED  BY <2>1, <2>3, <3>1, QuietStep DEF IInv, TypeOK, PC, Loop
    <2>4. CASE restarts["gpu"] < MaxRestarts /\ Restart("gpu")
      BY <2>1, <2>4, RestartStep DEF Role, Loop
    <2> QED  BY <1>2, <2>1, <2>2, <2>3, <2>4 DEF CheckGpu, Goto
  <1>3. CASE CheckCpu
    <2>1. /\ pc = "check_cpu"
          /\ UNCHANGED <<process, listener, stop, agents, abandoned, late>>
      BY <1>3 DEF CheckCpu, processVars, history
    <2>2. CASE /\ restarts' = [restarts EXCEPT !["cpu"] = 0]
               /\ pc' = "heartbeat" /\ task' = task /\ handle' = handle
      <3>1. restarts' \in [Role -> 0..MaxRestarts]
        <4>1. restarts \in [Role -> 0..MaxRestarts] /\ 0 \in 0..MaxRestarts
          BY BudgetAssumption DEF IInv, TypeOK
        <4> QED  BY <2>2, <4>1
      <3> QED  BY <2>1, <2>2, <3>1, QuietStep DEF IInv, TypeOK, PC, Loop
    <2>3. CASE /\ handle' = [handle EXCEPT !["cpu"] = "none"]
               /\ pc' = "heartbeat" /\ task' = task /\ restarts' = restarts
      <3>1. handle' \in [Role -> {"none", "held", "stale"}] /\ handle'["gpu"] = handle["gpu"]
        BY <2>3 DEF IInv, TypeOK, Role
      <3> QED  BY <2>1, <2>3, <3>1, QuietStep DEF IInv, TypeOK, PC, Loop
    <2>4. CASE restarts["cpu"] < MaxRestarts /\ Restart("cpu") /\ handle' = handle
      BY <2>1, <2>4, RestartStep DEF Role, Loop
    <2> QED  BY <1>3, <2>1, <2>2, <2>3, <2>4 DEF CheckCpu, Goto
  <1> QED  BY <1>1, <1>2, <1>3

LEMMA EndStep ==
    ASSUME IInv, \/ PayloadFails \/ SetupFails \/ Finally \/ Interrupt \/ Kill \/ RequestStop
    PROVE  IInv'
  <1>1. handle \in [Role -> {"none", "held", "stale"}] /\ "gpu" \in Role /\ stop \in BOOLEAN
    BY DEF IInv, TypeOK, Role
  <1>2. process \in [Agent -> [Role -> {"none", "running", "ending"}]]
    BY DEF IInv, TypeOK
  <1>3. CASE RequestStop
    <2>1. UNCHANGED <<pc, task, handle, process, listener, restarts, agents, abandoned, late>>
          /\ stop' = TRUE
      BY <1>3 DEF RequestStop, processVars, history
    <2> QED
      BY <2>1 DEF IInv, TypeOK, Counted, FreshGpu, GpuHandled, UnboundIsLate,
         ForeignWorkerWasLate, NoGpuOrphan
  <1>4. CASE Kill /\ pc = "port_check"
    <2>1. /\ pc' = "off" /\ handle' = [r \in Role |-> "none"]
          /\ UNCHANGED <<task, process, listener, restarts, stop, agents>>
          /\ abandoned' = abandoned \cup {agents}
          /\ agents \in Agent
      BY <1>4 DEF Kill, Leave, GoOn, Goto, IInv, Counted
    <2>2. process[agents]["gpu"] = "none"
      BY <1>4 DEF IInv, FreshGpu
    <2>3. late' = late
      BY <1>4, <2>1, <2>2 DEF Kill, Leave, GoOn
    <2> QED
      BY <2>1, <2>2, <2>3 DEF IInv, TypeOK, PC, Counted, FreshGpu, GpuHandled, UnboundIsLate,
         ForeignWorkerWasLate, NoGpuOrphan
  <1>5. CASE PayloadFails \/ (Kill /\ pc # "port_check")
    <2>1. /\ GoOn("off") /\ handle' = [r \in Role |-> "none"] /\ pc # "off" /\ pc # "port_check"
          /\ UNCHANGED <<task, process, listener, restarts, stop, agents>>
          /\ abandoned' = abandoned \cup {agents}
      BY <1>5 DEF PayloadFails, Kill, Leave
    <2>2. handle' \in [Role -> {"none", "held", "stale"}]
      BY <2>1
    <2> QED  BY <1>1, <1>2, <2>1, <2>2, EndingStep
  <1>6. CASE SetupFails \/ Finally
    <2>1. /\ GoOn("off") /\ handle' = [r \in Role |-> "none"] /\ pc \in {"setup", "finally"}
          /\ UNCHANGED <<task, listener, restarts, stop, agents, abandoned>>
      BY <1>6 DEF SetupFails, Finally, Leave
    <2>2. agents \in Agent
      BY <2>1 DEF IInv, Counted
    <2>3. PICK rs \in SUBSET Role :
             Terminate(rs) /\ (handle["gpu"] = "held" => "gpu" \in rs)
      <3>1. CASE SetupFails
        BY <1>1, <3>1 DEF SetupFails
      <3>2. CASE Finally
        BY <1>1, <3>2 DEF Finally
      <3> QED  BY <1>6, <3>1, <3>2
    <2>4. /\ process' \in [Agent -> [Role -> {"none", "running", "ending"}]]
          /\ \A a \in Agent, r \in Role :
                 process'[a][r] = IF a = agents /\ r \in rs /\ process[a][r] = "running"
                                  THEN "ending" ELSE process[a][r]
      BY <2>2, <2>3, TerminateFact DEF IInv
    <2>5. process'[agents]["gpu"] # "running" \/ agents \in abandoned
      BY <1>1, <2>1, <2>2, <2>3, <2>4 DEF IInv, GpuHandled
    <2>6. handle' \in [Role -> {"none", "held", "stale"}]
      BY <2>1
    <2>7. \A a \in Agent, r \in Role :
              process'[a][r] = process[a][r]
                \/ (a = agents /\ process[a][r] = "running" /\ process'[a][r] = "ending")
      BY <2>4
    <2> QED  BY <1>1, <2>1, <2>4, <2>5, <2>6, <2>7, EndingStep
  <1>7. CASE Interrupt
    <2>1. /\ UNCHANGED <<task, process, listener, restarts, stop, agents>>
          /\ handle' = IF pc' = "off" THEN [r \in Role |-> "none"] ELSE handle
          /\ abandoned' = IF pc = "finally" \/ (pc = "verify" /\ task.role = "gpu")
                          THEN abandoned \cup {agents} ELSE abandoned
          /\ pc \in {"verify", "register", "finally"} \cup Loop
      BY <1>7 DEF Interrupt, processVars
    <2>2. task.role \in Role /\ task.boot \in BOOLEAN /\ agents \in Agent
      BY <2>1 DEF IInv, TypeOK, Counted, Loop
    <2>3. PICK place \in {"off", "finally", "payload"} :
             /\ GoOn(place)
             /\ place = "off" => pc = "finally" \/ (pc = "verify" /\ task.role = "gpu")
      BY <1>7, <2>2 DEF Interrupt, StartFailed, Role
    <2>4. pc' = place
      BY <2>3 DEF GoOn, Goto
    <2>5. handle' \in [Role -> {"none", "held", "stale"}] /\ (place # "off" => handle' = handle)
      BY <1>1, <2>1, <2>4
    <2>6. pc # "off" /\ pc # "port_check"
      BY <2>1 DEF Loop
    <2>7. agents \in abandoned' \/ (place # "off" /\ (pc = "verify" => task.role # "gpu"))
      BY <2>1, <2>3
    <2> QED  BY <1>1, <1>2, <2>1, <2>3, <2>5, <2>6, <2>7, EndingStep
  <1> QED  BY <1>3, <1>4, <1>5, <1>6, <1>7

\* Workers come and go on their ports.
LEMMA WorkersStep ==
    ASSUME IInv, NEW a \in Agent, NEW r \in Role, Bind(a, r) \/ FailToBind(a, r) \/ WorkerEnds(a, r)
    PROVE  IInv'
  <1>1. UNCHANGED <<pc, task, handle, restarts, stop, agents, abandoned, late>>
    BY DEF Bind, FailToBind, WorkerEnds, history
  <1>2. /\ process \in [Agent -> [Role -> {"none", "running", "ending"}]]
        /\ listener \in [Role -> Agent \cup {Nobody}] /\ Nobody \notin Agent
    BY DEF IInv, TypeOK, Nobody, Agent
  <1>3. CASE Bind(a, r)
    <2>1. /\ process' = process /\ process[a][r] # "none" /\ listener[r] = Nobody
          /\ listener' = [listener EXCEPT ![r] = a]
      BY <1>3 DEF Bind
    <2>2. TypeOK'
      BY <1>1, <1>2, <2>1 DEF IInv, TypeOK
    <2>3. Counted' /\ FreshGpu' /\ GpuHandled' /\ NoGpuOrphan'
      BY <1>1, <2>1 DEF IInv, Counted, FreshGpu, GpuHandled, NoGpuOrphan
    <2>4. UnboundIsLate'
      BY <1>1, <1>2, <2>1 DEF IInv, UnboundIsLate, Role
    <2>5. ForeignWorkerWasLate'
      BY <1>1, <1>2, <2>1 DEF IInv, UnboundIsLate, ForeignWorkerWasLate, Role
    <2> QED  BY <2>2, <2>3, <2>4, <2>5 DEF IInv
  <1>4. CASE FailToBind(a, r) \/ WorkerEnds(a, r)
    <2>1. /\ process' = [process EXCEPT ![a][r] = "none"]
          /\ listener' \in [Role -> Agent \cup {Nobody}]
          /\ listener'[r] # a
          /\ \A q \in Role : listener'[q] = listener[q] \/ (q = r /\ listener[q] = a /\ listener'[q] = Nobody)
      <3>1. CASE FailToBind(a, r)
        BY <1>2, <3>1 DEF FailToBind
      <3>2. CASE WorkerEnds(a, r)
        BY <1>2, <3>2 DEF WorkerEnds
      <3> QED  BY <1>4, <3>1, <3>2
    <2>2. /\ process' \in [Agent -> [Role -> {"none", "running", "ending"}]]
          /\ \A b \in Agent, q \in Role :
                process'[b][q] = IF b = a /\ q = r THEN "none" ELSE process[b][q]
      BY <1>2, <2>1
    <2>3. TypeOK'
      <3>1. ASSUME NEW q \in Role, listener'[q] # Nobody PROVE process'[listener'[q]][q] # "none"
        BY <1>2, <2>1, <2>2, <3>1 DEF IInv, TypeOK
      <3> QED  BY <1>1, <2>1, <2>2, <3>1 DEF IInv, TypeOK
    <2>4. Counted'
      BY <1>1, <2>2 DEF IInv, Counted
    <2>5. FreshGpu' /\ GpuHandled' /\ NoGpuOrphan'
      BY <1>1, <2>2 DEF IInv, TypeOK, Counted, FreshGpu, GpuHandled, NoGpuOrphan, Role
    <2>6. UnboundIsLate'
      BY <1>1, <2>1, <2>2 DEF IInv, UnboundIsLate, Role
    <2>7. ForeignWorkerWasLate'
      BY <1>1, <2>1 DEF IInv, ForeignWorkerWasLate, Role
    <2> QED  BY <2>3, <2>4, <2>5, <2>6, <2>7 DEF IInv
  <1> QED  BY <1>3, <1>4

LEMMA NextStep == IInv /\ [Next]_vars => IInv'
  <1> SUFFICES ASSUME IInv, [Next]_vars PROVE IInv'
    OBVIOUS
  <1>1. CASE Next
    BY <1>1, BootStep, StartStep, LoopStep, EndStep, WorkersStep DEF Next, AgentStep, WorkerStep
  <1>2. CASE UNCHANGED vars
    BY <1>2 DEF vars, processVars, history, IInv, TypeOK, Counted, FreshGpu, GpuHandled,
                UnboundIsLate, ForeignWorkerWasLate, NoGpuOrphan
  <1> QED  BY <1>1, <1>2

(***************************************************************************)
(* The theorems.                                                           *)
(***************************************************************************)
\* The strengthening holds throughout.
THEOREM Invariance == Spec => []IInv
  BY InitInv, NextStep, PTL DEF Spec

\* Types, restart counts within the budget, and a port's own listener runs.
THEOREM TypeCorrectness == Spec => []TypeOK
  <1>1. IInv => TypeOK
    BY DEF IInv
  <1> QED  BY <1>1, Invariance, PTL

\* Whose worker ever passes for the GPU worker of a running agent had not bound the
\* port yet when its own agent ended, however many agents were killed, interrupted or
\* stopped before, and whichever restarts failed.
THEOREM ForeignGpuWorkers == Spec => []ForeignWorkerWasLate
  <1>1. IInv => ForeignWorkerWasLate
    BY DEF IInv
  <1> QED  BY <1>1, Invariance, PTL

\* A GPU worker that outlives its agent was told to end, unless the agent was killed,
\* failed outside its clean-up, or was interrupted before it had a handle.
THEOREM GpuWorkersAreTold == Spec => []NoGpuOrphan
  <1>1. IInv => NoGpuOrphan
    BY DEF IInv
  <1> QED  BY <1>1, Invariance, PTL

(***************************************************************************)
(* How long an agent goes on without its GPU worker.                       *)
(***************************************************************************)

\* The worker task is about is being verified: at most how many steps follow up to
\* the next round of the loop, and three more.
Verifying ==
    CASE ~task.boot /\ task.role = "cpu" -> 5
      [] ~task.boot /\ task.role = "gpu" -> 8
      [] task.boot /\ task.role = "cpu" -> 7
      [] OTHER -> 10

\* The same for every place in the agent.
Place ==
    CASE pc = "check_gpu" -> 3
      [] pc \in {"heartbeat", "register"} -> 4
      [] pc = "setup" -> 5
      [] pc = "payload" -> 6
      [] pc = "check_cpu" -> 7
      [] pc = "cpu_choice" -> 9
      [] pc = "verify" -> Verifying
      [] pc = "spawn" -> Verifying + 1
      [] OTHER -> 12

\* The restarts of the GPU worker the agent has left.
Left == MaxRestarts - restarts["gpu"]

\* At most how many more steps the agent takes, ten with each restart, if no round
\* of its loop finds the GPU worker running.
StepsLeft ==
    CASE pc = "off" -> 0
      [] pc = "finally" -> 1
      [] OTHER -> 10 * Left + Place

\* A round of the loop that is not the last: the GPU worker runs, and the agent has
\* not been asked to stop.
FindsWorker == pc = "check_gpu" /\ ~stop /\ Running("gpu")

\* Any other step of the agent brings it nearer to its end, and nothing else takes
\* it further away.
Nearer ==
    /\ AgentStep /\ ~FindsWorker => StepsLeft' < StepsLeft
    /\ ~AgentStep /\ pc # "off" => StepsLeft' <= StepsLeft

LEMMA StepsType ==
    ASSUME TypeOK
    PROVE  Left \in 0..MaxRestarts /\ Place \in 3..12 /\ StepsLeft \in 0..10 * MaxRestarts + 12
  <1>1. Left \in 0..MaxRestarts /\ MaxRestarts \in Nat
    BY BudgetAssumption DEF TypeOK, Role, Left
  <1>2. Place \in 3..12
    BY DEF Place, Verifying
  <1> QED  BY <1>1, <1>2 DEF StepsLeft

\* A step that leaves the budget alone is judged by its place.
LEMMA PlaceDecides ==
    ASSUME IInv, UNCHANGED restarts,
           \/ pc = "finally" /\ pc' = "off"
           \/ pc \notin {"off", "finally"} /\ (pc' \in {"off", "finally"} \/ Place' < Place)
    PROVE  StepsLeft' < StepsLeft
  <1>1. Left \in Nat /\ Left' = Left /\ Place \in 3..12 /\ Place' \in 3..12
    BY StepsType, BudgetAssumption DEF IInv, Left, Place, Verifying
  <1>2. CASE pc = "finally" /\ pc' = "off"
    BY <1>2 DEF StepsLeft
  <1>3. CASE pc \notin {"off", "finally"} /\ pc' \in {"off", "finally"}
    <2>1. StepsLeft = 10 * Left + Place /\ StepsLeft' \in {0, 1}
      BY <1>3 DEF StepsLeft
    <2> QED  BY <1>1, <2>1
  <1>4. CASE pc \notin {"off", "finally"} /\ pc' \notin {"off", "finally"} /\ Place' < Place
    <2>1. StepsLeft = 10 * Left + Place /\ StepsLeft' = 10 * Left + Place'
      BY <1>1, <1>4 DEF StepsLeft
    <2>2. ASSUME NEW n \in Nat, NEW p \in 3..12, NEW q \in 3..12, q < p
          PROVE  10 * n + q < 10 * n + p
      BY <2>2
    <2> QED  BY <1>1, <1>4, <2>1, <2>2
  <1> QED  BY <1>2, <1>3, <1>4

\* Where a start begins.
LEMMA StartPlace ==
    /\ Start("gpu", TRUE) => pc' = "spawn" /\ Place' = 11
    /\ Start("cpu", TRUE) => pc' = "spawn" /\ Place' = 8
    /\ Start("gpu", FALSE) => pc' = "spawn" /\ Place' = 9
    /\ Start("cpu", FALSE) => pc' = "spawn" /\ Place' = 6
  <1>1. ASSUME NEW n \in 5..10, pc' = "spawn", Verifying' = n PROVE Place' = n + 1
    BY <1>1 DEF Place
  <1>2. ASSUME Start("gpu", TRUE) PROVE pc' = "spawn" /\ Place' = 11
    <2>1. pc' = "spawn" /\ Verifying' = 10
      BY <1>2 DEF Start, Goto, Verifying
    <2> QED  BY <1>1, <2>1
  <1>3. ASSUME Start("cpu", TRUE) PROVE pc' = "spawn" /\ Place' = 8
    <2>1. pc' = "spawn" /\ Verifying' = 7
      BY <1>3 DEF Start, Goto, Verifying
    <2> QED  BY <1>1, <2>1
  <1>4. ASSUME Start("gpu", FALSE) PROVE pc' = "spawn" /\ Place' = 9
    <2>1. pc' = "spawn" /\ Verifying' = 8
      BY <1>4 DEF Start, Goto, Verifying
    <2> QED  BY <1>1, <2>1
  <1>5. ASSUME Start("cpu", FALSE) PROVE pc' = "spawn" /\ Place' = 6
    <2>1. pc' = "spawn" /\ Verifying' = 5
      BY <1>5 DEF Start, Goto, Verifying
    <2> QED  BY <1>1, <2>1
  <1> QED  BY <1>2, <1>3, <1>4, <1>5

LEMMA StartNearer ==
    ASSUME IInv, \/ PortCheck \/ Spawn \/ SpawnFails \/ VerifyPasses \/ VerifyFails
                 \/ CpuChoice \/ Payload \/ PayloadFails \/ Setup \/ SetupFails
    PROVE  StepsLeft' < StepsLeft
  <1>1. task.role \in Role /\ task.boot \in BOOLEAN
    BY DEF IInv, TypeOK
  <1>2. CASE PortCheck \/ CpuChoice
    <2>1. UNCHANGED restarts /\ pc \in {"port_check", "cpu_choice"}
      BY <1>2 DEF PortCheck, CpuChoice
    <2>2. \/ pc = "port_check" /\ Start("gpu", TRUE)
          \/ pc = "cpu_choice" /\ Start("cpu", TRUE)
          \/ pc = "port_check" /\ pc' = "off"
          \/ pc = "cpu_choice" /\ pc' = "payload"
      BY <1>2 DEF PortCheck, CpuChoice, Goto
    <2>3. Place = (IF pc = "port_check" THEN 12 ELSE 9) /\ (pc' = "payload" => Place' = 6)
      BY <2>1 DEF Place
    <2>4. CASE pc = "port_check"
      <3>1. pc' = "off" \/ Place' = 11
        BY <2>2, <2>4, StartPlace
      <3> QED  BY <2>1, <2>3, <2>4, <3>1, PlaceDecides
    <2>5. CASE pc = "cpu_choice"
      <3>1. Place' \in {6, 8}
        BY <2>2, <2>3, <2>5, StartPlace
      <3> QED  BY <2>1, <2>3, <2>5, <3>1, PlaceDecides
    <2> QED  BY <2>1, <2>4, <2>5
  <1>3. CASE Spawn \/ SpawnFails \/ VerifyPasses \/ VerifyFails
    <2>1. UNCHANGED <<restarts, task>> /\ pc \in {"spawn", "verify"}
      BY <1>3 DEF Spawn, SpawnFails, VerifyPasses, VerifyFails
    <2>2. \/ pc = "spawn" /\ pc' \in {"verify", StartFailed}
          \/ pc = "verify" /\ pc' \in {Verified, StartFailed}
      BY <1>3 DEF Spawn, SpawnFails, VerifyPasses, VerifyFails, GoOn, Goto
    <2>3. pc' \in {"off", "finally"} \/ Place' < Place
      BY <1>1, <2>1, <2>2 DEF Verified, StartFailed, Place, Verifying, Role
    <2> QED  BY <2>1, <2>3, PlaceDecides
  <1>4. CASE Payload \/ PayloadFails \/ Setup \/ SetupFails
    <2>1. UNCHANGED restarts
      BY <1>4 DEF Payload, PayloadFails, Setup, SetupFails, Leave
    <2>2. \/ pc \in {"cpu_choice", "payload", "setup"} /\ pc' = "off"
          \/ pc = "payload" /\ pc' = "setup"
          \/ pc = "setup" /\ pc' = "register"
      BY <1>4 DEF Payload, PayloadFails, Setup, SetupFails, Goto, Leave, GoOn
    <2>3. pc \notin {"off", "finally"} /\ (pc' \in {"off", "finally"} \/ Place' < Place)
      BY <2>2 DEF Place, Verifying
    <2> QED  BY <2>1, <2>3, PlaceDecides
  <1> QED  BY <1>2, <1>3, <1>4

\* A restart of the GPU worker costs one of the budget, one of the CPU worker none.
LEMMA LoopNearer ==
    ASSUME IInv, Register \/ CheckGpu \/ CheckCpu \/ Heartbeat \/ Finally, ~FindsWorker
    PROVE  StepsLeft' < StepsLeft
  <1>1. restarts \in [Role -> 0..MaxRestarts] /\ Left \in 0..MaxRestarts
    BY StepsType DEF IInv, TypeOK
  <1>2. CASE Register \/ Heartbeat \/ Finally
    <2>1. UNCHANGED restarts
      BY <1>2 DEF Register, Heartbeat, Finally, Leave
    <2>2. \/ pc = "register" /\ pc' \in {"check_gpu", "finally"}
          \/ pc = "heartbeat" /\ pc' = "check_gpu"
          \/ pc = "finally" /\ pc' = "off"
      BY <1>2 DEF Register, Heartbeat, Finally, Leave, GoOn, Goto
    <2>3. \/ pc = "finally" /\ pc' = "off"
          \/ pc \notin {"off", "finally"} /\ (pc' \in {"off", "finally"} \/ Place' < Place)
      BY <2>2 DEF Place, Verifying
    <2> QED  BY <2>1, <2>3, PlaceDecides
  <1>3. CASE CheckGpu
    <2>1. pc = "check_gpu"
      BY <1>3 DEF CheckGpu
    <2>2. CASE pc' = "finally" /\ UNCHANGED restarts
      BY <2>1, <2>2, PlaceDecides
    <2>3. CASE restarts["gpu"] < MaxRestarts /\ Restart("gpu")
      <3>1. restarts'["gpu"] = restarts["gpu"] + 1
        BY <1>1, <2>3 DEF Restart, Role
      <3>2. Left' = Left - 1 /\ Left \in Nat
        BY <1>1, <2>3, <3>1, BudgetAssumption DEF Left, Role
      <3>3. StepsLeft = 10 * Left + 3
        BY <2>1 DEF StepsLeft, Place
      <3>4. CASE listener["gpu"] = Nobody
        <4>1. Start("gpu", FALSE)
          BY <2>3, <3>4 DEF Restart
        <4>2. pc' = "spawn" /\ Place' = 9
          BY <4>1, StartPlace
        <4>3. StepsLeft' = 10 * Left' + 9
          BY <4>2 DEF StepsLeft
        <4> QED  BY <3>2, <3>3, <4>3
      <3>5. CASE listener["gpu"] # Nobody
        <4>1. pc' = "finally"
          BY <2>3, <3>5 DEF Restart, Goto
        <4>2. StepsLeft' = 1
          BY <4>1 DEF StepsLeft
        <4> QED  BY <3>2, <3>3, <4>2
      <3> QED  BY <3>4, <3>5
    <2>4. \/ pc' = "finally" /\ UNCHANGED restarts
          \/ restarts["gpu"] < MaxRestarts /\ Restart("gpu")
      BY <1>3, <2>1 DEF CheckGpu, FindsWorker, Goto
    <2> QED  BY <2>2, <2>3, <2>4
  <1>4. CASE CheckCpu
    <2>1. pc = "check_cpu" /\ StepsLeft = 10 * Left + 7
      BY <1>4 DEF CheckCpu, StepsLeft, Place
    <2>2. Left' = Left /\ Left \in Nat
      <3>1. restarts'["gpu"] = restarts["gpu"]
        BY <1>1, <1>4 DEF CheckCpu, Restart, Role
      <3> QED  BY <1>1, <3>1, BudgetAssumption DEF Left
    <2>3. pc' \in {"heartbeat", "finally"} \/ Start("cpu", FALSE)
      BY <1>4 DEF CheckCpu, Restart, Goto
    <2>4. pc' = "finally" \/ (pc' \in {"heartbeat", "spawn"} /\ Place' \in {4, 6})
      BY <2>3, StartPlace DEF Place
    <2>5. StepsLeft' \in {1, 10 * Left' + 4, 10 * Left' + 6}
      BY <2>4 DEF StepsLeft
    <2> QED  BY <2>1, <2>2, <2>5
  <1> QED  BY <1>2, <1>3, <1>4

LEMMA NearerStep == ASSUME IInv, [Next]_vars PROVE Nearer
  <1>1. CASE AgentStep
    BY <1>1, StartNearer, LoopNearer DEF AgentStep, Nearer
  <1>2. CASE ~AgentStep /\ pc # "off"
    <2>1. StepsLeft \in Nat
      BY StepsType, BudgetAssumption DEF IInv
    <2>2. CASE UNCHANGED <<pc, task, restarts>>
      <3>1. StepsLeft' = StepsLeft
        BY <2>2 DEF StepsLeft, Left, Place, Verifying
      <3> QED  BY <1>2, <2>1, <3>1 DEF Nearer
    <2>3. CASE Kill
      <3>1. StepsLeft' = 0
        BY <2>3 DEF Kill, Leave, GoOn, Goto, StepsLeft
      <3> QED  BY <1>2, <2>1, <3>1 DEF Nearer
    <2>4. ASSUME RequestStop \/ UNCHANGED vars \/ WorkerStep
          PROVE  UNCHANGED <<pc, task, restarts>>
      BY <2>4 DEF RequestStop, vars, WorkerStep, Bind, FailToBind, WorkerEnds
    <2>5. CASE Interrupt
      <3>1. UNCHANGED restarts /\ task.role \in Role /\ task.boot \in BOOLEAN
        BY <2>5 DEF Interrupt, IInv, TypeOK
      <3>2. \/ pc = "verify" /\ pc' \in {"off", "finally", "payload"} /\ pc' = StartFailed
            \/ pc \in Loop \cup {"register"} /\ pc' = "finally"
            \/ pc = "finally" /\ pc' = "off"
        BY <2>5, <3>1 DEF Interrupt, GoOn, Goto, StartFailed, Role
      <3>3. pc = "verify" => pc' \in {"off", "finally"} \/ Place' < Place
        BY <3>1, <3>2 DEF StartFailed, Place, Verifying, Role
      <3>4. StepsLeft' < StepsLeft
        BY <3>1, <3>2, <3>3, PlaceDecides DEF Loop
      <3>5. StepsLeft' \in Nat
        <4>1. Left' \in Nat /\ Place' \in 3..12
          BY <3>1, StepsType, BudgetAssumption DEF IInv, Left, Place, Verifying
        <4> QED  BY <4>1 DEF StepsLeft
      <3> QED  BY <1>2, <2>1, <3>4, <3>5 DEF Nearer
    <2> QED  BY <1>2, <2>2, <2>3, <2>4, <2>5 DEF Next, StartAgent
  <1>3. CASE ~AgentStep /\ pc = "off"
    BY <1>3 DEF Nearer
  <1> QED  BY <1>1, <1>2, <1>3

\* An agent does not go on without its GPU worker: unless a round of its loop finds
\* the worker running, and no more after a stop request, it ends within ten steps
\* for each restart it has left and twelve more, however its workers start, fail and
\* crash meanwhile (run_agent's start and main loop).
AgentIsBounded ==
    /\ [](StepsLeft \in 0..10 * MaxRestarts + 12)
    /\ [][Nearer]_vars

THEOREM AgentsAreBounded == Spec => AgentIsBounded
  <1>1. IInv => StepsLeft \in 0..10 * MaxRestarts + 12
    BY StepsType DEF IInv
  <1>2. IInv /\ [Next]_vars => [Nearer]_vars
    BY NearerStep
  <1> QED  BY <1>1, <1>2, Invariance, PTL DEF Spec, AgentIsBounded
=============================================================================
