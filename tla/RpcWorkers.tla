------------------------------ MODULE RpcWorkers ------------------------------
(***************************************************************************)
(* The RPC workers a node agent supervises (node_agent.py, run_agent):     *)
(* the ggml-rpc-server on the GPU port, without which the agent gives up,  *)
(* and the optional one on the CPU port.  They are started and verified,   *)
(* checked in every round of the main loop, restarted within a budget, and *)
(* stopped with the agent.                                                 *)
(*                                                                         *)
(* One agent runs at a time (InstanceLock); several run one after the      *)
(* other.  A worker is a process of its own: it binds its port some time   *)
(* after Popen, outlives an agent that does not tell it to end, and        *)
(* terminate() only tells it; nobody waits for it.                         *)
(***************************************************************************)
EXTENDS Naturals

CONSTANTS
    MaxRestarts,    \* --rpc-max-restarts
    MaxAgents       \* bound on the agents started one after the other

ASSUME BudgetAssumption == MaxRestarts \in Nat /\ MaxAgents \in Nat

Role == {"gpu", "cpu"}

VARIABLES
    pc,         \* what the agent does next; "off" when none runs
    task,       \* the worker being started, and whether for the first time
    handle,     \* run_agent's Popen variables: None, the worker started last, or,
                \* while that is being verified, the exited one before it
    process,    \* each agent's workers: not there, running, or told to end
    listener,   \* the agent whose worker listens on each port
    restarts,   \* restart_count, cpu_restart_count
    stop,       \* stop_event
    agents,     \* how many agents were started; the last one is the current one
    abandoned,  \* history: the agents that left their GPU worker untold
    late        \* history: the agents whose GPU worker had not bound when they ended

vars == <<pc, task, handle, process, listener, restarts, stop, agents, abandoned, late>>
processVars == <<process, listener>>
history == <<abandoned, late>>

Agent == 1..MaxAgents
Nobody == 0

Loop == {"check_gpu", "check_cpu", "heartbeat"}
PC == {"off", "port_check", "spawn", "verify", "cpu_choice", "payload", "setup",
       "register", "finally"} \cup Loop

Goto(place) == pc' = place

\* poll() of the agent's handle finds the process there.
Running(r) == handle[r] = "held" /\ process[agents][r] # "none"
Start(r, boot) == Goto("spawn") /\ task' = [role |-> r, boot |-> boot]

\* Where run_agent goes on once a worker is verified.
Verified == CASE task.boot /\ task.role = "gpu" -> "cpu_choice"
              [] task.boot /\ task.role = "cpu" -> "payload"
              [] ~task.boot /\ task.role = "gpu" -> "check_cpu"
              [] ~task.boot /\ task.role = "cpu" -> "heartbeat"

\* Where the exception of a worker that could not be started leads: out of the
\* agent for the first GPU worker, past the first CPU worker, and into finally
\* for a restart of either.
StartFailed == CASE task.boot /\ task.role = "gpu" -> "off"
                 [] task.boot /\ task.role = "cpu" -> "payload"
                 [] ~task.boot -> "finally"

\* terminate() of the workers rs, if they run.
Terminate(rs) ==
    process' = [process EXCEPT ![agents] =
        [r \in Role |-> IF r \in rs /\ @[r] = "running" THEN "ending" ELSE @[r]]]

\* The agent goes on at place, or is gone; then late remembers a GPU worker that
\* has not bound.
GoOn(place) ==
    /\ Goto(place)
    /\ late' = IF place = "off" /\ process'[agents]["gpu"] # "none" /\ listener["gpu"] # agents
               THEN late \cup {agents} ELSE late
Leave ==
    /\ GoOn("off")
    /\ handle' = [r \in Role |-> "none"]
    /\ UNCHANGED <<task, listener, restarts, stop, agents>>

Init ==
    /\ pc = "off"
    /\ task = [role |-> "gpu", boot |-> TRUE]
    /\ handle = [r \in Role |-> "none"]
    /\ process = [a \in Agent |-> [r \in Role |-> "none"]]
    /\ listener = [r \in Role |-> Nobody]
    /\ restarts = [r \in Role |-> 0]
    /\ stop = FALSE
    /\ agents = 0
    /\ abandoned = {}
    /\ late = {}

(***************************************************************************)
(* Starting.                                                               *)
(***************************************************************************)
StartAgent ==
    /\ pc = "off"
    /\ agents < MaxAgents
    /\ agents' = agents + 1
    /\ Goto("port_check")
    /\ restarts' = [r \in Role |-> 0]
    /\ stop' = FALSE
    /\ UNCHANGED <<task, handle, processVars, history>>

\* Mutant of PortCheck: the worker is started whoever has the port.
PortUnchecked ==
    /\ pc = "port_check"
    /\ Start("gpu", TRUE)
    /\ UNCHANGED <<handle, processVars, restarts, stop, agents, history>>

\* Only the GPU port is checked.
PortCheck ==
    /\ pc = "port_check"
    /\ IF listener["gpu"] = Nobody THEN Start("gpu", TRUE)
                                   ELSE Goto("off") /\ UNCHANGED task
    /\ UNCHANGED <<handle, processVars, restarts, stop, agents, history>>

\* Popen: the variable of run_agent is assigned only when the worker is verified.
Spawn ==
    /\ pc = "spawn"
    /\ process' = [process EXCEPT ![agents][task.role] = "running"]
    /\ handle' = [handle EXCEPT ![task.role] = IF task.boot THEN "none" ELSE "stale"]
    /\ Goto("verify")
    /\ UNCHANGED <<task, listener, restarts, stop, agents, history>>

\* Popen raises.
SpawnFails ==
    /\ pc = "spawn"
    /\ Goto(StartFailed)
    /\ UNCHANGED <<task, handle, processVars, restarts, stop, agents, history>>

\* wait_for_rpc_ready: the process runs and somebody accepts connections.
VerifyPasses ==
    /\ pc = "verify"
    /\ process[agents][task.role] # "none"
    /\ listener[task.role] # Nobody
    /\ handle' = [handle EXCEPT ![task.role] = "held"]
    /\ Goto(Verified)
    /\ UNCHANGED <<task, processVars, restarts, stop, agents, history>>

\* The process exited, or nobody listens in time; then it is told to end.
VerifyFails ==
    /\ pc = "verify"
    /\ process[agents][task.role] = "none" \/ listener[task.role] = Nobody
    /\ Terminate({task.role})
    /\ GoOn(StartFailed)
    /\ UNCHANGED <<task, handle, listener, restarts, stop, agents, abandoned>>

\* With a GPU and a binary for it, a CPU worker is started, too.
CpuChoice ==
    /\ pc = "cpu_choice"
    /\ \/ Start("cpu", TRUE)
       \/ Goto("payload") /\ UNCHANGED task
    /\ UNCHANGED <<handle, processVars, restarts, stop, agents, history>>

\* Until the payload is built, an exception (a log file that cannot be opened, a
\* models directory that cannot be listed) leaves run_agent with no clean-up.
PayloadFails ==
    /\ pc \in {"cpu_choice", "payload"}
    /\ UNCHANGED process
    /\ Leave
    /\ abandoned' = abandoned \cup {agents}

Payload ==
    /\ pc = "payload"
    /\ Goto("setup")
    /\ UNCHANGED <<task, handle, processVars, restarts, stop, agents, history>>

\* The engine's log, the supervisor and the HTTP client; if one of them fails, both
\* workers are told to end.
Setup ==
    /\ pc = "setup"
    /\ Goto("register")
    /\ UNCHANGED <<task, handle, processVars, restarts, stop, agents, history>>
SetupFails ==
    /\ pc = "setup"
    /\ Terminate({r \in Role : handle[r] = "held"})
    /\ Leave
    /\ UNCHANGED abandoned

(***************************************************************************)
(* Running.                                                                *)
(***************************************************************************)

\* The registration loop ends: registered, or out for good (finally).
Register ==
    /\ pc = "register"
    /\ Goto("check_gpu") \/ Goto("finally")
    /\ UNCHANGED <<task, handle, processVars, restarts, stop, agents, history>>

\* A worker that exited is started again when its port is free within
\* --rpc-shutdown-timeout; a port that stays taken raises, which ends the agent.
Restart(r) ==
    /\ restarts' = [restarts EXCEPT ![r] = @ + 1]
    /\ IF listener[r] = Nobody THEN Start(r, FALSE)
                               ELSE Goto("finally") /\ UNCHANGED task

\* Mutant of CheckGpu: a worker that exited is not noticed.
CheckGpuBlind ==
    /\ pc = "check_gpu"
    /\ IF stop
       THEN Goto("finally") /\ UNCHANGED <<task, restarts>>
       ELSE /\ restarts' = [restarts EXCEPT !["gpu"] = 0]
            /\ Goto("check_cpu")
            /\ UNCHANGED task
    /\ UNCHANGED <<handle, processVars, stop, agents, history>>

\* Mutant of CheckGpu: the loop does not look at stop_event.
CheckGpuUnstoppable ==
    /\ pc = "check_gpu"
    /\ \/ /\ Running("gpu")
          /\ restarts' = [restarts EXCEPT !["gpu"] = 0]
          /\ Goto("check_cpu")
          /\ UNCHANGED task
       \/ /\ ~Running("gpu") /\ restarts["gpu"] >= MaxRestarts
          /\ Goto("finally")
          /\ UNCHANGED <<task, restarts>>
       \/ /\ ~Running("gpu") /\ restarts["gpu"] < MaxRestarts
          /\ Restart("gpu")
    /\ UNCHANGED <<handle, processVars, stop, agents, history>>

\* A round of the loop begins: stop_event, then the GPU worker.
CheckGpu ==
    /\ pc = "check_gpu"
    /\ \/ /\ stop \/ (~Running("gpu") /\ restarts["gpu"] >= MaxRestarts)
          /\ Goto("finally")
          /\ UNCHANGED <<task, restarts>>
       \/ /\ ~stop /\ Running("gpu")
          /\ restarts' = [restarts EXCEPT !["gpu"] = 0]
          /\ Goto("check_cpu")
          /\ UNCHANGED task
       \/ /\ ~stop /\ ~Running("gpu") /\ restarts["gpu"] < MaxRestarts
          /\ Restart("gpu")
    /\ UNCHANGED <<handle, processVars, stop, agents, history>>

\* The CPU worker, if there is one; without budget it is dropped.
CheckCpu ==
    /\ pc = "check_cpu"
    /\ \/ /\ handle["cpu"] = "none" \/ (~Running("cpu") /\ restarts["cpu"] >= MaxRestarts)
          /\ handle' = [handle EXCEPT !["cpu"] = "none"]
          /\ Goto("heartbeat")
          /\ UNCHANGED <<task, restarts>>
       \/ /\ Running("cpu")
          /\ restarts' = [restarts EXCEPT !["cpu"] = 0]
          /\ Goto("heartbeat")
          /\ UNCHANGED <<task, handle>>
       \/ /\ handle["cpu"] # "none" /\ ~Running("cpu") /\ restarts["cpu"] < MaxRestarts
          /\ Restart("cpu")
          /\ UNCHANGED handle
    /\ UNCHANGED <<processVars, stop, agents, history>>

\* The rest of the round, successful or not: the heartbeat and the command exchange
\* are CommandLoop's subject, and touch no worker.
Heartbeat ==
    /\ pc = "heartbeat"
    /\ Goto("check_gpu")
    /\ UNCHANGED <<task, handle, processVars, restarts, stop, agents, history>>

\* Mutant of Finally: no worker is terminated.
FinallyForgets ==
    /\ pc = "finally"
    /\ UNCHANGED <<process, abandoned>>
    /\ Leave

\* The finally clause tells the GPU worker to end, if it has a handle, and no other.
Finally ==
    /\ pc = "finally"
    /\ Terminate({r \in {"gpu"} : handle[r] = "held"})
    /\ Leave
    /\ UNCHANGED abandoned

(***************************************************************************)
(* The environment.                                                        *)
(***************************************************************************)
RequestStop ==
    /\ pc # "off"
    /\ ~stop
    /\ stop' = TRUE
    /\ UNCHANGED <<pc, task, handle, processVars, restarts, agents, history>>

\* A KeyboardInterrupt.  A worker that is being verified has no handle yet and is
\* left as it is, and the except clause around the first CPU worker goes on; one
\* in the finally clause skips what is left of it.  Elsewhere it does what an
\* exception does (SpawnFails, PayloadFails, SetupFails).
Interrupt ==
    /\ UNCHANGED <<task, processVars, restarts, stop, agents>>
    /\ \/ pc = "verify" /\ GoOn(StartFailed)
       \/ pc \in Loop \cup {"register"} /\ GoOn("finally")
       \/ pc = "finally" /\ GoOn("off")
    /\ handle' = IF pc' = "off" THEN [r \in Role |-> "none"] ELSE handle
    /\ abandoned' = IF pc = "finally" \/ (pc = "verify" /\ task.role = "gpu")
                    THEN abandoned \cup {agents} ELSE abandoned

Kill ==
    /\ pc # "off"
    /\ UNCHANGED process
    /\ Leave
    /\ abandoned' = abandoned \cup {agents}

\* A worker, of the current agent or left by an earlier one, binds its port, or
\* exits because the port is taken.
Bind(a, r) ==
    /\ process[a][r] # "none"
    /\ listener[r] = Nobody
    /\ listener' = [listener EXCEPT ![r] = a]
    /\ UNCHANGED <<pc, task, handle, process, restarts, stop, agents, history>>

FailToBind(a, r) ==
    /\ process[a][r] # "none"
    /\ listener[r] \notin {Nobody, a}
    /\ process' = [process EXCEPT ![a][r] = "none"]
    /\ UNCHANGED <<pc, task, handle, listener, restarts, stop, agents, history>>

\* It crashes, does as it was told, or is ended by the user.
WorkerEnds(a, r) ==
    /\ process[a][r] # "none"
    /\ process' = [process EXCEPT ![a][r] = "none"]
    /\ listener' = [listener EXCEPT ![r] = IF @ = a THEN Nobody ELSE @]
    /\ UNCHANGED <<pc, task, handle, restarts, stop, agents, history>>

WorkerStep == \E a \in Agent, r \in Role : Bind(a, r) \/ FailToBind(a, r) \/ WorkerEnds(a, r)

AgentStep ==
    \/ PortCheck
    \/ Spawn
    \/ SpawnFails
    \/ VerifyPasses
    \/ VerifyFails
    \/ CpuChoice
    \/ Payload
    \/ PayloadFails
    \/ Setup
    \/ SetupFails
    \/ Register
    \/ CheckGpu
    \/ CheckCpu
    \/ Heartbeat
    \/ Finally

Next ==
    \/ StartAgent
    \/ AgentStep
    \/ RequestStop
    \/ Interrupt
    \/ Kill
    \/ WorkerStep

Spec == Init /\ [][Next]_vars

\* The agent proceeds: every wait in it has a timeout, except the registration
\* loop, which only a stop request ends for sure.
FairSpec == Spec /\ WF_vars(AgentStep /\ (pc = "register" => stop))

(***************************************************************************)
(* Properties.                                                             *)
(***************************************************************************)

\* Types; a listening worker is there, and the restart counts keep to the budget.
TypeOK ==
    /\ pc \in PC
    /\ task \in [role : Role, boot : BOOLEAN]
    /\ handle \in [Role -> {"none", "held", "stale"}]
    /\ process \in [Agent -> [Role -> {"none", "running", "ending"}]]
    /\ listener \in [Role -> Agent \cup {Nobody}]
    /\ restarts \in [Role -> 0..MaxRestarts]
    /\ stop \in BOOLEAN
    /\ agents \in 0..MaxAgents
    /\ abandoned \subseteq Agent /\ late \subseteq Agent
    /\ \A r \in Role : listener[r] # Nobody => process[listener[r]][r] # "none"

\* What the port check at node_agent.py:1676 and the one before a restart are good
\* for: if another agent's worker listens on the GPU port of a running agent, and
\* passes for its worker in the preflight, it is one that had not bound the port
\* yet when its own agent ended.  A worker that had is always met by the check.
ForeignWorkerWasLate ==
    pc \notin {"off", "port_check"} /\ listener["gpu"] \notin {Nobody, agents}
        => listener["gpu"] \in late

\* A GPU worker that outlives its agent has been told to end, whichever way the
\* agent took out of run_agent, unless the agent was killed, failed between the
\* start of its workers and the protected part of run_agent, or was interrupted
\* before the worker had a handle or while it was stopping.
NoGpuOrphan ==
    \A a \in Agent : process[a]["gpu"] = "running" /\ (a = agents => pc = "off")
        => a \in abandoned

\* A GPU worker that exited is replaced, or the agent ends.
DeadGpuReplaced ==
    (pc \in Loop /\ ~Running("gpu")) ~> (Running("gpu") \/ pc = "off")

\* A stop request ends the agent even if workers keep crashing.
StopEnds == stop ~> pc = "off"
=============================================================================
