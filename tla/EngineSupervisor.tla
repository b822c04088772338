---------------------------- MODULE EngineSupervisor ----------------------------
(***************************************************************************)
(* The EngineSupervisor (engine_supervisor.py): starting and stopping the  *)
(* llama-server of a node, with its fallbacks when a launch with RPC peers *)
(* fails.  Commands run in a thread of their own; the main thread of the   *)
(* agent stops the engine when the agent ends: after the command, or at    *)
(* any moment when it is interrupted.                                      *)
(*                                                                         *)
(* Killing a process works (terminate, then kill).  One port is used.      *)
(* A llama-server left over by an earlier agent may have it, and another   *)
(* program may take it when it is free; either may answer a health check,  *)
(* since any 200 with the status "ok" is taken for an answer.  The server  *)
(* processes are a pool: an exited one that nobody refers to is reused.    *)
(***************************************************************************)
EXTENDS Naturals, FiniteSets

CONSTANTS
    Server,     \* bound: the llama-server processes that exist at a time
    MaxPeers    \* bound: the RPC peers a start command names

ASSUME MaxPeersAssumption == MaxPeers \in Nat

NoServer == "none"
Leftover == "leftover"      \* a llama-server of an earlier agent
OtherProgram == "other"     \* something else that accepts connections
Nobody == "nobody"
ASSUME ServerAssumption ==
    {NoServer, Leftover, OtherProgram, Nobody} \cap Server = {}

VARIABLES
    pc,         \* the command thread
    after,      \* what follows the stop() it is in
    job,        \* the start command: its peers (none when the fallback is
                \* switched off), its launches, the reduced topologies left,
                \* its stage
    held,       \* local variable of stop(), per thread
    process,    \* self.process
    procs,      \* the server processes
    listener,   \* who has the port
    diag,       \* last_launch_diagnostic: its reason, and whether it is the
                \* present command's
    reply,      \* the result of the latest command
    mainPc,     \* the main thread
    interrupted,\* history: the main thread did not wait for the command
    late        \* history: who has the port took it after the present start
                \* had found it free

cmdVars == <<pc, after, job>>
hostVars == <<process, procs, listener>>
mainVars == <<mainPc, interrupted, late>>
vars == <<cmdVars, held, hostVars, diag, reply, mainVars>>

Thread == {"command", "main"}
Reason == {"none", "ready", "model_missing", "infeasible",
           "peer_or_unknown",   \* rpc_peer_unreachable, process_exited, timeout
           "other"}             \* port, backend, model or memory failed
Failure == {"peer_or_unknown", "other"}

Job == [peers : 0..MaxPeers, launches : 0..MaxPeers + 2, left : 0..MaxPeers,
        stage : {"first", "reduced", "standalone"}]

Live(s) == s \in Server /\ procs[s] \in {"starting", "healthy"}
Going == mainPc # "ended"

Stops == pc \in {"forget", "kill"}

\* The present start has found the port free and goes on.
Past == \/ pc \in {"launch", "wait", "confirm", "failed", "topology"}
        \/ Stops /\ after \in {"attempt", "fallback"}

\* Somebody on the port may answer 200 and "ok".
Answers == listener # Nobody /\ (listener \in Server => procs[listener] = "healthy")

Init ==
    /\ pc = "idle"
    /\ after = "start"
    /\ job = [peers |-> 0, launches |-> 0, left |-> 0, stage |-> "first"]
    /\ held = [t \in Thread |-> NoServer]
    /\ process = NoServer
    /\ procs = [s \in Server |-> "exited"]
    /\ listener \in {Nobody, Leftover}
    /\ diag = [own |-> FALSE, reason |-> "none"]
    /\ reply = "none"
    /\ mainPc = "running"
    /\ interrupted = FALSE
    /\ late = FALSE

Stopping(next) == pc' = "forget" /\ after' = next

\* What follows stop(), and what its TimeoutError leads to.
Proceed(next) == CASE next = "start" -> "port"
                   [] next = "attempt" -> "failed"
                   [] next = "fallback" -> "topology"
                   [] next = "stop" -> "stopped"
Raised(next) == IF next = "attempt" THEN "failed" ELSE "raised"

(***************************************************************************)
(* execute(): commands come one at a time.                                 *)
(***************************************************************************)
Begin == mainPc = "running" /\ pc = "idle"

\* Without a model file or a binary the engine is left alone (and only the
\* missing model is noted); otherwise the running engine is stopped first.
\* Reduced topologies need two peers and a fit target for each of them.
BeginStart(peers, candidates) ==
    /\ Begin
    /\ job' = [peers |-> peers, launches |-> 0, left |-> candidates, stage |-> "first"]
    /\ \/ /\ diag' = [own |-> TRUE, reason |-> "model_missing"]
          /\ reply' = "error"
          /\ UNCHANGED <<pc, after>>
       \/ /\ diag' = [diag EXCEPT !.own = FALSE]
          /\ reply' = "error"
          /\ UNCHANGED <<pc, after>>
       \/ /\ diag' = [diag EXCEPT !.own = FALSE]
          /\ reply' = "none"
          /\ Stopping("start")
    /\ late' = FALSE
    /\ UNCHANGED <<held, hostVars, mainPc, interrupted>>

BeginStop ==
    /\ Begin
    /\ Stopping("stop")
    /\ reply' = "none"
    /\ UNCHANGED <<job, held, hostVars, diag, mainVars>>

\* Mutant of PortFree: the port is not looked at.
PortUnchecked ==
    /\ Going /\ pc = "port"
    /\ pc' = "launch"
    /\ UNCHANGED <<after, job, held, hostVars, diag, reply, mainVars>>

\* _wait_for_port_free before the first launch.
PortFree ==
    /\ Going /\ pc = "port"
    /\ pc' = IF listener = Nobody THEN "launch" ELSE "raised"
    /\ UNCHANGED <<after, job, held, hostVars, diag, reply, mainVars>>

\* The command ends with an error, or, for stop, with success.
EndCommand ==
    /\ Going /\ pc \in {"raised", "stopped"}
    /\ pc' = "idle"
    /\ reply' = IF pc = "raised" THEN "error" ELSE "ok"
    /\ UNCHANGED <<after, job, held, hostVars, diag, mainVars>>

(***************************************************************************)
(* _launch_once and _wait_until_healthy.                                   *)
(***************************************************************************)
Referenced == {process, held["command"], held["main"]}

Launch(s) ==
    /\ Going /\ pc = "launch"
    /\ ~Live(s) /\ s \notin Referenced \ {process}
    /\ procs' = [procs EXCEPT ![s] = "starting"]
    /\ process' = s
    /\ job' = [job EXCEPT !.launches = @ + 1]
    /\ pc' = "wait"
    /\ UNCHANGED <<after, held, listener, diag, reply, mainVars>>

PopenFails ==
    /\ Going /\ pc = "launch"
    /\ pc' = "failed"
    /\ UNCHANGED <<after, job, held, hostVars, diag, reply, mainVars>>

\* 200 and "ok" from the port.  The process was there when it was asked; it may be
\* gone by the answer.  start() waits once more after the first launch.
Healthy ==
    /\ Going /\ pc \in {"wait", "confirm"}
    /\ Answers
    /\ IF pc = "wait" /\ job.stage = "first"
       THEN pc' = "confirm" /\ UNCHANGED <<diag, reply>>
       ELSE /\ pc' = "idle"
            /\ reply' = "ok"
            /\ diag' = [own |-> TRUE, reason |-> "ready"]
    /\ UNCHANGED <<after, job, held, hostVars, mainVars>>

\* The reason is guessed from the log.
ServerExited ==
    /\ Going /\ pc \in {"wait", "confirm"}
    /\ ~Live(process)
    /\ \E r \in Failure : diag' = [own |-> TRUE, reason |-> r]
    /\ pc' = "failed"
    /\ UNCHANGED <<after, job, held, hostVars, reply, mainVars>>

\* Mutant of NotInTime: the server is not stopped.
NotInTimeLeft ==
    /\ Going /\ pc \in {"wait", "confirm"}
    /\ \E r \in Failure : diag' = [own |-> TRUE, reason |-> r]
    /\ pc' = "failed"
    /\ UNCHANGED <<after, job, held, hostVars, reply, mainVars>>

NotInTime ==
    /\ Going /\ pc \in {"wait", "confirm"}
    /\ \E r \in Failure : diag' = [own |-> TRUE, reason |-> r]
    /\ Stopping("attempt")
    /\ UNCHANGED <<job, held, hostVars, reply, mainVars>>

(***************************************************************************)
(* The except clause of start() and the launches in it.                    *)
(***************************************************************************)

\* The first launch failed.  The decision rests on last_launch_diagnostic, which
\* is an earlier command's if the process could not be created.
FirstFailed ==
    LET reason == IF diag.reason = "none" THEN "peer_or_unknown" ELSE diag.reason
        fallback == job.peers > 0 /\ reason = "peer_or_unknown" IN
    /\ Going /\ pc = "failed" /\ job.stage = "first"
    /\ \/ /\ ~fallback
          /\ pc' = "raised"
          /\ diag' = [own |-> diag.own \/ diag.reason = "none", reason |-> reason]
          /\ UNCHANGED after
       \/ /\ fallback
          /\ pc' = "raised"
          /\ diag' = [own |-> TRUE, reason |-> "infeasible"]
          /\ UNCHANGED after
       \/ /\ fallback
          /\ Stopping("fallback")
          /\ diag' = [own |-> diag.own \/ diag.reason = "none", reason |-> reason]
    /\ UNCHANGED <<job, held, hostVars, reply, mainVars>>

\* Mutant of NextTopology: the candidate that failed is tried again.
NextTopologyAgain ==
    /\ Going
    /\ pc = "topology" \/ (pc = "failed" /\ job.stage = "reduced")
    /\ job' = IF job.left > 0
              THEN [job EXCEPT !.stage = "reduced", !.launches = 1]
              ELSE [job EXCEPT !.stage = "standalone"]
    /\ pc' = "launch"
    /\ UNCHANGED <<after, held, hostVars, diag, reply, mainVars>>

\* Each reduced topology in turn, and the launch without peers after the last.
NextTopology ==
    /\ Going
    /\ pc = "topology" \/ (pc = "failed" /\ job.stage = "reduced")
    /\ job' = IF job.left > 0
              THEN [job EXCEPT !.stage = "reduced", !.left = @ - 1]
              ELSE [job EXCEPT !.stage = "standalone"]
    /\ pc' = "launch"
    /\ UNCHANGED <<after, held, hostVars, diag, reply, mainVars>>

StandaloneFailed ==
    /\ Going /\ pc = "failed" /\ job.stage = "standalone"
    /\ pc' = "raised"
    /\ UNCHANGED <<after, job, held, hostVars, diag, reply, mainVars>>

(***************************************************************************)
(* stop(), by either thread: the process is forgotten first, killed then.  *)
(***************************************************************************)
Forget(t) == held' = [held EXCEPT ![t] = process] /\ process' = NoServer

Terminate(t) ==
    /\ procs' = [s \in Server |-> IF s = held[t] THEN "exited" ELSE procs[s]]
    /\ listener' = IF listener = held[t] THEN Nobody ELSE listener
    /\ held' = [held EXCEPT ![t] = NoServer]

CommandForgets ==
    /\ Going /\ pc = "forget"
    /\ IF Live(process)
       THEN Forget("command") /\ pc' = "kill"
       ELSE process' = NoServer /\ pc' = Proceed(after) /\ UNCHANGED held
    /\ UNCHANGED <<after, job, procs, listener, diag, reply, mainVars>>

\* _terminate_process_tree, then the wait for the port, which may time out.
CommandKills ==
    /\ Going /\ pc = "kill"
    /\ Terminate("command")
    /\ pc' = IF listener' = Nobody THEN Proceed(after) ELSE Raised(after)
    /\ UNCHANGED <<after, job, process, diag, reply, mainVars>>

\* The agent ends: after the command, or in the middle of it.
Shutdown ==
    /\ mainPc = "running"
    /\ mainPc' = "kill"
    /\ interrupted' = (pc # "idle")
    /\ Forget("main")
    /\ UNCHANGED <<cmdVars, procs, listener, diag, reply, late>>

\* Mutant of MainKills: the process has been forgotten before it is looked at.
MainForgets ==
    /\ mainPc = "kill"
    /\ mainPc' = "ended"
    /\ held' = [held EXCEPT !["main"] = NoServer]
    /\ UNCHANGED <<cmdVars, process, procs, listener, diag, reply, interrupted, late>>

MainKills ==
    /\ mainPc = "kill"
    /\ mainPc' = "ended"
    /\ Terminate("main")
    /\ UNCHANGED <<cmdVars, process, diag, reply, interrupted, late>>

(***************************************************************************)
(* The environment: the servers, the peers behind them, other programs.    *)
(***************************************************************************)
Bind(s) ==
    /\ Live(s) /\ procs[s] = "starting"
    /\ listener = Nobody
    /\ listener' = s
    /\ UNCHANGED <<cmdVars, held, process, procs, diag, reply, mainVars>>

Load(s) ==
    /\ listener = s /\ procs[s] = "starting"
    /\ procs' = [procs EXCEPT ![s] = "healthy"]
    /\ UNCHANGED <<cmdVars, held, process, listener, diag, reply, mainVars>>

\* A server fails to bind or load, or crashes.
Exit(s) ==
    /\ Live(s)
    /\ procs' = [procs EXCEPT ![s] = "exited"]
    /\ listener' = IF listener = s THEN Nobody ELSE listener
    /\ UNCHANGED <<cmdVars, held, process, diag, reply, mainVars>>

OtherTakesPort ==
    /\ listener = Nobody
    /\ listener' = OtherProgram
    /\ late' = Past
    /\ UNCHANGED <<cmdVars, held, process, procs, diag, reply, mainPc, interrupted>>

OtherEnds ==
    /\ listener \in {Leftover, OtherProgram}
    /\ listener' = Nobody
    /\ UNCHANGED <<cmdVars, held, process, procs, diag, reply, mainVars>>

CommandStep ==
    \/ PortFree
    \/ EndCommand
    \/ \E s \in Server : Launch(s)
    \/ PopenFails
    \/ Healthy
    \/ ServerExited
    \/ NotInTime
    \/ FirstFailed
    \/ NextTopology
    \/ StandaloneFailed
    \/ CommandForgets
    \/ CommandKills

Next ==
    \/ \E peers \in 0..MaxPeers :
          \E candidates \in {0, IF peers > 1 THEN peers ELSE 0} :
             BeginStart(peers, candidates)
    \/ BeginStop
    \/ CommandStep
    \/ Shutdown
    \/ MainKills
    \/ \E s \in Server : Bind(s) \/ Load(s) \/ Exit(s)
    \/ OtherTakesPort
    \/ OtherEnds

Spec == Init /\ [][Next]_vars

\* The command thread goes on: every wait in it has a timeout.
FairSpec == Spec /\ WF_vars(CommandStep)

(***************************************************************************)
(* Properties.                                                             *)
(***************************************************************************)

\* Types; the port's owner runs, and a start makes a bounded number of launches.
TypeOK ==
    /\ pc \in {"idle", "forget", "kill", "port", "launch", "wait", "confirm",
               "failed", "topology", "raised", "stopped"}
    /\ after \in {"start", "attempt", "fallback", "stop"}
    /\ job \in Job
    /\ held \in [Thread -> Server \cup {NoServer}]
    /\ process \in Server \cup {NoServer}
    /\ procs \in [Server -> {"starting", "healthy", "exited"}]
    /\ listener \in Server \cup {Nobody, Leftover, OtherProgram}
    /\ listener \in Server => Live(listener)
    /\ diag \in [own : BOOLEAN, reason : Reason]
    /\ reply \in {"none", "ok", "error"}
    /\ mainPc \in {"running", "kill", "ended"}
    /\ interrupted \in BOOLEAN
    /\ late \in BOOLEAN

\* Every llama-server that runs is the one the supervisor knows or one that a
\* stop() is about to kill: no timeout, retry, fallback or stop in the middle of
\* a start leaves a second one behind.  None survives the agent, unless it is
\* interrupted in the middle of a command; then one may, but no more.
NoLostServer ==
    LET live == {s \in Server : Live(s)} IN
    /\ live \subseteq Referenced
    /\ mainPc = "ended" => Cardinality(live) <= (IF interrupted THEN 1 ELSE 0)

\* A start is answered "ok" on the word of its own server.  There are two exceptions:
\* a program that took the port after the start had found it free, before its
\* server bound it or between two launches, and a server that the main thread is
\* killing because the agent is interrupted.  No program that had the port when the
\* start looked at it ever answers for its server.
ForeignAnswerWasLate ==
    [][ Healthy => listener \in {process, held["main"]} \/ late ]_vars

\* A start that launched anything and is answered with an error leaves no server
\* running, whichever of its launches failed and how.
FailedStartLeavesNothing ==
    mainPc = "running" /\ pc = "idle" /\ reply = "error" /\ job.launches > 0
        => \A s \in Server : ~Live(s)

\* Every command is answered, unless the agent ends first.
CommandEnds == (pc # "idle") ~> (pc = "idle" \/ mainPc = "ended")
=============================================================================
