---------------------------- MODULE InstanceLock ----------------------------
(***************************************************************************)
(* How run_agent keeps a second agent of the same configuration from       *)
(* running (node_agent.py): the lock file of acquire_agent_instance_lock   *)
(* and release_agent_instance_lock, the check of the RPC port, and the     *)
(* worker start that follows, one action per system call that other        *)
(* processes can observe.                                                  *)
(*                                                                         *)
(* An element of Agent is one process, started at most once; a restarted   *)
(* agent is another element.  Unlinking a file that another process has    *)
(* open succeeds (POSIX), and leaves that process writing to a file that   *)
(* has no name any more.  terminate() only asks a worker to end: nobody    *)
(* waits for it, and it may still bind its port and hold it for a while.   *)
(***************************************************************************)
EXTENDS Naturals

CONSTANT Agent  \* the agent processes that are started, now and later

NoOne == "nobody"
ASSUME NoOneAssumption == NoOne \notin Agent

VARIABLES
    pc,         \* what each agent does next
    attempt,    \* its pass through the loop of acquire_agent_instance_lock
    file,       \* the lock file: who created it, in which attempt, its text
    worker,     \* each agent's RPC worker process
    portOwner,  \* the agent whose worker listens on the RPC port
    overlapped  \* history: an agent started while another was acquiring

vars == <<pc, attempt, file, worker, portOwner, overlapped>>
workerVars == <<worker, portOwner>>

Acquiring == {"create", "write", "inspect", "unlink"}
Holding == {"port_check", "spawn", "preflight", "running", "stopping",
            "release_read"}
Ended == {"refused", "exited", "killed"}
PC == Acquiring \cup Holding \cup Ended \cup {"new", "release_unlink"}

\* A process that psutil still finds, with the creation time the file names.
Alive(p) == pc[p] \notin Ended \cup {"new"}

NoFile == [by |-> NoOne, attempt |-> 0, text |-> NoOne]
LockFile == [by : Agent \cup {NoOne}, attempt : 0..2, text : Agent \cup {NoOne}]
Exists == file.by # NoOne

Goto(p, place) == pc' = [pc EXCEPT ![p] = place]

\* p's worker process is there, told to end or not.
Lives(p) == worker[p] \in {"running", "ending"}

Init ==
    /\ pc = [p \in Agent |-> "new"]
    /\ attempt = [p \in Agent |-> 0]
    /\ file = NoFile
    /\ worker = [p \in Agent |-> "none"]
    /\ portOwner = NoOne
    /\ overlapped = FALSE

Start(p) ==
    /\ pc[p] = "new"
    /\ overlapped' = (overlapped \/ \E q \in Agent : pc[q] \in Acquiring)
    /\ Goto(p, "create")
    /\ attempt' = [attempt EXCEPT ![p] = 1]
    /\ UNCHANGED <<file, workerVars>>

(***************************************************************************)
(* acquire_agent_instance_lock.                                            *)
(***************************************************************************)

\* os.open with O_CREAT | O_EXCL: the file appears empty, or exists already.
Create(p) ==
    /\ pc[p] = "create"
    /\ IF Exists
       THEN Goto(p, "inspect") /\ UNCHANGED file
       ELSE /\ file' = [by |-> p, attempt |-> attempt[p], text |-> NoOne]
            /\ Goto(p, "write")
    /\ UNCHANGED <<attempt, workerVars, overlapped>>

\* json.dump: the owner's text reaches the file that was opened, which may have
\* lost its name to another agent's unlink by now.
Write(p) ==
    /\ pc[p] = "write"
    /\ file' = IF file.by = p /\ file.attempt = attempt[p]
               THEN [file EXCEPT !.text = p] ELSE file
    /\ Goto(p, "port_check")
    /\ UNCHANGED <<attempt, workerVars, overlapped>>

\* Mutant of Inspect: the owner is never found to be the same process.
InspectDistrusting(p) ==
    /\ pc[p] = "inspect"
    /\ Goto(p, "unlink")
    /\ UNCHANGED <<attempt, file, workerVars, overlapped>>

\* An owner that is alive refuses the caller; a file that is gone, empty or
\* names a dead process is taken for stale.
Inspect(p) ==
    /\ pc[p] = "inspect"
    /\ Goto(p, IF Exists /\ file.text # NoOne /\ Alive(file.text)
               THEN "refused" ELSE "unlink")
    /\ UNCHANGED <<attempt, file, workerVars, overlapped>>

\* Mutant of Unlink: the loop has a single pass.
UnlinkGivesUp(p) ==
    /\ pc[p] = "unlink"
    /\ file' = NoFile
    /\ Goto(p, "refused")
    /\ UNCHANGED <<attempt, workerVars, overlapped>>

\* lock_path.unlink(missing_ok=True), by name: whatever file has the name now.
Unlink(p) ==
    /\ pc[p] = "unlink"
    /\ file' = NoFile
    /\ IF attempt[p] < 2
       THEN attempt' = [attempt EXCEPT ![p] = 2] /\ Goto(p, "create")
       ELSE Goto(p, "refused") /\ UNCHANGED attempt
    /\ UNCHANGED <<workerVars, overlapped>>

(***************************************************************************)
(* run_agent, from the port check to the main loop and back.               *)
(***************************************************************************)

\* A port that answers already belongs to somebody: release and give up.
PortCheck(p) ==
    /\ pc[p] = "port_check"
    /\ Goto(p, IF portOwner = NoOne THEN "spawn" ELSE "release_read")
    /\ UNCHANGED <<attempt, file, workerVars, overlapped>>

Spawn(p) ==
    /\ pc[p] = "spawn"
    /\ worker' = [worker EXCEPT ![p] = "running"]
    /\ Goto(p, "preflight")
    /\ UNCHANGED <<attempt, file, portOwner, overlapped>>

\* wait_for_rpc_ready: a worker that exited, or nobody listening in time, fails
\* the start; anybody listening on the port passes it.
Preflight(p) ==
    /\ pc[p] = "preflight"
    /\ \/ worker[p] = "running" /\ portOwner # NoOne /\ Goto(p, "running")
       \/ (worker[p] = "exited" \/ portOwner = NoOne) /\ Goto(p, "stopping")
    /\ UNCHANGED <<attempt, file, workerVars, overlapped>>

\* Mutant of Monitor: a worker that exited is not noticed.
MonitorBlind(p) ==
    /\ pc[p] = "running"
    /\ worker[p] = "none"
    /\ UNCHANGED vars

\* The main loop finds its worker exited.  The restart first waits for the port
\* to be free; if somebody keeps it, the agent stops.
Monitor(p) ==
    /\ pc[p] = "running"
    /\ worker[p] = "exited"
    /\ Goto(p, IF portOwner = NoOne THEN "spawn" ELSE "stopping")
    /\ UNCHANGED <<attempt, file, workerVars, overlapped>>

StopRequest(p) ==
    /\ pc[p] = "running"
    /\ Goto(p, "stopping")
    /\ UNCHANGED <<attempt, file, workerVars, overlapped>>

\* The worker is told to end, and the lock is released without waiting for it.
StopWorker(p) ==
    /\ pc[p] = "stopping"
    /\ worker' = [worker EXCEPT ![p] = IF @ = "running" THEN "ending" ELSE @]
    /\ Goto(p, "release_read")
    /\ UNCHANGED <<attempt, file, portOwner, overlapped>>

\* release_agent_instance_lock: a file naming another process is left alone.
ReleaseRead(p) ==
    /\ pc[p] = "release_read"
    /\ Goto(p, IF Exists /\ file.text = p THEN "release_unlink" ELSE "exited")
    /\ UNCHANGED <<attempt, file, workerVars, overlapped>>

ReleaseUnlink(p) ==
    /\ pc[p] = "release_unlink"
    /\ file' = NoFile
    /\ Goto(p, "exited")
    /\ UNCHANGED <<attempt, workerVars, overlapped>>

(***************************************************************************)
(* The environment.                                                        *)
(***************************************************************************)

\* An agent is killed: its file and its worker stay behind.
Kill(p) ==
    /\ Alive(p)
    /\ Goto(p, "killed")
    /\ UNCHANGED <<attempt, file, workerVars, overlapped>>

\* A KeyboardInterrupt while the worker is started, or in the finally clause: the
\* lock is released, and nobody tells the worker.
Interrupt(p) ==
    /\ pc[p] \in {"preflight", "stopping"}
    /\ Goto(p, "release_read")
    /\ UNCHANGED <<attempt, file, workerVars, overlapped>>

\* A worker binds the port when it is free; otherwise it exits.
Bind(p) ==
    /\ Lives(p)
    /\ portOwner = NoOne
    /\ portOwner' = p
    /\ UNCHANGED <<pc, attempt, file, worker, overlapped>>

FailToBind(p) ==
    /\ Lives(p)
    /\ portOwner \notin {NoOne, p}
    /\ worker' = [worker EXCEPT ![p] = "exited"]
    /\ UNCHANGED <<pc, attempt, file, portOwner, overlapped>>

\* A worker crashes, ends because it was told to, or is ended by somebody.
WorkerEnds(p) ==
    /\ Lives(p)
    /\ worker' = [worker EXCEPT ![p] = "exited"]
    /\ portOwner' = IF portOwner = p THEN NoOne ELSE portOwner
    /\ UNCHANGED <<pc, attempt, file, overlapped>>

Acquire(p) == Create(p) \/ Write(p) \/ Inspect(p) \/ Unlink(p)
Release(p) == ReleaseRead(p) \/ ReleaseUnlink(p)
AgentStep(p) ==
    \/ Acquire(p)
    \/ PortCheck(p)
    \/ Spawn(p)
    \/ Preflight(p)
    \/ Monitor(p)
    \/ StopWorker(p)
    \/ Release(p)
WorkerStep(p) == Bind(p) \/ FailToBind(p)

Next ==
    \E p \in Agent :
        \/ Start(p)
        \/ AgentStep(p)
        \/ StopRequest(p)
        \/ Kill(p)
        \/ Interrupt(p)
        \/ WorkerStep(p)
        \/ WorkerEnds(p)

Spec == Init /\ [][Next]_vars

\* Running processes take their next step: agents proceed, workers bind or exit.
\* Nothing makes an agent start, stop, be killed, or a worker crash.
FairSpec ==
    /\ Spec
    /\ \A p \in Agent : WF_vars(AgentStep(p)) /\ WF_vars(WorkerStep(p))

(***************************************************************************)
(* Properties.                                                             *)
(***************************************************************************)

\* Types, and the port belongs to a worker that is there.
TypeOK ==
    /\ pc \in [Agent -> PC]
    /\ attempt \in [Agent -> 0..2]
    /\ file \in LockFile
    /\ worker \in [Agent -> {"none", "running", "ending", "exited"}]
    /\ portOwner \in Agent \cup {NoOne}
    /\ overlapped \in BOOLEAN
    /\ portOwner # NoOne => Lives(portOwner)

Running(p) == pc[p] = "running"

\* node_agent.py:1679 "refusing to start a duplicate RAMDeck node": no two
\* agents of one configuration are ever in their main loops together.
OneAgent == \A p, q \in Agent : Running(p) /\ Running(q) => p = q

\* That holds as long as no agent starts while another is acquiring the lock:
\* wherever agents are killed, an agent past acquire_agent_instance_lock is the
\* one the file names, so that whoever comes later is refused.
LockNamesHolder ==
    \A p \in Agent : pc[p] \in Holding \cup {"release_unlink"}
        => Exists /\ file.text = p
SerialStarts == ~overlapped => OneAgent /\ LockNamesHolder

\* Killed agents lock nobody out: an agent that gives up acquiring was stopped by
\* another one, alive and named in the file, and gives up after its second pass
\* (node_agent.py:1421) only if somebody else was acquiring at the same time.
RefusedForCause ==
    [][ \A p \in Agent : pc[p] \in Acquiring /\ pc'[p] = "refused"
            => \/ \E q \in Agent \ {p} : Alive(q) /\ file.text = q
               \/ pc[p] = "unlink" /\ overlapped ]_vars

\* Two agents that slipped past the lock together do not stay together: only one
\* worker can hold the port, and the agent of the other one stops, is left alone,
\* or leaves the loop to start its worker again once the port is free.
Pairs == {pair \in SUBSET Agent : \E p, q \in pair : p # q /\ pair = {p, q}}
Together(pair) == \A p \in pair : Running(p)
DuplicateResolved == \A pair \in Pairs : Together(pair) ~> ~Together(pair)
=============================================================================
