---------------------------- MODULE SplitController ----------------------------
(***************************************************************************)
(* The split diagnostic (split_controller.py): it starts a worker on this  *)
(* host and a llama-server on the other one, waits until the server's log  *)
(* shows an acceptable placement, in the sample stage sends one request,   *)
(* ends the server, then the worker, and writes a report.  The sample      *)
(* stage asks for the report of a placement run that passed.               *)
(*                                                                         *)
(* A timeout may expire whenever the code looks at the clock; it does not  *)
(* in readline() and in stderr.read().  The capacity probe is given to the *)
(* controller: it refuses while a server or a worker is left               *)
(* (validate_capacity).  The operator starts no run while an earlier run's *)
(* helper is still at work.                                                *)
(***************************************************************************)
EXTENDS RemoteHelper

CONSTANTS
    Config,         \* what config_fingerprint tells apart
    MaxRuns         \* bound on the runs

ASSUME RunsAssumption == MaxRuns \in Nat

NoConfig == "none"
ASSUME ConfigAssumption == NoConfig \notin Config
\* validate_placement asks for something.
ASSUME MeasurementAssumption == Required # {}

VARIABLES
    ctl,        \* what the controller does next
    stage, config,
    local,      \* the worker on this host
    started,    \* local_started and remote_started
    seen,       \* the measurements among the log lines read
    lastError,  \* the kind of the last error raised by a read
    passed,     \* report["passed"], before cleanup
    receipts,   \* the cleanup sections of the report
    failed,     \* the sections of cleanup_errors
    blocked,    \* _read_line is in readline() with half a line, or in stderr.read()
    reports,    \* the passing reports written
    runs,
    proved      \* configs whose passing reports were true (a history variable)

runVars == <<stage, config, started, seen, lastError, passed, receipts, failed, blocked>>
pastVars == <<reports, runs, proved>>
vars == <<remoteVars, ctl, local, runVars, pastVars>>

Owner == {"tiny", "mac"}
Report == [stage : {"placement", "sample"}, config : Config]

Trying == {"startLocal", "waitReady", "launch", "identity", "placement", "request", "response"}
Cleaning == {"stopRemote", "receipt", "transport", "stopLocal", "write"}

TypeOK ==
    /\ RemoteTypeOK
    /\ ctl \in Trying \cup Cleaning \cup {"idle"}
    /\ stage \in {"none", "placement", "sample"} /\ config \in Config \cup {NoConfig}
    /\ local \in {"none", "running", "exited"}
    /\ started \in SUBSET Owner
    /\ receipts \in SUBSET started /\ failed \in SUBSET started
    /\ seen \in SUBSET Required
    /\ lastError \in {"none", "timed out", "ended"}
    /\ passed \in BOOLEAN /\ blocked \in BOOLEAN
    /\ reports \in SUBSET Report
    /\ runs \in 0..MaxRuns
    /\ proved \in SUBSET Config

Init ==
    /\ NoRemote
    /\ ctl = "idle" /\ local = "none"
    /\ stage = "none" /\ config = NoConfig
    /\ started = {} /\ seen = {} /\ lastError = "none"
    /\ passed = FALSE /\ receipts = {} /\ failed = {} /\ blocked = FALSE
    /\ reports = {} /\ runs = 0 /\ proved = {}

-----------------------------------------------------------------------------
(* Starting.                                                               *)

\* Mutant of Approved: a report made with another configuration does, too.
ApprovedByAny(s, c) == s = "sample" => \E r \in reports : r.stage = "placement"

\* _validate_stage1_report.
Approved(s, c) == s = "sample" => [stage |-> "placement", config |-> c] \in reports

\* Mutant of CapacityGate: only this host is looked at.
GateHere == local # "running"

\* validate_capacity refuses while something of an earlier run is left.
CapacityGate == server # "running" /\ local # "running"

\* run() up to its try; every refusal leaves the state alone.
Begin(s, c) ==
    /\ ctl = "idle" /\ runs < MaxRuns
    /\ Approved(s, c)
    /\ CapacityGate /\ HelperGone
    /\ ctl' = "startLocal" /\ runs' = runs + 1
    /\ RemoteReset /\ local' = "none"
    /\ stage' = s /\ config' = c
    /\ UNCHANGED <<started, seen, lastError, passed, receipts, failed, blocked, reports, proved>>

\* The controller's process ends, with what it knew.
Quit ==
    /\ ctl' = "idle" /\ HangUp
    /\ started' = {} /\ seen' = {} /\ lastError' = "none"
    /\ passed' = FALSE /\ receipts' = {} /\ failed' = {} /\ blocked' = FALSE
    /\ stage' = "none" /\ config' = NoConfig
    /\ UNCHANGED <<local, runs>>

\* What ends the try: its last statement, or whatever is raised in it.
ToCleanup == ctl' = "stopRemote"

\* A step fails, or a deadline passes where the code looks at the clock.
Raise ==
    /\ ctl \in Trying /\ ~blocked /\ ToCleanup
    /\ UNCHANGED <<remoteVars, local, runVars, pastVars>>

\* LocalOwnedProcess.start; it may fail (Raise) before there is a process.
StartLocal ==
    /\ ctl = "startLocal"
    /\ ctl' = "waitReady" /\ local' = "running" /\ started' = started \cup {"mac"}
    /\ UNCHANGED <<remoteVars, stage, config, seen, lastError, passed, receipts, failed, blocked, pastVars>>

MacReady ==
    /\ ctl = "waitReady"
    /\ ctl' = "launch"
    /\ UNCHANGED <<remoteVars, local, runVars, pastVars>>

\* RemoteOwnedProcess.start.
LaunchRemote ==
    /\ ctl = "launch"
    /\ ctl' = "identity" /\ Launch
    /\ UNCHANGED <<local, runVars, pastVars>>

ReadIdentity ==
    /\ ctl = "identity"
    /\ \E l \in Line :
          /\ Receive(l)
          /\ IF l = "identity"
             THEN ctl' = "placement" /\ started' = started \cup {"tiny"}
             ELSE ToCleanup /\ UNCHANGED started
    /\ blocked' = FALSE
    /\ UNCHANGED <<local, stage, config, seen, lastError, passed, receipts, failed, pastVars>>

-----------------------------------------------------------------------------
(* The gate and the request.                                               *)

\* validate_placement of what was logged so far.
Valid(measured) == Required \subseteq measured

\* _wait_for_placement and _reject_early.  Only log lines count; the receipt
\* of a server that ended by itself is passed over.
ReadPlacement ==
    /\ ctl = "placement"
    /\ \E l \in Line :
          /\ Receive(l)
          /\ seen' = seen \cup ({l} \cap Required)
          /\ \/ /\ l \in {"reject", "garbled", "ok", "failed"}
                /\ ToCleanup /\ UNCHANGED passed
             \/ /\ l \notin {"reject", "ok", "failed"}
                /\ IF Valid(seen') THEN
                      /\ ctl' = IF stage = "sample" THEN "request" ELSE "stopRemote"
                      /\ passed' = (stage = "placement")
                   ELSE UNCHANGED <<ctl, passed>>
    /\ blocked' = FALSE
    /\ UNCHANGED <<local, stage, config, started, lastError, receipts, failed, pastVars>>

\* request_once
SendRequest ==
    /\ ctl = "request"
    /\ ctl' = "response" /\ Send("REQUEST")
    /\ UNCHANGED <<local, runVars, pastVars>>

\* _send_one_request.  Lines of the log are passed over.
ReadResponse ==
    /\ ctl = "response"
    /\ \E l \in Line :
          /\ Receive(l)
          /\ \/ l = "ok" /\ ToCleanup /\ passed' = TRUE
             \/ l \in {"failed", "garbled"} /\ ToCleanup /\ UNCHANGED passed
             \/ l \notin {"ok", "failed"} /\ UNCHANGED <<ctl, passed>>
    /\ blocked' = FALSE
    /\ UNCHANGED <<local, stage, config, started, seen, lastError, receipts, failed, pastVars>>

\* The errors of _read_line in the three phases that read.
ReadFails ==
    /\ ctl \in {"identity", "placement", "response"}
    /\ \/ NothingToSelect /\ lastError' = "timed out"
       \/ EndOfStream /\ lastError' = "ended"
    /\ ToCleanup /\ blocked' = FALSE
    /\ UNCHANGED <<remoteVars, local, stage, config, started, seen, passed, receipts, failed, pastVars>>

\* _read_line waits without looking at the clock: for the end of a line, or, at the
\* end of the stream, for that of ssh's stderr.  The read goes on (ReadIdentity and
\* the others, ReadFails, StopRemoteFails) when what it waits for has come.
Block ==
    /\ ctl \in {"identity", "placement", "response", "receipt"} /\ ~blocked
    /\ MayBeHalf \/ EndOfStream
    /\ blocked' = TRUE
    /\ UNCHANGED <<remoteVars, ctl, local, stage, config, started, seen, lastError, passed,
                   receipts, failed, pastVars>>
Stuck == blocked /\ (MayBeHalf \/ EndOfStream)

-----------------------------------------------------------------------------
(* The finally clause of run().                                            *)

\* Mutant of StopRemote: the worker is stopped as soon as STOP is written.
StopRemoteAtOnce ==
    /\ ctl = "stopRemote"
    /\ ctl' = "stopLocal"
    /\ IF "tiny" \in started THEN Send("STOP") ELSE UNCHANGED remoteVars
    /\ UNCHANGED <<local, runVars, pastVars>>

\* RemoteOwnedProcess.stop: it sends STOP.
StopRemote ==
    /\ ctl = "stopRemote"
    /\ IF "tiny" \in started THEN ctl' = "receipt" /\ Send("STOP")
       ELSE ctl' = "stopLocal" /\ UNCHANGED remoteVars
    /\ UNCHANGED <<local, runVars, pastVars>>

\* Mutant of RemoteCleanupFails: the exception is swallowed.
RemoteCleanupSwallows ==
    /\ ctl' = "stopLocal" /\ blocked' = FALSE
    /\ UNCHANGED <<local, stage, config, started, seen, lastError, passed, receipts, failed, pastVars>>

\* An exception in remote_owner.stop(): a broken pipe, a timeout, the end of
\* the stream.
RemoteCleanupFails ==
    /\ failed' = failed \cup {"tiny"} /\ ctl' = "stopLocal" /\ blocked' = FALSE
    /\ UNCHANGED <<local, stage, config, started, seen, lastError, passed, receipts, pastVars>>

\* Mutant of StopRemoteFails: stop() has no deadline.
StopRemoteWaits ==
    /\ ctl \in {"stopRemote", "receipt", "transport"} /\ "tiny" \in started /\ AtEnd
    /\ RemoteCleanupFails
    /\ UNCHANGED remoteVars

\* Writing STOP fails when ssh is gone; the wait for the receipt and the wait
\* for ssh may fail at any time.
StopRemoteFails ==
    /\ \/ ctl = "stopRemote" /\ "tiny" \in started /\ AtEnd
       \/ ctl \in {"receipt", "transport"} /\ (blocked => EndOfStream)
    /\ RemoteCleanupFails
    /\ UNCHANGED remoteVars

\* Mutant of Validated: a receipt that proves nothing will do.
ValidatedAny(l) == l \in {"absent", "present"}

\* CleanupReceipt.validate.
Validated(l) == l = "absent"

\* stop() reads on to the receipt.
ReadReceipt ==
    /\ ctl = "receipt"
    /\ \E l \in Line :
          /\ Receive(l)
          /\ \/ l \in {"absent", "present", "garbled"} /\ ~Validated(l) /\ RemoteCleanupFails
             \/ /\ Validated(l) \/ l \notin {"absent", "present"}
                /\ ctl' = IF Validated(l) THEN "transport" ELSE ctl
                /\ blocked' = FALSE
                /\ UNCHANGED <<local, stage, config, started, seen, lastError, passed,
                               receipts, failed, pastVars>>

\* transport.wait; the receipt enters the report.
RemoteStopped ==
    /\ ctl = "transport" /\ AtEnd
    /\ ctl' = "stopLocal" /\ receipts' = receipts \cup {"tiny"}
    /\ UNCHANGED <<remoteVars, local, stage, config, started, seen, lastError, passed, failed, blocked, pastVars>>

\* LocalOwnedProcess.stop.  It fails when SIGKILL does not end the worker and
\* when the worker ends between poll() and killpg().
StopLocal ==
    /\ ctl = "stopLocal"
    /\ ctl' = "write"
    /\ \/ "mac" \notin started /\ UNCHANGED <<local, receipts, failed>>
       \/ /\ "mac" \in started
          /\ local' = "exited" /\ receipts' = receipts \cup {"mac"}
          /\ UNCHANGED failed
       \/ /\ "mac" \in started /\ local = "running"
          /\ local' \in {"running", "exited"} /\ failed' = failed \cup {"mac"}
          /\ UNCHANGED receipts
    /\ UNCHANGED <<remoteVars, stage, config, started, seen, lastError, passed, blocked, pastVars>>

\* A run that passed, cleanup included.
Passed == passed /\ failed = {}

\* What such a run claims.
Fact ==
    /\ Valid(seen)
    /\ server = "exited" /\ local = "exited"
    /\ stage = "sample" => requests = 1

\* _write_report replaces the file in one step.  A report that did not pass
\* opens nothing and is left out; a report that could not be written leaves
\* what Kill leaves.
WriteReport ==
    /\ ctl = "write"
    /\ Quit
    /\ reports' = IF Passed THEN reports \cup {[stage |-> stage, config |-> config]} ELSE reports
    /\ proved' = IF Passed /\ Fact THEN proved \cup {config} ELSE proved

-----------------------------------------------------------------------------
(* What may happen at any time.                                            *)

\* Ctrl-C on the terminal, inside the try: it ends ssh, too; or it comes after
\* the worker's Popen and before local_started.
Interrupt ==
    /\ ctl \in Trying /\ ToCleanup
    /\ blocked' = FALSE
    /\ \/ (IF link = "up" THEN LinkDrops ELSE UNCHANGED remoteVars) /\ UNCHANGED local
       \/ ctl = "startLocal" /\ local' = "running" /\ UNCHANGED remoteVars
    /\ UNCHANGED <<stage, config, started, seen, lastError, passed, receipts, failed, pastVars>>

\* The controller is killed, or interrupted again while it cleans up.
Kill ==
    /\ ctl # "idle"
    /\ Quit
    /\ UNCHANGED <<reports, proved>>

\* The worker ends by itself, or the operator ends one that was left.
LocalDies ==
    /\ local = "running"
    /\ local' = "exited"
    /\ UNCHANGED <<remoteVars, ctl, runVars, pastVars>>

Remote(A) == A /\ UNCHANGED <<ctl, local, runVars, pastVars>>

Controller ==
    \/ Raise \/ StartLocal \/ MacReady \/ LaunchRemote \/ ReadIdentity
    \/ ReadPlacement \/ SendRequest \/ ReadResponse \/ ReadFails
    \/ StopRemote \/ StopRemoteFails \/ ReadReceipt \/ RemoteStopped
    \/ StopLocal \/ WriteReport

Next ==
    \/ \E s \in {"placement", "sample"}, c \in Config : Begin(s, c)
    \/ Controller
    \/ Block \/ Interrupt \/ Kill \/ LocalDies
    \/ Remote(RemoteNext)

Spec == Init /\ [][Next]_vars

\* The controller goes on, but for a read that is stuck.  The other host may hang
\* during a run; what it is left with when the controller is gone, it does in the
\* end (a reader that serves a request ends by urlopen's timeout).
FairSpec ==
    /\ Spec
    /\ WF_vars(~Stuck /\ Controller)
    /\ WF_vars(ctl = "idle" /\ Remote(HelperStep))

-----------------------------------------------------------------------------
(* Properties.                                                             *)

\* A run whose report says that it passed saw every measurement, sent its
\* request when it had one to send, and left neither the server nor the
\* worker, whatever was lost, late or run together on the way (run(), the
\* receipts of both owners).
PassProves == ctl = "write" /\ Passed => Fact /\ receipts = Owner

\* What a run leaves running after it got hold of it is among the errors it
\* reports: no cleanup is taken for done that was not (the finally clause of
\* run(), CleanupReceipt.validate).
LeftIsReported ==
    ctl = "write" =>
        /\ server = "running" /\ "tiny" \in started => "tiny" \in failed
        /\ local = "running" /\ "mac" \in started => "mac" \in failed

\* A sample runs only with a configuration of which an earlier run, in an
\* earlier process, truly passed and left nothing (_validate_stage1_report).
SampleNeedsProof == ctl # "idle" /\ stage = "sample" => config \in proved

\* The controller makes runs one at a time and on clean hosts, and what it reports
\* as passed has shown its measurements (and sent its request), with neither the
\* server nor the worker alive: whatever is killed, lost or late, also between runs
\* (run(), validate_capacity, _write_report).
Runs == INSTANCE DiagnosticRuns WITH
    shown <- stage # "none" /\ Valid(seen) /\ (stage = "sample" => requests = 1),
    alive <- {o \in Owner : IF o = "tiny" THEN server = "running" ELSE local = "running"}
RunsRefinement == Runs!RunsSpec

\* The worker is never stopped under a server that still uses it, unless the
\* server's own cleanup failed (run(): Tiny before Mac).
HeadBeforeWorker ==
    [][ (ctl = "stopLocal" /\ ctl' = "write" /\ "mac" \in started /\ "tiny" \in started)
            => server # "running" \/ "tiny" \in failed ]_vars

\* Every run ends, however little the other host answers, unless a read of it is
\* stuck for ever: with half a line from a connection that stalls, or with ssh's
\* stderr.  Those two are the only waits without a deadline (read_event, _read_line,
\* stop, transport.wait).
RunEnds == []<>~Stuck => ((ctl # "idle") ~> (ctl = "idle"))

\* A server whose helper got past its first line does not outlive the
\* controller: the end of stdin ends it when no STOP arrived.  The exceptions
\* are a server that SIGKILL does not end, and a host without CTRL_BREAK_EVENT
\* (the finally clauses of read_commands and of the helper).
RemoteEventuallyGone ==
    (ctl = "idle" /\ Alive) ~> (server # "running" \/ helper \in {"gaveUp", "raised"})

\* "remote owner response timed out" (split_lifecycle.py:356) is raised only
\* when no line of the remote owner is left to return.
TimeoutMeansSilence ==
    [][ (lastError = "none" /\ lastError' = "timed out") => buf = <<>> /\ pipe = <<>> ]_vars
=============================================================================
