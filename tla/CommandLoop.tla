------------------------------ MODULE CommandLoop ------------------------------
(***************************************************************************)
(* The exchange between a node agent and its coordinator (node_agent.py:   *)
(* the registration loop, heartbeat_or_reregister and the command section  *)
(* of run_agent's main loop).  A heartbeat carries the result of the last  *)
(* command; its answer may carry the next command.  While a command runs   *)
(* in its thread, the main loop sends pulses, which are heartbeats too.    *)
(*                                                                         *)
(* The coordinator is not part of this repository: it answers an unknown   *)
(* node with 404, takes the result in a heartbeat before it chooses the    *)
(* command of the answer, and may restart.                                 *)
(*                                                                         *)
(* A request and its answer are one step, with every way they may fail:    *)
(* the request is lost, its answer is lost, or the agent gives up first    *)
(* and the coordinator takes the request later.  A coordinator that is     *)
(* found on the LAN is taken to be the one the agent had; the RPC workers  *)
(* are left out.                                                           *)
(***************************************************************************)
EXTENDS Naturals, FiniteSets

CONSTANTS
    Command,        \* the commands an operator may issue
    MaxForgets,     \* bound on the coordinator's restarts
    MaxCrashes      \* bound on the agent's restarts

ASSUME BoundAssumption == MaxForgets \in Nat /\ MaxCrashes \in Nat

Nothing == "nothing"
ASSUME NothingAssumption == Nothing \notin Command
CommandOrNothing == Command \cup {Nothing}

VARIABLES
    args,       \* the command line: --once, and whether to look for a hub
    pc,         \* what the agent does next
    doing,      \* the command its thread runs
    result,     \* command_result: the command whose result is to be sent
    stop,       \* stop_event
    late,       \* a request the agent gave up on, still to be taken
    known,      \* whether the coordinator knows the node
    queue,      \* the commands the coordinator has to hand out
    issued,     \* the commands issued so far
    got,        \* the commands whose results the coordinator has
    ran,        \* how often each command was started
    lost,       \* how often a started command's result was lost with the
                \* agent's memory or by a re-registration
    forgets, crashes

agentVars == <<args, pc, doing, result, stop>>
hubVars == <<known, queue, got>>
ghostVars == <<issued, ran, lost, forgets, crashes>>
vars == <<agentVars, late, hubVars, ghostVars>>

Arguments == [once : BOOLEAN, discovery : BOOLEAN]
Request == [kind : {"none", "register", "heartbeat"}, result : CommandOrNothing]
NoRequest == [kind |-> "none", result |-> Nothing]
Register == [NoRequest EXCEPT !.kind = "register"]

\* send_heartbeat in heartbeat_or_reregister.
Heartbeat == [kind |-> "heartbeat", result |-> result]
\* send_heartbeat in the pulse loop, without the result.
Pulse == [kind |-> "heartbeat", result |-> Nothing]

Init ==
    /\ args \in Arguments
    /\ pc = "register"
    /\ doing = Nothing
    /\ result = Nothing
    /\ stop = FALSE
    /\ late = NoRequest
    /\ known = FALSE
    /\ queue = {}
    /\ issued = {}
    /\ got = {}
    /\ ran = [c \in Command |-> 0]
    /\ lost = [c \in Command |-> 0]
    /\ forgets = 0
    /\ crashes = 0

(***************************************************************************)
(* The coordinator takes a request.                                        *)
(***************************************************************************)

\* A heartbeat of a known node: its result is taken, command c handed out, for
\* good or to be handed out again until its result is in.
TakeHeartbeat(request, c) ==
    /\ known
    /\ got' = got \cup ({request.result} \ {Nothing})
    /\ c \in (queue \ got') \cup {Nothing}
    /\ queue' \in {queue \ got', queue \ (got' \cup {c})}
    /\ UNCHANGED known

TakeRegister == known' = TRUE /\ UNCHANGED <<queue, got>>

\* What the coordinator does with a request, whatever becomes of the answer.
Take(request) ==
    IF request.kind = "register" THEN TakeRegister
    ELSE \/ ~known /\ UNCHANGED hubVars
         \/ \E c \in CommandOrNothing : TakeHeartbeat(request, c)

(***************************************************************************)
(* The ways an exchange ends, as the agent sees it.                        *)
(***************************************************************************)
Answered(request, c) == TakeHeartbeat(request, c) /\ UNCHANGED late
Unrecognised(request) == ~known /\ UNCHANGED <<hubVars, late>>
Registered == TakeRegister /\ UNCHANGED late

\* An exception: nothing arrived, the answer did not, or the request will be
\* taken later.
Failed(request) ==
    \/ UNCHANGED <<hubVars, late>>
    \/ Take(request) /\ UNCHANGED late
    \/ late = NoRequest /\ late' = request /\ UNCHANGED hubVars

(***************************************************************************)
(* The agent.                                                              *)
(***************************************************************************)

\* Mutant of Onward: --once is not looked at in the main loop.
OnwardAnyway == "loop"

\* Where an agent goes on that would wait for its next heartbeat.
Onward == IF args.once THEN "ended" ELSE "loop"

\* What may follow a registration that failed: with discovery a coordinator is
\* found on the LAN and tried at once, or none, which ends the agent.
AfterRefusal ==
    IF args.discovery THEN {"register", "ended"}
    ELSE IF args.once THEN {"ended"} ELSE {"register"}

\* The registration loop.
InitialRegister ==
    /\ pc = "register"
    /\ ~stop
    /\ \/ Registered /\ pc' = "loop"
       \/ Failed(Register) /\ pc' \in AfterRefusal
    /\ UNCHANGED <<args, doing, result, stop, ghostVars>>

\* Mutant of UnansweredLoop: the result is cleared whatever became of it.
UnansweredForgets ==
    /\ \/ Unrecognised(Heartbeat) /\ pc' = "reregister"
       \/ Failed(Heartbeat) /\ pc' = Onward
    /\ result' = Nothing
    /\ UNCHANGED <<doing, ran>>
\* Mutant of UnansweredLoop: 404 is retried like any other error.
UnansweredRetries ==
    /\ Unrecognised(Heartbeat) \/ Failed(Heartbeat)
    /\ UNCHANGED <<pc, doing, result, ran>>

\* Mutant of AnsweredLoop: the command of an answer is not started.
AnsweredIdles(c) ==
    /\ Answered(Heartbeat, c)
    /\ result' = Nothing
    /\ UNCHANGED <<pc, doing, ran>>

\* A heartbeat that is answered ends with command_result = None and, with a
\* command, its thread; 404 goes on to register; an exception keeps the result.
AnsweredLoop(c) ==
    /\ Answered(Heartbeat, c)
    /\ result' = Nothing
    /\ doing' = c
    /\ ran' = [d \in Command |-> IF d = c THEN ran[d] + 1 ELSE ran[d]]
    /\ pc' = IF c = Nothing THEN Onward ELSE "executing"

UnansweredLoop ==
    /\ \/ Unrecognised(Heartbeat) /\ pc' = "reregister"
       \/ Failed(Heartbeat) /\ pc' = Onward
    /\ UNCHANGED <<doing, result, ran>>

MainHeartbeat ==
    /\ pc = "loop"
    /\ ~stop
    /\ UnansweredLoop \/ \E c \in CommandOrNothing : AnsweredLoop(c)
    /\ UNCHANGED <<args, stop, issued, lost, forgets, crashes>>

\* register_with_coordinator after a 404: the caller gets None back and clears
\* command_result as after any heartbeat that was answered.
ReRegister ==
    /\ pc = "reregister"
    /\ pc' = Onward
    /\ \/ /\ Registered
          /\ result' = Nothing
          /\ lost' = [c \in Command |-> IF c = result THEN lost[c] + 1 ELSE lost[c]]
       \/ Failed(Register) /\ UNCHANGED <<result, lost>>
    /\ UNCHANGED <<args, doing, stop, issued, ran, forgets, crashes>>

\* Mutant of SendPulse: the command in a pulse's answer is started, too.
SendPulseActs ==
    /\ pc = "executing"
    /\ \/ \E c \in Command :
             /\ Answered(Pulse, c)
             /\ doing' = c
             /\ ran' = [ran EXCEPT ![c] = @ + 1]
       \/ (Unrecognised(Pulse) \/ Failed(Pulse)) /\ UNCHANGED <<doing, ran>>
    /\ UNCHANGED <<args, pc, result, stop, issued, lost, forgets, crashes>>

\* A pulse while the command runs: its answer, whatever it is, is dropped.
SendPulse ==
    /\ pc = "executing"
    /\ \/ \E c \in CommandOrNothing : Answered(Pulse, c)
       \/ Unrecognised(Pulse)
       \/ Failed(Pulse)
    /\ UNCHANGED <<agentVars, ghostVars>>

\* command_done: the loop leaves the pulses, also when stop_event is set, which
\* it does not look at before.  With --once the agent ends here, and the result
\* stays behind.
Finish ==
    /\ pc = "executing"
    /\ result' = doing
    /\ doing' = Nothing
    /\ pc' = Onward
    /\ UNCHANGED <<args, stop, late, hubVars, ghostVars>>

\* Mutant of Exit: the agent first wants to get rid of its result.
ExitDelivered ==
    /\ pc \in {"register", "loop"}
    /\ stop
    /\ result = Nothing
    /\ pc' = "ended"
    /\ UNCHANGED <<args, doing, result, stop, late, hubVars, ghostVars>>

\* The loops' condition: the agent ends, with a result not sent if it has one.
Exit ==
    /\ pc \in {"register", "loop"}
    /\ stop
    /\ pc' = "ended"
    /\ UNCHANGED <<args, doing, result, stop, late, hubVars, ghostVars>>

(***************************************************************************)
(* The environment.                                                        *)
(***************************************************************************)
Issue(c) ==
    /\ c \notin issued
    /\ issued' = issued \cup {c}
    /\ queue' = queue \cup {c}
    /\ UNCHANGED <<agentVars, late, known, got, ran, lost, forgets, crashes>>

\* The coordinator restarts: the node is unknown, the queue may be gone.
Forget ==
    /\ forgets < MaxForgets
    /\ forgets' = forgets + 1
    /\ known' = FALSE
    /\ queue' \in {queue, {}}
    /\ UNCHANGED <<agentVars, late, got, issued, ran, lost, crashes>>

\* A request the agent gave up on arrives.
TakeLate ==
    /\ late # NoRequest
    /\ Take(late)
    /\ late' = NoRequest
    /\ UNCHANGED <<agentVars, ghostVars>>

RequestStop ==
    /\ ~stop
    /\ stop' = TRUE
    /\ UNCHANGED <<args, pc, doing, result, late, hubVars, ghostVars>>

\* The agent is killed, or has ended, and is started again with the same command
\* line: command and result are gone.
Crash ==
    /\ crashes < MaxCrashes
    /\ crashes' = crashes + 1
    /\ pc' = "register"
    /\ doing' = Nothing
    /\ result' = Nothing
    /\ lost' = [c \in Command |-> IF c \in {doing, result} THEN lost[c] + 1 ELSE lost[c]]
    /\ stop' = FALSE
    /\ UNCHANGED <<args, late, hubVars, issued, ran, forgets>>

Next ==
    \/ InitialRegister
    \/ MainHeartbeat
    \/ ReRegister
    \/ SendPulse
    \/ Finish
    \/ Exit
    \/ \E c \in Command : Issue(c)
    \/ Forget
    \/ TakeLate
    \/ RequestStop
    \/ Crash

Spec == Init /\ [][Next]_vars

\* Commands finish and the agent's loops go on, for every request has a timeout.
\* The network may fail any
\* request but not all of them for ever, and a coordinator that keeps a command
\* until it has the result hands it out with one answer or another.
FairSpec ==
    /\ Spec
    /\ WF_vars(Finish) /\ WF_vars(Exit)
    /\ WF_vars(InitialRegister) /\ WF_vars(MainHeartbeat) /\ WF_vars(ReRegister)
    /\ SF_vars(InitialRegister /\ Registered)
    /\ SF_vars(ReRegister /\ Registered)
    /\ SF_vars(MainHeartbeat /\ Unrecognised(Heartbeat))
    /\ SF_vars(MainHeartbeat /\ Answered(Heartbeat, Nothing))
    /\ \A c \in Command : SF_vars(MainHeartbeat /\ Answered(Heartbeat, c) /\ c \in queue')

(***************************************************************************)
(* Properties.                                                             *)
(***************************************************************************)

\* Types, and a command is in flight exactly while its thread runs.
TypeOK ==
    /\ args \in Arguments
    /\ pc \in {"register", "loop", "reregister", "executing", "ended"}
    /\ {doing, result} \subseteq CommandOrNothing
    /\ stop \in BOOLEAN /\ known \in BOOLEAN
    /\ late \in Request
    /\ queue \subseteq issued /\ got \subseteq issued /\ issued \subseteq Command
    /\ ran \in [Command -> Nat]
    /\ lost \in [Command -> Nat]
    /\ pc = "executing" <=> doing # Nothing

\* The agent does not remember the commands it has run.  All the same, a
\* command is started again only after the agent lost it or its result by a
\* crash or a re-registration, although lost answers make the coordinator hand
\* it out again and again, and pulses receive it while it runs.
RunOnce == \A c \in Command : ran[c] <= lost[c] + 1

\* Every command that was started is still running, waits to be reported (or did
\* when the agent ended), was reported, or is accounted for as lost: heartbeats that fail lose nothing, and
\* no command is accepted while an older result is unsent.
ResultsAccounted ==
    \A c \in Command :
        /\ ran[c] > lost[c] => c \in {doing, result} \cup got
        /\ c \in got => ran[c] > 0

\* The loop is a service with one command in hand, which it finishes, answers and
\* only then exchanges for another: neither pulses, nor lost and late requests,
\* nor registrations in between make it take a second command or an old one.
Service == INSTANCE CommandService WITH
    hand <- IF doing # Nothing THEN doing ELSE result,
    phase <- IF doing # Nothing THEN "working" ELSE IF result # Nothing THEN "done" ELSE "idle",
    sent <- late.result,
    answered <- got
ServiceRefinement == Service!ServiceSpec

\* As long as the coordinator hands an issued command out until it has its
\* result, it gets that result, unless the agent ends: no loss, no restart and
\* no re-registration starves a command.
EventuallyReported ==
    \A c \in Command : c \in queue ~> (c \in got \/ c \notin queue \/ stop \/ pc = "ended")

\* A node the coordinator forgot makes itself known again unless it ends.
EventuallyKnown == (pc = "loop" /\ ~known) ~> (known \/ stop \/ pc = "ended")

\* A stop request ends the agent (unless it is killed first), even if the
\* coordinator never answers again.
StopEnds == stop ~> (pc = "ended" \/ ~stop)

\* "--once: register, send one heartbeat, then exit": whatever fails, an agent
\* that does not look for a coordinator on the LAN ends by itself.
OnceEnds == (args.once /\ ~args.discovery) ~> pc = "ended"
=============================================================================
