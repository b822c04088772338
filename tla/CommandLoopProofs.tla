--------------------------- MODULE CommandLoopProofs ---------------------------
(***************************************************************************)
(* Proofs about CommandLoop.tla, for every set of commands and every       *)
(* number of restarts.                                                     *)
(***************************************************************************)
EXTENDS CommandLoop, TLAPS

(***************************************************************************)
(* The inductive invariant.                                                *)
(***************************************************************************)

\* The commands that were issued and started at least once.
Started == {c \in issued : ran[c] > 0}

\* What runs, what waits to be sent, what is under way and what the coordinator
\* has are results of commands that were started.
Handed == {doing, result, late.result} \subseteq Started \cup {Nothing}

\* While a command runs there is no older result: it was sent before.
Unsent == pc = "executing" => result = Nothing

IInv == TypeOK /\ RunOnce /\ ResultsAccounted /\ Handed /\ Unsent

(***************************************************************************)
(* What an exchange does to the coordinator and to what is under way.      *)
(***************************************************************************)

\* The coordinator only gains results, those of commands that were started, and
\* only loses commands.
HubStep == /\ known' \in BOOLEAN
           /\ queue' \subseteq queue
           /\ got \subseteq got' /\ got' \subseteq Started

LEMMA GotStarted == IInv => got \subseteq Started
  BY DEF IInv, TypeOK, ResultsAccounted, Started

LEMMA TakeFact ==
    ASSUME IInv, NEW request \in Request, request.result \in Started \cup {Nothing},
           Take(request) \/ UNCHANGED hubVars
    PROVE  HubStep
  <1>1. got \subseteq Started /\ known \in BOOLEAN
    BY GotStarted DEF IInv, TypeOK
  <1>2. CASE UNCHANGED hubVars
    BY <1>1, <1>2 DEF hubVars, HubStep
  <1>3. CASE TakeRegister
    BY <1>1, <1>3 DEF TakeRegister, HubStep
  <1>4. ASSUME NEW c \in CommandOrNothing, TakeHeartbeat(request, c) PROVE HubStep
    BY <1>1, <1>4 DEF TakeHeartbeat, HubStep
  <1> QED  BY <1>2, <1>3, <1>4 DEF Take

LEMMA FailedFact ==
    ASSUME IInv, NEW request \in Request, request.result \in Started \cup {Nothing},
           Failed(request)
    PROVE  HubStep /\ late' \in {late, request}
  BY TakeFact DEF Failed, hubVars

LEMMA AnsweredFact ==
    ASSUME IInv, NEW request \in Request, request.result \in Started \cup {Nothing},
           NEW c, Answered(request, c)
    PROVE  /\ HubStep /\ late' = late
           /\ request.result # Nothing => request.result \in got'
           /\ c # Nothing => c \in queue \ got'
  <1>1. got \subseteq Started /\ known \in BOOLEAN
    BY GotStarted DEF IInv, TypeOK
  <1> QED  BY <1>1 DEF Answered, TakeHeartbeat, HubStep

\* The requests the agent sends.
LEMMA RequestFact ==
    ASSUME IInv
    PROVE  /\ Heartbeat \in Request /\ Heartbeat.result = result
           /\ Pulse \in Request /\ Pulse.result = Nothing
           /\ Register \in Request /\ Register.result = Nothing
           /\ NoRequest \in Request /\ NoRequest.result = Nothing
           /\ {result, late.result, Nothing} \subseteq Started \cup {Nothing}
  BY DEF IInv, TypeOK, Handed, Request, Heartbeat, Pulse, Register, NoRequest,
         CommandOrNothing

\* A step that starts no command and loses none keeps the invariant as long as
\* the results it drops are the coordinator's.
LEMMA Quiet ==
    ASSUME IInv, HubStep, late' \in Request, args' = args,
           late'.result \in Started \cup {Nothing},
           UNCHANGED <<issued, ran, lost>>,
           stop' \in BOOLEAN,
           pc' \in {"register", "loop", "reregister", "executing", "ended"},
           {doing', result'} \subseteq {doing, result, Nothing},
           {doing, result} \subseteq {doing', result', Nothing} \cup got',
           pc' = "executing" <=> doing' # Nothing,
           pc' = "executing" => result' = Nothing
    PROVE  IInv'
  <1>1. Started' = Started
    BY DEF Started
  <1>2. TypeOK'
    <2>1. {doing', result'} \subseteq CommandOrNothing
      BY DEF IInv, TypeOK, CommandOrNothing
    <2>2. queue' \subseteq issued' /\ got' \subseteq issued' /\ known' \in BOOLEAN
      BY DEF IInv, TypeOK, HubStep, Started
    <2> QED  BY <2>1, <2>2 DEF IInv, TypeOK
  <1>3. RunOnce' /\ Handed' /\ Unsent'
    BY <1>1 DEF IInv, RunOnce, Handed, Unsent
  <1>4. ResultsAccounted'
    <2>1. ASSUME NEW c \in Command, ran'[c] > lost'[c]
          PROVE  c \in {doing', result'} \cup got'
      <3>1. c \in {doing, result} \cup got /\ c # Nothing
        BY <2>1, NothingAssumption DEF IInv, ResultsAccounted
      <3> QED  BY <3>1 DEF HubStep
    <2>2. ASSUME NEW c \in Command, c \in got' PROVE ran'[c] > 0
      BY <2>2 DEF HubStep, Started
    <2> QED  BY <2>1, <2>2 DEF ResultsAccounted
  <1> QED  BY <1>2, <1>3, <1>4 DEF IInv

LEMMA InitInv == Init => IInv
  <1> SUFFICES ASSUME Init PROVE IInv
    OBVIOUS
  <1>1. late \in Request /\ late.result = Nothing
    BY DEF Init, Request, NoRequest, CommandOrNothing
  <1>2. TypeOK
    BY <1>1 DEF Init, TypeOK, CommandOrNothing
  <1>3. RunOnce /\ ResultsAccounted
    BY DEF Init, RunOnce, ResultsAccounted
  <1>4. Handed /\ Unsent
    BY <1>1 DEF Init, Handed, Unsent
  <1> QED  BY <1>2, <1>3, <1>4 DEF IInv

LEMMA RegisterInv ==
    ASSUME IInv, InitialRegister
    PROVE  IInv'
  <1>1. HubStep /\ late' \in {late, Register}
    <2>1. CASE Registered
      BY <2>1, TakeFact, RequestFact, GotStarted
      DEF Registered, TakeRegister, HubStep, IInv, TypeOK
    <2>2. CASE Failed(Register)
      BY <2>2, FailedFact, RequestFact
    <2> QED  BY <2>1, <2>2 DEF InitialRegister
  <1>2. late' \in Request /\ late'.result \in Started \cup {Nothing}
    BY <1>1, RequestFact DEF IInv, TypeOK
  <1>3. /\ UNCHANGED <<args, doing, result, stop, issued, ran, lost>>
        /\ pc = "register" /\ pc' \in {"register", "loop", "ended"}
    BY DEF InitialRegister, AfterRefusal, ghostVars
  <1> QED  BY <1>1, <1>2, <1>3, Quiet DEF IInv, TypeOK

LEMMA UnansweredInv ==
    ASSUME IInv, MainHeartbeat, UnansweredLoop
    PROVE  IInv'
  <1>1. HubStep /\ late' \in {late, Heartbeat}
    <2>1. CASE Unrecognised(Heartbeat)
      BY <2>1, TakeFact, RequestFact DEF Unrecognised
    <2>2. CASE Failed(Heartbeat)
      BY <2>2, FailedFact, RequestFact
    <2> QED  BY <2>1, <2>2 DEF UnansweredLoop
  <1>2. late' \in Request /\ late'.result \in Started \cup {Nothing}
    BY <1>1, RequestFact DEF IInv, TypeOK
  <1>3. /\ UNCHANGED <<args, doing, result, stop, issued, ran, lost>>
        /\ pc = "loop" /\ pc' \in {"reregister", "loop", "ended"}
    BY DEF MainHeartbeat, UnansweredLoop, Onward
  <1> QED  BY <1>1, <1>2, <1>3, Quiet DEF IInv, TypeOK

\* The one step that starts a command: it is neither running nor unsent, and the
\* coordinator has no result of it, so that it was lost as often as it was started.
LEMMA AnsweredInv ==
    ASSUME IInv, MainHeartbeat, NEW c \in CommandOrNothing, AnsweredLoop(c)
    PROVE  IInv'
  <1>1. /\ HubStep /\ late' = late
        /\ result # Nothing => result \in got'
        /\ c # Nothing => c \in queue \ got'
    BY AnsweredFact, RequestFact DEF AnsweredLoop
  <1>2. /\ UNCHANGED <<args, stop, issued, lost>> /\ result' = Nothing
        /\ doing' = c /\ doing = Nothing
        /\ pc' = IF c = Nothing THEN Onward ELSE "executing"
        /\ ran' = [d \in Command |-> IF d = c THEN ran[d] + 1 ELSE ran[d]]
    BY DEF MainHeartbeat, AnsweredLoop, IInv, TypeOK
  <1>3. CASE c = Nothing
    <2>1. ran' = ran
      BY <1>2, <1>3, NothingAssumption DEF IInv, TypeOK
    <2>2. late.result \in Started \cup {Nothing} /\ pc' \in {"loop", "ended"}
      BY <1>2, <1>3, RequestFact DEF Onward
    <2> QED  BY <1>1, <1>2, <1>3, <2>1, <2>2, Quiet DEF IInv, TypeOK
  <1>4. CASE c # Nothing
    <2>1. c \in Command /\ c \in issued /\ c \notin got'
      BY <1>1, <1>4 DEF IInv, TypeOK
    <2>2. ran[c] <= lost[c] /\ ran[c] \in Nat /\ lost[c] \in Nat
      BY <1>1, <1>2, <1>4, <2>1 DEF IInv, TypeOK, ResultsAccounted, HubStep
    <2>3. /\ ran' \in [Command -> Nat]
          /\ \A d \in Command : d # c => ran'[d] = ran[d]
          /\ ran'[c] = ran[c] + 1
      BY <1>2, <2>1 DEF IInv, TypeOK
    <2>4. Started \subseteq Started' /\ c \in Started'
      BY <1>2, <2>1, <2>2, <2>3 DEF Started, IInv, TypeOK
    <2>5. TypeOK'
      <3>1. {doing', result'} \subseteq CommandOrNothing
        BY <1>2 DEF CommandOrNothing
      <3>2. queue' \subseteq issued' /\ got' \subseteq issued' /\ known' \in BOOLEAN
        BY <1>1, <1>2 DEF IInv, TypeOK, HubStep, Started
      <3> QED  BY <1>1, <1>2, <1>4, <2>3, <3>1, <3>2 DEF IInv, TypeOK
    <2>6. RunOnce'
      BY <1>2, <2>2, <2>3 DEF IInv, TypeOK, RunOnce
    <2>7. Handed' /\ Unsent'
      BY <1>1, <1>2, <2>4 DEF IInv, Handed, Unsent
    <2>8. ResultsAccounted'
      <3>1. \A d \in Command : d \in got' => ran'[d] > 0
        BY <1>1, <2>4 DEF HubStep, Started
      <3>2. ASSUME NEW d \in Command, ran'[d] > lost'[d]
            PROVE  d \in {doing', result'} \cup got'
        BY <1>1, <1>2, <2>3, <3>2 DEF IInv, ResultsAccounted, HubStep
      <3> QED  BY <3>1, <3>2 DEF ResultsAccounted
    <2> QED  BY <2>5, <2>6, <2>7, <2>8 DEF IInv
  <1> QED  BY <1>3, <1>4

\* A step that loses the commands in D, which are all the agent has.
LEMMA Loss ==
    ASSUME IInv, HubStep, NEW D, D \subseteq {doing, result},
           lost' = [c \in Command |-> IF c \in D THEN lost[c] + 1 ELSE lost[c]]
    PROVE  /\ lost' \in [Command -> Nat]
           /\ RunOnce' \/ ran' # ran
           /\ \A c \in Command : ran[c] > lost'[c] => c \in ({doing, result} \ D) \cup got'
  <1>1. lost' \in [Command -> Nat] /\ \A c \in Command : lost'[c] >= lost[c]
    BY DEF IInv, TypeOK
  <1>2. RunOnce' \/ ran' # ran
    BY <1>1 DEF IInv, TypeOK, RunOnce
  <1>3. ASSUME NEW c \in Command, ran[c] > lost'[c]
        PROVE  c \in ({doing, result} \ D) \cup got'
    <2>1. c \notin D
      BY <1>3 DEF IInv, TypeOK, RunOnce
    <2>2. ran[c] > lost[c]
      BY <1>1, <1>3, <2>1 DEF IInv, TypeOK
    <2> QED  BY <2>1, <2>2 DEF IInv, ResultsAccounted, HubStep
  <1> QED  BY <1>1, <1>2, <1>3

LEMMA ReRegisterInv ==
    ASSUME IInv, ReRegister
    PROVE  IInv'
  <1>1. /\ UNCHANGED <<args, doing, stop, issued, ran>>
        /\ pc = "reregister" /\ pc' \in {"loop", "ended"} /\ doing = Nothing
    BY DEF ReRegister, Onward, IInv, TypeOK
  <1>2. CASE Failed(Register) /\ UNCHANGED <<result, lost>>
    <2>1. HubStep /\ late' \in {late, Register}
      BY <1>2, FailedFact, RequestFact
    <2>2. late' \in Request /\ late'.result \in Started \cup {Nothing}
      BY <2>1, RequestFact DEF IInv, TypeOK
    <2> QED  BY <1>1, <1>2, <2>1, <2>2, Quiet DEF IInv, TypeOK
  <1>3. CASE /\ Registered
             /\ result' = Nothing
             /\ lost' = [c \in Command |-> IF c = result THEN lost[c] + 1 ELSE lost[c]]
    <2>1. HubStep /\ late' = late
      BY <1>3, GotStarted DEF Registered, TakeRegister, HubStep, IInv, TypeOK
    <2>2. /\ lost' \in [Command -> Nat] /\ RunOnce'
          /\ \A c \in Command : ran[c] > lost'[c] => c \in ({doing, result} \ {result}) \cup got'
      <3>1. lost' = [c \in Command |-> IF c \in {result} THEN lost[c] + 1 ELSE lost[c]]
        BY <1>3
      <3> QED  BY <1>1, <2>1, <3>1, Loss
    <2>3. Started' = Started
      BY <1>1 DEF Started
    <2>4. TypeOK'
      BY <1>1, <1>3, <2>1, <2>2 DEF IInv, TypeOK, HubStep, Started, CommandOrNothing
    <2>5. ResultsAccounted'
      BY <1>1, <1>3, <2>1, <2>2, NothingAssumption
      DEF IInv, ResultsAccounted, HubStep, Started
    <2>6. Handed' /\ Unsent'
      BY <1>1, <1>3, <2>1, <2>3 DEF IInv, Handed, Unsent
    <2> QED  BY <2>2, <2>4, <2>5, <2>6 DEF IInv
  <1> QED  BY <1>2, <1>3 DEF ReRegister

LEMMA PulseInv ==
    ASSUME IInv, SendPulse
    PROVE  IInv'
  <1>1. HubStep /\ late' \in {late, Pulse}
    <2>1. ASSUME NEW c \in CommandOrNothing, Answered(Pulse, c)
          PROVE  HubStep /\ late' = late
      BY <2>1, AnsweredFact, RequestFact
    <2>2. CASE Unrecognised(Pulse)
      BY <2>2, TakeFact, RequestFact DEF Unrecognised
    <2>3. CASE Failed(Pulse)
      BY <2>3, FailedFact, RequestFact
    <2> QED  BY <2>1, <2>2, <2>3 DEF SendPulse
  <1>2. late' \in Request /\ late'.result \in Started \cup {Nothing}
    BY <1>1, RequestFact DEF IInv, TypeOK
  <1>3. UNCHANGED <<args, pc, doing, result, stop, issued, ran, lost>>
    BY DEF SendPulse, agentVars, ghostVars
  <1> QED  BY <1>1, <1>2, <1>3, Quiet DEF IInv, TypeOK, Unsent

\* The steps that leave coordinator and network alone.
LEMMA LocalInv ==
    ASSUME IInv, Finish \/ Exit \/ RequestStop \/ UNCHANGED vars
    PROVE  IInv'
  <1>1. /\ UNCHANGED <<args, late, hubVars, issued, ran, lost>>
        /\ HubStep /\ late' \in Request /\ late'.result \in Started \cup {Nothing}
    BY GotStarted, RequestFact
    DEF Finish, Exit, RequestStop, vars, agentVars, hubVars, ghostVars, HubStep,
        IInv, TypeOK
  <1>2. CASE Finish
    <2>1. /\ result = Nothing /\ doing # Nothing /\ result' = doing /\ doing' = Nothing
          /\ pc' \in {"loop", "ended"} /\ stop' = stop
      BY <1>2 DEF Finish, Onward, IInv, TypeOK, Unsent
    <2> QED  BY <1>1, <2>1, Quiet DEF IInv, TypeOK
  <1>3. CASE Exit \/ RequestStop \/ UNCHANGED vars
    <2>1. /\ doing' = doing /\ result' = result /\ stop' \in BOOLEAN
          /\ pc' \in {"register", "loop", "reregister", "executing", "ended"}
          /\ pc' = pc \/ (pc # "executing" /\ pc' # "executing")
      BY <1>3 DEF Exit, RequestStop, vars, agentVars, IInv, TypeOK
    <2> QED  BY <1>1, <2>1, Quiet DEF IInv, TypeOK, Unsent
  <1> QED  BY <1>2, <1>3

LEMMA IssueInv ==
    ASSUME IInv, NEW c \in Command, Issue(c)
    PROVE  IInv'
  <1>1. /\ UNCHANGED <<args, pc, doing, result, stop, late, known, got, ran, lost>>
        /\ issued' = issued \cup {c} /\ queue' = queue \cup {c}
    BY DEF Issue, agentVars
  <1>2. Started \subseteq Started'
    BY <1>1 DEF Started
  <1>3. TypeOK'
    BY <1>1 DEF IInv, TypeOK
  <1> QED  BY <1>1, <1>2, <1>3 DEF IInv, RunOnce, ResultsAccounted, Handed, Unsent

LEMMA ForgetInv ==
    ASSUME IInv, Forget
    PROVE  IInv'
  <1>1. /\ UNCHANGED <<args, pc, doing, result, stop, late, got, issued, ran, lost>>
        /\ HubStep
    BY GotStarted DEF Forget, agentVars, HubStep
  <1> QED  BY <1>1, RequestFact, Quiet DEF IInv, TypeOK, Unsent

LEMMA LateInv ==
    ASSUME IInv, TakeLate
    PROVE  IInv'
  <1>1. HubStep
    BY TakeFact, RequestFact DEF TakeLate, IInv, TypeOK
  <1>2. /\ UNCHANGED <<args, pc, doing, result, stop, issued, ran, lost>>
        /\ late' = NoRequest
    BY DEF TakeLate, agentVars, ghostVars
  <1> QED  BY <1>1, <1>2, RequestFact, Quiet DEF IInv, TypeOK, Unsent

LEMMA CrashInv ==
    ASSUME IInv, Crash
    PROVE  IInv'
  <1>1. /\ UNCHANGED <<args, late, known, queue, got, issued, ran>>
        /\ pc' = "register" /\ doing' = Nothing /\ result' = Nothing /\ stop' = FALSE
        /\ lost' = [c \in Command |-> IF c \in {doing, result} THEN lost[c] + 1 ELSE lost[c]]
    BY DEF Crash, hubVars
  <1>2. HubStep /\ Started' = Started
    BY <1>1, GotStarted DEF HubStep, Started, IInv, TypeOK
  <1>3. /\ lost' \in [Command -> Nat] /\ RunOnce'
        /\ \A c \in Command : ran[c] > lost'[c] => c \in got'
    BY <1>1, <1>2, Loss
  <1>4. TypeOK'
    BY <1>1, <1>3 DEF IInv, TypeOK, CommandOrNothing
  <1>5. ResultsAccounted' /\ Handed' /\ Unsent'
    BY <1>1, <1>2, <1>3 DEF IInv, ResultsAccounted, Handed, Unsent
  <1> QED  BY <1>3, <1>4, <1>5 DEF IInv

\* The inductive step, by the action taken.
LEMMA NextInv == IInv /\ [Next]_vars => IInv'
  <1> SUFFICES ASSUME IInv, [Next]_vars PROVE IInv'
    OBVIOUS
  <1>1. CASE InitialRegister
    BY <1>1, RegisterInv
  <1>2. CASE MainHeartbeat
    BY <1>2, UnansweredInv, AnsweredInv DEF MainHeartbeat
  <1>3. CASE ReRegister
    BY <1>3, ReRegisterInv
  <1>4. CASE SendPulse
    BY <1>4, PulseInv
  <1>5. CASE Finish \/ Exit \/ RequestStop \/ UNCHANGED vars
    BY <1>5, LocalInv
  <1>6. ASSUME NEW c \in Command, Issue(c) PROVE IInv'
    BY <1>6, IssueInv
  <1>7. CASE Forget
    BY <1>7, ForgetInv
  <1>8. CASE TakeLate
    BY <1>8, LateInv
  <1>9. CASE Crash
    BY <1>9, CrashInv
  <1> QED  BY <1>1, <1>2, <1>3, <1>4, <1>5, <1>6, <1>7, <1>8, <1>9 DEF Next

\* The inductive invariant holds in every reachable state.
THEOREM Invariance == Spec => []IInv
  <1> QED  BY InitInv, NextInv, PTL DEF Spec

(***************************************************************************)
(* Safety.                                                                 *)
(***************************************************************************)

\* Every variable keeps its type, and a command is in flight exactly while the
\* agent waits for its thread.
THEOREM TypeCorrect == Spec => []TypeOK
  <1>1. IInv => TypeOK
    BY DEF IInv
  <1> QED  BY <1>1, Invariance, PTL

\* A command is started again only after it or its result was lost.
THEOREM CommandsRunOnce == Spec => []RunOnce
  <1>1. IInv => RunOnce
    BY DEF IInv
  <1> QED  BY <1>1, Invariance, PTL

\* No result disappears unnoticed.
THEOREM NoResultVanishes == Spec => []ResultsAccounted
  <1>1. IInv => ResultsAccounted
    BY DEF IInv
  <1> QED  BY <1>1, Invariance, PTL

(***************************************************************************)
(* The loop implements the service.                                        *)
(***************************************************************************)
Hand == IF doing # Nothing THEN doing ELSE result
Phase == IF doing # Nothing THEN "working" ELSE IF result # Nothing THEN "done" ELSE "idle"
Serves == Service!ServiceNext \/ UNCHANGED Service!serviceVars

\* A step that the service does not see.
LEMMA Unseen ==
    ASSUME UNCHANGED <<issued, doing, result, got>>, late'.result = late.result
    PROVE  Serves
  BY DEF Serves, Service!serviceVars

LEMMA TakeGot ==
    ASSUME NEW request, Take(request)
    PROVE  got' \in {got, got \cup ({request.result} \ {Nothing})}
  BY DEF Take, TakeRegister, TakeHeartbeat, hubVars

\* A request that failed: the service sees at most that the answer in hand arrived,
\* or that it is still under way.
LEMMA FailedServes ==
    ASSUME NEW request \in Request, Failed(request), UNCHANGED <<issued, doing, result>>,
           request.result # Nothing => request.result = result /\ doing = Nothing
    PROVE  Serves
  <1>1. CASE UNCHANGED <<got, late>>
    BY <1>1, Unseen
  <1>2. CASE Take(request) /\ UNCHANGED late
    <2>1. got' \in {got, got \cup ({request.result} \ {Nothing})}
      BY <1>2, TakeGot
    <2>2. CASE request.result = Nothing \/ got' = got
      BY <1>2, <2>1, <2>2, Unseen
    <2>3. CASE request.result # Nothing /\ got' = got \cup {result}
      <3>1. doing = Nothing /\ result # Nothing
        BY <2>3
      <3>2. Service!Deliver
        BY <1>2, <2>3, <3>1 DEF Service!Deliver
      <3> QED  BY <3>2 DEF Serves, Service!ServiceNext
    <2> QED  BY <2>1, <2>2, <2>3
  <1>3. CASE late = NoRequest /\ late' = request /\ UNCHANGED got
    <2>1. late.result = Nothing
      BY <1>3 DEF NoRequest
    <2>2. CASE request.result = Nothing
      BY <1>3, <2>1, <2>2, Unseen
    <2>3. CASE request.result # Nothing
      <3>1. Service!Delay
        BY <1>3, <2>1, <2>3 DEF Service!Delay
      <3> QED  BY <3>1 DEF Serves, Service!ServiceNext
    <2> QED  BY <2>2, <2>3
  <1> QED  BY <1>1, <1>2, <1>3 DEF Failed, hubVars

\* What the agent had in hand is gone.
LEMMA LosesHand ==
    ASSUME UNCHANGED <<issued, got, late>>, doing' = Nothing, result' = Nothing
    PROVE  Serves
  <1>1. CASE doing = Nothing /\ result = Nothing
    BY <1>1, Unseen
  <1>2. CASE doing # Nothing \/ result # Nothing
    <2>1. Service!Lose
      BY <1>2 DEF Service!Lose
    <2> QED  BY <2>1 DEF Serves, Service!ServiceNext
  <1> QED  BY <1>1, <1>2

LEMMA HeartbeatServes ==
    ASSUME IInv, MainHeartbeat
    PROVE  Serves
  <1>1. doing = Nothing /\ issued' = issued /\ Heartbeat \in Request /\ Heartbeat.result = result
    BY RequestFact DEF IInv, TypeOK, MainHeartbeat
  <1>2. CASE UnansweredLoop
    <2>1. CASE Unrecognised(Heartbeat)
      BY <1>1, <1>2, <2>1, Unseen DEF UnansweredLoop, Unrecognised, hubVars
    <2>2. CASE Failed(Heartbeat)
      BY <1>1, <1>2, <2>2, FailedServes DEF UnansweredLoop
    <2> QED  BY <1>2, <2>1, <2>2 DEF UnansweredLoop
  <1>3. ASSUME NEW c \in CommandOrNothing, AnsweredLoop(c)
        PROVE  Serves
    <2>1. /\ got' = got \cup ({result} \ {Nothing}) /\ late' = late
          /\ c \in (queue \ got') \cup {Nothing}
          /\ result' = Nothing /\ doing' = c
      BY <1>1, <1>3 DEF AnsweredLoop, Answered, TakeHeartbeat
    <2>2. c \in (issued \ got') \cup {Nothing}
      BY <2>1 DEF IInv, TypeOK
    <2>3. Service!Exchange(c)
      BY <1>1, <2>1, <2>2 DEF Service!Exchange
    <2> QED  BY <2>3 DEF Serves, Service!ServiceNext, CommandOrNothing
  <1> QED  BY <1>2, <1>3 DEF MainHeartbeat

LEMMA OthersServe ==
    ASSUME IInv, InitialRegister \/ ReRegister \/ SendPulse \/ Finish \/ Exit \/ TakeLate
    PROVE  Serves
  <1>1. /\ Register \in Request /\ Register.result = Nothing
        /\ Pulse \in Request /\ Pulse.result = Nothing /\ NoRequest.result = Nothing
    BY RequestFact
  <1>2. CASE InitialRegister
    <2>1. CASE Registered
      BY <1>2, <2>1, Unseen DEF InitialRegister, Registered, TakeRegister, ghostVars
    <2>2. CASE Failed(Register)
      BY <1>1, <1>2, <2>2, FailedServes DEF InitialRegister, ghostVars
    <2> QED  BY <1>2, <2>1, <2>2 DEF InitialRegister
  <1>3. CASE ReRegister
    <2>1. doing = Nothing /\ doing' = doing /\ issued' = issued
      BY <1>3 DEF ReRegister, IInv, TypeOK
    <2>2. CASE Registered /\ result' = Nothing
      BY <2>1, <2>2, LosesHand DEF Registered, TakeRegister
    <2>3. CASE Failed(Register) /\ result' = result
      BY <1>1, <2>1, <2>3, FailedServes
    <2> QED  BY <1>3, <2>2, <2>3 DEF ReRegister
  <1>4. CASE SendPulse
    <2>1. UNCHANGED <<issued, doing, result>>
      BY <1>4 DEF SendPulse, agentVars, ghostVars
    <2>2. CASE Failed(Pulse)
      BY <1>1, <2>1, <2>2, FailedServes
    <2>3. CASE Unrecognised(Pulse) \/ \E c \in CommandOrNothing : Answered(Pulse, c)
      <3>1. got' = got /\ late' = late
        BY <1>1, <2>3 DEF Unrecognised, Answered, TakeHeartbeat, hubVars
      <3> QED  BY <2>1, <3>1, Unseen
    <2> QED  BY <1>4, <2>2, <2>3 DEF SendPulse
  <1>5. CASE Finish
    <2>1. doing # Nothing
      BY <1>5 DEF Finish, IInv, TypeOK
    <2>2. Service!Complete
      BY <1>5, <2>1 DEF Finish, Service!Complete, hubVars, ghostVars
    <2> QED  BY <2>2 DEF Serves, Service!ServiceNext
  <1>6. CASE Exit
    BY <1>6, Unseen DEF Exit, hubVars, ghostVars
  <1>7. CASE TakeLate
    <2>1. /\ UNCHANGED <<issued, doing, result>> /\ late'.result = Nothing
          /\ got' \in {got, got \cup ({late.result} \ {Nothing})}
      BY <1>1, <1>7, TakeGot DEF TakeLate, agentVars, ghostVars
    <2>2. CASE late.result = Nothing
      BY <2>1, <2>2, Unseen
    <2>3. CASE late.result # Nothing
      <3>1. Service!Arrive
        BY <2>1, <2>3 DEF Service!Arrive
      <3> QED  BY <3>1 DEF Serves, Service!ServiceNext
    <2> QED  BY <2>2, <2>3
  <1> QED  BY <1>2, <1>3, <1>4, <1>5, <1>6, <1>7

LEMMA StepServes == ASSUME IInv, [Next]_vars PROVE Serves
  <1>1. CASE MainHeartbeat
    BY <1>1, HeartbeatServes
  <1>2. CASE InitialRegister \/ ReRegister \/ SendPulse \/ Finish \/ Exit \/ TakeLate
    BY <1>2, OthersServe
  <1>3. ASSUME NEW c \in Command, Issue(c) PROVE Serves
    <2>1. Service!IssueCommand(c)
      BY <1>3 DEF Issue, Service!IssueCommand, agentVars
    <2> QED  BY <2>1 DEF Serves, Service!ServiceNext
  <1>4. CASE Forget \/ RequestStop \/ UNCHANGED vars
    BY <1>4, Unseen DEF Forget, RequestStop, vars, agentVars, hubVars, ghostVars
  <1>5. CASE Crash
    BY <1>5, LosesHand DEF Crash, hubVars
  <1> QED  BY <1>1, <1>2, <1>3, <1>4, <1>5 DEF Next

\* However requests fail and whoever restarts, the agent's loop is a service that
\* has one command in hand at a time.
THEOREM LoopImplementsService == Spec => ServiceRefinement
  <1>1. Init => Service!ServiceInit
    BY DEF Init, NoRequest, Service!ServiceInit
  <1>2. IInv /\ [Next]_vars => [Service!ServiceNext]_(Service!serviceVars)
    BY StepServes DEF Serves
  <1> QED  BY <1>1, <1>2, Invariance, PTL DEF Spec, ServiceRefinement, Service!ServiceSpec

(***************************************************************************)
(* How long the loop goes on once it is to end.                            *)
(***************************************************************************)

\* The agent is to send one heartbeat and end.
OneShot == args.once /\ ~args.discovery

\* At most how many more steps the loop takes, pulses apart, when it has been asked
\* to stop or is to send one heartbeat only.
Rank ==
    IF OneShot
    THEN CASE pc = "register" -> 3
           [] pc = "loop" -> 2
           [] pc \in {"reregister", "executing"} -> 1
           [] OTHER -> 0
    ELSE CASE pc \in {"reregister", "executing"} -> 2
           [] pc \in {"register", "loop"} -> 1
           [] OTHER -> 0

LoopStep == InitialRegister \/ MainHeartbeat \/ ReRegister \/ Finish \/ Exit

\* A step of the loop brings the agent nearer to its end, and nothing but its being
\* started again takes it further away.
Nearer ==
    /\ LoopStep => Rank' < Rank
    /\ Rank' <= Rank \/ crashes' > crashes

\* The starts are counted.
CrashesCounted == crashes \in Nat

LEMMA CrashCounts == CrashesCounted /\ [Next]_vars => CrashesCounted'
  BY DEF CrashesCounted, Next, InitialRegister, MainHeartbeat, ReRegister, SendPulse, Finish,
     Exit, Issue, Forget, TakeLate, RequestStop, Crash, vars, agentVars, hubVars, ghostVars

LEMMA NearerStep == ASSUME IInv, CrashesCounted, [Next]_vars, stop \/ OneShot PROVE Nearer
  <1>1. args \in Arguments /\ pc \in {"register", "loop", "reregister", "executing", "ended"}
    BY DEF IInv, TypeOK
  <1>2. CASE LoopStep
    <2>1. UNCHANGED args
      BY <1>2 DEF LoopStep, InitialRegister, MainHeartbeat, ReRegister, Finish, Exit
    <2>2. OneShot' = OneShot
      BY <2>1 DEF OneShot
    <2>3. CASE OneShot
      <3>1. Onward = "ended" /\ AfterRefusal = {"ended"}
        BY <2>3 DEF OneShot, Onward, AfterRefusal
      <3>2. \/ pc = "register" /\ pc' \in {"loop", "ended"}
            \/ pc = "loop" /\ pc' \in {"reregister", "executing", "ended"}
            \/ pc \in {"reregister", "executing"} /\ pc' = "ended"
        BY <1>2, <3>1 DEF LoopStep, InitialRegister, MainHeartbeat, UnansweredLoop, AnsweredLoop,
           ReRegister, Finish, Exit
      <3>3. Rank' < Rank /\ Rank' <= Rank
        BY <2>2, <2>3, <3>2 DEF Rank
      <3> QED  BY <3>3 DEF Nearer
    <2>4. CASE ~OneShot
      <3>1. Onward \in {"loop", "ended"}
        BY DEF Onward
      <3>2. \/ pc \in {"register", "loop"} /\ pc' = "ended"
            \/ pc \in {"reregister", "executing"} /\ pc' \in {"loop", "ended"}
        BY <1>2, <2>4, <3>1 DEF LoopStep, InitialRegister, MainHeartbeat, ReRegister, Finish, Exit
      <3>3. Rank' < Rank /\ Rank' <= Rank
        BY <2>2, <2>4, <3>2 DEF Rank
      <3> QED  BY <3>3 DEF Nearer
    <2> QED  BY <2>3, <2>4
  <1>3. ASSUME ~LoopStep, UNCHANGED <<args, pc>> PROVE Nearer
    <2>1. Rank' = Rank /\ Rank \in 0..3
      BY <1>3 DEF Rank, OneShot
    <2> QED  BY <1>3, <2>1 DEF Nearer
  <1>4. CASE ~LoopStep /\ Crash
    <2>1. crashes' = crashes + 1 /\ crashes < MaxCrashes
      BY <1>4 DEF Crash
    <2> QED  BY <1>4, <2>1 DEF Nearer, CrashesCounted
  <1>5. ASSUME \/ SendPulse \/ (\E c \in Command : Issue(c)) \/ Forget \/ TakeLate \/ RequestStop
               \/ UNCHANGED vars
        PROVE  UNCHANGED <<args, pc>>
    BY <1>5 DEF SendPulse, Issue, Forget, TakeLate, RequestStop, vars, agentVars
  <1> QED  BY <1>2, <1>3, <1>4, <1>5 DEF Next, LoopStep

\* The agent ends: after a stop request its loop takes at most two more steps, and
\* with --once and no search for a coordinator at most three from the start, pulses
\* apart and however its requests fail; only being started again begins anew
\* (run_agent's loops).
EndIsBounded ==
    /\ [](Rank \in 0..3 /\ (~OneShot => Rank <= 2))
    /\ [][ stop \/ OneShot => Nearer ]_vars

THEOREM EndsAreBounded == Spec => EndIsBounded
  <1>1. IInv => Rank \in 0..3 /\ (~OneShot => Rank <= 2)
    BY DEF Rank
  <1>2. Init => CrashesCounted
    BY DEF Init, CrashesCounted
  <1>3. IInv /\ CrashesCounted /\ [Next]_vars => [ stop \/ OneShot => Nearer ]_vars
    BY NearerStep
  <1> QED  BY <1>1, <1>2, <1>3, CrashCounts, Invariance, PTL DEF Spec, EndIsBounded
=============================================================================
