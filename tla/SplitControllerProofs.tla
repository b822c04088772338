-------------------------- MODULE SplitControllerProofs --------------------------
(***************************************************************************)
(* Proofs about SplitController.tla, for all measurements, configurations  *)
(* and numbers of runs and of lines.                                       *)
(***************************************************************************)
EXTENDS SplitController, TLAPS

(***************************************************************************)
(* Sequences of lines.                                                     *)
(***************************************************************************)

LinesOf(s) == {s[i] : i \in 1..Len(s)}

LEMMA NoLines ==
    <<>> \in Seq(Line) /\ <<>> \in Seq({"REQUEST", "STOP"}) /\ LinesOf(<<>>) = {}
  BY DEF LinesOf

LEMMA AppendLine ==
    ASSUME NEW s \in Seq(Line), NEW l \in Line
    PROVE  Append(s, l) \in Seq(Line) /\ LinesOf(Append(s, l)) \subseteq LinesOf(s) \cup {l}
  BY DEF LinesOf

LEMMA TakeLine ==
    ASSUME NEW s \in Seq(Line), s # <<>>
    PROVE  /\ Head(s) \in LinesOf(s)
           /\ Tail(s) \in Seq(Line) /\ LinesOf(Tail(s)) \subseteq LinesOf(s)
  BY DEF LinesOf

LEMMA TakeChunk ==
    ASSUME NEW s \in Seq(Line), NEW k \in 1..Len(s)
    PROVE  /\ SubSeq(s, 2, k) \in Seq(Line)
           /\ LinesOf(SubSeq(s, 2, k)) \subseteq LinesOf(s)
           /\ SubSeq(s, k + 1, Len(s)) \in Seq(Line)
           /\ LinesOf(SubSeq(s, k + 1, Len(s))) \subseteq LinesOf(s)
  BY DEF LinesOf

(***************************************************************************)
(* The inductive invariant.                                                *)
(***************************************************************************)

\* The lines that wait to be read.
Waiting == LinesOf(pipe) \cup LinesOf(buf)

\* What the helper says is true: an answer is one to a request, and a server
\* whose absence is announced has ended.
Honest ==
    /\ reader = "requesting" => requests = 1
    /\ "ok" \in Waiting => requests = 1
    /\ "absent" \in Waiting => server = "exited"
    /\ helper = "launched" => server = "none"
    /\ helper = "none" => server = "none" /\ link = "none"

\* What the controller has by the phase of its try.
Phases ==
    /\ ctl # "idle" => config \in Config /\ stage # "none"
    /\ ctl \in {"startLocal", "waitReady", "launch"} => helper = "none"
    /\ ctl \in Trying \ {"startLocal"} => "mac" \in started
    /\ ctl \in {"placement", "request", "response", "receipt", "transport"} => "tiny" \in started
    /\ ctl \in {"request", "response"} => Valid(seen)
    /\ ctl \in Trying => receipts = {} /\ failed = {} /\ ~passed
    /\ ctl = "idle" => started = {} /\ receipts = {} /\ failed = {} /\ ~passed
    /\ passed => Valid(seen) /\ started = Owner /\ (stage = "sample" => requests = 1)

\* A receipt proves an end, and what was started has a receipt or an error as
\* soon as its cleanup is over.
Cleanups ==
    /\ ctl = "transport" \/ "tiny" \in receipts => server = "exited"
    /\ "mac" \in receipts => ctl = "write" /\ local = "exited"
    /\ ctl \in {"stopLocal", "write"} /\ "tiny" \in started => "tiny" \in receipts \cup failed
    /\ ctl = "write" /\ "mac" \in started => "mac" \in receipts \cup failed

\* The reports on disk tell the truth.
Past ==
    /\ \A r \in reports : r.config \in proved
    /\ SampleNeedsProof

IInv == TypeOK /\ Honest /\ Phases /\ Cleanups /\ Past

(***************************************************************************)
(* The two ends of the connection.                                         *)
(***************************************************************************)

\* What the controller does to the connection, as far as it matters: lines are
\* taken, none are added.
Taken ==
    /\ RemoteTypeOK'
    /\ Waiting' \subseteq Waiting
    /\ UNCHANGED <<reader, requests, server>>

\* What a read, a write and an ended connection do to the lines on their way, then
\* one action of either end at a time.
LEMMA ReceiveFact ==
    ASSUME RemoteTypeOK, NEW l, Receive(l)
    PROVE  Taken /\ l \in Waiting \cup {"garbled"} /\ UNCHANGED <<helper, link>>
  <1>1. CASE buf # <<>> /\ l = Head(buf) /\ buf' = Tail(buf) /\ pipe' = pipe
    <2>1. buf \in Seq(Line)
      BY DEF RemoteTypeOK
    <2>2. buf' \in Seq(Line) /\ l \in LinesOf(buf) /\ LinesOf(buf') \subseteq LinesOf(buf)
      BY <1>1, <2>1, TakeLine
    <2> QED  BY <1>1, <2>2 DEF Receive, Taken, Waiting, RemoteTypeOK
  <1>2. CASE pipe # <<>> /\ buf = <<>>
    <2>1. PICK k \in 1..Len(pipe) :
             /\ buf' = SubSeq(pipe, 2, k)
             /\ pipe' = SubSeq(pipe, k + 1, Len(pipe))
      BY <1>2 DEF Receive
    <2>2. pipe \in Seq(Line) /\ l \in {Head(pipe), "garbled"}
      BY <1>2 DEF RemoteTypeOK, Receive
    <2>3. /\ buf' \in Seq(Line) /\ LinesOf(buf') \subseteq LinesOf(pipe)
          /\ pipe' \in Seq(Line) /\ LinesOf(pipe') \subseteq LinesOf(pipe)
      BY <2>1, <2>2, TakeChunk
    <2>4. l \in LinesOf(pipe) \cup {"garbled"}
      BY <1>2, <2>2, TakeLine
    <2> QED  BY <2>3, <2>4 DEF Receive, Taken, Waiting, RemoteTypeOK
  <1> QED  BY <1>1, <1>2 DEF Receive

LEMMA SendFact ==
    ASSUME RemoteTypeOK, NEW c \in {"REQUEST", "STOP"}, Send(c)
    PROVE  Taken /\ UNCHANGED <<helper, link>>
  BY DEF Send, Taken, Waiting, RemoteTypeOK

LEMMA SameFact ==
    ASSUME RemoteTypeOK, UNCHANGED remoteVars
    PROVE  Taken /\ UNCHANGED <<helper, link>>
  BY DEF remoteVars, Taken, Waiting, RemoteTypeOK

LEMMA HangUpFact ==
    ASSUME RemoteTypeOK, HangUp
    PROVE  Taken /\ UNCHANGED helper /\ (link = "none" => link' = "none")
  <1>1. Waiting' = {}
    BY DEF HangUp, Waiting, LinesOf
  <1> QED  BY <1>1 DEF HangUp, Taken, RemoteTypeOK

LEMMA LinkDropsFact ==
    ASSUME RemoteTypeOK, LinkDrops
    PROVE  Taken /\ UNCHANGED helper /\ link = "up"
  BY DEF LinkDrops, Taken, Waiting, RemoteTypeOK

\* Whatever takes lines only, and starts no helper, leaves the helper honest.
LEMMA TakenHonest ==
    ASSUME Honest, Taken, UNCHANGED helper, link = "none" => link' = "none"
    PROVE  Honest'
  BY DEF Honest, Taken

LEMMA EmitFact ==
    ASSUME RemoteTypeOK, NEW l \in Line, Emit(l)
    PROVE  pipe' \in Seq(Line) /\ LinesOf(pipe') \subseteq LinesOf(pipe) \cup {l}
  BY AppendLine DEF Emit, RemoteTypeOK

\* What the helper does, and the server and the connection, keeps its word, and
\* neither brings an ended server back nor forgets a request.
RemoteKept ==
    /\ RemoteTypeOK' /\ Honest'
    /\ server = "exited" => server' = "exited"
    /\ requests = 1 => requests' = 1
    /\ helper = "none" => helper' = "none"

LEMMA StartServerKept ==
    ASSUME RemoteTypeOK, Honest, StartServer
    PROVE  RemoteKept
  <1>1. Waiting' = Waiting
    BY DEF StartServer, Waiting
  <1>2. RemoteTypeOK'
    BY DEF StartServer, RemoteTypeOK
  <1> QED  BY <1>1, <1>2 DEF StartServer, Honest, RemoteKept

LEMMA AnnounceKept ==
    ASSUME RemoteTypeOK, Honest, Announce
    PROVE  RemoteKept
  <1>1. PICK l \in {"identity"} : Emit(l)
    BY DEF Announce
  <1>2. l \in Line
    BY DEF Line
  <1>3. pipe' \in Seq(Line) /\ Waiting' \subseteq Waiting \cup {l}
    BY <1>1, <1>2, EmitFact DEF Announce, Waiting
  <1>4. RemoteTypeOK'
    BY <1>3 DEF Announce, RemoteTypeOK
  <1> QED
    BY <1>1, <1>3, <1>4 DEF Announce, Honest, RemoteKept

LEMMA ReadCommandKept ==
    ASSUME RemoteTypeOK, Honest, ReadCommand
    PROVE  RemoteKept
  <1>1. Waiting' = Waiting
    BY DEF ReadCommand, Waiting
  <1>2. RemoteTypeOK'
    <2>1. stdin' \in Seq({"REQUEST", "STOP"})
      BY DEF ReadCommand, RemoteTypeOK
    <2>2. stopReq' \in BOOLEAN
      BY DEF ReadCommand, RemoteTypeOK
    <2>3. reader' \in {"reading", "requesting", "done"} /\ requests' \in 0..1
      BY DEF ReadCommand, RemoteTypeOK
    <2> QED  BY <2>1, <2>2, <2>3 DEF ReadCommand, RemoteTypeOK
  <1> QED  BY <1>1, <1>2 DEF ReadCommand, Honest, RemoteKept

LEMMA ReadEndKept ==
    ASSUME RemoteTypeOK, Honest, ReadEnd
    PROVE  RemoteKept
  <1>1. Waiting' = Waiting
    BY DEF ReadEnd, Waiting
  <1>2. RemoteTypeOK'
    BY DEF ReadEnd, RemoteTypeOK
  <1> QED  BY <1>1, <1>2 DEF ReadEnd, Honest, RemoteKept

LEMMA AnswerRequestKept ==
    ASSUME RemoteTypeOK, Honest, AnswerRequest
    PROVE  RemoteKept
  <1>1. PICK l \in Answers : (l = "ok" => server = "running") /\ Emit(l)
    BY DEF AnswerRequest
  <1>2. l \in Line
    BY DEF Line
  <1>3. pipe' \in Seq(Line) /\ Waiting' \subseteq Waiting \cup {l}
    BY <1>1, <1>2, EmitFact DEF AnswerRequest, Waiting
  <1>4. RemoteTypeOK'
    BY <1>3 DEF AnswerRequest, RemoteTypeOK
  <1> QED
    BY <1>1, <1>3, <1>4 DEF AnswerRequest, Honest, RemoteKept, Answers

LEMMA LeaveLoopKept ==
    ASSUME RemoteTypeOK, Honest, LeaveLoop
    PROVE  RemoteKept
  <1>1. Waiting' = Waiting
    BY DEF LeaveLoop, Waiting
  <1>2. RemoteTypeOK'
    BY DEF LeaveLoop, RemoteTypeOK
  <1> QED  BY <1>1, <1>2 DEF LeaveLoop, Honest, RemoteKept

LEMMA EndServerKept ==
    ASSUME RemoteTypeOK, Honest, EndServer
    PROVE  RemoteKept
  <1>1. CASE helper' = "raised"
    <2>1. UNCHANGED <<server, pipe>>
      BY <1>1 DEF EndServer
    <2>2. Waiting' = Waiting /\ RemoteTypeOK'
      BY <1>1, <2>1 DEF EndServer, Waiting, RemoteTypeOK
    <2> QED  BY <1>1, <2>1, <2>2 DEF EndServer, Honest, RemoteKept
  <1>2. ASSUME NEW l \in Receipts, Emit(l), l = "absent" => server' = "exited"
        PROVE  RemoteKept
    <2>1. l \in Line
      BY DEF Line
    <2>2. pipe' \in Seq(Line) /\ Waiting' \subseteq Waiting \cup {l}
      BY <1>2, <2>1, EmitFact DEF EndServer, Waiting
    <2>3. RemoteTypeOK'
      BY <2>2 DEF EndServer, RemoteTypeOK
    <2> QED
      BY <1>2, <2>2, <2>3 DEF EndServer, Honest, RemoteKept, Receipts
  <1> QED  BY <1>1, <1>2 DEF EndServer

LEMMA ServerLogsKept ==
    ASSUME RemoteTypeOK, Honest, ServerLogs
    PROVE  RemoteKept
  <1>1. PICK l \in LogLine : Emit(l)
    BY DEF ServerLogs
  <1>2. l \in Line
    BY DEF Line
  <1>3. pipe' \in Seq(Line) /\ Waiting' \subseteq Waiting \cup {l}
    BY <1>1, <1>2, EmitFact DEF ServerLogs, Waiting
  <1>4. RemoteTypeOK'
    BY <1>3, LinesAssumption DEF ServerLogs, RemoteTypeOK
  <1> QED
    BY <1>1, <1>3, <1>4, RequiredAssumption DEF ServerLogs, Honest, RemoteKept,
       LogLine, Answers, Receipts

LEMMA ServerDiesKept ==
    ASSUME RemoteTypeOK, Honest, ServerDies
    PROVE  RemoteKept
  <1>1. Waiting' = Waiting
    BY DEF ServerDies, Waiting
  <1>2. RemoteTypeOK'
    BY DEF ServerDies, RemoteTypeOK
  <1> QED  BY <1>1, <1>2 DEF ServerDies, Honest, RemoteKept

LEMMA LinkDropsKept ==
    ASSUME RemoteTypeOK, Honest, LinkDrops
    PROVE  RemoteKept
  BY LinkDropsFact, TakenHonest DEF RemoteKept, Taken

LEMMA RemoteNextKept ==
    ASSUME RemoteTypeOK, Honest, RemoteNext
    PROVE  RemoteKept
  BY StartServerKept, AnnounceKept, ReadCommandKept, ReadEndKept,
     AnswerRequestKept, LeaveLoopKept, EndServerKept, ServerLogsKept,
     ServerDiesKept, LinkDropsKept DEF RemoteNext, HelperStep

(***************************************************************************)
(* The controller's actions.                                               *)
(***************************************************************************)

LEMMA PassedFact == IInv => PassProves
  <1> SUFFICES ASSUME IInv, ctl = "write", Passed PROVE Fact /\ receipts = Owner
    BY DEF PassProves
  <1>1. Valid(seen) /\ started = Owner /\ (stage = "sample" => requests = 1)
    BY DEF IInv, Phases, Passed
  <1>2. receipts = Owner
    BY <1>1 DEF IInv, TypeOK, Cleanups, Passed, Owner
  <1>3. server = "exited" /\ local = "exited"
    BY <1>2 DEF IInv, Cleanups, Owner
  <1> QED  BY <1>1, <1>2, <1>3 DEF Fact

LEMMA InitInv == Init => IInv
  <1> SUFFICES ASSUME Init PROVE IInv
    OBVIOUS
  <1>1. Waiting = {}
    BY NoLines DEF Init, NoRemote, Waiting
  <1>2. TypeOK
    <2>1. stdin \in Seq({"REQUEST", "STOP"}) /\ pipe \in Seq(Line) /\ buf \in Seq(Line)
      BY NoLines DEF Init, NoRemote
    <2>2. stopReq \in BOOLEAN /\ passed \in BOOLEAN
      BY DEF Init, NoRemote
    <2>3. requests \in 0..1 /\ logged \in 0..MaxLines
      BY LinesAssumption DEF Init, NoRemote
    <2>4. runs \in 0..MaxRuns
      BY RunsAssumption DEF Init
    <2>5. RemoteTypeOK
      BY <2>1, <2>2, <2>3 DEF Init, NoRemote, RemoteTypeOK
    <2> QED  BY <2>2, <2>4, <2>5 DEF Init, TypeOK
  <1>3. Honest
    BY <1>1 DEF Init, NoRemote, Honest
  <1>4. Phases /\ Cleanups /\ Past
    BY DEF Init, Phases, Cleanups, Past, SampleNeedsProof, Trying
  <1> QED  BY <1>2, <1>3, <1>4 DEF IInv

LEMMA RaiseKeeps ==
    ASSUME IInv, Raise
    PROVE  IInv'
  <1>1. /\ Taken /\ UNCHANGED helper /\ (link = "none" => link' = "none")
    BY SameFact DEF Raise, IInv, TypeOK
  <1>2. Honest'
    BY <1>1, TakenHonest DEF IInv
  <1>3. RemoteTypeOK' /\ requests' = requests /\ server' = server /\ helper' = helper
    BY <1>1 DEF Taken
  <1>4. TypeOK'
    BY <1>3 DEF Raise, Cleaning, IInv, TypeOK, runVars, pastVars, ToCleanup
  <1>5. Phases'
    BY <1>3 DEF Raise, Phases, Trying, IInv, runVars, ToCleanup
  <1>6. Cleanups'
    BY <1>3 DEF Raise, Cleanups, Trying, IInv, runVars, ToCleanup
  <1>7. Past'
    BY DEF Raise, Past, SampleNeedsProof, Trying, IInv, runVars, pastVars
  <1> QED  BY <1>2, <1>4, <1>5, <1>6, <1>7 DEF IInv

LEMMA StartLocalKeeps ==
    ASSUME IInv, StartLocal
    PROVE  IInv'
  <1>1. /\ Taken /\ UNCHANGED helper /\ (link = "none" => link' = "none")
    BY SameFact DEF StartLocal, IInv, TypeOK
  <1>2. Honest'
    BY <1>1, TakenHonest DEF IInv
  <1>3. RemoteTypeOK' /\ requests' = requests /\ server' = server /\ helper' = helper
    BY <1>1 DEF Taken
  <1>4. TypeOK'
    BY <1>3 DEF StartLocal, Trying, Owner, IInv, TypeOK, pastVars
  <1>5. Phases'
    BY <1>3 DEF StartLocal, Phases, Trying, IInv
  <1>6. Cleanups'
    BY <1>3 DEF StartLocal, Cleanups, IInv
  <1>7. Past'
    BY DEF StartLocal, Past, SampleNeedsProof, IInv, pastVars
  <1> QED  BY <1>2, <1>4, <1>5, <1>6, <1>7 DEF IInv

LEMMA BlockKeeps ==
    ASSUME IInv, Block
    PROVE  IInv'
  <1>1. /\ Taken /\ UNCHANGED helper /\ (link = "none" => link' = "none")
    BY SameFact DEF Block, IInv, TypeOK
  <1>2. Honest'
    BY <1>1, TakenHonest DEF IInv
  <1>3. RemoteTypeOK' /\ requests' = requests /\ server' = server /\ helper' = helper
    BY <1>1 DEF Taken
  <1>4. TypeOK'
    BY <1>3 DEF Block, IInv, TypeOK, pastVars
  <1>5. Phases'
    BY <1>3 DEF Block, Phases, IInv
  <1>6. Cleanups'
    BY <1>3 DEF Block, Cleanups, IInv
  <1>7. Past'
    BY DEF Block, Past, SampleNeedsProof, IInv, pastVars
  <1> QED  BY <1>2, <1>4, <1>5, <1>6, <1>7 DEF IInv

LEMMA MacReadyKeeps ==
    ASSUME IInv, MacReady
    PROVE  IInv'
  <1>1. /\ Taken /\ UNCHANGED helper /\ (link = "none" => link' = "none")
    BY SameFact DEF MacReady, IInv, TypeOK
  <1>2. Honest'
    BY <1>1, TakenHonest DEF IInv
  <1>3. RemoteTypeOK' /\ requests' = requests /\ server' = server /\ helper' = helper
    BY <1>1 DEF Taken
  <1>4. TypeOK'
    BY <1>3 DEF MacReady, Trying, IInv, TypeOK, runVars, pastVars
  <1>5. Phases'
    BY <1>3 DEF MacReady, Phases, Trying, IInv, runVars
  <1>6. Cleanups'
    BY <1>3 DEF MacReady, Cleanups, IInv, runVars
  <1>7. Past'
    BY DEF MacReady, Past, SampleNeedsProof, IInv, runVars, pastVars
  <1> QED  BY <1>2, <1>4, <1>5, <1>6, <1>7 DEF IInv

LEMMA LaunchRemoteKeeps ==
    ASSUME IInv, LaunchRemote
    PROVE  IInv'
  <1>1. helper = "none"
    BY DEF LaunchRemote, Phases, IInv
  <1>2. Honest'
    BY <1>1 DEF LaunchRemote, Launch, Honest, Waiting, IInv
  <1>3. RemoteTypeOK' /\ requests' = requests /\ server' = server
    BY DEF LaunchRemote, Launch, RemoteTypeOK, IInv, TypeOK
  <1>4. TypeOK'
    BY <1>3 DEF LaunchRemote, Trying, IInv, TypeOK, runVars, pastVars
  <1>5. Phases'
    BY <1>3 DEF LaunchRemote, Phases, Trying, IInv, runVars
  <1>6. Cleanups'
    BY <1>3 DEF LaunchRemote, Cleanups, IInv, runVars
  <1>7. Past'
    BY DEF LaunchRemote, Past, SampleNeedsProof, IInv, runVars, pastVars
  <1> QED  BY <1>2, <1>4, <1>5, <1>6, <1>7 DEF IInv

LEMMA ReadIdentityKeeps ==
    ASSUME IInv, ReadIdentity
    PROVE  IInv'
  <1>1. /\ Taken /\ UNCHANGED helper /\ (link = "none" => link' = "none")
    BY ReceiveFact DEF ReadIdentity, IInv, TypeOK
  <1>2. Honest'
    BY <1>1, TakenHonest DEF IInv
  <1>3. RemoteTypeOK' /\ requests' = requests /\ server' = server /\ helper' = helper
    BY <1>1 DEF Taken
  <1>4. TypeOK'
    BY <1>3 DEF ReadIdentity, Trying, Cleaning, Owner, IInv, TypeOK, pastVars,
       ToCleanup
  <1>5. Phases'
    BY <1>3 DEF ReadIdentity, Phases, Trying, IInv, ToCleanup
  <1>6. Cleanups'
    BY <1>3 DEF ReadIdentity, Cleanups, IInv, ToCleanup
  <1>7. Past'
    BY DEF ReadIdentity, Past, SampleNeedsProof, IInv, pastVars
  <1> QED  BY <1>2, <1>4, <1>5, <1>6, <1>7 DEF IInv

LEMMA ReadPlacementKeeps ==
    ASSUME IInv, ReadPlacement
    PROVE  IInv'
  <1>1. /\ Taken /\ UNCHANGED helper /\ (link = "none" => link' = "none")
    BY ReceiveFact DEF ReadPlacement, IInv, TypeOK
  <1>2. Honest'
    BY <1>1, TakenHonest DEF IInv
  <1>3. RemoteTypeOK' /\ requests' = requests /\ server' = server /\ helper' = helper
    BY <1>1 DEF Taken
  <1>4. TypeOK'
    BY <1>3 DEF ReadPlacement, Trying, Cleaning, IInv, TypeOK, pastVars, ToCleanup
  <1>5. Phases'
    <2>1. \/ ctl' = "stopRemote" /\ passed' = passed
          \/ ctl' = ctl /\ passed' = passed
          \/ /\ Valid(seen)' /\ ctl' \in {"request", "stopRemote"}
             /\ (passed' => stage = "placement") /\ (ctl' = "request" => ~passed')
      BY DEF ReadPlacement, ToCleanup
    <2>2. ctl = "placement" /\ UNCHANGED <<stage, config, started, receipts, failed>>
      BY DEF ReadPlacement
    <2>3. started = Owner /\ ~passed /\ receipts = {} /\ failed = {}
      BY <2>2 DEF Phases, Trying, Owner, IInv, TypeOK
    <2>4. Phases
      BY DEF IInv
    <2> QED  BY <2>1, <2>2, <2>3, <2>4 DEF Phases, Trying
  <1>6. Cleanups'
    BY <1>3 DEF ReadPlacement, Cleanups, IInv, ToCleanup
  <1>7. Past'
    BY DEF ReadPlacement, Past, SampleNeedsProof, IInv, pastVars
  <1> QED  BY <1>2, <1>4, <1>5, <1>6, <1>7 DEF IInv

LEMMA SendRequestKeeps ==
    ASSUME IInv, SendRequest
    PROVE  IInv'
  <1>1. /\ Taken /\ UNCHANGED helper /\ (link = "none" => link' = "none")
    BY SendFact DEF SendRequest, IInv, TypeOK
  <1>2. Honest'
    BY <1>1, TakenHonest DEF IInv
  <1>3. RemoteTypeOK' /\ requests' = requests /\ server' = server /\ helper' = helper
    BY <1>1 DEF Taken
  <1>4. TypeOK'
    BY <1>3 DEF SendRequest, Trying, IInv, TypeOK, runVars, pastVars
  <1>5. Phases'
    BY <1>3 DEF SendRequest, Phases, Trying, IInv, runVars
  <1>6. Cleanups'
    BY <1>3 DEF SendRequest, Cleanups, IInv, runVars
  <1>7. Past'
    BY DEF SendRequest, Past, SampleNeedsProof, IInv, runVars, pastVars
  <1> QED  BY <1>2, <1>4, <1>5, <1>6, <1>7 DEF IInv

LEMMA ReadResponseKeeps ==
    ASSUME IInv, ReadResponse
    PROVE  IInv'
  <1>1. /\ Taken /\ UNCHANGED helper /\ (link = "none" => link' = "none")
    BY ReceiveFact DEF ReadResponse, IInv, TypeOK
  <1>2. Honest'
    BY <1>1, TakenHonest DEF IInv
  <1>3. RemoteTypeOK' /\ requests' = requests /\ server' = server /\ helper' = helper
    BY <1>1 DEF Taken
  <1>4. TypeOK'
    BY <1>3 DEF ReadResponse, Cleaning, IInv, TypeOK, pastVars, ToCleanup
  <1>5. Phases'
    <2>1. \/ ctl' \in {"stopRemote", ctl} /\ passed' = passed
          \/ ctl' = "stopRemote" /\ passed' /\ requests = 1
      <3>1. PICK l \in Line :
               /\ Receive(l)
               /\ \/ ctl' \in {"stopRemote", ctl} /\ passed' = passed
                  \/ l = "ok" /\ ctl' = "stopRemote" /\ passed' = TRUE
        BY DEF ReadResponse, ToCleanup
      <3>2. l \in Waiting \cup {"garbled"}
        BY <3>1, ReceiveFact DEF IInv, TypeOK
      <3> QED  BY <3>1, <3>2 DEF Honest, IInv
    <2>2. ctl = "response" /\ UNCHANGED <<stage, config, started, seen, receipts, failed>>
      BY DEF ReadResponse
    <2>3. started = Owner /\ ~passed /\ receipts = {} /\ failed = {} /\ Valid(seen)
      BY <2>2 DEF Phases, Trying, Owner, IInv, TypeOK
    <2>4. Phases
      BY DEF IInv
    <2> QED  BY <1>3, <2>1, <2>2, <2>3, <2>4 DEF Phases, Trying
  <1>6. Cleanups'
    BY <1>3 DEF ReadResponse, Cleanups, IInv, ToCleanup
  <1>7. Past'
    BY DEF ReadResponse, Past, SampleNeedsProof, IInv, pastVars
  <1> QED  BY <1>2, <1>4, <1>5, <1>6, <1>7 DEF IInv

LEMMA ReadFailsKeeps ==
    ASSUME IInv, ReadFails
    PROVE  IInv'
  <1>1. /\ Taken /\ UNCHANGED helper /\ (link = "none" => link' = "none")
    BY SameFact DEF ReadFails, IInv, TypeOK
  <1>2. Honest'
    BY <1>1, TakenHonest DEF IInv
  <1>3. RemoteTypeOK' /\ requests' = requests /\ server' = server /\ helper' = helper
    BY <1>1 DEF Taken
  <1>4. TypeOK'
    BY <1>3 DEF ReadFails, Cleaning, IInv, TypeOK, pastVars, ToCleanup
  <1>5. Phases'
    BY <1>3 DEF ReadFails, Phases, Trying, IInv, ToCleanup
  <1>6. Cleanups'
    BY <1>3 DEF ReadFails, Cleanups, IInv, ToCleanup
  <1>7. Past'
    BY DEF ReadFails, Past, SampleNeedsProof, IInv, pastVars
  <1> QED  BY <1>2, <1>4, <1>5, <1>6, <1>7 DEF IInv

LEMMA StopRemoteKeeps ==
    ASSUME IInv, StopRemote
    PROVE  IInv'
  <1>1. /\ Taken /\ UNCHANGED helper /\ (link = "none" => link' = "none")
    BY SameFact, SendFact DEF StopRemote, IInv, TypeOK
  <1>2. Honest'
    BY <1>1, TakenHonest DEF IInv
  <1>3. RemoteTypeOK' /\ requests' = requests /\ server' = server /\ helper' = helper
    BY <1>1 DEF Taken
  <1>4. TypeOK'
    BY <1>3 DEF StopRemote, Cleaning, IInv, TypeOK, runVars, pastVars
  <1>5. Phases'
    BY <1>3 DEF StopRemote, Phases, Trying, IInv, runVars
  <1>6. Cleanups'
    BY <1>3 DEF StopRemote, Cleanups, IInv, runVars
  <1>7. Past'
    BY DEF StopRemote, Past, SampleNeedsProof, IInv, runVars, pastVars
  <1> QED  BY <1>2, <1>4, <1>5, <1>6, <1>7 DEF IInv

LEMMA StopRemoteFailsKeeps ==
    ASSUME IInv, StopRemoteFails
    PROVE  IInv'
  <1>1. /\ Taken /\ UNCHANGED helper /\ (link = "none" => link' = "none")
    BY SameFact DEF StopRemoteFails, IInv, TypeOK
  <1>2. Honest'
    BY <1>1, TakenHonest DEF IInv
  <1>3. RemoteTypeOK' /\ requests' = requests /\ server' = server /\ helper' = helper
    BY <1>1 DEF Taken
  <1>4. TypeOK'
    BY <1>3 DEF StopRemoteFails, Phases, Cleaning, IInv, TypeOK, pastVars,
       RemoteCleanupFails
  <1>5. Phases'
    BY <1>3 DEF StopRemoteFails, Phases, Trying, IInv, RemoteCleanupFails
  <1>6. Cleanups'
    BY <1>3 DEF StopRemoteFails, Cleanups, IInv, RemoteCleanupFails
  <1>7. Past'
    BY DEF StopRemoteFails, Past, SampleNeedsProof, IInv, pastVars,
       RemoteCleanupFails
  <1> QED  BY <1>2, <1>4, <1>5, <1>6, <1>7 DEF IInv

LEMMA ReadReceiptKeeps ==
    ASSUME IInv, ReadReceipt
    PROVE  IInv'
  <1>1. /\ Taken /\ UNCHANGED helper /\ (link = "none" => link' = "none")
    BY ReceiveFact DEF ReadReceipt, IInv, TypeOK
  <1>2. Honest'
    BY <1>1, TakenHonest DEF IInv
  <1>3. RemoteTypeOK' /\ requests' = requests /\ server' = server /\ helper' = helper
    BY <1>1 DEF Taken
  <1>4. TypeOK'
    BY <1>3 DEF ReadReceipt, Phases, Cleaning, IInv, TypeOK, runVars, pastVars,
       RemoteCleanupFails
  <1>5. Phases'
    <2>1. ctl' \in {"transport", "stopLocal", "receipt"} /\ ctl = "receipt"
      BY DEF ReadReceipt, RemoteCleanupFails
    <2>2. UNCHANGED <<stage, config, started, seen, passed>>
      BY DEF ReadReceipt, runVars, RemoteCleanupFails
    <2> QED  BY <1>3, <2>1, <2>2 DEF Phases, Trying, IInv
  <1>6. Cleanups'
    BY <1>3, ReceiveFact DEF ReadReceipt, Cleanups, Honest, Validated, IInv,
       TypeOK, runVars, RemoteCleanupFails
  <1>7. Past'
    BY DEF ReadReceipt, Past, SampleNeedsProof, IInv, runVars, pastVars,
       RemoteCleanupFails
  <1> QED  BY <1>2, <1>4, <1>5, <1>6, <1>7 DEF IInv

LEMMA RemoteStoppedKeeps ==
    ASSUME IInv, RemoteStopped
    PROVE  IInv'
  <1>1. /\ Taken /\ UNCHANGED helper /\ (link = "none" => link' = "none")
    BY SameFact DEF RemoteStopped, IInv, TypeOK
  <1>2. Honest'
    BY <1>1, TakenHonest DEF IInv
  <1>3. RemoteTypeOK' /\ requests' = requests /\ server' = server /\ helper' = helper
    BY <1>1 DEF Taken
  <1>4. TypeOK'
    BY <1>3 DEF RemoteStopped, Phases, Cleaning, IInv, TypeOK, pastVars
  <1>5. Phases'
    BY <1>3 DEF RemoteStopped, Phases, Trying, IInv
  <1>6. Cleanups'
    BY <1>3 DEF RemoteStopped, Cleanups, IInv
  <1>7. Past'
    BY DEF RemoteStopped, Past, SampleNeedsProof, IInv, pastVars
  <1> QED  BY <1>2, <1>4, <1>5, <1>6, <1>7 DEF IInv

LEMMA StopLocalKeeps ==
    ASSUME IInv, StopLocal
    PROVE  IInv'
  <1>1. /\ Taken /\ UNCHANGED helper /\ (link = "none" => link' = "none")
    BY SameFact DEF StopLocal, IInv, TypeOK
  <1>2. Honest'
    BY <1>1, TakenHonest DEF IInv
  <1>3. RemoteTypeOK' /\ requests' = requests /\ server' = server /\ helper' = helper
    BY <1>1 DEF Taken
  <1>4. TypeOK'
    BY <1>3 DEF StopLocal, Cleaning, IInv, TypeOK, pastVars
  <1>5. Phases'
    BY <1>3 DEF StopLocal, Phases, Trying, IInv
  <1>6. Cleanups'
    BY <1>3 DEF StopLocal, Cleanups, IInv
  <1>7. Past'
    BY DEF StopLocal, Past, SampleNeedsProof, IInv, pastVars
  <1> QED  BY <1>2, <1>4, <1>5, <1>6, <1>7 DEF IInv

LEMMA WriteReportKeeps ==
    ASSUME IInv, WriteReport
    PROVE  IInv'
  <1>1. /\ Taken /\ UNCHANGED helper /\ (link = "none" => link' = "none")
    BY HangUpFact DEF WriteReport, IInv, TypeOK, Quit
  <1>2. Honest'
    BY <1>1, TakenHonest DEF IInv
  <1>3. RemoteTypeOK' /\ requests' = requests /\ server' = server /\ helper' = helper
    BY <1>1 DEF Taken
  <1>4. TypeOK'
    <2>1. reports' \subseteq reports \cup {[stage |-> stage, config |-> config]}
      BY DEF WriteReport
    <2>2. config \in Config /\ stage \in {"placement", "sample"}
      BY DEF WriteReport, Phases, IInv, TypeOK
    <2>3. reports' \in SUBSET Report
      <3>1. [stage |-> stage, config |-> config] \in Report
        BY <2>2 DEF Report
      <3> QED  BY <2>1, <3>1 DEF IInv, TypeOK
    <2>4. proved' \in SUBSET Config
      BY <2>2 DEF WriteReport, IInv, TypeOK
    <2> QED  BY <1>3, <2>3, <2>4 DEF WriteReport, IInv, TypeOK, Quit
  <1>5. Phases'
    BY <1>3 DEF WriteReport, Phases, Trying, Quit
  <1>6. Cleanups'
    BY <1>3 DEF WriteReport, Cleanups, Quit
  <1>7. Past'
    <2>1. Passed => Fact
      BY PassedFact DEF WriteReport, PassProves
    <2>2. ASSUME NEW r \in reports' PROVE r.config \in proved'
      <3>1. CASE r \in reports
        BY <3>1 DEF WriteReport, Past, IInv
      <3>2. CASE r \notin reports
        <4>1. r = [stage |-> stage, config |-> config] /\ Passed
          BY <3>2 DEF WriteReport
        <4>2. r.config = config /\ config \in proved'
          BY <2>1, <4>1 DEF WriteReport
        <4> QED  BY <4>2
      <3> QED  BY <3>1, <3>2
    <2> QED  BY <2>2 DEF WriteReport, Past, SampleNeedsProof, Quit
  <1> QED  BY <1>2, <1>4, <1>5, <1>6, <1>7 DEF IInv

LEMMA BeginKeeps ==
    ASSUME IInv, NEW s \in {"placement", "sample"}, NEW c \in Config, Begin(s, c)
    PROVE  IInv'
  <1>1. Waiting' = {}
    BY NoLines DEF Begin, RemoteReset, Waiting
  <1>2. Honest'
    BY <1>1 DEF Begin, RemoteReset, Honest
  <1>3. RemoteTypeOK' /\ server' = "none" /\ helper' = "none"
    <2>1. /\ stdin' \in Seq({"REQUEST", "STOP"})
          /\ pipe' \in Seq(Line) /\ buf' \in Seq(Line)
      BY NoLines DEF Begin, RemoteReset
    <2>2. stopReq' \in BOOLEAN
      BY DEF Begin, RemoteReset
    <2>3. requests' \in 0..1 /\ logged' \in 0..MaxLines
      <3>1. requests' = 0 /\ logged' = 0
        BY DEF Begin, RemoteReset
      <3>2. 0 \in 0..MaxLines
        BY LinesAssumption
      <3> QED  BY <3>1, <3>2
    <2> QED  BY <2>1, <2>2, <2>3 DEF Begin, RemoteReset, RemoteTypeOK
  <1>4. TypeOK'
    <2>1. passed' \in BOOLEAN /\ runs' \in 0..MaxRuns
      <3>1. passed' = passed /\ runs' = runs + 1 /\ runs < MaxRuns
        BY DEF Begin
      <3>2. passed \in BOOLEAN /\ runs \in 0..MaxRuns
        BY DEF IInv, TypeOK
      <3> QED  BY <3>1, <3>2, RunsAssumption
    <2>2. ctl' \in Trying
      BY DEF Begin, Trying
    <2> QED  BY <1>3, <2>1, <2>2 DEF Begin, IInv, TypeOK
  <1>5. Phases'
    BY <1>3 DEF Begin, Phases, IInv
  <1>6. Cleanups'
    BY <1>3 DEF Begin, Cleanups, Phases, IInv
  <1>7. Past'
    BY DEF Begin, Past, SampleNeedsProof, Approved, IInv
  <1> QED  BY <1>2, <1>4, <1>5, <1>6, <1>7 DEF IInv

LEMMA InterruptKeeps ==
    ASSUME IInv, Interrupt
    PROVE  IInv'
  <1>1. /\ Taken /\ UNCHANGED helper /\ (link = "none" => link' = "none")
    BY SameFact, LinkDropsFact DEF Interrupt, IInv, TypeOK
  <1>2. Honest'
    BY <1>1, TakenHonest DEF IInv
  <1>3. RemoteTypeOK' /\ requests' = requests /\ server' = server /\ helper' = helper
    BY <1>1 DEF Taken
  <1>4. TypeOK'
    BY <1>3 DEF Interrupt, Cleaning, IInv, TypeOK, runVars, pastVars, ToCleanup
  <1>5. Phases'
    BY <1>3 DEF Interrupt, Phases, Trying, IInv, runVars, ToCleanup
  <1>6. Cleanups'
    BY <1>3 DEF Interrupt, Cleanups, Trying, IInv, runVars, ToCleanup
  <1>7. Past'
    BY DEF Interrupt, Past, SampleNeedsProof, Trying, IInv, runVars, pastVars
  <1> QED  BY <1>2, <1>4, <1>5, <1>6, <1>7 DEF IInv

LEMMA KillKeeps ==
    ASSUME IInv, Kill
    PROVE  IInv'
  <1>1. /\ Taken /\ UNCHANGED helper /\ (link = "none" => link' = "none")
    BY HangUpFact DEF Kill, IInv, TypeOK, Quit
  <1>2. Honest'
    BY <1>1, TakenHonest DEF IInv
  <1>3. RemoteTypeOK' /\ requests' = requests /\ server' = server /\ helper' = helper
    BY <1>1 DEF Taken
  <1>4. TypeOK'
    BY <1>3 DEF Kill, IInv, TypeOK, Quit
  <1>5. Phases'
    BY <1>3 DEF Kill, Phases, Trying, Quit
  <1>6. Cleanups'
    BY <1>3 DEF Kill, Cleanups, Quit
  <1>7. Past'
    BY DEF Kill, Past, SampleNeedsProof, IInv, Quit
  <1> QED  BY <1>2, <1>4, <1>5, <1>6, <1>7 DEF IInv

LEMMA LocalDiesKeeps ==
    ASSUME IInv, LocalDies
    PROVE  IInv'
  <1>1. /\ Taken /\ UNCHANGED helper /\ (link = "none" => link' = "none")
    BY SameFact DEF LocalDies, IInv, TypeOK
  <1>2. Honest'
    BY <1>1, TakenHonest DEF IInv
  <1>3. RemoteTypeOK' /\ requests' = requests /\ server' = server /\ helper' = helper
    BY <1>1 DEF Taken
  <1>4. TypeOK'
    BY <1>3 DEF LocalDies, IInv, TypeOK, runVars, pastVars
  <1>5. Phases'
    BY <1>3 DEF LocalDies, Phases, IInv, runVars
  <1>6. Cleanups'
    BY <1>3 DEF LocalDies, Cleanups, IInv, runVars
  <1>7. Past'
    BY DEF LocalDies, Past, SampleNeedsProof, IInv, runVars, pastVars
  <1> QED  BY <1>2, <1>4, <1>5, <1>6, <1>7 DEF IInv

LEMMA RemoteKeeps ==
    ASSUME IInv, Remote(RemoteNext)
    PROVE  IInv'
  <1>1. RemoteKept
    BY RemoteNextKept DEF Remote, IInv, TypeOK
  <1>2. Honest'
    BY <1>1 DEF RemoteKept
  <1>3. /\ RemoteTypeOK' /\ (requests = 1 => requests' = 1)
        /\ (server = "exited" => server' = "exited") /\ (helper = "none" => helper' = "none")
    BY <1>1 DEF RemoteKept
  <1>4. TypeOK'
    BY <1>3 DEF Remote, IInv, TypeOK, runVars, pastVars
  <1>5. Phases'
    BY <1>3 DEF Remote, Phases, IInv, runVars
  <1>6. Cleanups'
    BY <1>3 DEF Remote, Cleanups, IInv, runVars
  <1>7. Past'
    BY DEF Remote, Past, SampleNeedsProof, IInv, runVars, pastVars
  <1> QED  BY <1>2, <1>4, <1>5, <1>6, <1>7 DEF IInv

(***************************************************************************)
(* The invariant and what follows from it.                                 *)
(***************************************************************************)

LEMMA NextInv == ASSUME IInv, [Next]_vars PROVE IInv'
  <1>1. ASSUME NEW s \in {"placement", "sample"}, NEW c \in Config, Begin(s, c)
        PROVE  IInv'
    BY <1>1, BeginKeeps
  <1>2. CASE Controller
    BY <1>2, RaiseKeeps, StartLocalKeeps, MacReadyKeeps, LaunchRemoteKeeps,
       ReadIdentityKeeps, ReadPlacementKeeps, SendRequestKeeps, ReadResponseKeeps,
       ReadFailsKeeps, StopRemoteKeeps, StopRemoteFailsKeeps, ReadReceiptKeeps,
       RemoteStoppedKeeps, StopLocalKeeps, WriteReportKeeps DEF Controller
  <1>3. CASE Block \/ Interrupt \/ Kill \/ LocalDies \/ Remote(RemoteNext)
    BY <1>3, BlockKeeps, InterruptKeeps, KillKeeps, LocalDiesKeeps, RemoteKeeps
  <1>4. CASE UNCHANGED vars
    <2>1. Taken /\ UNCHANGED <<helper, link>>
      BY <1>4, SameFact DEF vars, IInv, TypeOK
    <2>2. Honest'
      BY <2>1, TakenHonest DEF IInv
    <2>3. TypeOK'
      BY <1>4, <2>1 DEF vars, runVars, pastVars, IInv, TypeOK, Taken
    <2>4. Phases' /\ Cleanups' /\ Past'
      BY <1>4, <2>1 DEF vars, runVars, pastVars, IInv, Phases, Cleanups, Past,
         SampleNeedsProof, Taken
    <2> QED  BY <2>2, <2>3, <2>4 DEF IInv
  <1> QED  BY <1>1, <1>2, <1>3, <1>4 DEF Next

\* The strengthened invariant holds in every reachable state
\* (SplitDiagnosticController).
THEOREM Invariance == Spec => []IInv
  BY InitInv, NextInv, PTL DEF Spec

\* The types of both ends of the connection and of the run.
THEOREM TypeCorrect == Spec => []TypeOK
  <1>1. IInv => TypeOK
    BY DEF IInv
  <1> QED  BY <1>1, Invariance, PTL

\* A run that passed had every measurement and its answer, and left neither the
\* server nor the worker, whatever is lost or run together (run, stop).
THEOREM PassIsProved == Spec => []PassProves
  BY PassedFact, Invariance, PTL

\* What a run got hold of and left running is among its errors (the finally
\* clause of run).
THEOREM NothingLeftSilently == Spec => []LeftIsReported
  <1>1. IInv => LeftIsReported
    BY DEF IInv, Cleanups, LeftIsReported
  <1> QED  BY <1>1, Invariance, PTL

\* A sample rests on an earlier run that truly passed with the same configuration
\* (_validate_stage1_report).
THEOREM SampleRestsOnProof == Spec => []SampleNeedsProof
  <1>1. IInv => SampleNeedsProof
    BY DEF IInv, Past
  <1> QED  BY <1>1, Invariance, PTL

\* The worker ends after the server, or after its cleanup failed (run).
THEOREM HeadFirst == Spec => HeadBeforeWorker
  <1> DEFINE Ordered == (ctl = "stopLocal" /\ ctl' = "write" /\ "mac" \in started
                           /\ "tiny" \in started)
                        => server # "running" \/ "tiny" \in failed
  <1>1. IInv => Ordered
    BY DEF IInv, Cleanups
  <1>2. IInv /\ [Next]_vars => [Ordered]_vars
    BY <1>1
  <1> QED  BY <1>2, Invariance, PTL DEF Spec, HeadBeforeWorker

(***************************************************************************)
(* The controller implements DiagnosticRuns.                               *)
(***************************************************************************)

\* Between two runs the controller knows nothing of either.
Between == ctl = "idle" => stage = "none" /\ config = NoConfig /\ seen = {}

LEMMA BetweenStep ==
    ASSUME IInv, Between, [Next]_vars
    PROVE  Between'
  <1> USE DEF Between
  <1>1. ASSUME NEW s, NEW c, Begin(s, c) PROVE Between'
    BY <1>1 DEF Begin
  <1>2. CASE Quit
    BY <1>2 DEF Quit
  <1>3. CASE ctl # "idle" /\ ctl' # "idle"
    BY <1>3
  <1>4. CASE UNCHANGED <<ctl, stage, config, seen>>
    BY <1>4
  <1>5. CASE Controller
    <2>1. CASE WriteReport
      BY <1>2, <2>1 DEF WriteReport
    <2>2. CASE Raise \/ StartLocal \/ MacReady \/ LaunchRemote \/ ReadIdentity \/ ReadFails
      BY <1>3, <2>2 DEF Raise, StartLocal, MacReady, LaunchRemote, ReadIdentity, ReadFails,
                        ToCleanup, Trying
    <2>3. CASE ReadPlacement \/ SendRequest \/ ReadResponse \/ StopLocal
      BY <1>3, <2>3 DEF ReadPlacement, SendRequest, ReadResponse, StopLocal, ToCleanup
    <2>4. CASE StopRemote \/ StopRemoteFails \/ ReadReceipt \/ RemoteStopped
      BY <1>3, <2>4 DEF StopRemote, StopRemoteFails, ReadReceipt, RemoteStopped,
                        RemoteCleanupFails
    <2> QED  BY <1>5, <2>1, <2>2, <2>3, <2>4 DEF Controller
  <1>6. CASE Interrupt \/ Kill
    BY <1>2, <1>3, <1>6 DEF Interrupt, Kill, ToCleanup, Trying
  <1>7. CASE Block \/ LocalDies \/ Remote(RemoteNext) \/ UNCHANGED vars
    BY <1>4, <1>7 DEF Block, LocalDies, Remote, runVars, vars
  <1> QED  BY <1>1, <1>5, <1>6, <1>7 DEF Next

Follows == Runs!RunsNext \/ UNCHANGED Runs!runsVars

\* A step in which at most processes start or end.
LEMMA ProcessesFollow ==
    ASSUME UNCHANGED <<stage, config, seen, requests, reports>>,
           stage = "none" /\ local' = "running" => local = "running"
    PROVE  Follows
  <1>1. Runs!Processes
    BY DEF Runs!Processes, Owner, Valid
  <1> QED  BY <1>1 DEF Follows, Runs!RunsNext

\* A step in which at most evidence is added.
LEMMA EvidenceFollows ==
    ASSUME UNCHANGED <<stage, config, server, local, reports>>,
           seen \subseteq seen', requests = 1 => requests' = 1
    PROVE  Follows
  <1>1. Valid(seen) => Valid(seen')
    BY DEF Valid
  <1>2. Runs!Show \/ UNCHANGED Runs!runsVars
    BY <1>1 DEF Runs!Show, Runs!runsVars
  <1> QED  BY <1>2 DEF Follows, Runs!RunsNext

LEMMA BeginFollows ==
    ASSUME IInv, Between, NEW s \in {"placement", "sample"}, NEW c \in Config, Begin(s, c)
    PROVE  Follows
  <1>1. ~Valid(seen) /\ seen' = seen /\ stage = "none"
    BY MeasurementAssumption DEF Begin, Between, Valid
  <1>2. Runs!BeginRun(s, c)
    BY <1>1 DEF Begin, RemoteReset, CapacityGate, Approved, Owner, Valid, Runs!BeginRun
  <1> QED  BY <1>2 DEF Follows, Runs!RunsNext

\* A run that ends has a report only if it passed.
LEMMA QuitFollows ==
    ASSUME IInv, ctl # "idle", Quit,
           \/ UNCHANGED reports
           \/ /\ ctl = "write" /\ Passed
              /\ reports' = reports \cup {[stage |-> stage, config |-> config]}
    PROVE  Follows
  <1>1. stage # "none" /\ server' = server
    BY DEF IInv, Phases, Quit, HangUp
  <1>2. ctl = "write" /\ Passed => Fact
    BY PassedFact DEF PassProves
  <1>3. Runs!EndRun
    BY <1>1, <1>2 DEF Quit, Fact, Owner, Runs!EndRun
  <1> QED  BY <1>3 DEF Follows, Runs!RunsNext

LEMMA RemoteFollows ==
    ASSUME Remote(RemoteNext)
    PROVE  Follows
  <1>1. UNCHANGED <<stage, config, seen, local, reports>>
    BY DEF Remote, runVars, pastVars
  <1>2. CASE UNCHANGED requests
    BY <1>1, <1>2, ProcessesFollow
  <1>3. CASE ReadCommand
    BY <1>1, <1>3, EvidenceFollows DEF ReadCommand
  <1>4. CASE StartServer \/ Announce \/ ReadEnd \/ AnswerRequest \/ LeaveLoop \/ EndServer
    BY <1>2, <1>4 DEF StartServer, Announce, ReadEnd, AnswerRequest, LeaveLoop, EndServer
  <1>5. CASE ServerLogs \/ ServerDies \/ LinkDrops
    BY <1>2, <1>5 DEF ServerLogs, ServerDies, LinkDrops
  <1> QED  BY <1>3, <1>4, <1>5 DEF Remote, RemoteNext, HelperStep

LEMMA ControllerFollows ==
    ASSUME IInv, Controller
    PROVE  Follows
  <1>1. stage # "none"
    BY DEF IInv, Phases, Controller, Raise, StartLocal, MacReady, LaunchRemote, ReadIdentity,
           ReadPlacement, SendRequest, ReadResponse, ReadFails, StopRemote, StopRemoteFails,
           ReadReceipt, RemoteStopped, StopLocal, WriteReport, Trying
  <1>2. CASE UNCHANGED <<stage, config, seen, requests, reports>>
    BY <1>1, <1>2, ProcessesFollow
  <1>3. CASE WriteReport
    BY <1>3, QuitFollows DEF WriteReport
  <1>4. CASE ReadPlacement
    BY <1>4, EvidenceFollows DEF ReadPlacement, Receive, pastVars
  <1>5. CASE Raise \/ MacReady \/ ReadFails \/ RemoteStopped \/ StopLocal
    BY <1>2, <1>5 DEF Raise, MacReady, ReadFails, RemoteStopped, StopLocal,
                      remoteVars, runVars, pastVars
  <1>6. CASE StartLocal \/ LaunchRemote \/ ReadIdentity \/ SendRequest \/ ReadResponse
    BY <1>2, <1>6 DEF StartLocal, LaunchRemote, ReadIdentity, SendRequest, ReadResponse,
                      Launch, Receive, Send, remoteVars, runVars, pastVars
  <1>7. CASE StopRemote \/ StopRemoteFails \/ ReadReceipt
    BY <1>2, <1>7 DEF StopRemote, StopRemoteFails, ReadReceipt, RemoteCleanupFails,
                      Receive, Send, remoteVars, runVars, pastVars
  <1> QED  BY <1>3, <1>4, <1>5, <1>6, <1>7 DEF Controller

LEMMA StepFollows ==
    ASSUME IInv, Between, [Next]_vars
    PROVE  Follows
  <1>1. CASE Interrupt
    <2>1. stage # "none"
      BY <1>1 DEF Interrupt, Trying, IInv, Phases
    <2> QED  BY <1>1, <2>1, ProcessesFollow DEF Interrupt, LinkDrops, remoteVars, runVars, pastVars
  <1>2. CASE Kill
    BY <1>2, QuitFollows DEF Kill
  <1>3. CASE Block \/ LocalDies \/ UNCHANGED vars
    BY <1>3, ProcessesFollow DEF Block, LocalDies, vars, remoteVars, runVars, pastVars
  <1> QED  BY <1>1, <1>2, <1>3, BeginFollows, ControllerFollows, RemoteFollows DEF Next

\* What the diagnostic reports, whatever fails, is what DiagnosticRuns allows: runs
\* one at a time on clean hosts, and passing reports of what was shown and is gone.
THEOREM ControllerImplementsRuns == Spec => RunsRefinement
  <1>1. Init => Runs!RunsInit /\ Between
    BY DEF Init, NoRemote, Between, Owner, Runs!RunsInit
  <1>2. IInv /\ Between /\ [Next]_vars => Between'
    BY BetweenStep
  <1>3. IInv /\ Between /\ [Next]_vars => [Runs!RunsNext]_(Runs!runsVars)
    BY StepFollows DEF Follows
  <1> QED  BY <1>1, <1>2, <1>3, Invariance, PTL DEF Spec, RunsRefinement, Runs!RunsSpec

(***************************************************************************)
(* How long a run takes.                                                   *)
(***************************************************************************)

\* The lines of a run that nobody has read: those on their way, and at most those the
\* helper has still to print (its identity, the log, the answer and the receipt).
ToPrint ==
    (MaxLines - logged)
    + (IF helper \in {"none", "launched", "announcing"} THEN 1 ELSE 0)
    + (IF requests = 0 \/ reader = "requesting" THEN 1 ELSE 0)
    + (IF HelperGone /\ helper # "none" THEN 0 ELSE 1)
ToRead == Len(pipe) + Len(buf) + ToPrint

\* How far the controller is from the end of its run.
Rank ==
    CASE ctl = "startLocal" -> 12
      [] ctl = "waitReady" -> 11
      [] ctl = "launch" -> 10
      [] ctl = "identity" -> 9
      [] ctl = "placement" -> 8
      [] ctl = "request" -> 7
      [] ctl = "response" -> 6
      [] ctl = "stopRemote" -> 5
      [] ctl = "receipt" -> 4
      [] ctl = "transport" -> 3
      [] ctl = "stopLocal" -> 2
      [] ctl = "write" -> 1
      [] OTHER -> 0

\* At most how many more steps the controller takes in its run.
StepsLeft == IF ctl = "idle" THEN 0 ELSE Rank + ToRead

Bound == MaxLines + 15

LinesBounded == ToRead <= MaxLines + 3

\* A step of the controller brings its run nearer to the end, and no other step
\* takes it further away.
Nearer ==
    /\ Controller => StepsLeft' < StepsLeft
    /\ ctl # "idle" => StepsLeft' <= StepsLeft

LEMMA RankType == Rank \in 0..12
  BY DEF Rank

LEMMA CountType ==
    RemoteTypeOK =>
        /\ Len(pipe) \in Nat /\ Len(buf) \in Nat
        /\ ToPrint \in 0..MaxLines + 3 /\ ToRead \in Nat
  <1> SUFFICES ASSUME RemoteTypeOK
               PROVE  /\ Len(pipe) \in Nat /\ Len(buf) \in Nat
                      /\ ToPrint \in 0..MaxLines + 3 /\ ToRead \in Nat
    OBVIOUS
  <1>1. Len(pipe) \in Nat /\ Len(buf) \in Nat
    BY DEF RemoteTypeOK
  <1>2. ToPrint \in 0..MaxLines + 3
    BY LinesAssumption DEF RemoteTypeOK, ToPrint
  <1> QED  BY <1>1, <1>2, LinesAssumption DEF ToRead

\* A read takes one line.
LEMMA ReceiveCounts ==
    ASSUME RemoteTypeOK, NEW l, Receive(l)
    PROVE  ToRead' = ToRead - 1
  <1>1. pipe \in Seq(Line) /\ buf \in Seq(Line)
    BY DEF RemoteTypeOK
  <1>2. Len(pipe') + Len(buf') = Len(pipe) + Len(buf) - 1
    <2>1. CASE buf # <<>> /\ buf' = Tail(buf) /\ pipe' = pipe
      BY <1>1, <2>1
    <2>2. CASE pipe # <<>> /\ buf = <<>>
      <3>1. PICK k \in 1..Len(pipe) :
               /\ buf' = SubSeq(pipe, 2, k)
               /\ pipe' = SubSeq(pipe, k + 1, Len(pipe))
        BY <2>2 DEF Receive
      <3>2. Len(buf') = k - 1 /\ Len(pipe') = Len(pipe) - k
        BY <1>1, <3>1
      <3> QED  BY <1>1, <2>2, <3>2
    <2> QED  BY <2>1, <2>2 DEF Receive
  <1>3. ToPrint' = ToPrint
    BY DEF Receive, ToPrint, HelperGone
  <1> QED  BY <1>1, <1>2, <1>3, CountType DEF ToRead

\* Both counts are numbers before and after every step.
LEMMA CountsType ==
    ASSUME IInv, [Next]_vars
    PROVE  /\ RemoteTypeOK /\ RemoteTypeOK'
           /\ Rank \in 0..12 /\ Rank' \in 0..12
           /\ ToRead \in Nat /\ ToRead' \in Nat
  <1>1. RemoteTypeOK /\ RemoteTypeOK'
    BY NextInv DEF IInv, TypeOK
  <1>2. (RemoteTypeOK => ToRead \in Nat)'
    BY CountType, PTL
  <1>3. Rank' \in 0..12
    BY DEF Rank
  <1> QED  BY <1>1, <1>2, <1>3, CountType, RankType

LEMMA EmitCounts ==
    ASSUME RemoteTypeOK, NEW l \in Line, Emit(l)
    PROVE  Len(pipe') \in Nat /\ Len(pipe') <= Len(pipe) + 1
  BY DEF RemoteTypeOK, Emit

\* What the other side prints was to be printed.
LEMMA RemoteCounts ==
    ASSUME RemoteTypeOK, Honest, RemoteNext
    PROVE  ToRead' <= ToRead
  <1> DEFINE Unread == Len(pipe) + Len(buf)
  <1>1. Len(pipe) \in Nat /\ Len(buf) \in Nat /\ ToPrint \in Nat /\ ToRead \in Nat
    BY CountType, LinesAssumption
  <1>2. MaxLines \in Nat /\ logged \in 0..MaxLines
    BY LinesAssumption DEF RemoteTypeOK
  <1>3. ASSUME UNCHANGED <<pipe, buf>>, ToPrint' \in Nat, ToPrint' <= ToPrint
        PROVE  ToRead' <= ToRead
    BY <1>1, <1>3 DEF ToRead
  <1>4. ASSUME NEW l \in Line, Emit(l), UNCHANGED buf, ToPrint' \in Nat, ToPrint' <= ToPrint - 1
        PROVE  ToRead' <= ToRead
    BY <1>1, <1>4, EmitCounts DEF ToRead
  <1>5. CASE StartServer \/ ReadCommand \/ ReadEnd \/ LeaveLoop
    <2>1. ToPrint' \in Nat /\ ToPrint' <= ToPrint
      BY <1>2, <1>5 DEF StartServer, ReadCommand, ReadEnd, LeaveLoop, ToPrint, HelperGone
    <2> QED  BY <1>3, <1>5, <2>1 DEF StartServer, ReadCommand, ReadEnd, LeaveLoop
  <1>6. CASE ServerDies \/ LinkDrops
    <2>1. ToPrint' \in Nat /\ ToPrint' <= ToPrint
      BY <1>2, <1>6 DEF ServerDies, LinkDrops, ToPrint, HelperGone
    <2> QED  BY <1>3, <1>6, <2>1 DEF ServerDies, LinkDrops
  <1>7. CASE Announce
    <2>1. ToPrint' \in Nat /\ ToPrint' <= ToPrint - 1
      BY <1>2, <1>7 DEF Announce, ToPrint, HelperGone
    <2>2. "identity" \in Line
      BY DEF Line
    <2> QED  BY <1>4, <1>7, <2>1, <2>2 DEF Announce
  <1>8. CASE AnswerRequest
    <2>1. PICK l \in Answers : Emit(l)
      BY <1>8 DEF AnswerRequest
    <2>2. requests = 1
      BY <1>8 DEF AnswerRequest, Honest
    <2>3. reader' # "requesting" /\ reader = "requesting"
          /\ UNCHANGED <<helper, requests, logged, buf>>
      BY <1>8 DEF AnswerRequest
    <2>4. ToPrint' \in Nat /\ ToPrint' <= ToPrint - 1
      BY <1>2, <2>2, <2>3 DEF ToPrint, HelperGone
    <2> QED  BY <1>4, <2>1, <2>3, <2>4 DEF Line
  <1>9. CASE EndServer
    <2>1. ToPrint' \in Nat /\ ToPrint' <= ToPrint - 1
      BY <1>2, <1>9 DEF EndServer, ToPrint, HelperGone
    <2>2. CASE UNCHANGED pipe
      BY <1>1, <1>3, <1>9, <2>1, <2>2 DEF EndServer
    <2>3. ASSUME NEW l \in Receipts, Emit(l) PROVE ToRead' <= ToRead
      BY <1>4, <1>9, <2>1, <2>3 DEF EndServer, Line
    <2> QED  BY <1>9, <2>2, <2>3 DEF EndServer
  <1>10. CASE ServerLogs
    <2>1. PICK l \in LogLine : Emit(l)
      BY <1>10 DEF ServerLogs
    <2>2. ToPrint' \in Nat /\ ToPrint' <= ToPrint - 1
      BY <1>2, <1>10 DEF ServerLogs, ToPrint, HelperGone
    <2> QED  BY <1>4, <1>10, <2>1, <2>2 DEF ServerLogs, Line
  <1> QED  BY <1>5, <1>6, <1>7, <1>8, <1>9, <1>10 DEF RemoteNext, HelperStep

\* What the controller does adds no line.
LEMMA ControllerCounts ==
    ASSUME IInv, Controller
    PROVE  ToRead' <= ToRead
  <1>0. RemoteTypeOK
    BY DEF IInv, TypeOK
  <1>1. ToRead \in Nat /\ Len(pipe) \in Nat /\ Len(buf) \in Nat /\ ToPrint \in Nat
    BY <1>0, CountType, LinesAssumption
  <1>2. ASSUME UNCHANGED remoteVars PROVE ToRead' <= ToRead
    BY <1>1, <1>2 DEF remoteVars, ToRead, ToPrint, HelperGone
  <1>3. ASSUME NEW l, Receive(l) PROVE ToRead' <= ToRead
    BY <1>0, <1>1, <1>3, ReceiveCounts
  <1>4. ASSUME NEW c, Send(c) PROVE ToRead' <= ToRead
    BY <1>1, <1>4 DEF Send, ToRead, ToPrint, HelperGone
  <1>5. CASE WriteReport
    <2>1. ToPrint' = ToPrint /\ pipe' = <<>> /\ buf' = <<>>
      BY <1>5 DEF WriteReport, Quit, HangUp, ToPrint, HelperGone
    <2> QED  BY <1>1, <2>1 DEF ToRead
  <1>6. CASE LaunchRemote
    <2>1. helper = "none"
      BY <1>6 DEF LaunchRemote, IInv, Phases
    <2>2. ToPrint' = ToPrint /\ UNCHANGED <<pipe, buf>>
      BY <1>6, <2>1 DEF LaunchRemote, Launch, ToPrint, HelperGone
    <2> QED  BY <1>1, <2>2 DEF ToRead
  <1>7. CASE Raise \/ StartLocal \/ MacReady \/ ReadFails \/ RemoteStopped \/ StopLocal \/ StopRemoteFails
    BY <1>2, <1>7 DEF Raise, StartLocal, MacReady, ReadFails, RemoteStopped, StopLocal, StopRemoteFails
  <1>8. CASE ReadIdentity \/ ReadPlacement \/ ReadResponse \/ ReadReceipt
    BY <1>3, <1>8 DEF ReadIdentity, ReadPlacement, ReadResponse, ReadReceipt
  <1>9. CASE SendRequest \/ StopRemote
    BY <1>2, <1>4, <1>9 DEF SendRequest, StopRemote
  <1> QED  BY <1>5, <1>6, <1>7, <1>8, <1>9 DEF Controller

\* The sum of the two counts goes the way they go.
LEMMA SumDecides ==
    ASSUME IInv, [Next]_vars, ctl # "idle", ToRead' <= ToRead,
           ctl' # "idle" => Rank' <= Rank
    PROVE  /\ StepsLeft' <= StepsLeft
           /\ Rank > 0 /\ (ctl' = "idle" \/ Rank' < Rank \/ ToRead' < ToRead)
                 => StepsLeft' < StepsLeft
  <1>1. /\ Rank \in Nat /\ Rank' \in Nat
        /\ ToRead \in Nat /\ ToRead' \in Nat
    BY CountsType
  <1>2. StepsLeft = Rank + ToRead
    BY DEF StepsLeft
  <1>3. CASE ctl' = "idle"
    <2>1. StepsLeft' = 0
      BY <1>3 DEF StepsLeft
    <2> QED  BY <1>1, <1>2, <2>1
  <1>4. CASE ctl' # "idle"
    <2>1. StepsLeft' = Rank' + ToRead'
      BY <1>4 DEF StepsLeft
    <2>2. Rank' <= Rank /\ ToRead' <= ToRead
      BY <1>4
    <2>3. ASSUME NEW r \in Nat, NEW q \in Nat, NEW m \in Nat, NEW n \in Nat,
                 q <= r, n <= m
          PROVE  q + n <= r + m /\ (q < r \/ n < m => q + n < r + m)
      BY <2>3
    <2> QED  BY <1>1, <1>2, <1>4, <2>1, <2>2, <2>3
  <1> QED  BY <1>3, <1>4

\* A step of the controller that stays where it is has read a line.
LEMMA ControllerNearer ==
    ASSUME IInv, Controller
    PROVE  StepsLeft' < StepsLeft /\ StepsLeft' <= StepsLeft
  <1>1. [Next]_vars /\ RemoteTypeOK /\ ToRead \in Nat
    BY CountsType DEF Next
  <1>2. ToRead' <= ToRead
    BY ControllerCounts
  <1>3. ASSUME ctl # "idle", Rank > 0, ctl' = "idle" \/ Rank' < Rank
        PROVE  StepsLeft' < StepsLeft /\ StepsLeft' <= StepsLeft
    <2>1. Rank \in Nat /\ Rank' \in Nat
      BY <1>1, CountsType
    <2>2. ctl' # "idle" => Rank' <= Rank
      BY <1>3, <2>1
    <2> QED  BY <1>1, <1>2, <1>3, <2>2, SumDecides
  <1>4. ASSUME ctl # "idle", Rank > 0, ctl' = ctl, NEW l, Receive(l)
        PROVE  StepsLeft' < StepsLeft /\ StepsLeft' <= StepsLeft
    <2>1. ToRead' < ToRead
      BY <1>1, <1>4, ReceiveCounts
    <2>2. Rank' <= Rank
      <3>1. Rank' = Rank
        BY <1>4 DEF Rank
      <3>2. Rank \in Nat
        BY <1>1, CountsType
      <3> QED  BY <3>1, <3>2
    <2> QED  BY <1>1, <1>2, <1>4, <2>1, <2>2, SumDecides
  <1>5. CASE Raise
    <2>1. ctl # "idle" /\ Rank > 0 /\ Rank' < Rank
      BY <1>5 DEF Raise, ToCleanup, Trying, Rank
    <2> QED  BY <1>3, <2>1
  <1>6. CASE StartLocal \/ MacReady \/ LaunchRemote
    <2>1. ctl # "idle" /\ Rank > 0 /\ Rank' < Rank
      BY <1>6 DEF StartLocal, MacReady, LaunchRemote, Rank
    <2> QED  BY <1>3, <2>1
  <1>12. CASE ReadFails
    <2>1. ctl \in {"identity", "placement", "response"} /\ ctl' = "stopRemote"
      BY <1>12 DEF ReadFails, ToCleanup
    <2>2. ctl # "idle" /\ Rank > 0 /\ Rank' < Rank
      BY <2>1 DEF Rank
    <2> QED  BY <1>3, <2>2
  <1>7. CASE ReadIdentity \/ SendRequest \/ StopRemote \/ StopRemoteFails \/ RemoteStopped \/ StopLocal
    <2>1. ctl # "idle" /\ Rank > 0 /\ Rank' < Rank
      BY <1>7 DEF ReadIdentity, SendRequest, StopRemote, StopRemoteFails, RemoteStopped,
                  StopLocal, RemoteCleanupFails, ToCleanup, Rank
    <2> QED  BY <1>3, <2>1
  <1>8. CASE ReadPlacement
    <2>1. ctl # "idle" /\ Rank > 0 /\ (Rank' < Rank \/ ctl' = ctl)
      BY <1>8 DEF ReadPlacement, ToCleanup, Rank
    <2>2. PICK l \in Line : Receive(l)
      BY <1>8 DEF ReadPlacement
    <2> QED  BY <1>3, <1>4, <2>1, <2>2
  <1>9. CASE ReadResponse
    <2>1. ctl # "idle" /\ Rank > 0 /\ (Rank' < Rank \/ ctl' = ctl)
      BY <1>9 DEF ReadResponse, ToCleanup, Rank
    <2>2. PICK l \in Line : Receive(l)
      BY <1>9 DEF ReadResponse
    <2> QED  BY <1>3, <1>4, <2>1, <2>2
  <1>10. CASE ReadReceipt
    <2>1. ctl # "idle" /\ Rank > 0 /\ (Rank' < Rank \/ ctl' = ctl)
      BY <1>10 DEF ReadReceipt, RemoteCleanupFails, Rank
    <2>2. PICK l \in Line : Receive(l)
      BY <1>10 DEF ReadReceipt
    <2> QED  BY <1>3, <1>4, <2>1, <2>2
  <1>11. CASE WriteReport
    <2>1. ctl # "idle" /\ Rank > 0 /\ ctl' = "idle"
      BY <1>11 DEF WriteReport, Quit, Rank
    <2> QED  BY <1>3, <2>1
  <1> QED  BY <1>5, <1>6, <1>7, <1>8, <1>9, <1>10, <1>11, <1>12 DEF Controller

\* The other steps of a run: the connection's, the worker's, an interrupt, a kill.
LEMMA OthersCount ==
    ASSUME IInv, Block \/ Interrupt \/ Kill \/ LocalDies \/ Remote(RemoteNext) \/ UNCHANGED vars
    PROVE  /\ ToRead' <= ToRead
           /\ ctl' = ctl \/ ctl' = "idle" \/ (ctl \in Trying /\ ctl' = "stopRemote")
  <1>0. RemoteTypeOK /\ Honest
    BY DEF IInv, TypeOK
  <1>1. ToRead \in Nat /\ Len(pipe) \in Nat /\ Len(buf) \in Nat /\ ToPrint \in Nat
    BY <1>0, CountType, LinesAssumption
  <1>2. ASSUME UNCHANGED remoteVars PROVE ToRead' <= ToRead
    BY <1>1, <1>2 DEF remoteVars, ToRead, ToPrint, HelperGone
  <1>3. CASE Interrupt
    <2>1. UNCHANGED remoteVars \/ RemoteNext
      BY <1>3 DEF Interrupt, RemoteNext
    <2> QED  BY <1>0, <1>2, <1>3, <2>1, RemoteCounts DEF Interrupt, ToCleanup
  <1>4. CASE Kill
    <2>1. ToPrint' = ToPrint /\ pipe' = <<>> /\ buf' = <<>>
      BY <1>4 DEF Kill, Quit, HangUp, ToPrint, HelperGone
    <2> QED  BY <1>1, <1>4, <2>1 DEF ToRead, Kill, Quit
  <1>5. CASE Block \/ LocalDies \/ UNCHANGED vars
    BY <1>2, <1>5 DEF Block, LocalDies, vars
  <1>6. CASE Remote(RemoteNext)
    BY <1>0, <1>6, RemoteCounts DEF Remote
  <1> QED  BY <1>3, <1>4, <1>5, <1>6

LEMMA NearerStep == ASSUME IInv, [Next]_vars PROVE Nearer
  <1>1. CASE Controller
    <2>1. ctl # "idle"
      BY <1>1 DEF Controller, Raise, StartLocal, MacReady, LaunchRemote, ReadIdentity,
             ReadPlacement, SendRequest, ReadResponse, ReadFails, StopRemote, StopRemoteFails,
             ReadReceipt, RemoteStopped, StopLocal, WriteReport, Trying
    <2> QED  BY <1>1, <2>1, ControllerNearer DEF Nearer
  <1>2. CASE ctl = "idle" /\ ~Controller
    BY <1>2 DEF Nearer
  <1>3. CASE /\ ctl # "idle" /\ ~Controller
             /\ Block \/ Interrupt \/ Kill \/ LocalDies \/ Remote(RemoteNext) \/ UNCHANGED vars
    <2>1. ToRead' <= ToRead
      BY <1>3, OthersCount
    <2>2. Rank \in Nat
      BY CountsType
    <2>3. ctl' # "idle" => Rank' <= Rank
      <3>1. CASE ctl' = ctl
        <4>1. Rank' = Rank
          BY <3>1 DEF Rank
        <4> QED  BY <2>2, <4>1
      <3>2. CASE ctl \in Trying /\ ctl' = "stopRemote"
        BY <3>2 DEF Rank, Trying
      <3> QED  BY <1>3, <3>1, <3>2, OthersCount
    <2>4. StepsLeft' <= StepsLeft
      BY <1>3, <2>1, <2>3, SumDecides
    <2> QED  BY <1>3, <2>4 DEF Nearer
  <1>4. ASSUME NEW s, NEW c, Begin(s, c) PROVE ctl = "idle"
    BY <1>4 DEF Begin
  <1> QED  BY <1>1, <1>2, <1>3, <1>4 DEF Next

LEMMA LinesStep == ASSUME IInv, LinesBounded, [Next]_vars PROVE LinesBounded'
  <1>1. MaxLines \in Nat
    BY LinesAssumption
  <1>2. ToRead \in Nat /\ ToRead' \in Nat
    BY CountsType
  <1>3. ASSUME NEW s, NEW c, Begin(s, c) PROVE LinesBounded'
    <2>1. ToPrint' = MaxLines + 3 /\ pipe' = <<>> /\ buf' = <<>>
      BY <1>1, <1>3 DEF Begin, RemoteReset, ToPrint, HelperGone
    <2> QED  BY <1>1, <2>1 DEF LinesBounded, ToRead
  <1>4. ASSUME ToRead' <= ToRead PROVE LinesBounded'
    BY <1>1, <1>2, <1>4 DEF LinesBounded
  <1> QED  BY <1>3, <1>4, ControllerCounts, OthersCount DEF Next

\* What a read without a deadline waits for has come, or it is stuck.
BlockedReads ==
    blocked => /\ ctl \in {"identity", "placement", "response", "receipt"}
               /\ buf = <<>> /\ (pipe # <<>> \/ EndOfStream)

LEMMA EmitStays ==
    ASSUME RemoteTypeOK, NEW l \in Line, Emit(l)
    PROVE  pipe # <<>> => pipe' # <<>>
  <1>1. pipe \in Seq(Line)
    BY DEF RemoteTypeOK
  <1> QED  BY <1>1 DEF Emit

\* Lines that wait stay, and an ended stream has ended for good.
LEMMA StreamStays ==
    ASSUME RemoteTypeOK, RemoteNext
    PROVE  /\ UNCHANGED buf
           /\ pipe # <<>> => pipe' # <<>>
           /\ EndOfStream => EndOfStream'
  <1>1. CASE UNCHANGED pipe
    BY <1>1 DEF RemoteNext, HelperStep, StartServer, Announce, ReadCommand, ReadEnd, AnswerRequest,
           LeaveLoop, EndServer, ServerLogs, ServerDies, LinkDrops, EndOfStream, AtEnd,
           HelperGone, Alive
  <1>2. ASSUME NEW l \in Line, Emit(l), ~HelperGone, UNCHANGED <<link, buf>>
        PROVE  /\ UNCHANGED buf
               /\ pipe # <<>> => pipe' # <<>>
               /\ EndOfStream => EndOfStream'
    <2>1. pipe # <<>> => pipe' # <<>>
      BY <1>2, EmitStays
    <2>2. EndOfStream => EndOfStream'
      BY <1>2 DEF Emit, EndOfStream, AtEnd
    <2> QED  BY <1>2, <2>1, <2>2
  <1>3. CASE Announce \/ AnswerRequest \/ ServerLogs \/ EndServer
    <2>1. ~HelperGone /\ UNCHANGED <<link, buf>>
      BY <1>3 DEF Announce, AnswerRequest, ServerLogs, EndServer, HelperGone, Alive
    <2>2. CASE Announce
      BY <1>2, <2>1, <2>2 DEF Announce, Line
    <2>3. CASE AnswerRequest
      BY <1>2, <2>1, <2>3 DEF AnswerRequest, Line
    <2>4. CASE ServerLogs
      BY <1>2, <2>1, <2>4 DEF ServerLogs, Line
    <2>5. CASE EndServer
      BY <1>1, <1>2, <2>1, <2>5 DEF EndServer, Line
    <2> QED  BY <1>3, <2>2, <2>3, <2>4, <2>5
  <1>4. CASE StartServer \/ ReadCommand \/ ReadEnd \/ LeaveLoop \/ ServerDies \/ LinkDrops
    BY <1>1, <1>4 DEF StartServer, ReadCommand, ReadEnd, LeaveLoop, ServerDies, LinkDrops
  <1> QED  BY <1>3, <1>4 DEF RemoteNext, HelperStep

LEMMA BlockedStep == ASSUME IInv, BlockedReads, [Next]_vars PROVE BlockedReads'
  <1>1. RemoteTypeOK
    BY DEF IInv, TypeOK
  <1>2. ASSUME blocked' = FALSE PROVE BlockedReads'
    BY <1>2 DEF BlockedReads
  <1>3. ASSUME ~blocked, UNCHANGED blocked PROVE BlockedReads'
    BY <1>3 DEF BlockedReads, IInv, TypeOK
  <1>4. ASSUME NEW s, NEW c, Begin(s, c) PROVE BlockedReads'
    BY <1>3, <1>4 DEF Begin, BlockedReads
  <1>5. CASE Controller
    <2>1. CASE ReadIdentity \/ ReadPlacement \/ ReadResponse \/ ReadFails
      BY <1>2, <2>1 DEF ReadIdentity, ReadPlacement, ReadResponse, ReadFails
    <2>2. CASE StopRemoteFails \/ ReadReceipt \/ WriteReport
      BY <1>2, <2>2 DEF StopRemoteFails, ReadReceipt, RemoteCleanupFails, WriteReport, Quit
    <2>3. CASE Raise \/ StartLocal \/ MacReady \/ LaunchRemote \/ SendRequest
      BY <1>3, <2>3 DEF Raise, StartLocal, MacReady, LaunchRemote, SendRequest, BlockedReads, runVars
    <2>4. CASE StopRemote \/ RemoteStopped \/ StopLocal
      BY <1>3, <2>4 DEF StopRemote, RemoteStopped, StopLocal, BlockedReads, runVars
    <2> QED  BY <1>5, <2>1, <2>2, <2>3, <2>4 DEF Controller
  <1>6. CASE Block
    <2>1. buf = <<>> /\ (pipe # <<>> \/ EndOfStream)
      BY <1>1, <1>6 DEF Block, MayBeHalf, EndOfStream, RemoteTypeOK
    <2> QED  BY <1>6, <2>1 DEF Block, BlockedReads, remoteVars, EndOfStream, AtEnd, HelperGone
  <1>7. CASE Interrupt \/ Kill
    BY <1>2, <1>7 DEF Interrupt, Kill, Quit
  <1>8. CASE LocalDies \/ UNCHANGED vars
    BY <1>8 DEF LocalDies, vars, runVars, remoteVars, BlockedReads, EndOfStream, AtEnd, HelperGone
  <1>9. CASE Remote(RemoteNext)
    BY <1>1, <1>9, StreamStays DEF Remote, runVars, BlockedReads
  <1> QED  BY <1>4, <1>5, <1>6, <1>7, <1>8, <1>9 DEF Next

\* A run of the diagnostic ends by itself, unless it is stuck: whatever the helper
\* prints, and whenever, the controller is through its phases, its reads and its
\* cleanup after a bounded number of steps, and a read that waits without a deadline
\* has a line to return, unless it has only the half of one or is reading ssh's stderr
\* (run(), read_event, _read_line, stop).
RunIsBounded ==
    /\ [](StepsLeft \in 0..Bound)
    /\ [][Nearer]_vars
    /\ [](blocked => Stuck \/ (buf = <<>> /\ pipe # <<>>))

THEOREM RunsAreBounded == Spec => RunIsBounded
  <1>1. Init => LinesBounded
    <2> SUFFICES ASSUME Init PROVE LinesBounded
      OBVIOUS
    <2>1. ToPrint = MaxLines + 3 /\ pipe = <<>> /\ buf = <<>>
      BY LinesAssumption DEF Init, NoRemote, ToPrint, HelperGone
    <2> QED  BY <2>1, LinesAssumption DEF LinesBounded, ToRead
  <1>2. IInv /\ LinesBounded /\ [Next]_vars => LinesBounded'
    BY LinesStep
  <1>3. IInv /\ LinesBounded => StepsLeft \in 0..Bound
    <2> SUFFICES ASSUME IInv, LinesBounded PROVE StepsLeft \in 0..Bound
      OBVIOUS
    <2>1. RemoteTypeOK
      BY DEF IInv, TypeOK
    <2>2. Rank \in 0..12 /\ ToRead \in 0..MaxLines + 3 /\ MaxLines \in Nat
      BY <2>1, RankType, CountType, LinesAssumption DEF LinesBounded
    <2> QED  BY <2>2 DEF StepsLeft, Bound
  <1>4. IInv /\ [Next]_vars => [Nearer]_vars
    BY NearerStep
  <1>5. Init => BlockedReads
    BY DEF Init, BlockedReads
  <1>6. IInv /\ BlockedReads /\ [Next]_vars => BlockedReads'
    BY BlockedStep
  <1>7. BlockedReads => (blocked => Stuck \/ (buf = <<>> /\ pipe # <<>>))
    BY DEF BlockedReads, Stuck
  <1> QED
    BY <1>1, <1>2, <1>3, <1>4, <1>5, <1>6, <1>7, Invariance, PTL DEF Spec, RunIsBounded

(***************************************************************************)
(* How long a helper outlives its controller.                              *)
(***************************************************************************)

\* How far the helper's two threads are from their ends when nobody sends commands.
HelperRank ==
    CASE helper = "launched" -> 4
      [] helper = "announcing" -> 3
      [] helper = "running" -> 2
      [] helper = "ending" -> 1
      [] OTHER -> 0
ReaderRank ==
    CASE reader = "reading" -> 2
      [] reader = "requesting" -> 1
      [] OTHER -> 0
HelperStepsLeft == IF HelperGone THEN 0 ELSE Len(stdin) + HelperRank + ReaderRank

ToRequest == Trying \ {"response"}

\* The commands on their way are at most a request, the first of its run, and a stop.
Commands ==
    /\ ctl \in ToRequest => stdin = <<>> /\ requests = 0
    /\ ctl \in {"response", "stopRemote"} => Len(stdin) <= 1
    /\ Len(stdin) <= 2
    /\ \A i \in 1..Len(stdin) : stdin[i] = "REQUEST" => i = 1 /\ requests = 0

\* The connection goes with the controller, a reader that ended has asked for a stop,
\* and a helper that ended in order left no server.
Abandoned ==
    /\ ctl = "idle" => link # "up"
    /\ helper # "none" => link # "none"
    /\ reader = "done" => stopReq
    /\ helper = "exited" => server # "running"

\* The guard of one of the helper's steps is true.
HelperCanMove ==
    \/ helper \in {"launched", "announcing", "ending"}
    \/ helper = "running" /\ (stopReq \/ server = "exited")
    \/ /\ Alive
       /\ \/ reader = "requesting"
          \/ reader = "reading" /\ stdin = <<>> /\ link = "down"
          \/ reader = "reading" /\ stdin # <<>> /\ (Head(stdin) = "STOP" \/ requests = 0)

HelperNearer ==
    /\ HelperStep => HelperStepsLeft' < HelperStepsLeft
    /\ HelperStepsLeft' <= HelperStepsLeft

LEMMA HelperCountType ==
    ASSUME RemoteTypeOK, Commands
    PROVE  HelperStepsLeft \in 0..8 /\ (HelperStepsLeft = 0 => HelperGone)
  <1>1. Len(stdin) \in Nat /\ Len(stdin) <= 2
    BY DEF RemoteTypeOK, Commands
  <1>2. HelperRank \in 0..4 /\ ReaderRank \in 0..2
    BY DEF HelperRank, ReaderRank
  <1>3. ~HelperGone => HelperRank > 0
    BY DEF RemoteTypeOK, HelperGone, HelperRank
  <1>4. CASE HelperGone
    BY <1>4 DEF HelperStepsLeft
  <1>5. CASE ~HelperGone
    <2>1. HelperStepsLeft = Len(stdin) + HelperRank + ReaderRank
      BY <1>5 DEF HelperStepsLeft
    <2> QED  BY <1>1, <1>2, <1>3, <1>5, <2>1
  <1> QED  BY <1>4, <1>5

\* A step that sends nothing, and of which the helper reads nothing.
LEMMA SameCommands ==
    ASSUME Commands, UNCHANGED <<stdin, requests>>,
           ctl' \in ToRequest => ctl \in ToRequest,
           ctl' \in {"response", "stopRemote"} => ctl \in Trying \cup {"stopRemote"}
    PROVE  Commands'
  BY DEF Commands, ToRequest, Trying

LEMMA SendCommands ==
    ASSUME RemoteTypeOK, Commands, SendRequest \/ StopRemote
    PROVE  Commands'
  <1>1. stdin \in Seq({"REQUEST", "STOP"})
    BY DEF RemoteTypeOK
  <1>2. CASE SendRequest
    <2>1. stdin = <<>> /\ requests = 0 /\ UNCHANGED requests /\ ctl' = "response"
      BY <1>2 DEF SendRequest, Send, Commands, ToRequest, Trying
    <2>2. stdin' = <<>> \/ stdin' = Append(<<>>, "REQUEST")
      BY <1>2, <2>1 DEF SendRequest, Send
    <2>3. Len(stdin') \in 0..1
      BY <2>2, NoLines
    <2>4. \A i \in 1..Len(stdin') : i = 1
      <3>1. \A n \in 0..1 : \A i \in 1..n : i = 1
        OBVIOUS
      <3> QED  BY <2>3, <3>1
    <2> QED  BY <2>1, <2>3, <2>4 DEF Commands, ToRequest, Trying
  <1>3. CASE StopRemote
    <2>1. UNCHANGED requests /\ ctl' \in {"receipt", "stopLocal"}
      BY <1>3 DEF StopRemote, Send, remoteVars
    <2>2. Len(stdin) <= 1
      BY <1>3 DEF StopRemote, Commands
    <2>3. stdin' = stdin \/ stdin' = Append(stdin, "STOP")
      BY <1>3 DEF StopRemote, Send, remoteVars
    <2>4. Len(stdin') <= 2
      BY <1>1, <2>2, <2>3
    <2>5. \A i \in 1..Len(stdin') : stdin'[i] = "REQUEST" => i = 1 /\ requests = 0
      BY <1>1, <2>3 DEF Commands
    <2> QED  BY <2>1, <2>4, <2>5 DEF Commands, ToRequest, Trying
  <1> QED  BY <1>2, <1>3

LEMMA ReadCommands ==
    ASSUME RemoteTypeOK, Commands, UNCHANGED ctl, ReadCommand
    PROVE  Commands'
  <1>1. stdin \in Seq({"REQUEST", "STOP"}) /\ stdin # <<>> /\ stdin' = Tail(stdin)
    BY DEF RemoteTypeOK, ReadCommand
  <1>2. /\ Len(stdin') = Len(stdin) - 1
        /\ \A i \in 1..Len(stdin') : stdin'[i] = stdin[i + 1] /\ i + 1 \in 1..Len(stdin)
    BY <1>1
  <1>3. ctl \notin ToRequest
    BY <1>1 DEF Commands
  <1>4. \A i \in 1..Len(stdin') : stdin'[i] # "REQUEST"
    BY <1>1, <1>2 DEF Commands
  <1> QED  BY <1>1, <1>2, <1>3, <1>4 DEF Commands

LEMMA CommandsStep ==
    ASSUME IInv, Commands, [Next]_vars
    PROVE  Commands'
  <1>1. RemoteTypeOK
    BY DEF IInv, TypeOK
  <1>2. ASSUME NEW s, NEW c, Begin(s, c) PROVE Commands'
    BY <1>2 DEF Begin, RemoteReset, Commands
  <1>3. CASE Controller
    <2>1. CASE Raise \/ StartLocal \/ MacReady
      BY <2>1, SameCommands DEF Raise, StartLocal, MacReady, ToCleanup, ToRequest, Trying, remoteVars
    <2>2. CASE LaunchRemote \/ ReadIdentity
      BY <2>2, SameCommands DEF LaunchRemote, Launch, ReadIdentity, Receive, ToCleanup, ToRequest,
                                Trying
    <2>3. CASE ReadPlacement \/ ReadResponse
      BY <2>3, SameCommands DEF ReadPlacement, ReadResponse, Receive, ToCleanup, ToRequest, Trying
    <2>4. CASE ReadFails
      <3>1. ctl \in Trying /\ ctl' = "stopRemote" /\ UNCHANGED <<stdin, requests>>
        BY <2>4 DEF ReadFails, ToCleanup, Trying, remoteVars
      <3> QED  BY <3>1, SameCommands DEF ToRequest, Trying
    <2>5. CASE StopRemoteFails \/ ReadReceipt
      <3>1. ctl' \in {"receipt", "transport", "stopLocal"} /\ UNCHANGED <<stdin, requests>>
        BY <2>5 DEF StopRemoteFails, RemoteCleanupFails, ReadReceipt, Receive, remoteVars
      <3> QED  BY <3>1, SameCommands DEF ToRequest, Trying
    <2>6. CASE RemoteStopped \/ StopLocal
      BY <2>6, SameCommands DEF RemoteStopped, StopLocal, ToRequest, Trying, remoteVars
    <2>7. CASE WriteReport
      BY <2>7, SameCommands DEF WriteReport, Quit, HangUp, ToRequest, Trying
    <2> QED  BY <1>1, <1>3, <2>1, <2>2, <2>3, <2>4, <2>5, <2>6, <2>7, SendCommands DEF Controller
  <1>4. ASSUME LinkDrops, ctl' = ctl \/ ctl' = "stopRemote" PROVE Commands'
    <2>1. stdin' = <<>> /\ UNCHANGED requests
      BY <1>4 DEF LinkDrops
    <2> QED  BY <1>4, <2>1 DEF Commands, ToRequest, Trying
  <1>5. CASE Interrupt
    <2>1. CASE UNCHANGED remoteVars
      BY <1>5, <2>1, SameCommands DEF Interrupt, ToCleanup, ToRequest, Trying, remoteVars
    <2> QED  BY <1>4, <1>5, <2>1 DEF Interrupt, ToCleanup
  <1>6. CASE Kill
    BY <1>6, SameCommands DEF Kill, Quit, HangUp, ToRequest, Trying
  <1>7. CASE Block \/ LocalDies \/ UNCHANGED vars
    BY <1>7, SameCommands DEF Block, LocalDies, vars, remoteVars, ToRequest, Trying
  <1>8. CASE Remote(RemoteNext)
    <2>1. CASE ReadCommand
      BY <1>1, <1>8, <2>1, ReadCommands DEF Remote
    <2>2. CASE LinkDrops
      BY <1>4, <1>8, <2>2 DEF Remote
    <2>3. CASE StartServer \/ Announce \/ ReadEnd \/ AnswerRequest \/ LeaveLoop
      BY <1>8, <2>3, SameCommands DEF Remote, StartServer, Announce, ReadEnd, AnswerRequest,
                                      LeaveLoop, ToRequest, Trying
    <2>4. CASE EndServer \/ ServerLogs \/ ServerDies
      BY <1>8, <2>4, SameCommands DEF Remote, EndServer, ServerLogs, ServerDies, ToRequest, Trying
    <2> QED  BY <1>8, <2>1, <2>2, <2>3, <2>4 DEF Remote, RemoteNext, HelperStep
  <1> QED  BY <1>2, <1>3, <1>5, <1>6, <1>7, <1>8 DEF Next

LEMMA AbandonedStep ==
    ASSUME IInv, Abandoned, [Next]_vars
    PROVE  Abandoned'
  <1>1. RemoteTypeOK /\ Honest
    BY DEF IInv, TypeOK
  <1>2. ASSUME UNCHANGED <<helper, link, reader, stopReq, server>>, ctl' = "idle" => ctl = "idle"
        PROVE  Abandoned'
    BY <1>2 DEF Abandoned, HelperGone
  <1>3. ASSUME NEW s, NEW c, Begin(s, c) PROVE Abandoned'
    BY <1>3 DEF Begin, RemoteReset, Abandoned
  <1>4. ASSUME Quit PROVE Abandoned'
    BY <1>1, <1>4 DEF Quit, HangUp, Abandoned, RemoteTypeOK
  <1>5. CASE Controller
    <2>1. CASE LaunchRemote
      BY <1>1, <2>1 DEF LaunchRemote, Launch, Abandoned, Honest, IInv, Phases
    <2>2. CASE Raise \/ StartLocal \/ MacReady \/ ReadFails
      BY <1>2, <2>2 DEF Raise, StartLocal, MacReady, ReadFails, ToCleanup, remoteVars
    <2>3. CASE ReadIdentity \/ ReadPlacement \/ ReadResponse
      BY <1>2, <2>3 DEF ReadIdentity, ReadPlacement, ReadResponse, Receive, ToCleanup
    <2>4. CASE SendRequest \/ StopRemote
      BY <1>2, <2>4 DEF SendRequest, StopRemote, Send, remoteVars
    <2>5. CASE StopRemoteFails \/ ReadReceipt
      BY <1>2, <2>5 DEF StopRemoteFails, ReadReceipt, RemoteCleanupFails, Receive, remoteVars
    <2>6. CASE RemoteStopped \/ StopLocal
      BY <1>2, <2>6 DEF RemoteStopped, StopLocal, remoteVars
    <2>7. CASE WriteReport
      BY <1>4, <2>7 DEF WriteReport
    <2> QED  BY <1>5, <2>1, <2>2, <2>3, <2>4, <2>5, <2>6, <2>7 DEF Controller
  <1>6. ASSUME LinkDrops PROVE Abandoned'
    BY <1>1, <1>6 DEF LinkDrops, Abandoned
  <1>7. CASE Interrupt
    <2>1. CASE UNCHANGED remoteVars
      BY <1>2, <1>7, <2>1 DEF Interrupt, ToCleanup, remoteVars
    <2> QED  BY <1>6, <1>7, <2>1 DEF Interrupt
  <1>8. CASE Kill
    BY <1>4, <1>8 DEF Kill
  <1>9. CASE Block \/ LocalDies \/ UNCHANGED vars
    BY <1>2, <1>9 DEF Block, LocalDies, vars, remoteVars
  <1>10. CASE Remote(RemoteNext)
    <2>1. UNCHANGED ctl
      BY <1>10 DEF Remote
    <2>2. CASE StartServer
      BY <1>1, <2>1, <2>2 DEF StartServer, Abandoned, Honest
    <2>3. CASE Announce \/ ReadCommand \/ ReadEnd \/ AnswerRequest
      BY <2>1, <2>3 DEF Announce, ReadCommand, ReadEnd, AnswerRequest, Abandoned, Alive
    <2>4. CASE LeaveLoop \/ EndServer
      BY <2>1, <2>4 DEF LeaveLoop, EndServer, Abandoned
    <2>5. CASE ServerLogs \/ ServerDies
      BY <2>1, <2>5 DEF ServerLogs, ServerDies, Abandoned
    <2> QED  BY <1>6, <1>10, <2>2, <2>3, <2>4, <2>5 DEF Remote, RemoteNext, HelperStep
  <1> QED  BY <1>3, <1>5, <1>7, <1>8, <1>9, <1>10 DEF Next

LEMMA CanMove ==
    ASSUME RemoteTypeOK, Commands, Abandoned, ctl = "idle", ~HelperGone
    PROVE  HelperCanMove
  <1>1. helper \in {"launched", "announcing", "running", "ending"} /\ link = "down"
    BY DEF RemoteTypeOK, HelperGone, Abandoned
  <1>2. CASE helper = "running" /\ reader = "reading" /\ stdin # <<>>
    <2>1. 1 \in 1..Len(stdin) /\ Head(stdin) = stdin[1] /\ stdin[1] \in {"REQUEST", "STOP"}
      BY <1>2 DEF RemoteTypeOK
    <2>2. Head(stdin) = "STOP" \/ requests = 0
      BY <2>1 DEF Commands
    <2> QED  BY <1>2, <2>2 DEF HelperCanMove, Alive
  <1>3. CASE helper = "running" /\ ~(reader = "reading" /\ stdin # <<>>)
    BY <1>1, <1>3 DEF HelperCanMove, Alive, RemoteTypeOK, Abandoned
  <1> QED  BY <1>1, <1>2, <1>3 DEF HelperCanMove

LEMMA HelperNearerStep ==
    ASSUME IInv, Commands, Commands', Abandoned, [Next]_vars, ctl = "idle", ctl' = "idle"
    PROVE  HelperNearer
  <1>1. RemoteTypeOK /\ RemoteTypeOK'
    BY NextInv DEF IInv, TypeOK
  <1>2. stdin \in Seq({"REQUEST", "STOP"}) /\ Len(stdin) \in Nat /\ Len(stdin') \in Nat
    BY <1>1 DEF RemoteTypeOK
  <1>3. HelperRank \in Nat /\ HelperRank' \in Nat /\ ReaderRank \in Nat /\ ReaderRank' \in Nat
    BY DEF HelperRank, ReaderRank
  <1>4. ASSUME ~HelperGone, ~HelperGone',
               Len(stdin') + HelperRank' + ReaderRank' < Len(stdin) + HelperRank + ReaderRank
        PROVE  HelperNearer
    <2>1. HelperStepsLeft = Len(stdin) + HelperRank + ReaderRank
      BY <1>4 DEF HelperStepsLeft
    <2>2. HelperStepsLeft' = Len(stdin') + HelperRank' + ReaderRank'
      BY <1>4 DEF HelperStepsLeft
    <2> QED  BY <1>2, <1>3, <1>4, <2>1, <2>2 DEF HelperNearer
  <1>5. ASSUME ~HelperGone, HelperGone' PROVE HelperNearer
    <2>1. HelperStepsLeft' = 0
      BY <1>5 DEF HelperStepsLeft
    <2>2. HelperStepsLeft \in 1..8
      BY <1>1, <1>5, HelperCountType
    <2> QED  BY <2>1, <2>2 DEF HelperNearer
  <1>6. CASE HelperStep
    <2>1. CASE StartServer \/ Announce \/ LeaveLoop
      <3>1. UNCHANGED <<stdin, reader>> /\ ~HelperGone
        BY <2>1 DEF StartServer, Announce, LeaveLoop, HelperGone
      <3>2. ReaderRank' = ReaderRank
        BY <3>1 DEF ReaderRank
      <3>3. HelperGone' \/ HelperRank' < HelperRank
        BY <2>1 DEF StartServer, Announce, LeaveLoop, HelperGone, HelperRank
      <3> QED  BY <1>2, <1>3, <1>4, <1>5, <3>1, <3>2, <3>3
    <2>2. CASE ReadCommand
      <3>1. Len(stdin') = Len(stdin) - 1 /\ UNCHANGED helper /\ ~HelperGone
        BY <1>2, <2>2 DEF ReadCommand, Alive, HelperGone
      <3>2. ReaderRank' < ReaderRank /\ HelperRank' = HelperRank
        BY <2>2 DEF ReadCommand, ReaderRank, HelperRank
      <3> QED  BY <1>2, <1>3, <1>4, <3>1, <3>2 DEF HelperGone
    <2>3. CASE ReadEnd \/ AnswerRequest
      <3>1. UNCHANGED <<stdin, helper>> /\ ~HelperGone
        BY <2>3 DEF ReadEnd, AnswerRequest, Alive, HelperGone
      <3>2. ReaderRank' < ReaderRank /\ HelperRank' = HelperRank
        BY <2>3 DEF ReadEnd, AnswerRequest, ReaderRank, HelperRank, Abandoned
      <3> QED  BY <1>2, <1>3, <1>4, <3>1, <3>2 DEF HelperGone
    <2>4. CASE EndServer
      BY <1>5, <2>4 DEF EndServer, HelperGone
    <2> QED  BY <1>6, <2>1, <2>2, <2>3, <2>4 DEF HelperStep
  <1>7. ASSUME ~HelperStep, UNCHANGED <<helper, reader, stdin>> PROVE HelperNearer
    <2>1. HelperStepsLeft' = HelperStepsLeft
      BY <1>7 DEF HelperStepsLeft, HelperGone, HelperRank, ReaderRank
    <2>2. HelperStepsLeft \in 0..8
      BY <1>1, HelperCountType
    <2> QED  BY <1>7, <2>1, <2>2 DEF HelperNearer
  <1>8. CASE ~HelperStep
    <2>1. ASSUME NEW s, NEW c PROVE ~Begin(s, c)
      BY DEF Begin
    <2>2. ~Controller /\ ~Block /\ ~Interrupt /\ ~Kill
      BY DEF Block, Controller, Raise, StartLocal, MacReady, LaunchRemote, ReadIdentity,
             ReadPlacement, SendRequest, ReadResponse, ReadFails, StopRemote, StopRemoteFails,
             ReadReceipt, RemoteStopped, StopLocal, WriteReport, Trying, Interrupt, Kill
    <2>3. ~LinkDrops
      BY DEF LinkDrops, Abandoned
    <2>4. UNCHANGED <<helper, reader, stdin>>
      BY <1>8, <2>1, <2>2, <2>3 DEF Next, LocalDies, Remote, RemoteNext, ServerLogs, ServerDies,
                                    vars, remoteVars
    <2> QED  BY <1>7, <1>8, <2>4
  <1> QED  BY <1>6, <1>8

\* A helper without a controller ends by itself after at most eight steps of its
\* threads, whatever commands are still on their way: until then one of its steps is
\* always possible, each brings it nearer to its end, and it leaves no server unless
\* one would not be killed, its first line met a closed connection, or its host has no
\* CTRL_BREAK_EVENT (read_commands, the finally clause of the helper).
HelperIsBounded ==
    /\ [](HelperStepsLeft \in 0..8)
    /\ [](ctl = "idle" /\ ~HelperGone => HelperCanMove)
    /\ [][ ctl = "idle" /\ ctl' = "idle" => HelperNearer ]_vars
    /\ [](HelperStepsLeft = 0 => server # "running" \/ helper \in {"gaveUp", "raised", "broken"})

THEOREM HelpersAreBounded == Spec => HelperIsBounded
  <1>1. Init => Commands /\ Abandoned
    BY DEF Init, NoRemote, Commands, Abandoned
  <1>2. IInv /\ Commands /\ Abandoned /\ [Next]_vars => Commands' /\ Abandoned'
    BY CommandsStep, AbandonedStep
  <1>3. IInv => RemoteTypeOK /\ (helper = "none" => server = "none")
    BY DEF IInv, TypeOK, Honest
  <1>4. IInv /\ Commands => HelperStepsLeft \in 0..8
    BY <1>3, HelperCountType
  <1>5. IInv /\ Commands /\ Abandoned => (ctl = "idle" /\ ~HelperGone => HelperCanMove)
    BY <1>3, CanMove
  <1>6. IInv /\ Commands /\ Commands' /\ Abandoned /\ [Next]_vars
            => [ ctl = "idle" /\ ctl' = "idle" => HelperNearer ]_vars
    BY HelperNearerStep
  <1>7. IInv /\ Commands /\ Abandoned
            => (HelperStepsLeft = 0 => server # "running" \/ helper \in {"gaveUp", "raised", "broken"})
    BY <1>3, HelperCountType DEF HelperGone, Abandoned
  <1> QED  BY <1>1, <1>2, <1>4, <1>5, <1>6, <1>7, Invariance, PTL DEF Spec, HelperIsBounded
================================================================================
