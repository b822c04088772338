----------------------------- MODULE RemoteHelper ------------------------------
(***************************************************************************)
(* The helper that owns the llama-server on the other host                 *)
(* (_REMOTE_HELPER in split_lifecycle.py), its two pipes over ssh, and the *)
(* end of them the controller reads (RemoteOwnedProcess._read_line).       *)
(*                                                                         *)
(* The helper's main thread waits for the server or for a stop request and *)
(* ends the server; one thread reads commands, and is busy while it serves *)
(* a REQUEST; one thread forwards the server's log.  All three print.      *)
(*                                                                         *)
(* A line is what the controller makes of it: a placement measurement, a   *)
(* line that has to be rejected, noise, an answer ("ok" or "failed"), a    *)
(* receipt ("absent" or "present"), or two prints run into each other.     *)
(***************************************************************************)
EXTENDS Naturals, Sequences

CONSTANTS
    Required,       \* the measurements validate_placement asks for
    MaxLines        \* bound on the lines the server logs in a run

ASSUME LinesAssumption == MaxLines \in Nat

VARIABLES
    helper,     \* what the helper's main thread does
    reader,     \* what read_commands does
    stopReq,    \* stop_requested
    requests,   \* request_count
    server,     \* the llama-server
    link,       \* the ssh connection and the controller's end of it
    stdin,      \* commands not read by the helper
    pipe,       \* lines not read by the controller
    buf,        \* lines readline() took from the pipe and did not return
    logged      \* how many lines the server logged

remoteVars == <<helper, reader, stopReq, requests, server, link, stdin, pipe, buf, logged>>

LogLine == Required \cup {"noise", "reject", "garbled"}
Answers == {"ok", "failed", "garbled"}
Receipts == {"absent", "present", "garbled"}
Line == {"identity"} \cup LogLine \cup Answers \cup Receipts

\* No measurement of the log reads like another line of the helper.
ASSUME RequiredAssumption ==
    Required \cap ({"identity", "noise", "reject"} \cup Answers \cup Receipts) = {}

RemoteTypeOK ==
    /\ helper \in {"none", "launched", "announcing", "running", "ending", "exited", "gaveUp", "raised", "broken"}
    /\ reader \in {"reading", "requesting", "done"}
    /\ stopReq \in BOOLEAN
    /\ requests \in 0..1
    /\ server \in {"none", "running", "exited"}
    /\ link \in {"none", "up", "down"}
    /\ stdin \in Seq({"REQUEST", "STOP"})
    /\ pipe \in Seq(Line) /\ buf \in Seq(Line)
    /\ logged \in 0..MaxLines

NoRemote ==
    /\ helper = "none" /\ reader = "reading" /\ stopReq = FALSE /\ requests = 0
    /\ server = "none" /\ link = "none"
    /\ stdin = <<>> /\ pipe = <<>> /\ buf = <<>> /\ logged = 0

\* A run starts with a new helper, if it comes to one.
RemoteReset ==
    /\ helper' = "none" /\ reader' = "reading" /\ stopReq' = FALSE /\ requests' = 0
    /\ server' = "none" /\ link' = "none"
    /\ stdin' = <<>> /\ pipe' = <<>> /\ buf' = <<>> /\ logged' = 0

Alive == helper \in {"running", "ending"}
HelperGone == helper \in {"none", "exited", "gaveUp", "raised", "broken"}

-----------------------------------------------------------------------------
(* The helper.                                                             *)

\* A line printed by the helper; nobody gets it when the connection is down.
Emit(l) == pipe' = IF link = "up" THEN Append(pipe, l) ELSE pipe

\* ssh reaches the host and the helper starts the server; or one of them
\* fails, and the helper is gone without a line.
StartServer ==
    /\ helper = "launched"
    /\ \/ helper' = "announcing" /\ server' = "running"
       \/ helper' = "exited" /\ UNCHANGED server
    /\ UNCHANGED <<reader, stopReq, requests, link, stdin, pipe, buf, logged>>

\* The first print has no handler around it: when it fails, the helper ends
\* and leaves the server.
Announce ==
    /\ helper = "announcing"
    /\ helper' = IF link = "up" THEN "running" ELSE "broken"
    /\ Emit("identity")
    /\ UNCHANGED <<reader, stopReq, requests, server, link, stdin, buf, logged>>

\* stream_stderr prints a line of the server's log, possibly while another
\* thread prints, too, or after the server has ended.
ServerLogs ==
    /\ Alive /\ link = "up" /\ logged < MaxLines
    /\ logged' = logged + 1
    /\ \E l \in LogLine : Emit(l)
    /\ UNCHANGED <<helper, reader, stopReq, requests, server, link, stdin, buf>>

ServerDies ==
    /\ server = "running"
    /\ server' = "exited"
    /\ UNCHANGED <<helper, reader, stopReq, requests, link, stdin, pipe, buf, logged>>

\* The controller sends one REQUEST; the answer to a second is left out.
ReadCommand ==
    /\ Alive /\ reader = "reading" /\ stdin # <<>>
    /\ stdin' = Tail(stdin)
    /\ \/ /\ Head(stdin) = "STOP"
          /\ reader' = "done" /\ stopReq' = TRUE
          /\ UNCHANGED requests
       \/ /\ Head(stdin) = "REQUEST" /\ requests = 0
          /\ reader' = "requesting" /\ requests' = 1
          /\ UNCHANGED stopReq
    /\ UNCHANGED <<helper, server, link, pipe, buf, logged>>

\* Mutant of ReadEnd: the end of stdin does not ask for a stop.
ReadEndQuiet ==
    /\ Alive /\ reader = "reading" /\ stdin = <<>> /\ link = "down"
    /\ reader' = "done"
    /\ UNCHANGED <<helper, stopReq, requests, server, link, stdin, pipe, buf, logged>>

\* The end of stdin, with the finally clause of read_commands.
ReadEnd ==
    /\ Alive /\ reader = "reading" /\ stdin = <<>> /\ link = "down"
    /\ reader' = "done" /\ stopReq' = TRUE
    /\ UNCHANGED <<helper, requests, server, link, stdin, pipe, buf, logged>>

\* The request comes back or times out, and its result is printed.  A print
\* that fails ends the reader.
AnswerRequest ==
    /\ Alive /\ reader = "requesting"
    /\ \E l \in Answers : (l = "ok" => server = "running") /\ Emit(l)
    /\ reader' = IF link = "up" THEN "reading" ELSE "done"
    /\ stopReq' = (stopReq \/ link # "up")
    /\ UNCHANGED <<helper, requests, server, link, stdin, buf, logged>>

\* The main loop ends.
LeaveLoop ==
    /\ helper = "running" /\ (server = "exited" \/ stopReq)
    /\ helper' = "ending"
    /\ UNCHANGED <<reader, stopReq, requests, server, link, stdin, pipe, buf, logged>>

\* The finally clause: CTRL_BREAK, then kill; the receipt says whether the
\* server is gone, and the helper ends.  A host that is not Windows has no
\* CTRL_BREAK_EVENT: the AttributeError passes the except clause, and the helper
\* ends without a receipt and leaves the server.
EndServer ==
    /\ helper = "ending"
    /\ \/ server' = "exited" /\ helper' = "exited" /\ \E l \in Receipts \ {"present"} : Emit(l)
       \/ /\ server = "running" /\ UNCHANGED server
          /\ helper' = "gaveUp" /\ \E l \in Receipts \ {"absent"} : Emit(l)
       \/ /\ server = "running" /\ helper' = "raised"
          /\ UNCHANGED <<server, pipe>>
    /\ UNCHANGED <<reader, stopReq, requests, link, stdin, buf, logged>>

\* The connection breaks; the helper gets no command that is on its way.
LinkDrops ==
    /\ link = "up"
    /\ link' = "down" /\ stdin' = <<>>
    /\ UNCHANGED <<helper, reader, stopReq, requests, server, pipe, buf, logged>>

HelperStep ==
    \/ StartServer \/ Announce \/ ReadCommand \/ ReadEnd
    \/ AnswerRequest \/ LeaveLoop \/ EndServer

RemoteNext == HelperStep \/ ServerLogs \/ ServerDies \/ LinkDrops

-----------------------------------------------------------------------------
(* The controller's end.                                                   *)

\* ssh has ended, or is about to.
AtEnd == link = "down" \/ HelperGone

\* What the selector looks at: the pipe, and not what readline() holds back.
Readable == pipe # <<>> \/ AtEnd

\* _read_line returns l.  readline() reads a chunk of the pipe only when it
\* holds no complete line.  The last line before the connection broke may have
\* been cut short.
Receive(l) ==
    /\ Readable
    /\ \/ /\ buf # <<>> /\ l = Head(buf)
          /\ buf' = Tail(buf)
          /\ UNCHANGED pipe
       \/ /\ buf = <<>> /\ pipe # <<>>
          /\ l = Head(pipe) \/ (l = "garbled" /\ link = "down" /\ Len(pipe) = 1)
          /\ \E k \in 1..Len(pipe) :
                /\ buf' = SubSeq(pipe, 2, k)
                /\ pipe' = SubSeq(pipe, k + 1, Len(pipe))
    /\ UNCHANGED <<helper, reader, stopReq, requests, server, link, stdin, logged>>

\* The two errors of _read_line: nothing to select for the whole timeout, and
\* the end of the stream.
NothingToSelect == ~Readable
EndOfStream == AtEnd /\ pipe = <<>> /\ buf = <<>>

\* The only line may have arrived without its end (print writes the newline by
\* itself): the selector is content with it, and readline() waits for the rest.
MayBeHalf == buf = <<>> /\ Len(pipe) = 1 /\ ~AtEnd

\* A command written to ssh; it is lost when nothing reads it any more.
Send(c) ==
    /\ stdin' = IF AtEnd THEN stdin ELSE Append(stdin, c)
    /\ UNCHANGED <<helper, reader, stopReq, requests, server, link, pipe, buf, logged>>

\* Popen of ssh.
Launch ==
    /\ helper' = "launched" /\ link' = "up"
    /\ UNCHANGED <<reader, stopReq, requests, server, stdin, pipe, buf, logged>>

\* The controller ends and with it its end of the pipes; what was written to
\* stdin before is still read.
HangUp ==
    /\ link' = IF link = "up" THEN "down" ELSE link
    /\ pipe' = <<>> /\ buf' = <<>>
    /\ UNCHANGED <<helper, reader, stopReq, requests, server, stdin, logged>>
=============================================================================
