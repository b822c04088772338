------------------------------- MODULE Download -------------------------------
(***************************************************************************)
(* The download_model command of a node agent (node_agent.py:              *)
(* _download_model_once, _download_model_to_primary and their call in      *)
(* execute_node_command): a model is fetched into <name>.part, which is    *)
(* then renamed over <name>, and retried when the network is at fault.     *)
(*                                                                         *)
(* Agents are processes; two of them may share a models directory, because *)
(* the instance lock is per configuration, node id and port.  They meet in *)
(* two names only, "part" and "target".  A name may be removed or bound to *)
(* another file under an open handle, as POSIX has it: handles follow the  *)
(* file, and a file without a name is "gone", nobody can look at it again. *)
(*                                                                         *)
(* The source is not part of the repository: it accepts or rejects the     *)
(* request, sends its body in up to Size pieces and may stop anywhere.  A  *)
(* body with a length or chunk framing that stops early is an error of the *)
(* HTTP library; one that ends with the connection is not.  All that       *)
(* parse_gguf_metadata looks at is the header: one that is cut is refused, *)
(* one that is there may be, whatever it is that was sent.                 *)
(***************************************************************************)
EXTENDS Naturals, Sequences

CONSTANTS
    Agent,      \* agent processes that share the models directory
    Body,       \* bodies that may come with status 200
    Short,      \* those whose header is in the first piece; of others it is in all
    Old,        \* the body of a model that was there before
    Size,       \* bound: the pieces of a complete body
    Budget      \* RAMDECK_MODEL_DOWNLOAD_MAX_RETRIES, at least 1

ASSUME BodyAssumption == Short \subseteq Body /\ Old \notin Body
ASSUME BoundAssumption == Size \in Nat \ {0} /\ Budget \in Nat \ {0}

CONSTANT Hole       \* what a file holds where nothing was written
ASSUME HoleAssumption == Hole \notin Body \cup {Old}

VARIABLES
    dir,        \* the names there are -> the pieces of their files
    job,        \* agent -> the command it is at
    reply,      \* the answers of the latest step: agent -> command_status
    orphan      \* history: a kill or a refused unlink left the file "part"

vars == <<dir, job, reply, orphan>>

Pieces == Seq(Body \cup {Old, Hole})

\* A command: what is done next ("idle": there is none), the attempt, the body
\* its response has and whether that is framed, the open file and the place in
\* it, and (history) whether it met another agent's and, if not, what the target
\* held when it began.
NoJob == [pc |-> "idle", attempt |-> 1, body |-> Old, framed |-> TRUE,
          handle |-> "none", offset |-> 0, met |-> FALSE, before |-> <<>>]
Job == [pc : {"idle", "unlink", "connect", "stream", "replace", "parse"},
        attempt : 1 .. Budget, body : Body \cup {Old}, framed : BOOLEAN,
        handle : {"none", "part", "target", "gone"}, offset : 0 .. Size,
        met : BOOLEAN, before : Pieces]

Busy == {a \in Agent : job[a].pc # "idle"}
Exists(name) == name \in DOMAIN dir
Model == IF Exists("target") THEN dir["target"] ELSE <<>>
NoReply == [a \in {} |-> "ok"]
Without(name) == [n \in DOMAIN dir \ {name} |-> dir[n]]

Init ==
    /\ dir \in {[n \in {} |-> <<>>], [n \in {"target"} |-> <<Old>>]}
    /\ job = [a \in Agent |-> NoJob]
    /\ reply = NoReply
    /\ orphan = FALSE

(***************************************************************************)
(* How an attempt and a command end.                                       *)
(***************************************************************************)

\* The handles when the names change: rename[h] is what h becomes.
Rename(rename) ==
    [a \in Agent |-> [job[a] EXCEPT !.handle = IF @ \in DOMAIN rename THEN rename[@] ELSE @]]
Unlinked == Rename([h \in {"part"} |-> "gone"])

\* Mutant of UnlinkPart: the partial file is left where it is.
LeavePart == UNCHANGED <<dir, orphan>>

\* tmp_path.unlink(missing_ok=True), whosever file it is.
UnlinkPart ==
    /\ dir' = Without("part")
    /\ orphan' = FALSE

\* The next attempt starts from nothing.
Again(j) == [NoJob EXCEPT !.pc = "unlink", !.attempt = j.attempt + 1,
                          !.met = j.met, !.before = j.before]

\* Mutant of Retry: the attempts are not counted.
RetryForever(a) ==
    /\ UnlinkPart
    /\ job' = [Unlinked EXCEPT ![a] = [Again(@) EXCEPT !.attempt = @ - 1]]
    /\ reply' = NoReply

\* An error that may pass, and an attempt that is not the last.
Retry(a) ==
    /\ job[a].attempt < Budget
    /\ UnlinkPart
    /\ job' = [Unlinked EXCEPT ![a] = Again(@)]
    /\ reply' = NoReply

\* Mutant of GiveUp: the target goes with the partial file.
GiveUpAll(a) ==
    /\ dir' = [n \in {} |-> <<>>]
    /\ orphan' = FALSE
    /\ job' = [Rename([h \in {"part", "target"} |-> "gone"]) EXCEPT ![a] = NoJob]
    /\ reply' = [c \in {a} |-> "error"]

\* Any other exception, of the transfer or of the file system; the last attempt.
GiveUp(a) ==
    /\ UnlinkPart
    /\ job' = [Unlinked EXCEPT ![a] = NoJob]
    /\ reply' = [c \in {a} |-> "error"]

\* The unlink is refused: a directory that is not writable, on Windows a file
\* that someone has open.  Its error takes the place of what was to be reported.
UnlinkFails(a) ==
    /\ a \in Busy
    /\ Exists("part")
    /\ job' = [job EXCEPT ![a] = NoJob]
    /\ orphan' = TRUE
    /\ reply' = [c \in {a} |-> "error"]
    /\ UNCHANGED dir

(***************************************************************************)
(* The steps of an attempt.                                                *)
(***************************************************************************)

\* A download_model command arrives.
Begin(a) ==
    /\ job[a].pc = "idle"
    /\ job' = [c \in Agent |->
           IF c = a THEN [NoJob EXCEPT !.pc = "unlink", !.met = Busy # {},
                              !.before = IF Busy = {} THEN Model ELSE <<>>]
           ELSE IF c \in Busy THEN [job[c] EXCEPT !.met = TRUE, !.before = <<>>]
           ELSE job[c]]
    /\ reply' = NoReply
    /\ UNCHANGED <<dir, orphan>>

\* No models directory, or a name that leaves it: nothing is touched.
Refuse(a) ==
    /\ job[a].pc = "unlink"
    /\ job[a].attempt = 1
    /\ job' = [job EXCEPT ![a] = NoJob]
    /\ reply' = [c \in {a} |-> "error"]
    /\ UNCHANGED <<dir, orphan>>

\* What an earlier download left is removed before the request is made.
RemoveOld(a) ==
    /\ job[a].pc = "unlink"
    /\ UnlinkPart
    /\ job' = [Unlinked EXCEPT ![a].pc = "connect"]
    /\ reply' = NoReply

\* 5xx, a timeout or a transport error; 4xx and everything else.
ConnectFails(a) ==
    /\ job[a].pc = "connect"
    /\ Retry(a) \/ GiveUp(a)

\* tmp_path.open("wb") once a response is there, with body b, which is framed or
\* ends with the connection: the file is created, or the one that has the name
\* meanwhile is emptied.
Open(a, b, isFramed) ==
    /\ job[a].pc = "connect"
    /\ dir' = [n \in DOMAIN dir \cup {"part"} |-> IF n = "part" THEN <<>> ELSE dir[n]]
    /\ job' = [job EXCEPT ![a] = [@ EXCEPT
           !.pc = "stream", !.body = b, !.framed = isFramed, !.handle = "part"]]
    /\ reply' = NoReply
    /\ UNCHANGED orphan

\* s with b in place i, beyond a hole if s is shorter.
Put(s, i, b) ==
    [j \in 1 .. (IF i > Len(s) THEN i ELSE Len(s)) |->
        IF j = i THEN b ELSE IF j <= Len(s) THEN s[j] ELSE Hole]

\* A piece is written where the handle stands, which is beyond the end of the
\* file when another handle has emptied it.
Receive(a) ==
    LET j == job[a] IN
    /\ j.pc = "stream"
    /\ j.offset < Size
    /\ dir' = [n \in DOMAIN dir |->
                  IF n = j.handle THEN Put(dir[n], j.offset + 1, j.body) ELSE dir[n]]
    /\ job' = [job EXCEPT ![a].offset = @ + 1]
    /\ reply' = NoReply
    /\ UNCHANGED orphan

\* Too slow, stalled, cut where the framing shows it, a timeout; a full disk.
StreamFails(a) ==
    /\ job[a].pc = "stream"
    /\ Retry(a) \/ GiveUp(a)

\* Whether the response may be over for the HTTP library.
Ended(a) == job[a].offset = Size \/ ~job[a].framed

\* The response is over without a byte: refused.
StreamEmpty(a) ==
    /\ job[a].pc = "stream"
    /\ Ended(a)
    /\ job[a].offset = 0
    /\ GiveUp(a)

\* Mutant of StreamEnds: an error while the body is read is taken for its end.
ErrorTakenForEnd(a) ==
    /\ job[a].pc = "stream"
    /\ job[a].offset > 0
    /\ job' = [job EXCEPT ![a] = [@ EXCEPT !.pc = "replace", !.handle = "none",
                                           !.offset = 0]]
    /\ reply' = NoReply
    /\ UNCHANGED <<dir, orphan>>

\* The response is over and the file closed.
StreamEnds(a) ==
    /\ job[a].pc = "stream"
    /\ Ended(a)
    /\ job[a].offset > 0
    /\ job' = [job EXCEPT ![a] = [@ EXCEPT !.pc = "replace", !.handle = "none",
                                           !.offset = 0]]
    /\ reply' = NoReply
    /\ UNCHANGED <<dir, orphan>>

\* tmp_path.replace(target): whatever file the name "part" is bound to.
Replace(a) ==
    /\ job[a].pc = "replace"
    /\ Exists("part")
    /\ dir' = [n \in {"target"} |-> dir["part"]]
    /\ orphan' = FALSE
    /\ job' = [Rename([h \in {"part", "target"} |-> IF h = "part" THEN "target" ELSE "gone"])
                  EXCEPT ![a].pc = "parse"]
    /\ reply' = NoReply

\* There is no such file any more, or the target is in use (Windows).
ReplaceFails(a) ==
    /\ job[a].pc = "replace"
    /\ GiveUp(a)

\* A header that is all there.
HasHeader(s) ==
    /\ s # <<>> /\ s[1] \in Body
    /\ s[1] \notin Short => Len(s) = Size /\ \A i \in 1 .. Size : s[i] = s[1]

\* parse_gguf_metadata(target), after the file has taken its place.
ParseOk(a) ==
    /\ job[a].pc = "parse"
    /\ HasHeader(Model)
    /\ job' = [job EXCEPT ![a] = NoJob]
    /\ reply' = [c \in {a} |-> "ok"]
    /\ UNCHANGED <<dir, orphan>>

\* Half a header, a page, a version or a type that is not supported, a file that
\* cannot be read: the new file stays.
ParseFails(a) ==
    /\ job[a].pc = "parse"
    /\ GiveUp(a)

\* The agent's process ends; its successor starts idle.
Kill(a) ==
    /\ a \in Busy
    /\ job' = [job EXCEPT ![a] = NoJob]
    /\ orphan' = Exists("part")
    /\ reply' = NoReply
    /\ UNCHANGED dir

Step(a) ==
    \/ Refuse(a) \/ RemoveOld(a)
    \/ ConnectFails(a) \/ \E b \in Body, isFramed \in BOOLEAN : Open(a, b, isFramed)
    \/ Receive(a) \/ StreamFails(a) \/ StreamEmpty(a) \/ StreamEnds(a)
    \/ Replace(a) \/ ReplaceFails(a)
    \/ ParseOk(a) \/ ParseFails(a)
    \/ UnlinkFails(a)

Next == \E a \in Agent : Begin(a) \/ Step(a) \/ Kill(a)

Spec == Init /\ [][Next]_vars

\* Every wait of a download has a timeout of the HTTP library's.
FairSpec == Spec /\ \A a \in Agent : WF_vars(Step(a))

(***************************************************************************)
(* Properties.                                                             *)
(***************************************************************************)

TypeOK ==
    /\ DOMAIN dir \subseteq {"part", "target"}
    /\ \A n \in DOMAIN dir : dir[n] \in Pieces
    /\ job \in [Agent -> Job]
    /\ DOMAIN reply \subseteq Agent /\ \A a \in DOMAIN reply : reply[a] \in {"ok", "error"}
    /\ orphan \in BOOLEAN
    /\ \A a \in Agent : /\ job[a].handle # "none" <=> job[a].pc = "stream"
                        /\ job[a].handle \in DOMAIN dir \cup {"none", "gone"}

\* A partial file is there only while a download that will rename or remove it
\* is under way, or after a kill or an unlink that the system refused: however
\* else a command ends, and although agents remove and rename each other's files,
\* none is forgotten (node_agent.py:142 and 229).
NoLeftover ==
    Exists("part") => orphan \/ \E a \in Agent : job[a].pc \in {"stream", "replace"}

Answers(a, status) == a \in DOMAIN reply' /\ reply'[a] = status

\* A body of which nothing is missing that its framing promises, and into which
\* nothing else has come.
Whole(s, j) ==
    /\ s # <<>>
    /\ \A i \in DOMAIN s : s[i] = j.body
    /\ j.framed => Len(s) = Size

\* A download that met no other and is answered "ok" has put its source's body
\* in place: from the first piece, without a hole or a piece of an earlier attempt,
\* to the end if the source says where its body ends, and otherwise with all of
\* its header.
OkMeansDelivered ==
    [][ \A a \in Busy : Answers(a, "ok") /\ ~job[a].met =>
            HasHeader(Model') /\ Whole(Model', job[a]) ]_vars

\* A download that met no other and is answered "error" has left the model that
\* was there before in its place, or its whole body: the old model is lost only
\* when the transfer had succeeded and the header was then refused, and never to
\* an attempt that failed, a cut body or a mixture (node_agent.py:220 and 221).
ErrorLeavesWhole ==
    [][ \A a \in Busy : Answers(a, "error") /\ ~job[a].met =>
            Model' = job[a].before \/ Whole(Model', job[a]) ]_vars

\* A download command ends, by an answer or with its agent.
DownloadEnds == \A a \in Agent : a \in Busy ~> a \notin Busy
=============================================================================
