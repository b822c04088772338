----------------------------- MODULE DownloadProofs -----------------------------
(***************************************************************************)
(* Proofs about Download.tla, for every number of agents, of pieces and of *)
(* attempts.                                                               *)
(***************************************************************************)
EXTENDS Download, TLAPS

(***************************************************************************)
(* The inductive invariant.                                                *)
(***************************************************************************)

\* Copies of one piece.
Copies(s, b) == s \in Seq({b})

\* What a body that was received is like when the response is over.
Delivered(s, j) == Copies(s, j.body) /\ s # <<>> /\ (j.framed => Len(s) = Size)

\* A download that met no other is the only one, and is where its steps put it.
Undisturbed(a) ==
    LET j == job[a] IN
    /\ Busy = {a}
    /\ j.pc # "parse" => Model = j.before
    /\ j.pc \in {"unlink", "connect"} => j.offset = 0
    /\ j.pc = "stream" => /\ j.handle = "part" /\ Exists("part")
                          /\ Copies(dir["part"], j.body) /\ Len(dir["part"]) = j.offset
    /\ j.pc = "replace" => Exists("part") /\ Delivered(dir["part"], j)
    /\ j.pc = "parse" => Delivered(Model, j)

Alone == \A a \in Busy : ~job[a].met => Undisturbed(a)

IInv == TypeOK /\ NoLeftover /\ Alone

(***************************************************************************)
(* Names and files.                                                        *)
(***************************************************************************)

FilesOK == DOMAIN dir \subseteq {"part", "target"} /\ \A n \in DOMAIN dir : dir[n] \in Pieces

LEMMA EmptyPieces == <<>> \in Pieces /\ \A b : Copies(<<>>, b)
  BY DEF Pieces, Copies

LEMMA ModelPieces == FilesOK => Model \in Pieces
  BY EmptyPieces DEF FilesOK, Model, Exists

LEMMA UnlinkFact ==
    ASSUME FilesOK, UnlinkPart
    PROVE  FilesOK' /\ Model' = Model /\ DOMAIN dir' = DOMAIN dir \ {"part"} /\ ~orphan'
  BY DEF FilesOK, UnlinkPart, Without, Model, Exists

\* Put keeps a file a file; at the end of copies of a piece it adds a copy.
LEMMA PutFact ==
    ASSUME NEW s \in Pieces, NEW i \in Nat \ {0}, NEW b \in Body \cup {Old}
    PROVE  /\ Put(s, i, b) \in Pieces
           /\ Copies(s, b) /\ i = Len(s) + 1 => /\ Copies(Put(s, i, b), b)
                                               /\ Len(Put(s, i, b)) = i
  <1> DEFINE n == IF i > Len(s) THEN i ELSE Len(s)
             P == Body \cup {Old, Hole}
  <1>1. n \in Nat /\ Len(s) \in Nat
    BY DEF Pieces
  <1>2. \A j \in 1 .. n : (IF j = i THEN b ELSE IF j <= Len(s) THEN s[j] ELSE Hole) \in P
    BY <1>1 DEF Pieces
  <1>3. Put(s, i, b) \in [1 .. n -> P]
    BY <1>2 DEF Put
  <1>4. Put(s, i, b) \in Pieces
    BY <1>1, <1>3 DEF Pieces
  <1>5. ASSUME Copies(s, b), i = Len(s) + 1
        PROVE  Copies(Put(s, i, b), b) /\ Len(Put(s, i, b)) = i
    <2>1. n = i
      BY <1>1, <1>5
    <2>2. \A j \in 1 .. i : (IF j = i THEN b ELSE IF j <= Len(s) THEN s[j] ELSE Hole) \in {b}
      BY <1>1, <1>5 DEF Copies
    <2>3. Put(s, i, b) \in [1 .. i -> {b}]
      BY <2>1, <2>2 DEF Put
    <2> QED  BY <2>3 DEF Copies
  <1> QED  BY <1>4, <1>5

(***************************************************************************)
(* Commands.                                                               *)
(***************************************************************************)

Handle == {"none", "part", "target", "gone"}

\* The handles the names of the next state allow.
HandlesOK ==
    \A c \in Agent : /\ job[c].handle # "none" <=> job[c].pc = "stream"
                     /\ job[c].handle \in DOMAIN dir \cup {"none", "gone"}

AnswersOK == DOMAIN reply \subseteq Agent /\ \A c \in DOMAIN reply : reply[c] \in {"ok", "error"}

LEMMA TypeParts == TypeOK <=> FilesOK /\ job \in [Agent -> Job] /\ AnswersOK
                                /\ orphan \in BOOLEAN /\ HandlesOK
  BY DEF TypeOK, FilesOK, AnswersOK, HandlesOK

LEMMA NoJobFact == NoJob \in Job
  BY EmptyPieces, BoundAssumption DEF NoJob, Job

LEMMA AgainFact ==
    ASSUME NEW j \in Job, j.attempt < Budget
    PROVE  /\ Again(j) \in Job /\ Again(j).pc = "unlink" /\ Again(j).handle = "none"
           /\ Again(j).met = j.met /\ Again(j).before = j.before /\ Again(j).offset = 0
  <1>1. j.attempt + 1 \in 1 .. Budget /\ j.met \in BOOLEAN /\ j.before \in Pieces
    BY BoundAssumption DEF Job
  <1>2. NoJob \in Job /\ NoJob.handle = "none" /\ NoJob.offset = 0
    BY NoJobFact DEF NoJob
  <1> QED  BY <1>1, <1>2 DEF Again, Job

\* The other agents' commands go on undisturbed.
OthersGoOn(a) ==
    \A c \in Agent \ {a} : job'[c].pc = job[c].pc /\ job'[c].met = job[c].met

\* The names agents hold are followed by their handles.
LEMMA RenameFact ==
    ASSUME job \in [Agent -> Job],
           NEW r, \A h \in DOMAIN r : r[h] \in Handle
    PROVE  /\ Rename(r) \in [Agent -> Job]
           /\ \A c \in Agent :
                 Rename(r)[c] = [job[c] EXCEPT !.handle = IF @ \in DOMAIN r THEN r[@] ELSE @]
  <1>1. ASSUME NEW c \in Agent
        PROVE  [job[c] EXCEPT !.handle = IF @ \in DOMAIN r THEN r[@] ELSE @] \in Job
    <2>1. job[c] \in Job /\ job[c].handle \in Handle
      BY DEF Job, Handle
    <2>2. (IF job[c].handle \in DOMAIN r THEN r[job[c].handle] ELSE job[c].handle) \in Handle
      BY <2>1
    <2> QED  BY <2>1, <2>2 DEF Job, Handle
  <1> QED  BY <1>1 DEF Rename

\* After a step of one agent only its own command has to be looked at.
LEMMA AloneFact ==
    ASSUME Alone, NEW a \in Busy, OthersGoOn(a),
           a \in Busy' /\ Busy' \subseteq Busy /\ ~job'[a].met /\ Busy = {a} => Undisturbed(a)',
           job' \in [Agent -> Job],
           job'[a].met = job[a].met \/ a \notin Busy'
    PROVE  Alone'
  <1>1. Busy' \subseteq Busy
    BY DEF Busy, OthersGoOn
  <1> SUFFICES ASSUME NEW c \in Busy', ~job'[c].met
               PROVE  Undisturbed(c)'
    BY DEF Alone
  <1>2. CASE c = a
    <2>1. Busy = {a}
      BY <1>2 DEF Alone, Undisturbed
    <2> QED  BY <1>1, <1>2, <2>1
  <1>3. CASE c # a
    <2>1. c \in Agent /\ c \in Busy /\ ~job[c].met
      BY <1>1, <1>3 DEF OthersGoOn, Busy
    <2>2. Busy = {c}
      BY <2>1 DEF Alone, Undisturbed
    <2> QED  BY <1>3, <2>2
  <1> QED  BY <1>2, <1>3

\* What the names are followed by when the partial file is unlinked.
LEMMA UnlinkedFact ==
    ASSUME job \in [Agent -> Job]
    PROVE  /\ Unlinked \in [Agent -> Job]
           /\ \A c \in Agent :
                 /\ Unlinked[c].pc = job[c].pc /\ Unlinked[c].met = job[c].met
                 /\ Unlinked[c].before = job[c].before /\ Unlinked[c].offset = job[c].offset
                 /\ Unlinked[c].handle = (IF job[c].handle = "part" THEN "gone" ELSE job[c].handle)
  <1> DEFINE r == [h \in {"part"} |-> "gone"]
  <1>1. DOMAIN r = {"part"} /\ \A h \in DOMAIN r : r[h] = "gone" /\ r[h] \in Handle
    BY DEF Handle
  <1> HIDE DEF r
  <1>2. /\ Rename(r) \in [Agent -> Job]
        /\ \A c \in Agent :
              Rename(r)[c] = [job[c] EXCEPT !.handle = IF @ \in DOMAIN r THEN r[@] ELSE @]
    BY <1>1, RenameFact
  <1>3. Unlinked = Rename(r)
    BY DEF Unlinked, r
  <1>4. ASSUME NEW c \in Agent
        PROVE  /\ Unlinked[c].pc = job[c].pc /\ Unlinked[c].met = job[c].met
               /\ Unlinked[c].before = job[c].before /\ Unlinked[c].offset = job[c].offset
               /\ Unlinked[c].handle = (IF job[c].handle = "part" THEN "gone" ELSE job[c].handle)
    <2>1. job[c] \in Job
      OBVIOUS
    <2> QED  BY <1>1, <1>2, <1>3, <2>1 DEF Job
  <1> QED  BY <1>2, <1>3, <1>4

(***************************************************************************)
(* The actions.                                                            *)
(***************************************************************************)

\* The partial file goes, and a command ends, is at its beginning or about to
\* connect: what all failures and the first step have in common.
LEMMA UnlinkKeeps ==
    ASSUME IInv, NEW a \in Busy, NEW x \in Job, UnlinkPart,
           job' = [Unlinked EXCEPT ![a] = x], AnswersOK',
           x.handle = "none", x.pc \in {"idle", "unlink", "connect"},
           x.pc # "idle" => /\ job[a].pc # "parse"
                            /\ x.met = job[a].met /\ x.before = job[a].before
                            /\ x.offset = 0 \/ (job[a].pc = "unlink" /\ x.offset = job[a].offset)
    PROVE  IInv'
  <1>1. /\ FilesOK /\ job \in [Agent -> Job] /\ a \in Agent /\ HandlesOK
        /\ NoLeftover /\ Alone
    BY TypeParts DEF IInv, Busy
  <1>2. /\ FilesOK' /\ Model' = Model /\ DOMAIN dir' = DOMAIN dir \ {"part"} /\ ~orphan'
        /\ orphan' \in BOOLEAN
    BY <1>1, UnlinkFact DEF UnlinkPart
  <1>3. job' \in [Agent -> Job] /\ job'[a] = x
        /\ \A c \in Agent \ {a} : job'[c] = Unlinked[c]
    BY <1>1, UnlinkedFact
  <1>4. HandlesOK'
    <2>1. HandlesOK' = \A c \in Agent : /\ job'[c].handle # "none" <=> job'[c].pc = "stream"
                                        /\ job'[c].handle \in DOMAIN dir' \cup {"none", "gone"}
      BY DEF HandlesOK
    <2>2. ASSUME NEW c \in Agent \ {a}
          PROVE  /\ job'[c].handle # "none" <=> job'[c].pc = "stream"
                 /\ job'[c].handle \in DOMAIN dir' \cup {"none", "gone"}
      BY <1>1, <1>2, <1>3, UnlinkedFact DEF HandlesOK
    <2> QED  BY <1>3, <2>1, <2>2
  <1>5. NoLeftover'
    BY <1>2 DEF NoLeftover, Exists
  <1>6. OthersGoOn(a)
    BY <1>1, <1>3, UnlinkedFact DEF OthersGoOn
  <1>7. ASSUME a \in Busy', ~job'[a].met, Busy = {a}, Busy' \subseteq Busy
        PROVE  Undisturbed(a)'
    <2>1. Undisturbed(a) /\ Busy' = {a}
      BY <1>1, <1>3, <1>7 DEF Alone, Busy
    <2>2. job'[a].pc \in {"unlink", "connect"}
      BY <1>3, <1>7 DEF Busy
    <2> QED  BY <1>2, <1>3, <2>1, <2>2 DEF Undisturbed
  <1>8. Alone'
    BY <1>1, <1>3, <1>6, <1>7, AloneFact DEF Busy
  <1>9. TypeOK'
    BY <1>2, <1>3, <1>4 DEF TypeOK, FilesOK, HandlesOK, AnswersOK
  <1> QED  BY <1>5, <1>8, <1>9 DEF IInv

LEMMA RetryKeeps ==
    ASSUME IInv, NEW a \in Busy, job[a].pc # "parse", Retry(a)
    PROVE  IInv'
  <1>1. job \in [Agent -> Job] /\ a \in Agent
    BY TypeParts DEF IInv, Busy
  <1> DEFINE x == Again(Unlinked[a])
  <1>2. Unlinked[a] \in Job /\ Unlinked[a].attempt < Budget
    BY <1>1, UnlinkedFact DEF Retry, Unlinked, Rename, Job
  <1>3. x \in Job /\ x.pc = "unlink" /\ x.handle = "none"
        /\ x.met = Unlinked[a].met /\ x.before = Unlinked[a].before /\ x.offset = 0
    BY <1>2, AgainFact
  <1>4. UnlinkPart /\ job' = [Unlinked EXCEPT ![a] = x] /\ AnswersOK'
    BY DEF Retry, AnswersOK, NoReply
  <1> HIDE DEF x
  <1> QED  BY <1>1, <1>3, <1>4, UnlinkedFact, UnlinkKeeps

LEMMA GiveUpKeeps ==
    ASSUME IInv, NEW a \in Busy, GiveUp(a)
    PROVE  IInv'
  <1>1. NoJob \in Job /\ NoJob.pc = "idle" /\ NoJob.handle = "none"
    BY NoJobFact DEF NoJob
  <1>2. UnlinkPart /\ job' = [Unlinked EXCEPT ![a] = NoJob] /\ AnswersOK'
    BY DEF GiveUp, AnswersOK, Busy
  <1> QED  BY <1>1, <1>2, UnlinkKeeps

LEMMA RemoveOldKeeps ==
    ASSUME IInv, NEW a \in Agent, RemoveOld(a)
    PROVE  IInv'
  <1>1. /\ job \in [Agent -> Job] /\ a \in Busy /\ job[a].pc = "unlink"
        /\ job[a].handle = "none"
    BY TypeParts DEF IInv, Busy, RemoveOld, HandlesOK
  <1> DEFINE x == [Unlinked[a] EXCEPT !.pc = "connect"]
  <1>2. Unlinked[a] \in Job /\ Unlinked[a].handle = "none"
    BY <1>1, UnlinkedFact
  <1>3. x \in Job /\ x.pc = "connect" /\ x.handle = "none"
        /\ x.met = Unlinked[a].met /\ x.before = Unlinked[a].before
        /\ x.offset = Unlinked[a].offset
    BY <1>2 DEF Job
  <1>4. UnlinkPart /\ job' = [Unlinked EXCEPT ![a] = x] /\ AnswersOK'
    BY DEF RemoveOld, AnswersOK, NoReply
  <1> HIDE DEF x
  <1> QED  BY <1>1, <1>3, <1>4, UnlinkedFact, UnlinkKeeps

\* What is common to the steps that leave every name but "part" to its file, and
\* the handles of the others where they are.
LEMMA OwnKeeps ==
    ASSUME IInv, NEW a \in Busy, NEW x \in Job, job' = [job EXCEPT ![a] = x],
           FilesOK', DOMAIN dir \subseteq DOMAIN dir', orphan' \in BOOLEAN, AnswersOK',
           x.handle # "none" <=> x.pc = "stream",
           x.handle \in DOMAIN dir' \cup {"none", "gone"},
           NoLeftover',
           \/ x.pc = "idle"
           \/ /\ x.met = job[a].met
              /\ ~x.met /\ Undisturbed(a) /\ Busy' = {a} => Undisturbed(a)'
    PROVE  IInv'
  <1>1. job \in [Agent -> Job] /\ a \in Agent /\ HandlesOK /\ Alone
    BY TypeParts DEF IInv, Busy
  <1>2. job' \in [Agent -> Job] /\ job'[a] = x
        /\ \A c \in Agent \ {a} : job'[c] = job[c]
    BY <1>1
  <1>3. HandlesOK'
    <2>1. HandlesOK' = \A c \in Agent : /\ job'[c].handle # "none" <=> job'[c].pc = "stream"
                                        /\ job'[c].handle \in DOMAIN dir' \cup {"none", "gone"}
      BY DEF HandlesOK
    <2>2. ASSUME NEW c \in Agent \ {a}
          PROVE  /\ job'[c].handle # "none" <=> job'[c].pc = "stream"
                 /\ job'[c].handle \in DOMAIN dir' \cup {"none", "gone"}
      BY <1>1, <1>2 DEF HandlesOK
    <2> QED  BY <1>2, <2>1, <2>2
  <1>4. OthersGoOn(a)
    BY <1>1, <1>2 DEF OthersGoOn
  <1>5. ASSUME a \in Busy', ~job'[a].met, Busy = {a}, Busy' \subseteq Busy
        PROVE  Undisturbed(a)'
    <2>1. x.pc # "idle" /\ ~job[a].met
      BY <1>2, <1>5 DEF Busy
    <2>2. Undisturbed(a) /\ Busy' = {a}
      BY <1>1, <1>5, <2>1 DEF Alone
    <2> QED  BY <1>2, <1>5, <2>1, <2>2
  <1>6. job'[a].met = job[a].met \/ a \notin Busy'
    BY <1>2 DEF Busy
  <1>7. Alone'
    BY <1>1, <1>2, <1>4, <1>5, <1>6, AloneFact
  <1>8. TypeOK'
    BY <1>2, <1>3 DEF TypeOK, FilesOK, HandlesOK, AnswersOK
  <1> QED  BY <1>7, <1>8 DEF IInv

\* The steps that end a command without touching a file.
LEMMA EndKeeps ==
    ASSUME IInv, NEW a \in Busy, job' = [job EXCEPT ![a] = NoJob], UNCHANGED dir,
           AnswersOK',
           \/ orphan' = Exists("part")
           \/ UNCHANGED orphan /\ job[a].pc \notin {"stream", "replace"}
    PROVE  IInv'
  <1>1. /\ FilesOK /\ job \in [Agent -> Job] /\ a \in Agent /\ orphan \in BOOLEAN
        /\ NoLeftover
    BY TypeParts DEF IInv, Busy
  <1>2. NoJob \in Job /\ NoJob.pc = "idle" /\ NoJob.handle = "none"
    BY NoJobFact DEF NoJob
  <1>3. NoLeftover'
    <2>1. CASE orphan' = Exists("part")
      BY <2>1 DEF NoLeftover, Exists
    <2>2. CASE UNCHANGED orphan /\ job[a].pc \notin {"stream", "replace"}
      BY <1>1, <2>2 DEF NoLeftover, Exists
    <2> QED  BY <2>1, <2>2
  <1>4. orphan' \in BOOLEAN
    <2>1. Exists("part") \in BOOLEAN
      BY DEF Exists
    <2> QED  BY <1>1, <2>1
  <1>5. FilesOK'
    BY <1>1 DEF FilesOK
  <1> QED  BY <1>2, <1>3, <1>4, <1>5, OwnKeeps

LEMMA RefuseKeeps ==
    ASSUME IInv, NEW a \in Agent, Refuse(a)
    PROVE  IInv'
  <1>1. a \in Busy /\ AnswersOK'
    BY DEF Refuse, Busy, AnswersOK
  <1> QED  BY <1>1, EndKeeps DEF Refuse

LEMMA ParseOkKeeps ==
    ASSUME IInv, NEW a \in Agent, ParseOk(a)
    PROVE  IInv'
  <1>1. a \in Busy /\ AnswersOK'
    BY DEF ParseOk, Busy, AnswersOK
  <1> QED  BY <1>1, EndKeeps DEF ParseOk

LEMMA UnlinkFailsKeeps ==
    ASSUME IInv, NEW a \in Agent, UnlinkFails(a)
    PROVE  IInv'
  <1>1. a \in Busy /\ AnswersOK'
    BY DEF UnlinkFails, AnswersOK, Busy
  <1>2. orphan' = Exists("part")
    BY DEF UnlinkFails, Exists
  <1> QED  BY <1>1, <1>2, EndKeeps DEF UnlinkFails

LEMMA KillKeeps ==
    ASSUME IInv, NEW a \in Agent, Kill(a)
    PROVE  IInv'
  <1>1. a \in Busy /\ AnswersOK'
    BY DEF Kill, AnswersOK, NoReply
  <1> QED  BY <1>1, EndKeeps DEF Kill

LEMMA OpenKeeps ==
    ASSUME IInv, NEW a \in Agent, NEW b \in Body, NEW isFramed \in BOOLEAN,
           Open(a, b, isFramed)
    PROVE  IInv'
  <1>1. /\ FilesOK /\ job \in [Agent -> Job] /\ HandlesOK /\ orphan \in BOOLEAN
        /\ a \in Busy /\ job[a].pc = "connect"
    BY TypeParts DEF IInv, Open, Busy
  <1> DEFINE x == [job[a] EXCEPT !.pc = "stream", !.body = b, !.framed = isFramed,
                                 !.handle = "part"]
  <1>2. job[a] \in Job
    BY <1>1
  <1>3. /\ x \in Job /\ x.pc = "stream" /\ x.handle = "part" /\ x.body = b
        /\ x.offset = job[a].offset /\ x.met = job[a].met /\ x.before = job[a].before
    BY <1>2 DEF Job
  <1>4. /\ FilesOK' /\ Model' = Model /\ DOMAIN dir' = DOMAIN dir \cup {"part"}
        /\ dir'["part"] = <<>>
    BY <1>1, EmptyPieces DEF Open, FilesOK, Model, Exists
  <1>5. job' = [job EXCEPT ![a] = x] /\ AnswersOK' /\ orphan' = orphan
    BY DEF Open, AnswersOK, NoReply
  <1> HIDE DEF x
  <1>6. job'[a] = x
    BY <1>1, <1>5
  <1>7. NoLeftover'
    BY <1>1, <1>3, <1>6 DEF NoLeftover, Busy
  <1>8. ASSUME Undisturbed(a), Busy' = {a} PROVE Undisturbed(a)'
    BY <1>1, <1>2, <1>3, <1>4, <1>6, <1>8, EmptyPieces DEF Undisturbed, Exists
  <1> QED  BY <1>1, <1>3, <1>4, <1>5, <1>7, <1>8, OwnKeeps

LEMMA ReceiveKeeps ==
    ASSUME IInv, NEW a \in Agent, Receive(a)
    PROVE  IInv'
  <1>1. /\ FilesOK /\ job \in [Agent -> Job] /\ HandlesOK /\ orphan \in BOOLEAN
        /\ a \in Busy /\ job[a].pc = "stream" /\ job[a].offset < Size
    BY TypeParts DEF IInv, Receive, Busy
  <1> DEFINE x == [job[a] EXCEPT !.offset = @ + 1]
             h == job[a].handle
  <1>2. job[a] \in Job /\ job[a].offset + 1 \in Nat \ {0} /\ job[a].offset + 1 \in 0 .. Size
        /\ job[a].body \in Body \cup {Old}
    BY <1>1, BoundAssumption DEF Job
  <1>3. /\ x \in Job /\ x.pc = "stream" /\ x.handle = h /\ x.body = job[a].body
        /\ x.offset = job[a].offset + 1 /\ x.met = job[a].met /\ x.before = job[a].before
    BY <1>1, <1>2 DEF Job
  <1>4. /\ dir' = [n \in DOMAIN dir |->
                     IF n = h THEN Put(dir[n], job[a].offset + 1, job[a].body) ELSE dir[n]]
        /\ job' = [job EXCEPT ![a] = x] /\ AnswersOK' /\ orphan' = orphan
    BY DEF Receive, AnswersOK, NoReply
  <1>5. FilesOK' /\ DOMAIN dir' = DOMAIN dir
    BY <1>1, <1>2, <1>4, PutFact DEF FilesOK
  <1> HIDE DEF x
  <1>6. job'[a] = x
    BY <1>1, <1>4
  <1>7. NoLeftover'
    BY <1>1, <1>3, <1>6 DEF NoLeftover, Busy
  <1>8. h # "none" /\ h \in DOMAIN dir' \cup {"none", "gone"}
    BY <1>1, <1>5 DEF HandlesOK, Busy
  <1>9. ASSUME Undisturbed(a), Busy' = {a} PROVE Undisturbed(a)'
    <2>1. /\ h = "part" /\ "part" \in DOMAIN dir /\ dir["part"] \in Pieces
          /\ Copies(dir["part"], job[a].body) /\ Len(dir["part"]) = job[a].offset
      BY <1>1, <1>9 DEF Undisturbed, FilesOK, Exists
    <2>2. /\ Copies(dir'["part"], job[a].body)
          /\ Len(dir'["part"]) = job[a].offset + 1
      BY <1>2, <1>4, <2>1, PutFact
    <2>3. Model' = Model
      BY <1>4, <2>1 DEF Model, Exists
    <2> QED  BY <1>1, <1>3, <1>5, <1>6, <1>9, <2>1, <2>2, <2>3 DEF Undisturbed, Exists
  <1> QED  BY <1>1, <1>3, <1>4, <1>5, <1>7, <1>8, <1>9, OwnKeeps

LEMMA StreamEndsKeeps ==
    ASSUME IInv, NEW a \in Agent, StreamEnds(a)
    PROVE  IInv'
  <1>1. /\ FilesOK /\ job \in [Agent -> Job] /\ HandlesOK /\ orphan \in BOOLEAN
        /\ a \in Busy /\ job[a].pc = "stream" /\ job[a].offset > 0
        /\ (job[a].framed => job[a].offset = Size)
    BY TypeParts DEF IInv, StreamEnds, Ended, Busy
  <1> DEFINE x == [job[a] EXCEPT !.pc = "replace", !.handle = "none", !.offset = 0]
  <1>2. job[a] \in Job /\ 0 \in 0 .. Size
    BY <1>1, BoundAssumption
  <1>3. /\ x \in Job /\ x.pc = "replace" /\ x.handle = "none" /\ x.body = job[a].body
        /\ x.framed = job[a].framed /\ x.met = job[a].met /\ x.before = job[a].before
    BY <1>2 DEF Job
  <1>4. /\ job' = [job EXCEPT ![a] = x] /\ AnswersOK' /\ orphan' = orphan /\ dir' = dir
    BY DEF StreamEnds, AnswersOK, NoReply
  <1> HIDE DEF x
  <1>5. job'[a] = x /\ FilesOK'
    BY <1>1, <1>4 DEF FilesOK
  <1>6. NoLeftover'
    BY <1>1, <1>3, <1>5 DEF NoLeftover, Busy
  <1>7. ASSUME Undisturbed(a), Busy' = {a} PROVE Undisturbed(a)'
    <2>1. /\ Copies(dir["part"], job[a].body) /\ Len(dir["part"]) = job[a].offset
          /\ Exists("part") /\ Model = job[a].before
      BY <1>1, <1>7 DEF Undisturbed
    <2>2. Delivered(dir["part"], x)
      BY <1>1, <1>3, <2>1 DEF Delivered
    <2> QED  BY <1>3, <1>4, <1>5, <1>7, <2>1, <2>2 DEF Undisturbed, Exists, Model
  <1> QED  BY <1>1, <1>3, <1>4, <1>5, <1>6, <1>7, OwnKeeps

LEMMA ReplaceKeeps ==
    ASSUME IInv, NEW a \in Agent, Replace(a)
    PROVE  IInv'
  <1>1. /\ FilesOK /\ job \in [Agent -> Job] /\ HandlesOK /\ Alone
        /\ a \in Busy /\ job[a].pc = "replace" /\ job[a].handle = "none"
        /\ "part" \in DOMAIN dir
    BY TypeParts DEF IInv, Replace, Busy, HandlesOK, Exists
  <1> DEFINE r == [h \in {"part", "target"} |-> IF h = "part" THEN "target" ELSE "gone"]
  <1>2. DOMAIN r = {"part", "target"} /\ r["part"] = "target" /\ r["target"] = "gone"
    OBVIOUS
  <1>3. dir' = [n \in {"target"} |-> dir["part"]] /\ job' = [Rename(r) EXCEPT ![a].pc = "parse"]
        /\ orphan' \in BOOLEAN /\ AnswersOK'
    BY DEF Replace, AnswersOK, NoReply
  <1> HIDE DEF r
  <1>4. /\ Rename(r) \in [Agent -> Job]
        /\ \A c \in Agent :
              Rename(r)[c] = [job[c] EXCEPT !.handle = IF @ \in DOMAIN r THEN r[@] ELSE @]
    BY <1>1, <1>2, RenameFact DEF Handle
  <1>5. /\ job' \in [Agent -> Job]
        /\ \A c \in Agent : /\ job'[c].pc = (IF c = a THEN "parse" ELSE job[c].pc)
                            /\ job'[c].met = job[c].met
                            /\ job'[c].body = job[c].body /\ job'[c].framed = job[c].framed
                            /\ job'[c].handle = (IF job[c].handle = "part" THEN "target"
                                                 ELSE IF job[c].handle = "target" THEN "gone"
                                                 ELSE job[c].handle)
    <2>1. ASSUME NEW c \in Agent
          PROVE  /\ Rename(r)[c] \in Job /\ Rename(r)[c].pc = job[c].pc
                 /\ Rename(r)[c].met = job[c].met /\ Rename(r)[c].body = job[c].body
                 /\ Rename(r)[c].framed = job[c].framed
                 /\ Rename(r)[c].handle = (IF job[c].handle = "part" THEN "target"
                                           ELSE IF job[c].handle = "target" THEN "gone"
                                           ELSE job[c].handle)
      <3>1. job[c] \in Job
        BY <1>1
      <3> QED  BY <1>2, <1>4, <3>1 DEF Job
    <2>2. \A j \in Job : [j EXCEPT !.pc = "parse"] \in Job
      BY DEF Job
    <2>3. job' = [Rename(r) EXCEPT ![a] = [Rename(r)[a] EXCEPT !.pc = "parse"]]
      BY <1>3
    <2>4. job' \in [Agent -> Job]
      BY <1>4, <2>1, <2>2, <2>3
    <2>5. ASSUME NEW c \in Agent, c # a PROVE job'[c] = Rename(r)[c]
      BY <1>4, <2>3, <2>5
    <2>6. job'[a] = [Rename(r)[a] EXCEPT !.pc = "parse"]
      BY <1>4, <2>3
    <2>7. /\ job'[a].pc = "parse" /\ job'[a].met = Rename(r)[a].met
          /\ job'[a].body = Rename(r)[a].body /\ job'[a].framed = Rename(r)[a].framed
          /\ job'[a].handle = Rename(r)[a].handle
      BY <2>1, <2>6 DEF Job
    <2> QED  BY <2>1, <2>4, <2>5, <2>7
  <1>6. FilesOK' /\ DOMAIN dir' = {"target"} /\ Model' = dir["part"]
    BY <1>1, <1>3 DEF FilesOK, Model, Exists
  <1>7. TypeOK'
    <2>1. ASSUME NEW c \in Agent
          PROVE  /\ job'[c].handle # "none" <=> job'[c].pc = "stream"
                 /\ job'[c].handle \in DOMAIN dir' \cup {"none", "gone"}
      <3>1. /\ job[c].handle # "none" <=> job[c].pc = "stream"
            /\ job[c].handle \in {"part", "target", "none", "gone"}
        BY <1>1 DEF HandlesOK, FilesOK
      <3> QED  BY <1>1, <1>5, <1>6, <3>1
    <2> QED  BY <1>3, <1>5, <1>6, <2>1 DEF TypeOK, FilesOK, AnswersOK
  <1>8. NoLeftover'
    BY <1>6 DEF NoLeftover, Exists
  <1>9. ASSUME ~job'[a].met, Busy = {a}, Busy' \subseteq Busy, a \in Busy' PROVE Undisturbed(a)'
    <2>1. Delivered(dir["part"], job[a])
      BY <1>1, <1>5, <1>9 DEF Alone, Undisturbed
    <2>2. Delivered(Model, job[a])'
      BY <1>1, <1>5, <1>6, <2>1 DEF Delivered, Busy
    <2> QED  BY <1>1, <1>5, <1>9, <2>2 DEF Undisturbed, Busy
  <1>10. OthersGoOn(a) /\ job'[a].met = job[a].met
    BY <1>1, <1>5 DEF OthersGoOn, Busy
  <1>11. Alone'
    BY <1>1, <1>5, <1>9, <1>10, AloneFact
  <1> QED  BY <1>7, <1>8, <1>11 DEF IInv

LEMMA BeginKeeps ==
    ASSUME IInv, NEW a \in Agent, Begin(a)
    PROVE  IInv'
  <1>1. /\ FilesOK /\ job \in [Agent -> Job] /\ HandlesOK /\ NoLeftover
        /\ orphan \in BOOLEAN /\ job[a].pc = "idle" /\ job[a].handle = "none"
    BY TypeParts DEF IInv, Begin, HandlesOK
  <1>2. Model \in Pieces /\ <<>> \in Pieces
    BY <1>1, ModelPieces, EmptyPieces
  <1> DEFINE new == [NoJob EXCEPT !.pc = "unlink", !.met = Busy # {},
                                  !.before = IF Busy = {} THEN Model ELSE <<>>]
             joined(c) == [job[c] EXCEPT !.met = TRUE, !.before = <<>>]
  <1>3. /\ new \in Job /\ new.pc = "unlink" /\ new.handle = "none" /\ new.offset = 0
        /\ (~new.met => Busy = {} /\ new.before = Model)
    <2>0. NoJob \in Job /\ NoJob.handle = "none" /\ NoJob.offset = 0
      BY NoJobFact DEF NoJob
    <2>1. CASE Busy = {}
      <3>1. new = [NoJob EXCEPT !.pc = "unlink", !.met = FALSE, !.before = Model]
        BY <2>1
      <3> HIDE DEF new
      <3>2. /\ new \in Job /\ new.pc = "unlink" /\ new.handle = "none" /\ new.offset = 0
            /\ new.before = Model
        BY <1>2, <2>0, <3>1 DEF Job
      <3> QED  BY <2>1, <3>2
    <2>2. CASE Busy # {}
      <3>1. new = [NoJob EXCEPT !.pc = "unlink", !.met = TRUE, !.before = <<>>]
        BY <2>2
      <3> HIDE DEF new
      <3>2. /\ new \in Job /\ new.pc = "unlink" /\ new.handle = "none" /\ new.offset = 0
            /\ new.met = TRUE
        BY <1>2, <2>0, <3>1 DEF Job
      <3> QED  BY <3>2
    <2> QED  BY <2>1, <2>2
  <1>4. ASSUME NEW c \in Agent
        PROVE  /\ joined(c) \in Job /\ joined(c).pc = job[c].pc
               /\ joined(c).handle = job[c].handle /\ joined(c).met
    <2>1. job[c] \in Job
      BY <1>1
    <2> QED  BY <1>2, <2>1 DEF Job
  <1>5. /\ job' = [c \in Agent |-> IF c = a THEN new ELSE IF c \in Busy THEN joined(c) ELSE job[c]]
        /\ AnswersOK' /\ dir' = dir /\ orphan' = orphan
    BY DEF Begin, AnswersOK, NoReply
  <1> HIDE DEF new, joined
  <1>6. /\ job' \in [Agent -> Job] /\ job'[a] = new
        /\ \A c \in Agent \ {a} : /\ job'[c].pc = job[c].pc /\ job'[c].handle = job[c].handle
                                  /\ c \in Busy => job'[c].met
    BY <1>1, <1>3, <1>4, <1>5
  <1>7. TypeOK'
    <2>1. ASSUME NEW c \in Agent
          PROVE  /\ job'[c].handle # "none" <=> job'[c].pc = "stream"
                 /\ job'[c].handle \in DOMAIN dir' \cup {"none", "gone"}
      BY <1>1, <1>3, <1>5, <1>6 DEF HandlesOK
    <2> QED  BY <1>1, <1>5, <1>6, <2>1 DEF TypeOK, FilesOK, AnswersOK
  <1>8. NoLeftover'
    <2>1. CASE ~Exists("part") \/ orphan
      BY <1>5, <2>1 DEF NoLeftover, Exists
    <2>2. CASE \E c \in Agent : job[c].pc \in {"stream", "replace"}
      <3>1. PICK c \in Agent \ {a} : job[c].pc \in {"stream", "replace"}
        BY <1>1, <2>2
      <3> QED  BY <1>6, <3>1 DEF NoLeftover
    <2> QED  BY <1>1, <2>1, <2>2 DEF NoLeftover
  <1>9. Alone'
    <2> SUFFICES ASSUME NEW c \in Busy', ~job'[c].met
                 PROVE  Undisturbed(c)'
      BY DEF Alone
    <2>1. c = a
      BY <1>6 DEF Busy
    <2>2. Busy = {} /\ job'[a].before = Model /\ job'[a].pc = "unlink" /\ job'[a].offset = 0
      BY <1>3, <1>6, <2>1
    <2>3. Busy' = {a}
      BY <1>6, <2>2 DEF Busy
    <2> QED  BY <1>5, <2>1, <2>2, <2>3 DEF Undisturbed, Model, Exists
  <1> QED  BY <1>7, <1>8, <1>9 DEF IInv

LEMMA InitInv == Init => IInv
  <1> SUFFICES ASSUME Init PROVE IInv
    OBVIOUS
  <1>1. NoJob \in Job /\ NoJob.pc = "idle" /\ NoJob.handle = "none"
    BY NoJobFact DEF NoJob
  <1>2. DOMAIN dir \subseteq {"target"} /\ \A n \in DOMAIN dir : dir[n] = <<Old>>
    BY DEF Init
  <1>3. <<Old>> \in Pieces
    BY DEF Pieces
  <1>4. TypeOK
    BY <1>1, <1>2, <1>3 DEF Init, TypeOK, NoReply
  <1>5. NoLeftover /\ Alone
    BY <1>1, <1>2 DEF Init, NoLeftover, Exists, Alone, Busy
  <1> QED  BY <1>4, <1>5 DEF IInv

(***************************************************************************)
(* The invariant and what follows from it.                                 *)
(***************************************************************************)

LEMMA StepKeeps ==
    ASSUME IInv, NEW a \in Agent, Begin(a) \/ Step(a) \/ Kill(a)
    PROVE  IInv'
  <1>1. CASE Refuse(a) \/ RemoveOld(a) \/ Receive(a) \/ StreamEnds(a) \/ Replace(a) \/ ParseOk(a)
    BY <1>1, RefuseKeeps, RemoveOldKeeps, ReceiveKeeps, StreamEndsKeeps, ReplaceKeeps, ParseOkKeeps
  <1>2. ASSUME NEW b \in Body, NEW isFramed \in BOOLEAN, Open(a, b, isFramed)
        PROVE  IInv'
    BY <1>2, OpenKeeps
  <1>3. CASE ConnectFails(a) \/ StreamFails(a)
    <2>1. a \in Busy /\ job[a].pc # "parse" /\ (Retry(a) \/ GiveUp(a))
      BY <1>3 DEF ConnectFails, StreamFails, Busy
    <2> QED  BY <2>1, RetryKeeps, GiveUpKeeps
  <1>4. CASE StreamEmpty(a) \/ ReplaceFails(a) \/ ParseFails(a)
    <2>1. a \in Busy /\ GiveUp(a)
      BY <1>4 DEF StreamEmpty, ReplaceFails, ParseFails, Busy
    <2> QED  BY <2>1, GiveUpKeeps
  <1>5. CASE Begin(a) \/ Kill(a) \/ UnlinkFails(a)
    BY <1>5, BeginKeeps, KillKeeps, UnlinkFailsKeeps
  <1> QED  BY <1>1, <1>2, <1>3, <1>4, <1>5 DEF Step

LEMMA NextInv == ASSUME IInv, [Next]_vars PROVE IInv'
  <1>1. CASE Next
    BY <1>1, StepKeeps DEF Next
  <1>2. CASE UNCHANGED vars
    BY <1>2 DEF vars, IInv, TypeOK, NoLeftover, Exists, Alone, Busy, Undisturbed, Model
  <1> QED  BY <1>1, <1>2

\* The strengthened invariant holds in every reachable state (_download_model_to_primary).
THEOREM Invariance == Spec => []IInv
  BY InitInv, NextInv, PTL DEF Spec

\* The types of the files, of the commands and of their handles.
THEOREM TypeCorrect == Spec => []TypeOK
  <1>1. IInv => TypeOK
    BY DEF IInv
  <1> QED  BY <1>1, Invariance, PTL

\* No partial file is forgotten, whatever fails and however many agents remove,
\* empty and rename each other's (_download_model_once).
THEOREM NothingForgotten == Spec => []NoLeftover
  <1>1. IInv => NoLeftover
    BY DEF IInv
  <1> QED  BY <1>1, Invariance, PTL

\* Who is answered, and by which step.
LEMMA WhoIsAnswered ==
    ASSUME IInv, Next, NEW a \in Busy, NEW s \in {"ok", "error"}, Answers(a, s)
    PROVE  IF s = "ok" THEN ParseOk(a)
           ELSE Refuse(a) \/ GiveUp(a) \/ UnlinkFails(a)
  <1>1. PICK b \in Agent : Begin(b) \/ Step(b) \/ Kill(b)
    BY DEF Next
  <1>2. reply' # NoReply
    BY DEF Answers, NoReply
  <1>3. /\ ~Begin(b) /\ ~Kill(b) /\ ~RemoveOld(b) /\ ~Retry(b) /\ ~Receive(b)
        /\ ~StreamEnds(b) /\ ~Replace(b)
        /\ \A x \in Body, f \in BOOLEAN : ~Open(b, x, f)
    BY <1>2 DEF Begin, Kill, RemoveOld, Retry, Receive, StreamEnds, Replace, Open
  <1>4. Refuse(b) \/ ParseOk(b) \/ GiveUp(b) \/ UnlinkFails(b)
    BY <1>1, <1>3 DEF Step, ConnectFails, StreamFails, StreamEmpty, ReplaceFails, ParseFails
  <1>5. ASSUME NEW t, reply' = [c \in {b} |-> t]
        PROVE  a = b /\ s = t
    BY <1>5 DEF Answers
  <1>6. CASE ParseOk(b)
    BY <1>5, <1>6 DEF ParseOk
  <1>7. CASE Refuse(b) \/ GiveUp(b) \/ UnlinkFails(b)
    <2>1. reply' = [c \in {b} |-> "error"]
      BY <1>7 DEF Refuse, UnlinkFails, GiveUp
    <2>2. a = b /\ s = "error"
      BY <1>5, <2>1
    <2> QED  BY <1>7, <2>2
  <1> QED  BY <1>4, <1>6, <1>7

LEMMA DeliveredIsWhole ==
    ASSUME NEW m, NEW j, Delivered(m, j)
    PROVE  Whole(m, j)
  BY DEF Delivered, Copies, Whole

\* An undisturbed download answered "ok" has put its source's body in place
\* (_download_model_once).
THEOREM OkIsDelivered == Spec => OkMeansDelivered
  <1>1. ASSUME IInv, [Next]_vars
        PROVE  [ \A a \in Busy : Answers(a, "ok") /\ ~job[a].met =>
                    HasHeader(Model') /\ Whole(Model', job[a]) ]_vars
    <2> SUFFICES ASSUME Next, NEW a \in Busy, Answers(a, "ok"), ~job[a].met
                 PROVE  HasHeader(Model') /\ Whole(Model', job[a])
      BY <1>1
    <2>1. ParseOk(a)
      BY <1>1, WhoIsAnswered
    <2>2. Delivered(Model, job[a]) /\ HasHeader(Model)
      BY <1>1, <2>1 DEF IInv, Alone, Undisturbed, ParseOk
    <2>3. Model' = Model
      BY <2>1 DEF ParseOk, Model, Exists
    <2> QED  BY <2>2, <2>3, DeliveredIsWhole
  <1> QED  BY <1>1, Invariance, PTL DEF Spec, OkMeansDelivered

\* An undisturbed download answered "error" has left the old model in place or,
\* when its header was refused after the transfer, its whole body
\* (execute_node_command).
THEOREM ErrorLeavesAWhole == Spec => ErrorLeavesWhole
  <1>1. ASSUME IInv, [Next]_vars
        PROVE  [ \A a \in Busy : Answers(a, "error") /\ ~job[a].met =>
                    Model' = job[a].before \/ Whole(Model', job[a]) ]_vars
    <2> SUFFICES ASSUME Next, NEW a \in Busy, Answers(a, "error"), ~job[a].met
                 PROVE  Model' = job[a].before \/ Whole(Model', job[a])
      BY <1>1
    <2>1. /\ Undisturbed(a) /\ FilesOK
      BY <1>1, TypeParts DEF IInv, Alone
    <2>2. Model' = Model
      <3>1. CASE Refuse(a) \/ UnlinkFails(a)
        BY <3>1 DEF Refuse, UnlinkFails, Model, Exists
      <3>2. CASE GiveUp(a)
        BY <2>1, <3>2, UnlinkFact DEF GiveUp
      <3> QED  BY <1>1, <3>1, <3>2, WhoIsAnswered
    <2> QED  BY <2>1, <2>2, DeliveredIsWhole DEF Undisturbed
  <1> QED  BY <1>1, Invariance, PTL DEF Spec, ErrorLeavesWhole

(***************************************************************************)
(* How long a command takes.                                               *)
(***************************************************************************)

\* At most how many steps an attempt takes: each piece, and five more.
PerAttempt == Size + 5

\* At most how many of them are left.
Rest(j) ==
    CASE j.pc = "parse" -> 1
      [] j.pc = "replace" -> 2
      [] j.pc = "stream" -> 3 + (Size - j.offset)
      [] j.pc = "connect" -> Size + 4
      [] OTHER -> Size + 5

\* At most how many more steps command j takes, with the attempts it has left.
StepsLeft(j) ==
    IF j.pc = "idle" THEN 0 ELSE (Budget - j.attempt) * PerAttempt + Rest(j)

\* A step of a's command brings it nearer to its end, and nothing that another
\* agent does takes it further away.
Nearer(a) ==
    /\ Step(a) => StepsLeft(job[a])' < StepsLeft(job[a])
    /\ a \in Busy => StepsLeft(job[a])' <= StepsLeft(job[a])

Same(j, k) == j.pc = k.pc /\ j.attempt = k.attempt /\ j.offset = k.offset

LEMMA Products ==
    ASSUME NEW m \in Nat, NEW k \in Nat
    PROVE  m * k \in Nat /\ (m + 1) * k = m * k + k
  OBVIOUS

LEMMA ProductsMonotone ==
    ASSUME NEW m \in Nat, NEW n \in Nat, NEW k \in Nat, m <= n
    PROVE  m * k <= n * k
  OBVIOUS

LEMMA RestType ==
    ASSUME NEW j \in Job, j.pc # "idle"
    PROVE  /\ Rest(j) \in 1 .. PerAttempt /\ PerAttempt \in Nat
           /\ Budget - j.attempt \in 0 .. Budget - 1
  BY BoundAssumption DEF Job, Rest, PerAttempt

LEMMA StepsType == ASSUME NEW j \in Job PROVE StepsLeft(j) \in 0 .. Budget * PerAttempt
  <1>1. Budget \in Nat \ {0} /\ PerAttempt \in Nat
    BY BoundAssumption DEF PerAttempt
  <1>2. Budget * PerAttempt \in Nat
    BY <1>1, Products
  <1>3. CASE j.pc = "idle"
    BY <1>2, <1>3 DEF StepsLeft
  <1>4. CASE j.pc # "idle"
    <2> DEFINE m == Budget - j.attempt
    <2>1. m \in Nat /\ m <= Budget - 1 /\ Budget - 1 \in Nat /\ Rest(j) \in 1 .. PerAttempt
      BY <1>1, <1>4, RestType
    <2>2. StepsLeft(j) = m * PerAttempt + Rest(j)
      BY <1>4 DEF StepsLeft
    <2> HIDE DEF m
    <2>3. m * PerAttempt \in Nat /\ m * PerAttempt <= (Budget - 1) * PerAttempt
      BY <1>1, <2>1, Products, ProductsMonotone
    <2>4. (Budget - 1) * PerAttempt + PerAttempt = Budget * PerAttempt
          /\ (Budget - 1) * PerAttempt \in Nat
      <3>1. (Budget - 1) + 1 = Budget
        BY <1>1
      <3> QED  BY <1>1, <2>1, <3>1, Products
    <2> QED  BY <1>1, <1>2, <2>1, <2>2, <2>3, <2>4
  <1> QED  BY <1>3, <1>4

\* What counts is the rest of the attempt, unless it is the next attempt.
LEMMA RestDecides ==
    ASSUME NEW j \in Job, NEW k \in Job, j.pc # "idle",
           \/ k.pc = "idle"
           \/ k.attempt = j.attempt /\ Rest(k) < Rest(j)
           \/ k.attempt = j.attempt + 1
    PROVE  StepsLeft(k) < StepsLeft(j)
  <1> DEFINE m == Budget - j.attempt
  <1>1. m \in Nat /\ Rest(j) \in 1 .. PerAttempt /\ PerAttempt \in Nat /\ Rest(j) \in Nat \ {0}
    BY RestType
  <1>2. StepsLeft(j) = m * PerAttempt + Rest(j)
    BY DEF StepsLeft
  <1>3. j.attempt \in Nat /\ Budget \in Nat
    BY BoundAssumption DEF Job
  <1>4. CASE k.pc = "idle"
    <2>1. StepsLeft(k) = 0
      BY <1>4 DEF StepsLeft
    <2> HIDE DEF m
    <2> QED  BY <1>1, <1>2, <2>1, Products
  <1>5. CASE k.pc # "idle" /\ k.attempt = j.attempt /\ Rest(k) < Rest(j)
    <2>1. StepsLeft(k) = m * PerAttempt + Rest(k) /\ Rest(k) \in Nat
      BY <1>5, RestType DEF StepsLeft
    <2> HIDE DEF m
    <2>2. m * PerAttempt \in Nat
      BY <1>1, Products
    <2> QED  BY <1>1, <1>2, <1>5, <2>1, <2>2
  <1>6. CASE k.pc # "idle" /\ k.attempt = j.attempt + 1
    <2> DEFINE n == Budget - k.attempt
    <2>1. n \in Nat /\ Rest(k) \in 1 .. PerAttempt
      BY <1>6, RestType
    <2>2. StepsLeft(k) = n * PerAttempt + Rest(k)
      BY <1>6 DEF StepsLeft
    <2>3. m = n + 1
      BY <1>3, <1>6
    <2> HIDE DEF m, n
    <2>4. n * PerAttempt \in Nat /\ m * PerAttempt = n * PerAttempt + PerAttempt
      BY <1>1, <2>1, <2>3, Products
    <2> QED  BY <1>1, <1>2, <2>1, <2>2, <2>4
  <1> QED  BY <1>4, <1>5, <1>6

\* A rename changes nobody's command but its handle.
LEMMA RenameSame ==
    ASSUME job \in [Agent -> Job], NEW r, NEW c \in Agent
    PROVE  Same(Rename(r)[c], job[c]) /\ DOMAIN Rename(r) = Agent
  <1>1. job[c] \in Job
    OBVIOUS
  <1> QED  BY <1>1 DEF Rename, Same, Job

LEMMA OthersSame ==
    ASSUME IInv, NEW a \in Agent, Begin(a) \/ Step(a) \/ Kill(a), NEW c \in Agent \ {a}
    PROVE  Same(job'[c], job[c])
  <1>1. job \in [Agent -> Job] /\ job[c] \in Job
    BY DEF IInv, TypeOK
  <1>2. ASSUME NEW r, NEW x, job' = [Rename(r) EXCEPT ![a] = x]
        PROVE  Same(job'[c], job[c])
    <2>1. job'[c] = Rename(r)[c]
      BY <1>1, <1>2, RenameSame
    <2> QED  BY <1>1, <2>1, RenameSame
  <1>3. ASSUME NEW x, job' = [job EXCEPT ![a] = x]
        PROVE  Same(job'[c], job[c])
    BY <1>1, <1>3 DEF Same
  <1>4. CASE Begin(a)
    BY <1>1, <1>4 DEF Begin, Same, Job
  <1>5. CASE Retry(a) \/ GiveUp(a)
    BY <1>2, <1>5 DEF Retry, GiveUp, Unlinked
  <1>6. CASE RemoveOld(a)
    BY <1>2, <1>6 DEF RemoveOld, Unlinked
  <1>7. CASE Replace(a)
    BY <1>2, <1>7 DEF Replace
  <1>8. CASE \E b \in Body, f \in BOOLEAN : Open(a, b, f)
    BY <1>3, <1>8 DEF Open
  <1>9. CASE \/ Refuse(a) \/ Receive(a) \/ StreamEnds(a) \/ ParseOk(a) \/ Kill(a)
             \/ UnlinkFails(a)
    BY <1>3, <1>9 DEF Refuse, Receive, StreamEnds, ParseOk, Kill, UnlinkFails
  <1> QED  BY <1>4, <1>5, <1>6, <1>7, <1>8, <1>9
           DEF Step, ConnectFails, StreamFails, StreamEmpty, ReplaceFails, ParseFails

\* A command's own step ends it, starts the next attempt or goes on in this one.
LEMMA OwnNearer ==
    ASSUME IInv, IInv', NEW a \in Agent, Step(a)
    PROVE  a \in Busy /\ StepsLeft(job'[a]) < StepsLeft(job[a])
  <1>1. job \in [Agent -> Job] /\ job[a] \in Job /\ job'[a] \in Job
    BY DEF IInv, TypeOK
  <1>2. job[a].pc # "idle" /\ a \in Busy
    BY DEF Step, Refuse, RemoveOld, ConnectFails, Open, Receive, StreamFails, StreamEmpty,
       StreamEnds, Replace, ReplaceFails, ParseOk, ParseFails, UnlinkFails, Busy
  <1>3. DOMAIN Unlinked = Agent /\ Same(Unlinked[a], job[a]) /\ Unlinked[a] \in Job
    BY <1>1, RenameSame, UnlinkedFact DEF Unlinked
  <1>4. job[a].offset \in 0 .. Size /\ Size \in Nat \ {0}
    BY <1>1, BoundAssumption DEF Job
  <1>5. CASE Refuse(a) \/ GiveUp(a) \/ ParseOk(a) \/ UnlinkFails(a)
    <2>1. job'[a].pc = "idle"
      BY <1>1, <1>3, <1>5 DEF Refuse, GiveUp, ParseOk, UnlinkFails, NoJob
    <2> QED  BY <1>1, <1>2, <2>1, RestDecides
  <1>6. CASE Retry(a)
    <2>1. job'[a] = Again(Unlinked[a])
      BY <1>3, <1>6 DEF Retry
    <2>2. job'[a].attempt = job[a].attempt + 1
      BY <1>3, <2>1 DEF Again, NoJob, Same
    <2> QED  BY <1>1, <1>2, <2>2, RestDecides
  <1>7. CASE RemoveOld(a)
    <2>1. job'[a] = [Unlinked[a] EXCEPT !.pc = "connect"]
      BY <1>3, <1>7 DEF RemoveOld
    <2>2. job'[a].pc = "connect" /\ job'[a].attempt = job[a].attempt /\ job[a].pc = "unlink"
      BY <1>3, <1>7, <2>1 DEF RemoveOld, Same, Job
    <2>3. Rest(job'[a]) < Rest(job[a])
      BY <1>4, <2>2 DEF Rest
    <2> QED  BY <1>1, <1>2, <2>2, <2>3, RestDecides
  <1>8. ASSUME NEW b \in Body, NEW f \in BOOLEAN, Open(a, b, f)
        PROVE  StepsLeft(job'[a]) < StepsLeft(job[a])
    <2>1. job'[a].pc = "stream" /\ job'[a].attempt = job[a].attempt /\ job[a].pc = "connect"
      BY <1>1, <1>8 DEF Open, Job
    <2>2. job'[a].offset \in 0 .. Size
      BY <1>1 DEF Job
    <2>3. Rest(job'[a]) < Rest(job[a])
      BY <1>4, <2>1, <2>2 DEF Rest
    <2> QED  BY <1>1, <1>2, <2>1, <2>3, RestDecides
  <1>9. CASE Receive(a)
    <2>1. job' = [job EXCEPT ![a].offset = @ + 1] /\ job[a].pc = "stream" /\ job[a].offset < Size
      BY <1>9 DEF Receive
    <2>2. job'[a].pc = "stream" /\ job'[a].attempt = job[a].attempt
          /\ job'[a].offset = job[a].offset + 1
      BY <1>1, <2>1 DEF Job
    <2>3. Rest(job'[a]) < Rest(job[a])
      BY <1>4, <2>1, <2>2 DEF Rest
    <2> QED  BY <1>1, <1>2, <2>2, <2>3, RestDecides
  <1>10. CASE StreamEnds(a)
    <2>1. job'[a].pc = "replace" /\ job'[a].attempt = job[a].attempt /\ job[a].pc = "stream"
      BY <1>1, <1>10 DEF StreamEnds, Job
    <2>2. Rest(job'[a]) < Rest(job[a])
      BY <1>4, <2>1 DEF Rest
    <2> QED  BY <1>1, <1>2, <2>1, <2>2, RestDecides
  <1>11. CASE Replace(a)
    <2> DEFINE r == [h \in {"part", "target"} |-> IF h = "part" THEN "target" ELSE "gone"]
    <2>1. job' = [Rename(r) EXCEPT ![a].pc = "parse"] /\ job[a].pc = "replace"
      BY <1>11 DEF Replace
    <2> HIDE DEF r
    <2>2. DOMAIN Rename(r) = Agent /\ Same(Rename(r)[a], job[a])
      BY <1>1, RenameSame
    <2>3. job'[a] = [Rename(r)[a] EXCEPT !.pc = "parse"]
      BY <2>1, <2>2
    <2>4. job'[a].pc = "parse" /\ job'[a].attempt = job[a].attempt
      <3>1. Rename(r)[a] = [job[a] EXCEPT !.handle = IF @ \in DOMAIN r THEN r[@] ELSE @]
        BY DEF Rename
      <3> QED  BY <1>1, <2>2, <2>3, <3>1 DEF Same, Job
    <2>5. Rest(job'[a]) < Rest(job[a])
      BY <1>4, <2>1, <2>4 DEF Rest
    <2> QED  BY <1>1, <1>2, <2>4, <2>5, RestDecides
  <1> QED  BY <1>2, <1>5, <1>6, <1>7, <1>8, <1>9, <1>10, <1>11
           DEF Step, ConnectFails, StreamFails, StreamEmpty, ReplaceFails, ParseFails

LEMMA NearerStep == ASSUME IInv, [Next]_vars, NEW c \in Agent PROVE Nearer(c)
  <1>1. IInv' /\ job \in [Agent -> Job] /\ job[c] \in Job /\ job'[c] \in Job
    BY NextInv DEF IInv, TypeOK
  <1>2. /\ StepsLeft(job[c]) \in Nat /\ StepsLeft(job'[c]) \in Nat
    <2>1. Budget * PerAttempt \in Nat
      BY BoundAssumption, Products DEF PerAttempt
    <2> QED  BY <1>1, <2>1, StepsType
  <1>3. StepsLeft(job[c])' = StepsLeft(job'[c])
    BY DEF StepsLeft, Rest, PerAttempt
  <1>4. CASE Step(c)
    BY <1>1, <1>2, <1>3, <1>4, OwnNearer DEF Nearer
  <1>5. ASSUME ~Step(c), StepsLeft(job'[c]) <= StepsLeft(job[c]) PROVE Nearer(c)
    BY <1>3, <1>5 DEF Nearer
  <1>6. ASSUME ~Step(c), Same(job'[c], job[c]) PROVE Nearer(c)
    <2>1. StepsLeft(job'[c]) = StepsLeft(job[c])
      BY <1>6 DEF StepsLeft, Rest, Same
    <2> QED  BY <1>2, <1>5, <1>6, <2>1
  <1>7. CASE ~Step(c) /\ Begin(c)
    BY <1>7 DEF Nearer, Begin, Busy
  <1>8. CASE ~Step(c) /\ Kill(c)
    <2>1. job'[c].pc = "idle"
      BY <1>1, <1>8 DEF Kill, NoJob
    <2>2. StepsLeft(job'[c]) = 0
      BY <2>1 DEF StepsLeft
    <2> QED  BY <1>2, <1>5, <1>8, <2>2
  <1>9. ASSUME ~Step(c), NEW a \in Agent, a # c, Begin(a) \/ Step(a) \/ Kill(a) PROVE Nearer(c)
    BY <1>6, <1>9, OthersSame
  <1>10. CASE ~Step(c) /\ UNCHANGED vars
    BY <1>6, <1>10 DEF vars, Same
  <1> QED  BY <1>4, <1>7, <1>8, <1>9, <1>10 DEF Next

\* A download command ends by itself, and no other agent can hold it up: with all
\* its attempts it takes a bounded number of steps, however the transfers fail and
\* whatever the others do to its file (the loop of _download_model_to_primary).
DownloadIsBounded ==
    /\ [](\A a \in Agent : StepsLeft(job[a]) \in 0 .. Budget * PerAttempt)
    /\ [][\A a \in Agent : Nearer(a)]_vars

THEOREM DownloadsAreBounded == Spec => DownloadIsBounded
  <1>1. IInv => \A a \in Agent : StepsLeft(job[a]) \in 0 .. Budget * PerAttempt
    <2>1. ASSUME IInv, NEW a \in Agent PROVE job[a] \in Job
      BY <2>1 DEF IInv, TypeOK
    <2> QED  BY <2>1, StepsType
  <1>2. IInv /\ [Next]_vars => [\A a \in Agent : Nearer(a)]_vars
    BY NearerStep
  <1> QED  BY <1>1, <1>2, Invariance, PTL DEF Spec, DownloadIsBounded
=============================================================================
