------------------------- MODULE InstanceLockProofs -------------------------
(***************************************************************************)
(* Proofs about InstanceLock.tla, for every set of agents.                 *)
(***************************************************************************)
EXTENDS InstanceLock, TLAPS

(***************************************************************************)
(* The inductive invariant.                                                *)
(***************************************************************************)
Holder(p) == pc[p] \in Holding \cup {"release_unlink"}

\* Without overlap one agent acquires at a time.
OneAcquirer ==
    \A p, q \in Agent : pc[p] \in Acquiring /\ pc[q] \in Acquiring => p = q

\* The agent about to write has the file it created, still without a text.
WriterHasFile ==
    \A p \in Agent : pc[p] = "write"
        => file = [by |-> p, attempt |-> attempt[p], text |-> NoOne]

\* Whoever took the file for stale is right as long as nobody else acquires:
\* there is no holder, so that its unlink removes nobody's lock.
StaleIsStale ==
    \A p \in Agent : pc[p] = "unlink" => \A q \in Agent : ~Holder(q)

\* Whoever is in its second pass has removed the stale file and finds none.
SecondPass ==
    \A p \in Agent : attempt[p] = 2
        => pc[p] \notin {"inspect", "unlink"} /\ (pc[p] = "create" => ~Exists)

Exclusion == ~overlapped => /\ OneAcquirer
                            /\ WriterHasFile
                            /\ StaleIsStale
                            /\ LockNamesHolder

IInv == TypeOK /\ Exclusion

(***************************************************************************)
(* Type correctness.                                                       *)
(***************************************************************************)
LEMMA InitInv == Init => IInv
  <1> SUFFICES ASSUME Init PROVE IInv
    OBVIOUS
  <1>1. TypeOK
    <2>1. file \in LockFile
      BY DEF Init, NoFile, LockFile
    <2>2. "new" \in PC
      BY DEF PC
    <2>3. /\ pc \in [Agent -> PC] /\ attempt \in [Agent -> 0..2]
          /\ worker \in [Agent -> {"none", "running", "ending", "exited"}]
      BY <2>2 DEF Init
    <2>4. overlapped \in BOOLEAN /\ portOwner = NoOne
      BY DEF Init
    <2> QED  BY <2>1, <2>3, <2>4 DEF TypeOK
  <1>2. \A p \in Agent : pc[p] = "new"
    BY DEF Init
  <1>3. Exclusion
    BY <1>2 DEF Exclusion, OneAcquirer, WriterHasFile, StaleIsStale,
                LockNamesHolder, Holder, Acquiring, Holding
  <1> QED  BY <1>1, <1>3 DEF IInv

\* Every step keeps the types.
LEMMA TypeStep == TypeOK /\ [Next]_vars => TypeOK'
  <1> SUFFICES ASSUME TypeOK, [Next]_vars PROVE TypeOK'
    OBVIOUS
  <1> USE NoOneAssumption DEF TypeOK, Goto, PC, Acquiring, Holding, Ended, Lives, workerVars
  <1>1. ASSUME NEW p \in Agent, Start(p) PROVE TypeOK'
    BY <1>1 DEF Start
  <1>2. ASSUME NEW p \in Agent, Create(p) PROVE TypeOK'
    BY <1>2 DEF Create, LockFile
  <1>3. ASSUME NEW p \in Agent, Write(p) PROVE TypeOK'
    BY <1>3 DEF Write, LockFile
  <1>4. ASSUME NEW p \in Agent, Inspect(p) PROVE TypeOK'
    BY <1>4 DEF Inspect
  <1>5. ASSUME NEW p \in Agent, Unlink(p) PROVE TypeOK'
    BY <1>5 DEF Unlink, NoFile, LockFile
  <1>6. ASSUME NEW p \in Agent, PortCheck(p) PROVE TypeOK'
    BY <1>6 DEF PortCheck
  <1>7. ASSUME NEW p \in Agent, Spawn(p) PROVE TypeOK'
    BY <1>7 DEF Spawn
  <1>8. ASSUME NEW p \in Agent, Preflight(p) PROVE TypeOK'
    BY <1>8 DEF Preflight
  <1>9. ASSUME NEW p \in Agent, Monitor(p) PROVE TypeOK'
    BY <1>9 DEF Monitor
  <1>10. ASSUME NEW p \in Agent, StopRequest(p) PROVE TypeOK'
    BY <1>10 DEF StopRequest
  <1>11. ASSUME NEW p \in Agent, StopWorker(p) PROVE TypeOK'
    BY <1>11 DEF StopWorker
  <1>12. ASSUME NEW p \in Agent, ReleaseRead(p) PROVE TypeOK'
    BY <1>12 DEF ReleaseRead
  <1>13. ASSUME NEW p \in Agent, ReleaseUnlink(p) PROVE TypeOK'
    BY <1>13 DEF ReleaseUnlink, NoFile, LockFile
  <1>14. ASSUME NEW p \in Agent, Kill(p) PROVE TypeOK'
    BY <1>14 DEF Kill
  <1>15. ASSUME NEW p \in Agent, Bind(p) PROVE TypeOK'
    BY <1>15 DEF Bind
  <1>16. ASSUME NEW p \in Agent, FailToBind(p) PROVE TypeOK'
    BY <1>16 DEF FailToBind
  <1>17. ASSUME NEW p \in Agent, WorkerEnds(p) PROVE TypeOK'
    BY <1>17 DEF WorkerEnds
  <1>18. CASE UNCHANGED vars
    BY <1>18 DEF vars
  <1>19. ASSUME NEW p \in Agent, Interrupt(p) PROVE TypeOK'
    BY <1>19 DEF Interrupt
  <1> QED
    BY <1>19, <1>1, <1>2, <1>3, <1>4, <1>5, <1>6, <1>7, <1>8, <1>9, <1>10, <1>11, <1>12,
       <1>13, <1>14, <1>15, <1>16, <1>17, <1>18
       DEF Next, AgentStep, Acquire, Release, WorkerStep

(***************************************************************************)
(* Exclusion.                                                              *)
(***************************************************************************)

\* A holder is alive, so that Inspect never takes its file for stale.
LEMMA HolderAlive == ASSUME NEW p \in Agent, Holder(p) PROVE Alive(p)
  BY DEF Holder, Alive, Holding, Ended

\* A step within the part of run_agent that holds the lock, or out of it,
\* touches no file and makes nobody an acquirer or a holder.
LEMMA QuietStep ==
    ASSUME IInv, NEW p \in Agent, UNCHANGED <<attempt, file, overlapped>>,
           \E place \in PC : Goto(p, place),
           pc'[p] \notin Acquiring,
           Holder(p)' => Holder(p)
    PROVE  Exclusion'
  <1> SUFFICES ASSUME ~overlapped PROVE /\ OneAcquirer'
                                        /\ WriterHasFile'
                                        /\ StaleIsStale'
                                        /\ LockNamesHolder'
    BY DEF Exclusion
  <1>1. pc \in [Agent -> PC] /\ OneAcquirer /\ WriterHasFile /\ StaleIsStale /\ LockNamesHolder
    BY DEF IInv, Exclusion, TypeOK
  <1>2. \A q \in Agent : q # p => pc'[q] = pc[q]
    BY <1>1 DEF Goto
  <1>3. OneAcquirer'
    BY <1>1, <1>2 DEF OneAcquirer
  <1>4. WriterHasFile'
    BY <1>1, <1>2 DEF WriterHasFile, Acquiring
  <1>5. \A q \in Agent : Holder(q)' => Holder(q)
    BY <1>2 DEF Holder
  <1>6. StaleIsStale'
    BY <1>1, <1>2, <1>5 DEF StaleIsStale, Acquiring
  <1>7. LockNamesHolder'
    BY <1>1, <1>5 DEF LockNamesHolder, Holder, Exists
  <1> QED  BY <1>3, <1>4, <1>6, <1>7

\* No step ends the exclusion, except an agent starting while another acquires.
LEMMA ExclusionStep == IInv /\ [Next]_vars => Exclusion'
  <1> SUFFICES ASSUME IInv, [Next]_vars PROVE Exclusion'
    OBVIOUS
  <1>1. pc \in [Agent -> PC] /\ attempt \in [Agent -> 0..2] /\ file \in LockFile
    BY DEF IInv, TypeOK
  <1>2. ASSUME NEW p \in Agent, Start(p) PROVE Exclusion'
    <2> SUFFICES ASSUME ~overlapped'
                 PROVE  OneAcquirer' /\ WriterHasFile' /\ StaleIsStale' /\ LockNamesHolder'
      BY DEF Exclusion
    <2>1. /\ ~overlapped /\ \A q \in Agent : pc[q] \notin Acquiring
          /\ pc' = [pc EXCEPT ![p] = "create"] /\ file' = file
          /\ attempt' = [attempt EXCEPT ![p] = 1]
      BY <1>2 DEF Start, Goto
    <2>2. \A q \in Agent : q # p => pc'[q] = pc[q]
      BY <1>1, <2>1
    <2>3. pc'[p] = "create"
      BY <1>1, <2>1
    <2>4. OneAcquirer'
      BY <2>1, <2>2 DEF OneAcquirer
    <2>5. WriterHasFile' /\ StaleIsStale'
      BY <2>1, <2>2, <2>3 DEF WriterHasFile, StaleIsStale, Acquiring
    <2>6. LockNamesHolder'
      BY <2>1, <2>2, <2>3 DEF IInv, Exclusion, LockNamesHolder, Holding, Exists
    <2> QED  BY <2>4, <2>5, <2>6
  <1>3. ASSUME NEW p \in Agent, Acquire(p) PROVE Exclusion'
    <2> SUFFICES ASSUME ~overlapped'
                 PROVE  OneAcquirer' /\ WriterHasFile' /\ StaleIsStale' /\ LockNamesHolder'
      BY DEF Exclusion
    <2>1. /\ ~overlapped
          /\ pc[p] \in Acquiring
          /\ \E place \in PC : pc' = [pc EXCEPT ![p] = place]
      BY <1>3 DEF Acquire, Create, Write, Inspect, Unlink, Goto, PC, Acquiring,
                  Holding, Ended
    <2>2. OneAcquirer /\ WriterHasFile /\ StaleIsStale /\ LockNamesHolder
      BY <2>1 DEF IInv, Exclusion
    <2>3. \A q \in Agent : q # p => pc'[q] = pc[q] /\ pc[q] \notin Acquiring
      BY <1>1, <2>1, <2>2 DEF OneAcquirer
    <2>4. OneAcquirer'
      BY <2>3 DEF OneAcquirer
    <2>5. \A q \in Agent : Holder(q) => Exists /\ file.text = q
      BY <2>2 DEF LockNamesHolder, Holder
    <2>6. CASE Create(p)
      <3>1. CASE Exists
        <4>1. pc'[p] = "inspect" /\ file' = file /\ attempt' = attempt
          BY <1>1, <2>6, <3>1 DEF Create, Goto
        <4> QED
          BY <2>2, <2>3, <2>4, <4>1
             DEF WriterHasFile, StaleIsStale, LockNamesHolder, Acquiring, Holding, Exists
      <3>2. CASE ~Exists
        <4>1. /\ pc'[p] = "write" /\ attempt' = attempt
              /\ file' = [by |-> p, attempt |-> attempt[p], text |-> NoOne]
          BY <1>1, <2>6, <3>2 DEF Create, Goto
        <4>2. \A q \in Agent : ~Holder(q)'
          BY <2>3, <2>5, <3>2, <4>1 DEF Holder, Holding
        <4>3. WriterHasFile'
          BY <2>3, <4>1 DEF WriterHasFile, Acquiring
        <4>4. StaleIsStale' /\ LockNamesHolder'
          BY <4>2 DEF StaleIsStale, LockNamesHolder, Holder
        <4> QED  BY <2>4, <4>3, <4>4
      <3> QED  BY <3>1, <3>2
    <2>7. CASE Write(p)
      <3>1. pc[p] = "write" /\ attempt' = attempt /\ pc'[p] = "port_check"
        BY <1>1, <2>7 DEF Write, Goto
      <3>2. file = [by |-> p, attempt |-> attempt[p], text |-> NoOne]
        BY <2>2, <3>1 DEF WriterHasFile
      <3>3. file' = [by |-> p, attempt |-> attempt[p], text |-> p]
        BY <2>7, <3>2 DEF Write
      <3>4. \A q \in Agent : ~Holder(q)
        BY <2>5, <3>2, NoOneAssumption
      <3>5. LockNamesHolder'
        BY <2>3, <3>3, <3>4, NoOneAssumption DEF LockNamesHolder, Holder, Exists
      <3>6. WriterHasFile' /\ StaleIsStale'
        BY <2>3, <3>1 DEF WriterHasFile, StaleIsStale, Acquiring
      <3> QED  BY <2>4, <3>5, <3>6
    <2>8. CASE Inspect(p)
      <3>1. file' = file /\ attempt' = attempt
        BY <2>8 DEF Inspect
      <3>2. CASE Exists /\ file.text # NoOne /\ Alive(file.text)
        <4>1. pc'[p] = "refused"
          BY <1>1, <2>8, <3>2 DEF Inspect, Goto
        <4> QED
          BY <2>2, <2>3, <2>4, <3>1, <4>1
             DEF WriterHasFile, StaleIsStale, LockNamesHolder, Acquiring, Holding, Exists
      <3>3. CASE ~(Exists /\ file.text # NoOne /\ Alive(file.text))
        <4>1. pc'[p] = "unlink"
          BY <1>1, <2>8, <3>3 DEF Inspect, Goto
        <4>2. \A q \in Agent : ~Holder(q)
          BY <2>5, <3>3, HolderAlive, NoOneAssumption
        <4>3. \A q \in Agent : ~Holder(q)'
          BY <2>3, <4>1, <4>2 DEF Holder, Holding
        <4>4. StaleIsStale' /\ LockNamesHolder'
          BY <4>3 DEF StaleIsStale, LockNamesHolder, Holder
        <4>5. WriterHasFile'
          BY <2>3, <4>1 DEF WriterHasFile, Acquiring
        <4> QED  BY <2>4, <4>4, <4>5
      <3> QED  BY <3>2, <3>3
    <2>9. CASE Unlink(p)
      <3>1. pc[p] = "unlink" /\ pc'[p] \in {"create", "refused"}
        BY <1>1, <2>9 DEF Unlink, Goto
      <3>2. \A q \in Agent : ~Holder(q)
        BY <2>2, <3>1 DEF StaleIsStale
      <3>3. \A q \in Agent : ~Holder(q)'
        BY <2>3, <3>1, <3>2 DEF Holder, Holding
      <3>4. StaleIsStale' /\ LockNamesHolder'
        BY <3>3 DEF StaleIsStale, LockNamesHolder, Holder
      <3>5. WriterHasFile'
        BY <2>3, <3>1 DEF WriterHasFile, Acquiring
      <3> QED  BY <2>4, <3>4, <3>5
    <2> QED  BY <1>3, <2>6, <2>7, <2>8, <2>9 DEF Acquire
  <1>4. ASSUME NEW p \in Agent,
               \/ PortCheck(p) \/ Spawn(p) \/ Preflight(p) \/ Monitor(p)
               \/ StopRequest(p) \/ StopWorker(p) \/ ReleaseRead(p) \/ Kill(p)
               \/ Interrupt(p)
        PROVE  Exclusion'
    <2>1. UNCHANGED <<attempt, file, overlapped>>
      BY <1>4 DEF PortCheck, Spawn, Preflight, Monitor, StopRequest, StopWorker,
                  ReleaseRead, Kill, Interrupt, workerVars
    <2>2. PICK place \in Holding \cup {"release_unlink"} \cup Ended :
             Goto(p, place) /\ (Holder(p) \/ place = "killed")
      <3>1. CASE PortCheck(p)
        BY <3>1 DEF PortCheck, Holder, Holding, Goto
      <3>2. CASE Spawn(p)
        BY <3>2 DEF Spawn, Holder, Holding
      <3>3. CASE Preflight(p)
        BY <3>3 DEF Preflight, Holder, Holding
      <3>4. CASE Monitor(p)
        BY <3>4 DEF Monitor, Holder, Holding, Goto
      <3>5. CASE StopRequest(p)
        BY <3>5 DEF StopRequest, Holder, Holding
      <3>6. CASE StopWorker(p)
        BY <3>6 DEF StopWorker, Holder, Holding
      <3>7. CASE ReleaseRead(p)
        BY <3>7 DEF ReleaseRead, Holder, Holding, Ended, Goto
      <3>8. CASE Kill(p)
        BY <3>8 DEF Kill, Ended
      <3>9. CASE Interrupt(p)
        BY <3>9 DEF Interrupt, Holder, Holding
      <3> QED  BY <1>4, <3>1, <3>2, <3>3, <3>4, <3>5, <3>6, <3>7, <3>8, <3>9
    <2>3. pc'[p] = place
      BY <1>1, <2>2 DEF Goto
    <2>4. Holder(p)' => Holder(p)
      BY <2>2, <2>3 DEF Holder, Holding
    <2>5. pc'[p] \notin Acquiring
      BY <2>3 DEF Acquiring, Holding, Ended
    <2>6. \E where \in PC : Goto(p, where)
      BY <2>2 DEF PC
    <2> QED  BY <2>1, <2>4, <2>5, <2>6, QuietStep
  <1>5. ASSUME NEW p \in Agent, ReleaseUnlink(p) PROVE Exclusion'
    <2> SUFFICES ASSUME ~overlapped'
                 PROVE  OneAcquirer' /\ WriterHasFile' /\ StaleIsStale' /\ LockNamesHolder'
      BY DEF Exclusion
    <2>1. /\ ~overlapped /\ attempt' = attempt /\ pc[p] = "release_unlink"
          /\ pc' = [pc EXCEPT ![p] = "exited"]
      BY <1>5 DEF ReleaseUnlink, Goto
    <2>2. OneAcquirer /\ WriterHasFile /\ StaleIsStale /\ LockNamesHolder
      BY <2>1 DEF IInv, Exclusion
    <2>3. \A q \in Agent : q # p => pc'[q] = pc[q]
      BY <1>1, <2>1
    <2>4. pc'[p] = "exited"
      BY <1>1, <2>1
    <2>5. file.text = p
      BY <2>1, <2>2 DEF LockNamesHolder
    <2>6. \A q \in Agent : ~Holder(q)'
      BY <2>2, <2>3, <2>4, <2>5 DEF LockNamesHolder, Holder, Holding
    <2>7. \A q \in Agent : pc[q] # "write"
      BY <2>2, <2>5, NoOneAssumption DEF WriterHasFile
    <2>8. WriterHasFile'
      BY <2>3, <2>4, <2>7 DEF WriterHasFile
    <2>9. OneAcquirer'
      BY <2>2, <2>3, <2>4 DEF OneAcquirer, Acquiring
    <2>10. StaleIsStale' /\ LockNamesHolder'
      BY <2>6 DEF StaleIsStale, LockNamesHolder, Holder
    <2> QED  BY <2>8, <2>9, <2>10
  <1>6. ASSUME UNCHANGED <<pc, attempt, file, overlapped>> PROVE Exclusion'
    BY <1>6 DEF IInv, Exclusion, OneAcquirer, WriterHasFile, StaleIsStale,
                LockNamesHolder, Holder, Exists
  <1>7. ASSUME NEW p \in Agent, WorkerStep(p) \/ WorkerEnds(p) PROVE Exclusion'
    BY <1>6, <1>7 DEF WorkerStep, Bind, FailToBind, WorkerEnds
  <1>8. CASE UNCHANGED vars
    BY <1>6, <1>8 DEF vars
  <1> QED
    BY <1>2, <1>3, <1>4, <1>5, <1>7, <1>8 DEF Next, AgentStep, Release

(***************************************************************************)
(* The theorems.                                                           *)
(***************************************************************************)
\* The strengthening holds throughout.
THEOREM Invariance == Spec => []IInv
  <1>1. Init => IInv
    BY InitInv
  <1>2. IInv /\ [Next]_vars => IInv'
    BY TypeStep, ExclusionStep DEF IInv
  <1> QED  BY <1>1, <1>2, PTL DEF Spec

\* Every variable of the lock keeps its type, and the port belongs to a worker
\* that runs, for every set of agents.
THEOREM TypeCorrectness == Spec => []TypeOK
  <1>1. IInv => TypeOK
    BY DEF IInv
  <1> QED  BY <1>1, Invariance, PTL

\* However many agents are started one after the other, and wherever they are
\* killed: the lock file names the agent that got past it, and at most one agent
\* is in its main loop.
THEOREM SerialStartsExclude == Spec => []SerialStarts
  <1>1. IInv => SerialStarts
    <2> SUFFICES ASSUME IInv, ~overlapped PROVE OneAgent /\ LockNamesHolder
      BY DEF SerialStarts
    <2>1. LockNamesHolder
      BY DEF IInv, Exclusion
    <2>2. OneAgent
      BY <2>1 DEF OneAgent, LockNamesHolder, Running, Holding
    <2> QED  BY <2>1, <2>2
  <1> QED  BY <1>1, Invariance, PTL

(***************************************************************************)
(* Who refuses.                                                            *)
(***************************************************************************)

\* An agent whose name is in the file has acquired the lock, and does not try to
\* again.
WriterIsPast ==
    file.text # NoOne => pc[file.text] \notin Acquiring \cup {"new"}

LEMMA WriterStep == ASSUME TypeOK, WriterIsPast, [Next]_vars PROVE WriterIsPast'
  <1>1. file \in LockFile /\ pc \in [Agent -> PC]
    BY DEF TypeOK
  <1>2. ASSUME NEW p \in Agent, UNCHANGED file,
               NEW place \in PC, Goto(p, place),
               pc[p] \in Acquiring \cup {"new"} \/ place \notin Acquiring \cup {"new"}
        PROVE  WriterIsPast'
    <2> SUFFICES ASSUME file.text # NoOne PROVE pc'[file.text] \notin Acquiring \cup {"new"}
      BY <1>2 DEF WriterIsPast
    <2>1. file.text \in Agent /\ pc[file.text] \notin Acquiring \cup {"new"}
      BY <1>1 DEF WriterIsPast, LockFile
    <2>2. pc'[file.text] = IF file.text = p THEN place ELSE pc[file.text]
      BY <1>1, <1>2, <2>1 DEF Goto
    <2> QED  BY <1>2, <2>1, <2>2
  <1>3. ASSUME file'.text = NoOne PROVE WriterIsPast'
    BY <1>3 DEF WriterIsPast
  <1>4. NoFile.text = NoOne
    BY DEF NoFile
  <1>5. ASSUME NEW p \in Agent, Start(p) \/ Inspect(p) PROVE WriterIsPast'
    <2>1. pc[p] \in Acquiring \cup {"new"}
      BY <1>5 DEF Start, Inspect, Acquiring
    <2>2. UNCHANGED file /\ \E place \in {"create", "refused", "unlink"} : Goto(p, place)
      BY <1>5 DEF Start, Inspect
    <2>3. {"create", "refused", "unlink"} \subseteq PC
      BY DEF PC, Acquiring, Ended
    <2> QED  BY <1>2, <2>1, <2>2, <2>3
  <1>6. ASSUME NEW p \in Agent, Create(p) PROVE WriterIsPast'
    <2>1. CASE Exists
      <3>1. pc[p] \in Acquiring /\ UNCHANGED file /\ Goto(p, "inspect") /\ "inspect" \in PC
        BY <1>6, <2>1 DEF Create, Acquiring, PC
      <3> QED  BY <1>2, <3>1
    <2>2. CASE ~Exists
      BY <1>3, <1>6, <2>2 DEF Create
    <2> QED  BY <2>1, <2>2
  <1>7. ASSUME NEW p \in Agent, Write(p) PROVE WriterIsPast'
    <2>1. pc[p] \in Acquiring /\ Goto(p, "port_check") /\ "port_check" \in PC
      BY <1>7 DEF Write, Acquiring, PC, Holding
    <2>2. CASE UNCHANGED file
      BY <1>2, <2>1, <2>2
    <2>3. CASE file' = [file EXCEPT !.text = p]
      <3>1. file'.text = p
        BY <1>1, <2>3 DEF LockFile
      <3>2. pc'[p] = "port_check"
        BY <1>1, <2>1 DEF Goto
      <3> QED  BY <3>1, <3>2 DEF WriterIsPast, Acquiring
    <2> QED  BY <1>7, <2>2, <2>3 DEF Write
  <1>8. ASSUME NEW p \in Agent, Unlink(p) \/ ReleaseUnlink(p) PROVE WriterIsPast'
    BY <1>3, <1>4, <1>8 DEF Unlink, ReleaseUnlink
  <1>9. ASSUME NEW p \in Agent,
               \/ PortCheck(p) \/ Spawn(p) \/ Preflight(p) \/ Monitor(p)
               \/ StopRequest(p) \/ StopWorker(p) \/ ReleaseRead(p) \/ Kill(p)
               \/ Interrupt(p)
        PROVE  WriterIsPast'
    <2>1. /\ UNCHANGED file
          /\ \E place \in {"spawn", "release_read", "preflight", "running", "stopping",
                           "release_unlink", "exited", "killed"} : Goto(p, place)
      BY <1>9 DEF PortCheck, Spawn, Preflight, Monitor, StopRequest, StopWorker, ReleaseRead, Kill,
         Interrupt
    <2>2. \A place \in {"spawn", "release_read", "preflight", "running", "stopping",
                        "release_unlink", "exited", "killed"} :
             place \in PC /\ place \notin Acquiring \cup {"new"}
      BY DEF PC, Holding, Ended, Acquiring
    <2> QED  BY <1>2, <2>1, <2>2
  <1>10. ASSUME UNCHANGED <<pc, file>> PROVE WriterIsPast'
    BY <1>10 DEF WriterIsPast
  <1>11. ASSUME NEW p \in Agent, WorkerStep(p) \/ WorkerEnds(p) PROVE WriterIsPast'
    BY <1>10, <1>11 DEF WorkerStep, Bind, FailToBind, WorkerEnds
  <1>12. CASE UNCHANGED vars
    BY <1>10, <1>12 DEF vars
  <1> QED  BY <1>5, <1>6, <1>7, <1>8, <1>9, <1>11, <1>12
           DEF Next, AgentStep, Acquire, Release

\* Without overlap a second pass that was begun creates the file.
LEMMA SecondPassStep ==
    ASSUME IInv, ~overlapped => SecondPass, [Next]_vars
    PROVE  ~overlapped' => SecondPass'
  <1> SUFFICES ASSUME ~overlapped' PROVE SecondPass'
    OBVIOUS
  <1>1. pc \in [Agent -> PC] /\ attempt \in [Agent -> 0..2] /\ file \in LockFile
    BY DEF IInv, TypeOK
  <1>2. ~overlapped
    BY DEF Next, Start, AgentStep, Acquire, Create, Write, Inspect, Unlink, PortCheck, Spawn,
       Preflight, Monitor, StopRequest, StopWorker, Release, ReleaseRead, ReleaseUnlink, Kill,
       Interrupt, WorkerStep, Bind, FailToBind, WorkerEnds, vars
  <1>3. SecondPass /\ OneAcquirer
    BY <1>2 DEF IInv, Exclusion
  <1>4. ASSUME NEW q \in Agent, UNCHANGED attempt, file' = file \/ ~Exists',
               NEW place \in PC \ {"create", "inspect", "unlink"}, Goto(q, place)
        PROVE  SecondPass'
    BY <1>1, <1>3, <1>4 DEF SecondPass, Goto, Exists
  <1>5. ASSUME NEW q \in Agent, Start(q) PROVE SecondPass'
    BY <1>1, <1>3, <1>5 DEF Start, Goto, SecondPass, Exists
  <1>6. ASSUME NEW q \in Agent, Create(q) PROVE SecondPass'
    <2>1. CASE Exists
      <3>1. attempt[q] # 2
        BY <1>3, <1>6, <2>1 DEF Create, SecondPass
      <3> QED  BY <1>1, <1>3, <1>6, <2>1, <3>1 DEF Create, Goto, SecondPass, Exists
    <2>2. CASE ~Exists
      <3>1. \A p \in Agent : p # q => pc[p] \notin Acquiring
        BY <1>3, <1>6 DEF Create, OneAcquirer, Acquiring
      <3>2. pc' = [pc EXCEPT ![q] = "write"] /\ UNCHANGED attempt
        BY <1>6, <2>2 DEF Create, Goto
      <3> QED  BY <1>1, <3>1, <3>2 DEF SecondPass, Acquiring
    <2> QED  BY <2>1, <2>2
  <1>7. ASSUME NEW q \in Agent, Write(q) PROVE SecondPass'
    <2>1. \A p \in Agent : p # q => pc[p] \notin Acquiring
      BY <1>3, <1>7 DEF Write, OneAcquirer, Acquiring
    <2>2. pc' = [pc EXCEPT ![q] = "port_check"] /\ UNCHANGED attempt
      BY <1>7 DEF Write, Goto
    <2> QED  BY <1>1, <2>1, <2>2 DEF SecondPass, Acquiring
  <1>8. ASSUME NEW q \in Agent, Inspect(q) PROVE SecondPass'
    BY <1>1, <1>3, <1>8 DEF Inspect, Goto, SecondPass, Exists
  <1>9. ASSUME NEW q \in Agent, Unlink(q) PROVE SecondPass'
    <2>1. ~Exists' /\ pc[q] = "unlink" /\ attempt[q] # 2
      BY <1>3, <1>9, NoOneAssumption DEF Unlink, NoFile, Exists, SecondPass
    <2>2. attempt[q] < 2
      BY <1>1, <2>1
    <2>3. attempt' = [attempt EXCEPT ![q] = 2] /\ pc' = [pc EXCEPT ![q] = "create"]
      BY <1>9, <2>2 DEF Unlink, Goto
    <2> QED  BY <1>1, <1>3, <2>1, <2>3 DEF SecondPass
  <1>10. ASSUME NEW q \in Agent,
                \/ PortCheck(q) \/ Spawn(q) \/ Preflight(q) \/ Monitor(q) \/ StopRequest(q)
                \/ StopWorker(q) \/ Release(q) \/ Kill(q) \/ Interrupt(q)
         PROVE  SecondPass'
    <2>1. UNCHANGED attempt /\ (file' = file \/ ~Exists')
      BY <1>10 DEF PortCheck, Spawn, Preflight, Monitor, StopRequest, StopWorker, Release,
         ReleaseRead, ReleaseUnlink, Kill, Interrupt, NoFile, Exists
    <2>2. \E place \in PC \ {"create", "inspect", "unlink"} : Goto(q, place)
      BY <1>10 DEF PortCheck, Spawn, Preflight, Monitor, StopRequest, StopWorker, Release,
         ReleaseRead, ReleaseUnlink, Kill, Interrupt, PC, Acquiring, Holding, Ended
    <2> QED  BY <1>4, <2>1, <2>2
  <1>11. ASSUME UNCHANGED <<pc, attempt, file>> PROVE SecondPass'
    BY <1>3, <1>11 DEF SecondPass, Exists
  <1>12. ASSUME NEW q \in Agent, WorkerStep(q) \/ WorkerEnds(q) PROVE SecondPass'
    BY <1>11, <1>12 DEF WorkerStep, Bind, FailToBind, WorkerEnds
  <1> QED  BY <1>5, <1>6, <1>7, <1>8, <1>9, <1>10, <1>11, <1>12 DEF Next, AgentStep, Acquire, vars

\* A step in which an agent gives up acquiring is its own, of one of two kinds.
LEMMA RefusingStep ==
    ASSUME TypeOK, Next, NEW p \in Agent, pc[p] \in Acquiring, pc'[p] = "refused"
    PROVE  Inspect(p) \/ Unlink(p)
  <1>1. pc \in [Agent -> PC]
    BY DEF TypeOK
  <1>2. PICK q \in Agent : \/ Start(q) \/ AgentStep(q) \/ StopRequest(q) \/ Kill(q)
                           \/ Interrupt(q) \/ WorkerStep(q) \/ WorkerEnds(q)
    BY DEF Next
  <1>3. ~(UNCHANGED pc)
    BY DEF Acquiring
  <1>4. ASSUME NEW place, Goto(q, place) PROVE q = p /\ place = "refused"
    BY <1>1, <1>3, <1>4 DEF Goto, Acquiring
  <1>5. q = p
    BY <1>2, <1>3, <1>4 DEF Start, AgentStep, Acquire, Create, Write, Inspect, Unlink, PortCheck,
       Spawn, Preflight, Monitor, StopWorker, Release, ReleaseRead, ReleaseUnlink,
       StopRequest, Kill, Interrupt, WorkerStep, Bind, FailToBind, WorkerEnds
  <1> QED
    BY <1>2, <1>3, <1>4, <1>5 DEF Start, AgentStep, Acquire, Create, Write, PortCheck,
       Spawn, Preflight, Monitor, StopWorker, Release, ReleaseRead, ReleaseUnlink,
       StopRequest, Kill, Interrupt, WorkerStep, Bind, FailToBind, WorkerEnds, Acquiring

\* Killed agents lock nobody out: an agent that gives up acquiring was stopped by a
\* living one, or ran out of passes while somebody else was acquiring, too
\* (acquire_agent_instance_lock).
THEOREM RefusalsHaveACause == Spec => RefusedForCause
  <1>1. Init => WriterIsPast /\ SecondPass
    BY DEF Init, NoFile, WriterIsPast, SecondPass
  <1>2. IInv /\ WriterIsPast /\ (~overlapped => SecondPass) /\ [Next]_vars
            => WriterIsPast' /\ (~overlapped => SecondPass)'
    BY WriterStep, SecondPassStep DEF IInv
  <1>3. ASSUME IInv, WriterIsPast, ~overlapped => SecondPass, [Next]_vars
        PROVE  [ \A p \in Agent : pc[p] \in Acquiring /\ pc'[p] = "refused"
                    => \/ \E q \in Agent \ {p} : Alive(q) /\ file.text = q
                       \/ pc[p] = "unlink" /\ overlapped ]_vars
    <2> SUFFICES ASSUME Next, NEW p \in Agent, pc[p] \in Acquiring, pc'[p] = "refused"
                 PROVE  \/ \E q \in Agent \ {p} : Alive(q) /\ file.text = q
                        \/ pc[p] = "unlink" /\ overlapped
      BY <1>3
    <2>1. pc \in [Agent -> PC] /\ file \in LockFile /\ attempt \in [Agent -> 0..2]
      BY <1>3 DEF IInv, TypeOK
    <2>2. Inspect(p) \/ Unlink(p)
      BY <1>3, RefusingStep DEF IInv
    <2>3. CASE Inspect(p)
      <3>1. Exists /\ file.text # NoOne /\ Alive(file.text)
        BY <2>1, <2>3 DEF Inspect, Goto
      <3>2. file.text \in Agent /\ file.text # p
        BY <1>3, <2>1, <3>1 DEF WriterIsPast, LockFile
      <3> QED  BY <3>1, <3>2
    <2>4. CASE Unlink(p)
      <3>1. pc[p] = "unlink" /\ ~(attempt[p] < 2)
        BY <2>1, <2>4 DEF Unlink, Goto
      <3>2. attempt[p] = 2
        BY <2>1, <3>1
      <3> QED  BY <1>3, <3>1, <3>2 DEF SecondPass
    <2> QED  BY <2>2, <2>3, <2>4
  <1> QED  BY <1>1, <1>2, <1>3, Invariance, PTL DEF Spec, RefusedForCause

(***************************************************************************)
(* How long acquiring takes.                                               *)
(***************************************************************************)

\* At most how many more steps p takes in acquire_agent_instance_lock.
StepsLeft(p) ==
    CASE pc[p] = "create" -> IF attempt[p] = 1 THEN 6 ELSE 3
      [] pc[p] = "inspect" -> IF attempt[p] = 1 THEN 5 ELSE 2
      [] pc[p] = "unlink" -> IF attempt[p] = 1 THEN 4 ELSE 1
      [] pc[p] = "write" -> 1
      [] OTHER -> 0

\* An agent that was started is in its first or its second pass.
Attempted == \A p \in Agent : pc[p] # "new" => attempt[p] \in {1, 2}

\* A step of one agent's acquisition brings it nearer to the end, and no other
\* step of anybody takes it further away.
Nearer(p) ==
    /\ Acquire(p) => StepsLeft(p)' < StepsLeft(p)
    /\ StepsLeft(p)' <= StepsLeft(p)

LEMMA StepsType == ASSUME NEW p \in Agent PROVE StepsLeft(p) \in 0..6
  BY DEF StepsLeft

LEMMA AttemptedStep == ASSUME TypeOK, Attempted, [Next]_vars PROVE Attempted'
  <1>1. pc \in [Agent -> PC] /\ attempt \in [Agent -> 0..2]
    BY DEF TypeOK
  <1>2. ASSUME NEW q \in Agent, pc[q] # "new", UNCHANGED attempt, NEW place, Goto(q, place)
        PROVE  Attempted'
    BY <1>1, <1>2 DEF Goto, Attempted
  <1>3. ASSUME NEW q \in Agent, Start(q) PROVE Attempted'
    BY <1>1, <1>3 DEF Start, Goto, Attempted
  <1>4. ASSUME NEW q \in Agent, Unlink(q) PROVE Attempted'
    <2>1. CASE attempt[q] < 2
      BY <1>1, <1>4, <2>1 DEF Unlink, Goto, Attempted
    <2>2. CASE ~(attempt[q] < 2)
      BY <1>2, <1>4, <2>2 DEF Unlink
    <2> QED  BY <2>1, <2>2
  <1>5. ASSUME NEW q \in Agent,
               \/ Create(q) \/ Write(q) \/ Inspect(q) \/ PortCheck(q) \/ Spawn(q) \/ Preflight(q)
               \/ Monitor(q) \/ StopRequest(q) \/ StopWorker(q) \/ Release(q) \/ Kill(q)
               \/ Interrupt(q)
        PROVE  Attempted'
    <2>1. pc[q] # "new" /\ UNCHANGED attempt /\ \E place \in PC : Goto(q, place)
      BY <1>5 DEF Create, Write, Inspect, PortCheck, Spawn, Preflight, Monitor, StopRequest,
         StopWorker, Release, ReleaseRead, ReleaseUnlink, Kill, Interrupt, Alive,
         PC, Acquiring, Holding, Ended
    <2> QED  BY <1>2, <2>1
  <1>6. ASSUME UNCHANGED <<pc, attempt>> PROVE Attempted'
    BY <1>6 DEF Attempted
  <1> QED  BY <1>3, <1>4, <1>5, <1>6
           DEF Next, AgentStep, Acquire, WorkerStep, Bind, FailToBind, WorkerEnds, vars

LEMMA NearerStep ==
    ASSUME TypeOK, Attempted, [Next]_vars, NEW p \in Agent, pc[p] # "new"
    PROVE  Nearer(p)
  <1>1. pc \in [Agent -> PC] /\ attempt \in [Agent -> 0..2] /\ attempt[p] \in {1, 2}
    BY DEF TypeOK, Attempted
  <1>2. StepsLeft(p) \in 0..6
    BY StepsType
  <1>3. CASE Acquire(p)
    <2>1. CASE Create(p)
      BY <1>1, <2>1 DEF Create, Goto, StepsLeft, Nearer
    <2>2. CASE Write(p)
      BY <1>1, <2>2 DEF Write, Goto, StepsLeft, Nearer
    <2>3. CASE Inspect(p)
      BY <1>1, <2>3 DEF Inspect, Goto, StepsLeft, Nearer
    <2>4. CASE Unlink(p)
      <3>1. CASE attempt[p] = 1
        BY <1>1, <2>4, <3>1 DEF Unlink, Goto, StepsLeft, Nearer
      <3>2. CASE attempt[p] = 2
        BY <1>1, <2>4, <3>2 DEF Unlink, Goto, StepsLeft, Nearer
      <3> QED  BY <1>1, <3>1, <3>2
    <2> QED  BY <1>3, <2>1, <2>2, <2>3, <2>4 DEF Acquire
  <1>4. ASSUME ~Acquire(p), UNCHANGED <<pc[p], attempt[p]>> PROVE Nearer(p)
    BY <1>2, <1>4 DEF StepsLeft, Nearer
  <1>5. ASSUME ~Acquire(p), pc'[p] \notin Acquiring PROVE Nearer(p)
    <2>1. StepsLeft(p)' = 0
      BY <1>5 DEF StepsLeft, Acquiring
    <2> QED  BY <1>2, <1>5, <2>1 DEF Nearer
  <1>6. ASSUME ~Acquire(p), NEW q \in Agent, q # p,
               Start(q) \/ AgentStep(q) \/ StopRequest(q) \/ Kill(q) \/ Interrupt(q)
        PROVE  Nearer(p)
    <2>1. UNCHANGED <<pc[p], attempt[p]>>
      BY <1>1, <1>6 DEF Start, AgentStep, Acquire, Create, Write, Inspect, Unlink, PortCheck,
         Spawn, Preflight, Monitor, StopWorker, Release, ReleaseRead, ReleaseUnlink,
         StopRequest, Kill, Interrupt, Goto
    <2> QED  BY <1>4, <1>6, <2>1
  <1>7. ASSUME ~Acquire(p), AgentStep(p) \/ StopRequest(p) \/ Kill(p) \/ Interrupt(p)
        PROVE  Nearer(p)
    <2>1. PICK place \in PC \ Acquiring : Goto(p, place)
      BY <1>7 DEF AgentStep, PortCheck, Spawn, Preflight, Monitor, StopWorker, Release,
         ReleaseRead, ReleaseUnlink, StopRequest, Kill, Interrupt, PC, Acquiring, Holding, Ended
    <2>2. pc'[p] = place
      BY <1>1, <2>1 DEF Goto
    <2> QED  BY <1>5, <1>7, <2>1, <2>2
  <1>8. ASSUME ~Acquire(p), NEW q \in Agent, WorkerStep(q) \/ WorkerEnds(q) PROVE Nearer(p)
    BY <1>4, <1>8 DEF WorkerStep, Bind, FailToBind, WorkerEnds
  <1>9. ASSUME ~Acquire(p), UNCHANGED vars PROVE Nearer(p)
    BY <1>4, <1>9 DEF vars
  <1>10. ~Start(p)
    BY DEF Start
  <1> QED  BY <1>3, <1>6, <1>7, <1>8, <1>9, <1>10 DEF Next

\* Nobody can hold an agent up while it acquires the lock: whatever the others do
\* to the file, its loop ends after at most six steps of its own
\* (acquire_agent_instance_lock, two attempts).
AcquisitionIsBounded ==
    /\ [](\A p \in Agent : StepsLeft(p) \in 0..6)
    /\ [][ \A p \in Agent : pc[p] # "new" => Nearer(p) ]_vars

THEOREM AcquisitionEnds == Spec => AcquisitionIsBounded
  <1>1. Init => Attempted
    BY DEF Init, Attempted
  <1>2. IInv /\ Attempted /\ [Next]_vars => Attempted'
    BY AttemptedStep DEF IInv
  <1>3. IInv => \A p \in Agent : StepsLeft(p) \in 0..6
    BY StepsType
  <1>4. IInv /\ Attempted /\ [Next]_vars
            => [ \A p \in Agent : pc[p] # "new" => Nearer(p) ]_vars
    BY NearerStep DEF IInv
  <1> QED  BY <1>1, <1>2, <1>3, <1>4, Invariance, PTL DEF Spec, AcquisitionIsBounded

(***************************************************************************)
(* How long two agents run together.                                       *)
(***************************************************************************)

\* At most how many more steps p's worker takes while p is in its main loop.
WorkerLeft(p) ==
    IF ~Lives(p) THEN 0 ELSE IF portOwner = p THEN 1 ELSE 2

\* An agent in its main loop or just before it has started a worker, and told it
\* nothing.
Spawned ==
    \A p \in Agent : pc[p] \in {"preflight", "running"} => worker[p] \in {"running", "exited"}

\* One of two agents in their main loops finds its worker exited, or has one that
\* is about to bind the port or to fail at it.
OneMoves(p, q) ==
    \E r \in {p, q} : worker[r] = "exited" \/ (worker[r] = "running" /\ portOwner # r)

\* As long as p stays in its main loop, each step of its worker brings the worker
\* nearer to its end, nobody undoes that, and a step of p itself leaves the loop.
WorkerNearer(p) ==
    /\ AgentStep(p) => ~Running(p)'
    /\ Running(p)' =>
          /\ WorkerStep(p) \/ WorkerEnds(p) => WorkerLeft(p)' < WorkerLeft(p)
          /\ WorkerLeft(p)' <= WorkerLeft(p)

\* Two agents that run together do so for a bounded number of steps of their own:
\* at any time one of them can go on, each of their workers takes at most two steps,
\* and the first step of either agent, which finds its worker exited, takes it out of
\* the main loop, to stop or, if the port is free, to start another worker (run_agent).
DuplicateIsBounded ==
    /\ [](\A p, q \in Agent : p # q /\ Running(p) /\ Running(q) => OneMoves(p, q))
    /\ [][ \A p \in Agent : Running(p) => WorkerNearer(p) ]_vars

LEMMA SpawnedStep == ASSUME TypeOK, Spawned, [Next]_vars PROVE Spawned'
  <1>1. /\ pc \in [Agent -> PC]
        /\ worker \in [Agent -> {"none", "running", "ending", "exited"}]
    BY DEF TypeOK
  <1>2. ASSUME NEW q \in Agent, UNCHANGED worker, NEW place \in PC \ {"preflight", "running"},
               Goto(q, place)
        PROVE  Spawned'
    BY <1>1, <1>2 DEF Goto, Spawned
  <1>3. ASSUME NEW q \in Agent, UNCHANGED pc, worker' = [worker EXCEPT ![q] = "exited"]
        PROVE  Spawned'
    BY <1>1, <1>3 DEF Spawned
  <1>4. ASSUME UNCHANGED <<pc, worker>> PROVE Spawned'
    BY <1>4 DEF Spawned
  <1>5. ASSUME NEW q \in Agent, Acquire(q) \/ PortCheck(q) \/ Monitor(q) \/ Release(q) PROVE Spawned'
    <2>1. UNCHANGED worker /\ \E place \in PC \ {"preflight", "running"} : Goto(q, place)
      BY <1>5 DEF Acquire, Create, Write, Inspect, Unlink, PortCheck, Monitor, Release, ReleaseRead,
         ReleaseUnlink, workerVars, PC, Acquiring, Holding, Ended
    <2> QED  BY <1>2, <2>1
  <1>6. ASSUME NEW q \in Agent, Start(q) \/ StopRequest(q) \/ Kill(q) \/ Interrupt(q) PROVE Spawned'
    <2>1. UNCHANGED worker /\ \E place \in PC \ {"preflight", "running"} : Goto(q, place)
      BY <1>6 DEF Start, StopRequest, Kill, Interrupt, workerVars, PC, Acquiring, Holding, Ended
    <2> QED  BY <1>2, <2>1
  <1>7. ASSUME NEW q \in Agent, Spawn(q) PROVE Spawned'
    BY <1>1, <1>7 DEF Spawn, Goto, Spawned
  <1>8. ASSUME NEW q \in Agent, Preflight(q) PROVE Spawned'
    BY <1>1, <1>8 DEF Preflight, Goto, Spawned, workerVars
  <1>9. ASSUME NEW q \in Agent, StopWorker(q) PROVE Spawned'
    BY <1>1, <1>9 DEF StopWorker, Goto, Spawned
  <1>10. ASSUME NEW q \in Agent, WorkerStep(q) \/ WorkerEnds(q) PROVE Spawned'
    BY <1>3, <1>4, <1>10 DEF WorkerStep, Bind, FailToBind, WorkerEnds
  <1> QED  BY <1>4, <1>5, <1>6, <1>7, <1>8, <1>9, <1>10 DEF Next, AgentStep, vars, workerVars

LEMMA OneMovesFact ==
    ASSUME TypeOK, Spawned, NEW p \in Agent, NEW q \in Agent, p # q, Running(p), Running(q)
    PROVE  OneMoves(p, q)
  BY DEF TypeOK, Spawned, OneMoves, Running

LEMMA WorkerNearerStep ==
    ASSUME TypeOK, [Next]_vars, NEW p \in Agent, Running(p)
    PROVE  WorkerNearer(p)
  <1>1. /\ pc \in [Agent -> PC] /\ pc[p] = "running"
        /\ worker \in [Agent -> {"none", "running", "ending", "exited"}]
    BY DEF TypeOK, Running
  <1>2. portOwner = p => Lives(p)
    BY NoOneAssumption DEF TypeOK
  <1>3. CASE AgentStep(p)
    <2>1. Monitor(p)
      BY <1>1, <1>3 DEF AgentStep, Acquire, Create, Write, Inspect, Unlink, PortCheck, Spawn,
         Preflight, StopWorker, Release, ReleaseRead, ReleaseUnlink
    <2>2. ~Running(p)'
      BY <1>1, <2>1 DEF Monitor, Goto, Running
    <2> QED  BY <2>2 DEF WorkerNearer
  <1>4. CASE StopRequest(p) \/ Kill(p) \/ Interrupt(p)
    <2>1. ~Running(p)'
      BY <1>1, <1>4 DEF StopRequest, Kill, Interrupt, Goto, Running
    <2> QED  BY <2>1 DEF WorkerNearer
  <1>5. CASE WorkerStep(p) \/ WorkerEnds(p)
    <2>1. WorkerLeft(p)' < WorkerLeft(p) /\ WorkerLeft(p)' <= WorkerLeft(p)
      BY <1>1, <1>2, <1>5, NoOneAssumption
         DEF WorkerStep, Bind, FailToBind, WorkerEnds, WorkerLeft, Lives
    <2>2. ~AgentStep(p)
      BY <1>1, <1>5 DEF WorkerStep, Bind, FailToBind, WorkerEnds, AgentStep, Acquire, Create, Write,
         Inspect, Unlink, PortCheck, Spawn, Preflight, Monitor, StopWorker, Release, ReleaseRead,
         ReleaseUnlink, workerVars, Goto
    <2> QED  BY <2>1, <2>2 DEF WorkerNearer
  <1>6. ASSUME ~AgentStep(p), ~WorkerStep(p), ~WorkerEnds(p), UNCHANGED worker[p],
               portOwner' = p <=> portOwner = p
        PROVE  WorkerNearer(p)
    <2>1. WorkerLeft(p)' = WorkerLeft(p) /\ WorkerLeft(p) \in 0..2
      BY <1>6 DEF WorkerLeft, Lives
    <2> QED  BY <1>6, <2>1 DEF WorkerNearer
  <1>7. ASSUME NEW q \in Agent, q # p,
               \/ Start(q) \/ AgentStep(q) \/ StopRequest(q) \/ Kill(q) \/ Interrupt(q)
               \/ WorkerStep(q) \/ WorkerEnds(q)
        PROVE  UNCHANGED worker[p] /\ (portOwner' = p <=> portOwner = p)
    <2>1. NoOne # p
      BY NoOneAssumption
    <2>2. CASE StopWorker(q) \/ Spawn(q)
      BY <1>1, <1>7, <2>1, <2>2 DEF StopWorker, Spawn
    <2>3. CASE WorkerStep(q) \/ WorkerEnds(q)
      BY <1>1, <1>7, <2>1, <2>3 DEF WorkerStep, Bind, FailToBind, WorkerEnds
    <2>4. CASE UNCHANGED workerVars
      BY <2>4 DEF workerVars
    <2> QED  BY <1>7, <2>2, <2>3, <2>4 DEF Start, AgentStep, Acquire, Create, Write, Inspect, Unlink,
       PortCheck, Preflight, Monitor, Release, ReleaseRead, ReleaseUnlink, StopRequest, Kill, Interrupt
  <1>8. ~Start(p)
    BY <1>1 DEF Start
  <1> QED  BY <1>3, <1>4, <1>5, <1>6, <1>7, <1>8 DEF Next, vars, workerVars

THEOREM DuplicatesAreBounded == Spec => DuplicateIsBounded
  <1>1. Init => Spawned
    BY DEF Init, Spawned, Running
  <1>2. IInv /\ Spawned /\ [Next]_vars => Spawned'
    BY SpawnedStep DEF IInv
  <1>3. IInv /\ Spawned
            => \A p, q \in Agent : p # q /\ Running(p) /\ Running(q) => OneMoves(p, q)
    BY OneMovesFact DEF IInv
  <1>4. IInv /\ [Next]_vars => [ \A p \in Agent : Running(p) => WorkerNearer(p) ]_vars
    BY WorkerNearerStep DEF IInv
  <1> QED  BY <1>1, <1>2, <1>3, <1>4, Invariance, PTL DEF Spec, DuplicateIsBounded
=============================================================================
