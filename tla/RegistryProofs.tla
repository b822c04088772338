--------------------------- MODULE RegistryProofs ---------------------------
(***************************************************************************)
(* Proofs about Registry.tla, and about the thread that asks it in         *)
(* RegistryClient.tla, for every set of nodes, every pair of thresholds and*)
(* every bound of the clock.                                               *)
(***************************************************************************)
EXTENDS RegistryClient, TLAPS

(***************************************************************************)
(* The inductive invariant.                                                *)
(***************************************************************************)

\* A coordinator that is down knows nobody.
DownEmpty == ~up => DOMAIN nodes = {}

\* A node awaiting reconfirmation has not reported and is not online.
PendingOffline ==
    \A n \in pending : n \notin contacted /\ nodes[n].state # "online"

\* A node that is not online is stale already: this is what makes a sweep with
\* an old clock reading harmless.
OfflineStale ==
    \A n \in DOMAIN nodes \ pending :
        nodes[n].state # "online" => clock - nodes[n].last_heartbeat > DegradedSec

\* A restored node that was given up on, and any node a sweep has dropped, is too
\* old for every later sweep.
GivenUpForGood ==
    \A n \in DOMAIN nodes \ pending :
        /\ n \notin contacted => nodes[n].state # "online"
        /\ n \notin contacted \/ nodes[n].state = "unreachable" =>
              sweepNow - nodes[n].last_heartbeat > UnreachableSec

\* A node degraded on purpose is stale until it reports.
MarkedStale ==
    \A n \in marked : clock - nodes[n].last_heartbeat > DegradedSec

IInv == /\ TypeOK
        /\ DownEmpty
        /\ PendingOffline
        /\ OfflineStale
        /\ GivenUpForGood
        /\ MarkedStale
        /\ DiskCurrent

(***************************************************************************)
(* Lemmas about the operators of the model.                                *)
(***************************************************************************)

\* A save leaves the file as it was or writes what it was given.
LEMMA PersistFact ==
    ASSUME NEW contents, Persist(contents)
    PROVE  /\ saved' \in BOOLEAN
           /\ disk' = disk \/ disk' = contents
           /\ saved' => disk' = contents
  BY BoundsAssumption DEF Persist

\* Back-dating never makes a stamp younger, and always makes it stale.
LEMMA BackDatedFact ==
    ASSUME clock \in Int, NEW hb \in Int
    PROVE  /\ BackDated(hb) \in Int
           /\ BackDated(hb) <= hb
           /\ clock - BackDated(hb) > DegradedSec
  BY ThresholdsAssumption DEF BackDated

\* The state a sweep gives to a heartbeat of some age.
LEMMA StateOfAgeFact ==
    ASSUME NEW age \in Int
    PROVE  /\ StateOfAge(age) \in ConnectionState
           /\ StateOfAge(age) # "online" => age > DegradedSec
           /\ age > UnreachableSec <=> StateOfAge(age) = "unreachable"
  <1>1. CASE age > UnreachableSec
    <2>1. StateOfAge(age) = "unreachable"
      BY <1>1, ThresholdsAssumption DEF StateOfAge
    <2> QED  BY <1>1, <2>1, ThresholdsAssumption DEF ConnectionState
  <1>2. CASE age > DegradedSec /\ age <= UnreachableSec
    <2>1. StateOfAge(age) = "degraded"
      BY <1>2, ThresholdsAssumption DEF StateOfAge
    <2> QED  BY <1>2, <2>1, ThresholdsAssumption DEF ConnectionState
  <1>3. CASE age <= DegradedSec
    <2>1. StateOfAge(age) = "online"
      BY <1>3, ThresholdsAssumption DEF StateOfAge
    <2> QED  BY <1>3, <2>1, ThresholdsAssumption DEF ConnectionState
  <1> QED  BY <1>1, <1>2, <1>3, ThresholdsAssumption

\* The states a sweep assigns.
LEMMA SweptStateFact ==
    ASSUME TypeOK, NEW n \in DOMAIN nodes
    PROVE  /\ SweptState(n) \in ConnectionState
           /\ n \notin pending => SweptState(n) = StateOfAge(SweepAge(n))
           /\ n \in Expired => SweptState(n) = "unreachable"
           /\ n \in pending \ Expired => SweptState(n) = nodes[n].state
  <1>1. SweepAge(n) \in Int
    BY DEF TypeOK, SweepAge, NodeRecord
  <1>2. nodes[n].state \in ConnectionState
    BY DEF TypeOK, NodeRecord
  <1>3. CASE n \notin pending
    BY <1>1, <1>3, StateOfAgeFact DEF SweptState, Expired
  <1>4. CASE n \in Expired
    <2>1. n \in pending
      BY <1>4 DEF Expired
    <2>2. SweptState(n) = "unreachable"
      BY <1>4, <2>1 DEF SweptState
    <2> QED  BY <1>4, <2>1, <2>2 DEF ConnectionState
  <1>5. CASE n \in pending \ Expired
    BY <1>2, <1>5 DEF SweptState
  <1> QED  BY <1>3, <1>4, <1>5

(***************************************************************************)
(* The invariant is inductive.                                             *)
(***************************************************************************)
LEMMA InitInv == Init => IInv
  <1> SUFFICES ASSUME Init PROVE IInv
    OBVIOUS
  <1>1. DOMAIN nodes = {} /\ DOMAIN disk = {}
    BY DEF Init, NoNodes
  <1>2. TypeOK
    <2>1. up \in BOOLEAN /\ sweeping \in BOOLEAN /\ saved \in BOOLEAN
      BY DEF Init
    <2>2. /\ pending = {} /\ changed = {} /\ contacted = {} /\ marked = {}
          /\ clock = 0 /\ sweepNow = 0
      BY DEF Init
    <2> QED  BY <1>1, <2>1, <2>2 DEF TypeOK
  <1>3. DownEmpty /\ PendingOffline /\ OfflineStale /\ GivenUpForGood /\ MarkedStale
    BY <1>1 DEF Init, DownEmpty, PendingOffline, OfflineStale, GivenUpForGood,
                MarkedStale
  <1>4. DiskCurrent
    BY <1>1 DEF DiskCurrent
  <1> QED  BY <1>2, <1>3, <1>4 DEF IInv

LEMMA UpsertInv ==
    ASSUME IInv, NEW n \in Node, NEW a \in AndroidKinds, Upsert(n, a)
    PROVE  IInv'
  <1> USE DEF sweepVars
  <1> DEFINE new == nodes'[n]
  <1>1. /\ DOMAIN nodes' = DOMAIN nodes \cup {n}
        /\ \A m \in DOMAIN nodes \ {n} : nodes'[m] = nodes[m]
        /\ new \in NodeRecord /\ new.last_heartbeat = clock /\ new.state = "online"
    BY BoundsAssumption
    DEF Upsert, Put, IInv, TypeOK, NodeRecord, ConnectionState
  <1>2. /\ saved' \in BOOLEAN
        /\ disk' = disk \/ disk' = nodes'
        /\ saved' => disk' = nodes'
    BY PersistFact DEF Upsert
  <1>3. /\ up /\ up' /\ clock' = clock /\ sweepNow' = sweepNow
        /\ sweeping' = sweeping /\ changed' = changed
        /\ pending' = pending \ {n}
        /\ contacted' = contacted \cup {n}
        /\ marked' = marked \ {n}
    BY DEF Upsert
  <1>4. TypeOK'
    BY <1>1, <1>2, <1>3 DEF IInv, TypeOK
  <1>5. DownEmpty' /\ PendingOffline' /\ OfflineStale'
    BY <1>1, <1>3 DEF IInv, TypeOK, DownEmpty, PendingOffline, OfflineStale
  <1>6. GivenUpForGood' /\ MarkedStale'
    BY <1>1, <1>3 DEF IInv, TypeOK, GivenUpForGood, MarkedStale
  <1>7. DiskCurrent'
    BY <1>2 DEF DiskCurrent
  <1> QED  BY <1>4, <1>5, <1>6, <1>7 DEF IInv

LEMMA HeartbeatInv ==
    ASSUME IInv, NEW n \in Node, NEW critical \in BOOLEAN, Heartbeat(n, critical)
    PROVE  IInv'
  <1> DEFINE degrade == critical /\ nodes[n].android
  <1>1. /\ n \in DOMAIN nodes /\ nodes[n] \in NodeRecord /\ clock \in Int
        /\ BackDated(clock) \in Int
        /\ clock - BackDated(clock) > DegradedSec
    <2>1. n \in DOMAIN nodes /\ nodes[n] \in NodeRecord /\ clock \in Int
      BY DEF Heartbeat, IInv, TypeOK
    <2> QED  BY <2>1, BackDatedFact
  <1>2. /\ DOMAIN nodes' = DOMAIN nodes
        /\ \A m \in DOMAIN nodes \ {n} : nodes'[m] = nodes[m]
        /\ nodes'[n] = [nodes[n] EXCEPT
              !.last_heartbeat = IF degrade THEN BackDated(clock) ELSE clock,
              !.state = IF degrade THEN "degraded" ELSE "online"]
    BY <1>1 DEF Heartbeat, NodeRecord
  <1>3. /\ nodes'[n] \in NodeRecord
        /\ degrade => clock - nodes'[n].last_heartbeat > DegradedSec
        /\ ~degrade => nodes'[n].state = "online"
        /\ nodes'[n].state # "unreachable"
    BY <1>1, <1>2 DEF NodeRecord, ConnectionState
  <1>4. /\ saved' \in BOOLEAN
        /\ disk' = disk \/ disk' = nodes'
        /\ saved' => disk' = nodes'
    BY PersistFact DEF Heartbeat
  <1>5. /\ up /\ up' /\ clock' = clock /\ sweepNow' = sweepNow
        /\ sweeping' = sweeping /\ changed' = changed
        /\ pending' = pending \ {n}
        /\ contacted' = contacted \cup {n}
        /\ marked' = IF degrade THEN marked \cup {n} ELSE marked \ {n}
    BY DEF Heartbeat, sweepVars
  <1> HIDE DEF degrade
  <1>6. TypeOK'
    BY <1>1, <1>2, <1>3, <1>4, <1>5 DEF IInv, TypeOK
  <1>7. DownEmpty' /\ PendingOffline' /\ OfflineStale'
    BY <1>2, <1>3, <1>5 DEF IInv, TypeOK, DownEmpty, PendingOffline, OfflineStale
  <1>8. GivenUpForGood' /\ MarkedStale'
    BY <1>2, <1>3, <1>5 DEF IInv, TypeOK, GivenUpForGood, MarkedStale
  <1>9. DiskCurrent'
    BY <1>4 DEF DiskCurrent
  <1> QED  BY <1>6, <1>7, <1>8, <1>9 DEF IInv

LEMMA MarkDegradedInv ==
    ASSUME IInv, NEW n \in Node, MarkDegraded(n)
    PROVE  IInv'
  <1> DEFINE stamp == BackDated(nodes[n].last_heartbeat)
  <1>1. /\ n \in DOMAIN nodes /\ nodes[n] \in NodeRecord
        /\ stamp \in Int /\ stamp <= nodes[n].last_heartbeat
        /\ clock - stamp > DegradedSec
    <2>1. n \in DOMAIN nodes /\ nodes[n] \in NodeRecord /\ clock \in Int
      BY DEF MarkDegraded, IInv, TypeOK
    <2>2. nodes[n].last_heartbeat \in Int
      BY <2>1 DEF NodeRecord
    <2> QED  BY <2>1, <2>2, BackDatedFact
  <1>2. /\ DOMAIN nodes' = DOMAIN nodes
        /\ \A m \in DOMAIN nodes \ {n} : nodes'[m] = nodes[m]
        /\ nodes'[n] = [nodes[n] EXCEPT !.state = "degraded",
                                        !.last_heartbeat = stamp]
    BY <1>1 DEF MarkDegraded, NodeRecord
  <1> HIDE DEF stamp
  <1>3. /\ nodes'[n] \in NodeRecord
        /\ nodes'[n].last_heartbeat = stamp /\ nodes'[n].state = "degraded"
    BY <1>1, <1>2 DEF NodeRecord, ConnectionState
  <1>4. /\ saved' \in BOOLEAN
        /\ disk' = disk \/ disk' = nodes'
        /\ saved' => disk' = nodes'
    BY PersistFact DEF MarkDegraded
  <1>5. /\ up /\ up' /\ clock' = clock /\ sweepNow' = sweepNow
        /\ sweeping' = sweeping /\ changed' = changed
        /\ pending' = pending /\ contacted' = contacted
        /\ marked' = marked \cup {n}
    BY DEF MarkDegraded, sweepVars
  <1>6. TypeOK'
    BY <1>1, <1>2, <1>3, <1>4, <1>5 DEF IInv, TypeOK
  <1>7. DownEmpty' /\ PendingOffline' /\ OfflineStale'
    BY <1>1, <1>2, <1>3, <1>5
    DEF IInv, TypeOK, DownEmpty, PendingOffline, OfflineStale
  <1>8. MarkedStale'
    BY <1>1, <1>2, <1>3, <1>5 DEF IInv, TypeOK, MarkedStale
  <1>9. GivenUpForGood'
    <2>1. nodes[n].last_heartbeat \in Int /\ sweepNow \in Int
      BY <1>1 DEF NodeRecord, IInv, TypeOK
    <2>2. sweepNow - stamp >= sweepNow - nodes[n].last_heartbeat
      BY <1>1, <2>1
    <2>3. SUFFICES ASSUME NEW m \in DOMAIN nodes \ pending,
                          m \notin contacted \/ nodes'[m].state = "unreachable"
                   PROVE  /\ m \notin contacted => nodes'[m].state # "online"
                          /\ sweepNow - nodes'[m].last_heartbeat > UnreachableSec
      BY <1>2, <1>5 DEF GivenUpForGood
    <2>4. CASE m = n
      <3>1. sweepNow - nodes[m].last_heartbeat > UnreachableSec
        BY <1>3, <2>3, <2>4 DEF IInv, GivenUpForGood
      <3> QED  BY <1>1, <1>3, <2>1, <2>2, <2>4, <3>1, ThresholdsAssumption
    <2>5. CASE m # n
      BY <1>2, <2>3, <2>5 DEF IInv, GivenUpForGood
    <2> QED  BY <2>4, <2>5
  <1>10. DiskCurrent'
    BY <1>4 DEF DiskCurrent
  <1> QED  BY <1>6, <1>7, <1>8, <1>9, <1>10 DEF IInv

\* The three mutators that touch neither a stamp nor a state.
LEMMA PolicyInv ==
    ASSUME IInv, NEW n \in Node, up, n \in DOMAIN nodes, NEW e \in BOOLEAN,
           \/ nodes' = [nodes EXCEPT ![n].inference_enabled = e]
           \/ nodes' = [nodes EXCEPT ![n].cpu_offload_enabled = e]
           \/ nodes' = [nodes EXCEPT ![n].android = e],
           Persist(nodes'),
           UNCHANGED <<up, pending, clock, sweepVars, contacted, marked>>
    PROVE  IInv'
  <1>1. nodes[n] \in NodeRecord
    BY DEF IInv, TypeOK
  <1>2. /\ DOMAIN nodes' = DOMAIN nodes
        /\ \A m \in DOMAIN nodes \ {n} : nodes'[m] = nodes[m]
        /\ nodes'[n] \in NodeRecord
        /\ nodes'[n].last_heartbeat = nodes[n].last_heartbeat
        /\ nodes'[n].state = nodes[n].state
    BY <1>1 DEF NodeRecord
  <1>3. /\ saved' \in BOOLEAN
        /\ disk' = disk \/ disk' = nodes'
        /\ saved' => disk' = nodes'
    BY PersistFact
  <1>4. /\ up' = up /\ clock' = clock /\ sweepNow' = sweepNow
        /\ sweeping' = sweeping /\ changed' = changed
        /\ pending' = pending /\ contacted' = contacted /\ marked' = marked
    BY DEF sweepVars
  <1>5. TypeOK'
    BY <1>2, <1>3, <1>4 DEF IInv, TypeOK
  <1>6. DownEmpty' /\ PendingOffline' /\ OfflineStale'
    BY <1>2, <1>4 DEF IInv, TypeOK, DownEmpty, PendingOffline, OfflineStale
  <1>7. GivenUpForGood' /\ MarkedStale'
    BY <1>2, <1>4 DEF IInv, TypeOK, GivenUpForGood, MarkedStale
  <1>8. DiskCurrent'
    BY <1>3 DEF DiskCurrent
  <1> QED  BY <1>5, <1>6, <1>7, <1>8 DEF IInv

LEMMA RemoveInv ==
    ASSUME IInv, NEW n \in Node, Remove(n)
    PROVE  IInv'
  <1>1. /\ DOMAIN nodes' = DOMAIN nodes \ {n}
        /\ \A m \in DOMAIN nodes' : nodes'[m] = nodes[m]
    BY DEF Remove, Drop
  <1>2. /\ saved' \in BOOLEAN
        /\ disk' = disk \/ disk' = nodes'
        /\ saved' => disk' = nodes'
    BY PersistFact DEF Remove
  <1>3. /\ up /\ up' /\ clock' = clock /\ sweepNow' = sweepNow
        /\ sweeping' = sweeping /\ changed' = changed
        /\ pending' = pending \ {n}
        /\ contacted' = contacted \ {n}
        /\ marked' = marked \ {n}
    BY DEF Remove, sweepVars
  <1>4. TypeOK'
    BY <1>1, <1>2, <1>3 DEF IInv, TypeOK
  <1>5. DownEmpty' /\ PendingOffline' /\ OfflineStale'
    BY <1>1, <1>3 DEF IInv, TypeOK, DownEmpty, PendingOffline, OfflineStale
  <1>6. GivenUpForGood' /\ MarkedStale'
    BY <1>1, <1>3 DEF IInv, TypeOK, GivenUpForGood, MarkedStale
  <1>7. DiskCurrent'
    BY <1>2 DEF DiskCurrent
  <1> QED  BY <1>4, <1>5, <1>6, <1>7 DEF IInv

LEMMA SweepReadInv ==
    ASSUME IInv, SweepRead
    PROVE  IInv'
  <1>1. /\ up' = up /\ nodes' = nodes /\ pending' = pending /\ disk' = disk
        /\ clock' = clock /\ changed' = changed /\ saved' = saved
        /\ contacted' = contacted /\ marked' = marked
        /\ sweeping' = TRUE /\ sweepNow' = clock
    BY DEF SweepRead
  <1>2. TypeOK'
    BY <1>1 DEF IInv, TypeOK
  <1>3. DownEmpty' /\ PendingOffline' /\ OfflineStale' /\ MarkedStale' /\ DiskCurrent'
    BY <1>1 DEF IInv, DownEmpty, PendingOffline, OfflineStale, MarkedStale,
                DiskCurrent, Durable
  <1>4. GivenUpForGood'
    <2>1. SUFFICES ASSUME NEW m \in DOMAIN nodes \ pending,
                          m \notin contacted \/ nodes[m].state = "unreachable"
                   PROVE  clock - nodes[m].last_heartbeat > UnreachableSec
      BY <1>1 DEF IInv, GivenUpForGood
    <2>2. nodes[m].last_heartbeat \in Int
      BY DEF IInv, TypeOK, NodeRecord
    <2>3. sweepNow - nodes[m].last_heartbeat > UnreachableSec
      BY <2>1 DEF IInv, GivenUpForGood
    <2>4. clock \in Int /\ sweepNow \in Int /\ sweepNow <= clock
      BY DEF IInv, TypeOK
    <2> QED  BY <2>2, <2>3, <2>4, ThresholdsAssumption
  <1> QED  BY <1>2, <1>3, <1>4 DEF IInv

\* What a sweep does to the record of a node.
LEMMA SweepRunFact ==
    ASSUME IInv, SweepRun, NEW n \in DOMAIN nodes
    PROVE  /\ nodes'[n] \in NodeRecord
           /\ nodes'[n].last_heartbeat = nodes[n].last_heartbeat
           /\ nodes'[n].inference_enabled = nodes[n].inference_enabled
           /\ nodes'[n].cpu_offload_enabled = nodes[n].cpu_offload_enabled
           /\ nodes'[n].android = nodes[n].android
           /\ nodes'[n].state = SweptState(n)
  <1>1. nodes'[n] = [nodes[n] EXCEPT !.state = SweptState(n)]
    BY DEF SweepRun
  <1>2. nodes[n] \in NodeRecord /\ SweptState(n) \in ConnectionState
    BY SweptStateFact DEF IInv, TypeOK
  <1> QED  BY <1>1, <1>2 DEF NodeRecord

LEMMA SweepRunInv ==
    ASSUME IInv, SweepRun
    PROVE  IInv'
  <1>1. DOMAIN nodes' = DOMAIN nodes
    BY DEF SweepRun
  <1>2. /\ up' = up /\ clock' = clock /\ sweepNow' = sweepNow
        /\ contacted' = contacted /\ marked' = marked /\ sweeping' = FALSE
        /\ pending' = pending \ Expired
        /\ changed' \subseteq DOMAIN nodes
    BY DEF SweepRun
  <1>3. /\ saved' \in BOOLEAN
        /\ \/ disk' = disk /\ saved' = saved
           \/ (disk' = disk \/ disk' = nodes') /\ (saved' => disk' = nodes')
    <2>1. CASE changed' = {}
      BY <2>1 DEF SweepRun, IInv, TypeOK
    <2>2. CASE changed' # {}
      <3>1. Persist(nodes')
        BY <2>2 DEF SweepRun
      <3> QED  BY <3>1, PersistFact
    <2> QED  BY <2>1, <2>2
  <1>4. TypeOK'
    BY <1>1, <1>2, <1>3, SweepRunFact DEF IInv, TypeOK
  <1>5. DownEmpty' /\ MarkedStale'
    BY <1>1, <1>2, SweepRunFact DEF IInv, TypeOK, DownEmpty, MarkedStale
  <1>6. PendingOffline'
    <2>1. SUFFICES ASSUME NEW m \in pending \ Expired
                   PROVE  m \notin contacted /\ nodes'[m].state # "online"
      BY <1>2 DEF PendingOffline
    <2>2. m \in DOMAIN nodes
      BY DEF IInv, TypeOK
    <2>3. nodes'[m].state = nodes[m].state
      BY <2>2, SweepRunFact, SweptStateFact DEF IInv
    <2> QED  BY <2>3 DEF IInv, PendingOffline
  <1>7. OfflineStale' /\ GivenUpForGood'
    <2>1. SUFFICES ASSUME NEW m \in DOMAIN nodes, m \notin pending \ Expired
                   PROVE  /\ nodes'[m].state # "online" =>
                               clock - nodes'[m].last_heartbeat > DegradedSec
                          /\ m \notin contacted => nodes'[m].state # "online"
                          /\ m \notin contacted \/ nodes'[m].state = "unreachable" =>
                               sweepNow - nodes'[m].last_heartbeat > UnreachableSec
      BY <1>1, <1>2 DEF OfflineStale, GivenUpForGood
    <2>2. /\ nodes[m].last_heartbeat \in Int /\ clock \in Int /\ sweepNow \in Int
          /\ sweepNow <= clock
          /\ SweepAge(m) = sweepNow - nodes[m].last_heartbeat
      BY DEF IInv, TypeOK, NodeRecord, SweepAge
    <2>3. nodes'[m].last_heartbeat = nodes[m].last_heartbeat
      BY SweepRunFact
    <2>4. CASE m \in Expired
      <3>1. SweepAge(m) > UnreachableSec
        BY <2>4 DEF Expired
      <3>2. nodes'[m].state = "unreachable"
        BY <2>4, SweepRunFact, SweptStateFact DEF IInv
      <3> QED  BY <2>2, <2>3, <3>1, <3>2, ThresholdsAssumption
    <2>5. CASE m \notin pending
      <3>1. nodes'[m].state = StateOfAge(SweepAge(m))
        BY <2>5, SweepRunFact, SweptStateFact DEF IInv
      <3>2. /\ StateOfAge(SweepAge(m)) # "online" => SweepAge(m) > DegradedSec
            /\ SweepAge(m) > UnreachableSec <=> StateOfAge(SweepAge(m)) = "unreachable"
        BY <2>2, StateOfAgeFact
      <3>3. m \notin contacted => SweepAge(m) > UnreachableSec
        BY <2>2, <2>5 DEF IInv, GivenUpForGood
      <3> QED  BY <2>2, <2>3, <3>1, <3>2, <3>3, ThresholdsAssumption
    <2> QED  BY <2>1, <2>4, <2>5
  <1>8. DiskCurrent'
    <2>1. CASE saved' /\ disk' = nodes'
      BY <2>1 DEF DiskCurrent
    <2>2. CASE disk' = disk /\ saved' = saved
      BY <1>1, <2>2, SweepRunFact DEF IInv, DiskCurrent, Durable
    <2>3. CASE ~saved'
      BY <2>3 DEF DiskCurrent
    <2> QED  BY <1>3, <2>1, <2>2, <2>3
  <1> QED  BY <1>4, <1>5, <1>6, <1>7, <1>8 DEF IInv

LEMMA TickInv ==
    ASSUME IInv, Tick
    PROVE  IInv'
  <1>1. /\ up' = up /\ nodes' = nodes /\ pending' = pending /\ disk' = disk
        /\ sweeping' = sweeping /\ sweepNow' = sweepNow /\ changed' = changed
        /\ saved' = saved /\ contacted' = contacted /\ marked' = marked
        /\ clock' = clock + 1
    BY DEF Tick, sweepVars
  <1>2. TypeOK'
    BY <1>1 DEF IInv, TypeOK
  <1>3. DownEmpty' /\ PendingOffline' /\ GivenUpForGood' /\ DiskCurrent'
    BY <1>1 DEF IInv, DownEmpty, PendingOffline, GivenUpForGood, DiskCurrent, Durable
  <1>4. \A m \in DOMAIN nodes :
            clock - nodes[m].last_heartbeat > DegradedSec
            => clock' - nodes[m].last_heartbeat > DegradedSec
    <2>1. \A m \in DOMAIN nodes : nodes[m].last_heartbeat \in Int
      BY DEF IInv, TypeOK, NodeRecord
    <2> QED  BY <1>1, <2>1, ThresholdsAssumption DEF IInv, TypeOK
  <1>5. OfflineStale' /\ MarkedStale'
    BY <1>1, <1>4 DEF IInv, TypeOK, OfflineStale, MarkedStale
  <1> QED  BY <1>2, <1>3, <1>5 DEF IInv

LEMMA CrashInv ==
    ASSUME IInv, Crash
    PROVE  IInv'
  <1>1. /\ ~up' /\ up' \in BOOLEAN /\ DOMAIN nodes' = {} /\ pending' = {}
        /\ sweeping' = FALSE /\ changed' = {} /\ contacted' = {} /\ marked' = {}
        /\ disk' = disk /\ clock' = clock /\ sweepNow' = sweepNow /\ saved' = saved
    BY DEF Crash, NoNodes
  <1>2. TypeOK'
    BY <1>1 DEF IInv, TypeOK
  <1> QED  BY <1>1, <1>2 DEF IInv, DownEmpty, PendingOffline, OfflineStale,
                             GivenUpForGood, MarkedStale, DiskCurrent

LEMMA RestartInv ==
    ASSUME IInv, NEW readable \in LoadOutcomes, Restart(readable)
    PROVE  IInv'
  <1>1. /\ DOMAIN nodes' \subseteq DOMAIN disk
        /\ \A m \in DOMAIN nodes' :
              nodes'[m] = [disk[m] EXCEPT !.state = "unreachable"]
    BY DEF Restart, Restored, NoNodes
  <1>2. \A m \in DOMAIN nodes' :
            /\ nodes'[m] \in NodeRecord
            /\ nodes'[m].state = "unreachable"
            /\ nodes'[m].last_heartbeat = disk[m].last_heartbeat
            /\ nodes'[m].inference_enabled = disk[m].inference_enabled
            /\ nodes'[m].cpu_offload_enabled = disk[m].cpu_offload_enabled
            /\ nodes'[m].android = disk[m].android
    BY <1>1 DEF IInv, TypeOK, NodeRecord, ConnectionState
  <1>3. contacted = {} /\ marked = {}
    BY DEF Restart, IInv, DownEmpty, TypeOK
  <1>4. /\ up' = TRUE /\ pending' = DOMAIN nodes' /\ disk' = disk
        /\ clock' = clock /\ sweepNow' = sweepNow /\ sweeping' = sweeping
        /\ changed' = changed /\ saved' = TRUE
        /\ contacted' = contacted /\ marked' = marked
    BY DEF Restart, sweepVars
  <1>5. TypeOK'
    BY <1>1, <1>2, <1>3, <1>4 DEF IInv, TypeOK
  <1>6. /\ DownEmpty' /\ PendingOffline' /\ OfflineStale' /\ GivenUpForGood'
        /\ MarkedStale'
    BY <1>2, <1>3, <1>4 DEF DownEmpty, PendingOffline, OfflineStale,
                            GivenUpForGood, MarkedStale
  <1>7. DiskCurrent'
    BY <1>1, <1>2, <1>4 DEF DiskCurrent, Durable
  <1> QED  BY <1>5, <1>6, <1>7 DEF IInv

LEMMA StutterInv ==
    ASSUME IInv, UNCHANGED vars
    PROVE  IInv'
  <1>1. /\ up' = up /\ nodes' = nodes /\ pending' = pending /\ disk' = disk
        /\ sweeping' = sweeping /\ sweepNow' = sweepNow /\ changed' = changed
        /\ saved' = saved /\ contacted' = contacted /\ marked' = marked
        /\ clock' = clock
    BY DEF vars
  <1> QED  BY <1>1 DEF IInv, TypeOK, DownEmpty, PendingOffline, OfflineStale,
                       GivenUpForGood, MarkedStale, DiskCurrent, Durable

\* The inductive step, by the action taken.
LEMMA NextInv == IInv /\ [Next]_vars => IInv'
  <1> SUFFICES ASSUME IInv, [Next]_vars PROVE IInv'
    OBVIOUS
  <1>1. CASE \E n \in Node : Reports(n) \/ MarkDegraded(n) \/ Operator(n)
    <2>1. PICK n \in Node : Reports(n) \/ MarkDegraded(n) \/ Operator(n)
      BY <1>1
    <2>2. ASSUME NEW a \in AndroidKinds, Upsert(n, a) PROVE IInv'
      BY <2>2, UpsertInv
    <2>3. ASSUME NEW a \in AndroidKinds, UpdateCapability(n, a) PROVE IInv'
      BY <2>3, PolicyInv, BoundsAssumption DEF UpdateCapability
    <2>4. ASSUME NEW critical \in BOOLEAN, Heartbeat(n, critical) PROVE IInv'
      BY <2>4, HeartbeatInv
    <2>5. CASE MarkDegraded(n)
      BY <2>5, MarkDegradedInv
    <2>6. CASE Remove(n)
      BY <2>6, RemoveInv
    <2>7. ASSUME NEW e \in BOOLEAN, SetInferenceEnabled(n, e) PROVE IInv'
      BY <2>7, PolicyInv DEF SetInferenceEnabled
    <2>8. ASSUME NEW e \in OffloadChoices, SetCpuOffloadEnabled(n, e) PROVE IInv'
      BY <2>8, PolicyInv, BoundsAssumption DEF SetCpuOffloadEnabled
    <2> QED  BY <2>1, <2>2, <2>3, <2>4, <2>5, <2>6, <2>7, <2>8
             DEF Reports, Operator, OffloadPolicy
  <1>2. CASE SweepRead
    BY <1>2, SweepReadInv
  <1>3. CASE SweepRun
    BY <1>3, SweepRunInv
  <1>4. CASE Tick
    BY <1>4, TickInv
  <1>5. CASE Crash
    BY <1>5, CrashInv
  <1>6. ASSUME NEW readable \in LoadOutcomes, Restart(readable) PROVE IInv'
    BY <1>6, RestartInv
  <1>7. CASE UNCHANGED vars
    BY <1>7, StutterInv
  <1> QED  BY <1>1, <1>2, <1>3, <1>4, <1>5, <1>6, <1>7 DEF Next, Background

\* The inductive invariant holds in every reachable state.
THEOREM Invariance == Spec => []IInv
  <1>1. Init => IInv
    BY InitInv
  <1>2. IInv /\ [Next]_vars => IInv'
    BY NextInv
  <1> QED  BY <1>1, <1>2, PTL DEF Spec

(***************************************************************************)
(* Safety.                                                                 *)
(***************************************************************************)

\* Every variable of the registry keeps its type, and the sets of ids nest.
THEOREM TypeCorrectness == Spec => []TypeOK
  <1>1. IInv => TypeOK
    BY DEF IInv
  <1> QED  BY <1>1, Invariance, PTL

\* A restored node is never online before it reports.
THEOREM RestoredStayOffline == Spec => []UnconfirmedNeverOnline
  <1>1. IInv => UnconfirmedNeverOnline
    BY DEF IInv, PendingOffline, GivenUpForGood, UnconfirmedNeverOnline
  <1> QED  BY <1>1, Invariance, PTL

\* A node degraded on purpose is kept out of the inference pool until it reports.
THEOREM MarksHold == Spec => []MarkHolds
  <1>1. IInv => MarkHolds
    <2> SUFFICES ASSUME IInv PROVE MarkHolds
      OBVIOUS
    <2>1. \A n \in marked : ~Fresh(n, clock)
      <3>1. \A n \in marked : nodes[n].last_heartbeat \in Int
        BY DEF IInv, TypeOK, NodeRecord
      <3> QED  BY <3>1, ThresholdsAssumption DEF IInv, TypeOK, MarkedStale, Fresh
    <2> QED  BY <2>1 DEF MarkHolds, InferenceReady, NotReadyForInference, Active
  <1> QED  BY <1>1, Invariance, PTL

\* No record that stays has another policy after a step.
PolicyKept ==
    \A n \in DOMAIN nodes \cap DOMAIN nodes' :
        /\ nodes'[n].inference_enabled = nodes[n].inference_enabled
        /\ nodes'[n].cpu_offload_enabled = nodes[n].cpu_offload_enabled

\* Reports, marks and removals keep it.
LEMMA PolicyKeepers ==
    ASSUME IInv, NEW n \in Node,
           \/ \E a \in AndroidKinds : Upsert(n, a) \/ UpdateCapability(n, a)
           \/ \E critical \in BOOLEAN : Heartbeat(n, critical)
           \/ MarkDegraded(n) \/ Remove(n)
    PROVE  PolicyKept
  <1>0. \A m \in DOMAIN nodes : nodes[m] \in NodeRecord
    BY DEF IInv, TypeOK
  <1>1. ASSUME NEW a \in AndroidKinds, Upsert(n, a) PROVE PolicyKept
    <2>1. \A m \in DOMAIN nodes : m # n => nodes'[m] = nodes[m]
      BY <1>1 DEF Upsert, Put
    <2>2. ASSUME n \in DOMAIN nodes
          PROVE  /\ nodes'[n].inference_enabled = nodes[n].inference_enabled
                 /\ nodes'[n].cpu_offload_enabled = nodes[n].cpu_offload_enabled
      BY <1>0, <1>1, <2>2 DEF Upsert, Put, NodeRecord
    <2> QED  BY <2>1, <2>2 DEF PolicyKept
  <1>2. ASSUME NEW a \in AndroidKinds, UpdateCapability(n, a) PROVE PolicyKept
    BY <1>0, <1>2 DEF UpdateCapability, NodeRecord, PolicyKept
  <1>3. ASSUME NEW critical \in BOOLEAN, Heartbeat(n, critical) PROVE PolicyKept
    BY <1>0, <1>3 DEF Heartbeat, NodeRecord, PolicyKept
  <1>4. CASE MarkDegraded(n)
    BY <1>0, <1>4 DEF MarkDegraded, NodeRecord, PolicyKept
  <1>5. CASE Remove(n)
    BY <1>5 DEF Remove, Drop, PolicyKept
  <1> QED  BY <1>1, <1>2, <1>3, <1>4, <1>5

\* Only the operator changes the policy of a node the registry keeps.
THEOREM PolicyIsTheOperators == Spec => PolicyOnlyByOperator
  <1>1. PolicyKept => PolicyStep
    BY DEF PolicyKept, PolicyStep
  <1>2. ASSUME IInv, [Next]_vars PROVE [PolicyStep]_vars
    <2>1. ASSUME NEW n \in Node, NEW e \in BOOLEAN, SetInferenceEnabled(n, e)
          PROVE  PolicyStep
      <3>1. \A m \in DOMAIN nodes :
              /\ m # n => nodes'[m].inference_enabled = nodes[m].inference_enabled
              /\ nodes'[m].cpu_offload_enabled = nodes[m].cpu_offload_enabled
        BY <1>2, <2>1 DEF SetInferenceEnabled, IInv, TypeOK, NodeRecord
      <3> QED  BY <2>1, <3>1 DEF PolicyStep
    <2>2. ASSUME NEW n \in Node, NEW e \in OffloadChoices, SetCpuOffloadEnabled(n, e)
          PROVE  PolicyStep
      <3>1. \A m \in DOMAIN nodes :
              /\ nodes'[m].inference_enabled = nodes[m].inference_enabled
              /\ m # n => nodes'[m].cpu_offload_enabled = nodes[m].cpu_offload_enabled
        BY <1>2, <2>2 DEF SetCpuOffloadEnabled, IInv, TypeOK, NodeRecord
      <3> QED  BY <2>2, <3>1 DEF PolicyStep
    <2>3. ASSUME NEW readable \in LoadOutcomes, Restart(readable) PROVE PolicyStep
      BY <2>3 DEF Restart, PolicyStep
    <2>4. CASE \E n \in Node : Reports(n) \/ MarkDegraded(n) \/ Operator(n)
      <3>1. PICK n \in Node : Reports(n) \/ MarkDegraded(n) \/ Operator(n)
        BY <2>4
      <3>2. CASE Reports(n) \/ MarkDegraded(n) \/ Remove(n)
        BY <1>1, <1>2, <3>2, PolicyKeepers DEF Reports
      <3> QED  BY <2>1, <2>2, <3>1, <3>2 DEF Operator, OffloadPolicy
    <2>5. CASE SweepRun
      BY <2>5, <1>2, SweepRunFact DEF PolicyStep
    <2>6. CASE SweepRead \/ Tick \/ Crash
      BY <2>6 DEF SweepRead, Tick, Crash, PolicyStep
    <2> QED  BY <1>2, <2>3, <2>4, <2>5, <2>6 DEF Next, Background
  <1> QED  BY <1>2, Invariance, PTL DEF Spec, PolicyOnlyByOperator

\* A node that left the pool is not brought back by a sweep.
THEOREM DroppedStayDropped == Spec => NoRevival
  <1>1. IInv /\ [Next]_vars => [NoRevivalStep]_vars
    <2> SUFFICES ASSUME IInv, SweepRun, NEW n \in DOMAIN nodes,
                        nodes[n].state = "unreachable"
                 PROVE  nodes'[n].state = "unreachable"
      BY DEF NoRevivalStep
    <2>1. nodes'[n].state = SweptState(n)
      BY SweepRunFact
    <2>2. CASE n \in pending
      BY <2>1, <2>2, SweptStateFact DEF IInv
    <2>3. CASE n \notin pending
      <3>1. SweepAge(n) \in Int /\ SweepAge(n) > UnreachableSec
        BY <2>3 DEF IInv, TypeOK, NodeRecord, GivenUpForGood, SweepAge
      <3> QED  BY <2>1, <2>3, <3>1, StateOfAgeFact, SweptStateFact DEF IInv
    <2> QED  BY <2>2, <2>3
  <1> QED  BY <1>1, Invariance, PTL DEF Spec, NoRevival

\* The state file describes the nodes in memory unless the latest save was lost.
THEOREM FileDescribesMemory == Spec => []DiskCurrent
  <1>1. IInv => DiskCurrent
    BY DEF IInv
  <1> QED  BY <1>1, Invariance, PTL

(***************************************************************************)
(* How long the registry keeps a silent node.                              *)
(***************************************************************************)

\* A node of the running coordinator whose latest heartbeat is too old, and which
\* still has to be dropped or given up on.
Undropped(n) ==
    /\ up /\ n \in DOMAIN nodes
    /\ clock - nodes[n].last_heartbeat > UnreachableSec
    /\ nodes[n].state # "unreachable" \/ n \in pending

\* At most how many more steps of the sweeper that takes: one if the sweep under way
\* has read a clock that is late enough, else a sweep of its own, after that one.
SweepsLeft(n) ==
    IF ~sweeping THEN 2
    ELSE IF sweepNow - nodes[n].last_heartbeat > UnreachableSec THEN 1 ELSE 3

DroppedSoon(n) ==
    Undropped(n) /\ Undropped(n)' =>
        /\ SweepRead \/ SweepRun => SweepsLeft(n)' < SweepsLeft(n)
        /\ SweepsLeft(n)' <= SweepsLeft(n)

\* While a silent node stays silent nothing makes its stamp younger.
LEMMA StampFact ==
    ASSUME IInv, NEW n \in Node, Undropped(n), Undropped(n)',
           Tick \/ UNCHANGED vars \/ \E m \in Node : Reports(m) \/ MarkDegraded(m) \/ Operator(m)
    PROVE  UNCHANGED sweepVars /\ nodes'[n].last_heartbeat <= nodes[n].last_heartbeat
  <1>1. /\ n \in DOMAIN nodes /\ \A k \in DOMAIN nodes : nodes[k] \in NodeRecord
        /\ nodes[n].last_heartbeat \in Int /\ clock \in Int
        /\ clock' - nodes'[n].last_heartbeat > UnreachableSec
    BY DEF IInv, TypeOK, NodeRecord, Undropped
  <1>2. ASSUME UNCHANGED sweepVars, nodes'[n].last_heartbeat = nodes[n].last_heartbeat
        PROVE  UNCHANGED sweepVars /\ nodes'[n].last_heartbeat <= nodes[n].last_heartbeat
    BY <1>1, <1>2
  <1>3. CASE Tick \/ UNCHANGED vars
    BY <1>2, <1>3 DEF Tick, vars, sweepVars
  <1>4. ASSUME NEW m \in Node, NEW a \in AndroidKinds, Upsert(m, a)
        PROVE  UNCHANGED sweepVars /\ nodes'[n].last_heartbeat = nodes[n].last_heartbeat
    <2>1. UNCHANGED <<clock, sweepVars>> /\ (m # n => nodes'[n] = nodes[n])
      BY <1>1, <1>4 DEF Upsert, Put
    <2>2. m = n => nodes'[n].last_heartbeat = clock
      BY <1>4 DEF Upsert, Put
    <2> QED  BY <1>1, <2>1, <2>2, ThresholdsAssumption
  <1>5. ASSUME NEW m \in Node, NEW critical \in BOOLEAN, Heartbeat(m, critical)
        PROVE  UNCHANGED sweepVars /\ nodes'[n].last_heartbeat = nodes[n].last_heartbeat
    <2>1. UNCHANGED <<clock, sweepVars>> /\ (m # n => nodes'[n] = nodes[n])
      BY <1>1, <1>5 DEF Heartbeat
    <2>2. m = n => nodes'[n].last_heartbeat \in {clock, BackDated(clock)}
      BY <1>1, <1>5 DEF Heartbeat, NodeRecord
    <2>3. BackDated(clock) = clock - (DegradedSec + 1)
      BY <1>1, ThresholdsAssumption DEF BackDated
    <2> QED  BY <1>1, <2>1, <2>2, <2>3, ThresholdsAssumption
  <1>6. ASSUME NEW m \in Node, MarkDegraded(m)
        PROVE  UNCHANGED sweepVars /\ nodes'[n].last_heartbeat <= nodes[n].last_heartbeat
    <2>1. UNCHANGED sweepVars /\ (m # n => nodes'[n] = nodes[n])
      BY <1>1, <1>6 DEF MarkDegraded
    <2>2. m = n => nodes'[n].last_heartbeat = BackDated(nodes[n].last_heartbeat)
      BY <1>1, <1>6 DEF MarkDegraded, NodeRecord
    <2>3. BackDated(nodes[n].last_heartbeat) <= nodes[n].last_heartbeat
      BY <1>1, BackDatedFact
    <2> QED  BY <1>1, <2>1, <2>2, <2>3
  <1>7. ASSUME NEW m \in Node,
               \/ \E a \in AndroidKinds : UpdateCapability(m, a)
               \/ \E e \in BOOLEAN : SetInferenceEnabled(m, e)
               \/ \E e \in OffloadChoices : SetCpuOffloadEnabled(m, e)
        PROVE  UNCHANGED sweepVars /\ nodes'[n].last_heartbeat = nodes[n].last_heartbeat
    BY <1>1, <1>7 DEF UpdateCapability, SetInferenceEnabled, SetCpuOffloadEnabled, NodeRecord
  <1>8. ASSUME NEW m \in Node, Remove(m)
        PROVE  UNCHANGED sweepVars /\ nodes'[n].last_heartbeat = nodes[n].last_heartbeat
    <2>1. n \in DOMAIN nodes'
      BY DEF Undropped
    <2> QED  BY <1>8, <2>1 DEF Remove, Drop
  <1> QED  BY <1>2, <1>3, <1>4, <1>5, <1>6, <1>7, <1>8 DEF Reports, Operator, OffloadPolicy

LEMMA SweepDrops ==
    ASSUME IInv, NEW n \in Node, Undropped(n), Undropped(n)', SweepRead \/ SweepRun
    PROVE  SweepsLeft(n)' < SweepsLeft(n)
  <1>1. /\ n \in DOMAIN nodes /\ nodes[n].last_heartbeat \in Int
        /\ clock - nodes[n].last_heartbeat > UnreachableSec
    BY DEF IInv, TypeOK, NodeRecord, Undropped
  <1>2. CASE SweepRead
    <2>1. SweepsLeft(n) = 2
      BY <1>2 DEF SweepRead, SweepsLeft
    <2>2. SweepsLeft(n)' = 1
      BY <1>1, <1>2 DEF SweepRead, SweepsLeft
    <2> QED  BY <2>1, <2>2
  <1>3. CASE SweepRun
    <2>1. sweeping /\ ~sweeping' /\ pending' = pending \ Expired
          /\ nodes'[n].state = SweptState(n)
      BY <1>1, <1>3, SweepRunFact DEF SweepRun
    <2>2. sweepNow - nodes[n].last_heartbeat <= UnreachableSec
      <3> SUFFICES ASSUME SweepAge(n) > UnreachableSec PROVE FALSE
        BY <1>1, ThresholdsAssumption DEF SweepAge, IInv, TypeOK
      <3>1. SweepAge(n) \in Int
        BY <1>1 DEF SweepAge, IInv, TypeOK
      <3>2. CASE n \in pending
        <4>1. n \in Expired
          BY <3>2 DEF Expired
        <4> QED  BY <1>1, <2>1, <4>1, SweptStateFact DEF IInv, Undropped
      <3>3. CASE n \notin pending
        BY <1>1, <2>1, <3>1, <3>3, SweptStateFact, StateOfAgeFact DEF IInv, Undropped
      <3> QED  BY <3>2, <3>3
    <2>3. SweepsLeft(n) = 3
      BY <1>1, <2>1, <2>2, ThresholdsAssumption DEF SweepsLeft, IInv, TypeOK
    <2>4. SweepsLeft(n)' = 2
      BY <2>1 DEF SweepsLeft
    <2> QED  BY <2>3, <2>4
  <1> QED  BY <1>2, <1>3

LEMMA DroppedStep == ASSUME IInv, [Next]_vars, NEW n \in Node PROVE DroppedSoon(n)
  <1> SUFFICES ASSUME Undropped(n), Undropped(n)'
               PROVE  /\ SweepRead \/ SweepRun => SweepsLeft(n)' < SweepsLeft(n)
                      /\ SweepsLeft(n)' <= SweepsLeft(n)
    BY DEF DroppedSoon
  <1>1. SweepsLeft(n) \in 1..3 /\ SweepsLeft(n)' \in 1..3
    BY DEF SweepsLeft
  <1>2. CASE SweepRead \/ SweepRun
    BY <1>1, <1>2, SweepDrops
  <1>3. CASE ~(SweepRead \/ SweepRun)
    <2>1. ~Crash /\ \A readable \in LoadOutcomes : ~Restart(readable)
      BY DEF Crash, Restart, Undropped
    <2>2. UNCHANGED sweepVars /\ nodes'[n].last_heartbeat <= nodes[n].last_heartbeat
      BY <1>3, <2>1, StampFact DEF Next, Background
    <2>3. /\ nodes[n].last_heartbeat \in Int /\ nodes'[n].last_heartbeat \in Int
          /\ sweepNow \in Int /\ sweepNow' = sweepNow /\ sweeping' = sweeping
      BY <2>2, NextInv DEF IInv, TypeOK, NodeRecord, Undropped, sweepVars
    <2>4. SweepsLeft(n)' <= SweepsLeft(n)
      BY <2>2, <2>3, ThresholdsAssumption DEF SweepsLeft
    <2> QED  BY <1>3, <2>4
  <1> QED  BY <1>2, <1>3

\* A node that fell silent is dropped, and one awaited after a restart given up on,
\* by the third step of the sweeper (the run of a sweep under way, the reading and
\* the run of the next), unless it reports, is removed or the coordinator stops:
\* no mark, no report of another node and no policy change puts it off (sweep_stale).
DroppedInTime ==
    /\ [](\A n \in Node : SweepsLeft(n) \in 1..3)
    /\ [][\A n \in Node : DroppedSoon(n)]_vars

THEOREM SilentDroppedInTime == Spec => DroppedInTime
  <1>1. IInv => \A n \in Node : SweepsLeft(n) \in 1..3
    BY DEF SweepsLeft
  <1>2. IInv /\ [Next]_vars => [\A n \in Node : DroppedSoon(n)]_vars
    BY DroppedStep
  <1> QED  BY <1>1, <1>2, Invariance, PTL DEF Spec, DroppedInTime

(***************************************************************************)
(* Refinement: the registry implements InferencePool.                      *)
(***************************************************************************)
Ready == InferenceReady(clock)

\* Who is ready after a step, in terms of the records after it.
LEMMA ReadyAfter ==
    ASSUME NEW m
    PROVE  m \in Ready' <=> /\ m \in DOMAIN nodes'
                            /\ nodes'[m].inference_enabled
                            /\ nodes'[m].state = "online"
                            /\ clock' - nodes'[m].last_heartbeat <= DegradedSec
  BY DEF Ready, InferenceReady, Fresh

LEMMA ReadyBefore ==
    ASSUME NEW m
    PROVE  m \in Ready <=> /\ m \in DOMAIN nodes
                           /\ nodes[m].inference_enabled
                           /\ nodes[m].state = "online"
                           /\ clock - nodes[m].last_heartbeat <= DegradedSec
  BY DEF Ready, InferenceReady, Fresh

\* A step that leaves the records of all nodes but one alone, at one instant,
\* changes the readiness of that node only.
LEMMA ReadyFrame ==
    ASSUME NEW n, clock' = clock,
           \A m : m # n => (m \in DOMAIN nodes' <=> m \in DOMAIN nodes),
           \A m \in DOMAIN nodes : m # n => nodes'[m] = nodes[m]
    PROVE  Ready' \in {Ready \cup {n}, Ready \ {n}}
  <1>1. \A m : m # n => (m \in Ready' <=> m \in Ready)
    BY ReadyAfter, ReadyBefore
  <1> QED  BY <1>1

\* The heart of the refinement: a sweep, whatever clock reading it uses, makes
\* nobody ready, because whoever is not online is stale by now.
LEMMA SweepShrinks ==
    ASSUME IInv, SweepRun
    PROVE  Ready' \subseteq Ready
  <1>1. SUFFICES ASSUME NEW m \in Ready' PROVE m \in Ready
    OBVIOUS
  <1>2. m \in DOMAIN nodes /\ clock' = clock
    BY ReadyAfter DEF SweepRun
  <1>3. /\ nodes[m].inference_enabled
        /\ clock - nodes[m].last_heartbeat <= DegradedSec
        /\ nodes'[m].state = "online"
    BY <1>2, ReadyAfter, SweepRunFact
  <1>4. nodes[m].last_heartbeat \in Int /\ clock \in Int
    BY <1>2 DEF IInv, TypeOK, NodeRecord
  <1>5. CASE m \in pending
    <2>1. nodes'[m].state # "online"
      BY <1>2, <1>5, SweepRunFact, SweptStateFact DEF IInv, PendingOffline
    <2> QED  BY <1>3, <2>1
  <1>6. CASE m \notin pending
    <2>1. ~(clock - nodes[m].last_heartbeat > DegradedSec)
      BY <1>3, <1>4, ThresholdsAssumption
    <2>2. nodes[m].state = "online"
      BY <1>2, <1>6, <2>1 DEF IInv, OfflineStale
    <2> QED  BY <1>2, <1>3, <2>2, ReadyBefore
  <1> QED  BY <1>5, <1>6

\* Only nodes that reported are ready.
LEMMA ReadyHeard == IInv => Ready \subseteq contacted
  BY DEF IInv, Ready, InferenceReady, PendingOffline, GivenUpForGood

\* What a step of the pool does to the nodes that reported and that are ready.
PoolMove ==
    \/ \E n \in Node :
          \/ /\ contacted' = contacted \cup {n}
             /\ Ready' \in {Ready \cup {n}, Ready \ {n}}
          \/ n \in contacted /\ contacted' = contacted /\ Ready' = Ready \cup {n}
          \/ contacted' = contacted \ {n} /\ Ready' = Ready \ {n}
    \/ contacted' = contacted /\ Ready' \subseteq Ready
    \/ contacted' = {} /\ Ready' = {}

\* Every step of the registry is a step of the pool, or leaves it alone.
LEMMA PoolStep ==
    ASSUME IInv, IInv', [Next]_vars
    PROVE  PoolMove
  <1>1. ASSUME NEW n \in Node, NEW a \in AndroidKinds, Upsert(n, a) PROVE PoolMove
    <2>1. contacted' = contacted \cup {n} /\ clock' = clock
      BY <1>1 DEF Upsert
    <2>2. Ready' \in {Ready \cup {n}, Ready \ {n}}
      BY <1>1, <2>1, ReadyFrame DEF Upsert, Put
    <2> QED  BY <2>1, <2>2 DEF PoolMove
  <1>2. ASSUME NEW n \in Node, NEW c \in BOOLEAN, Heartbeat(n, c) PROVE PoolMove
    <2>1. contacted' = contacted \cup {n} /\ clock' = clock
      BY <1>2 DEF Heartbeat
    <2>2. Ready' \in {Ready \cup {n}, Ready \ {n}}
      BY <1>2, <2>1, ReadyFrame DEF Heartbeat
    <2> QED  BY <2>1, <2>2 DEF PoolMove
  <1>3. ASSUME NEW n \in Node, NEW e \in BOOLEAN, SetInferenceEnabled(n, e) PROVE PoolMove
    <2>1. contacted' = contacted /\ clock' = clock
      BY <1>3 DEF SetInferenceEnabled
    <2>2. Ready' \in {Ready \cup {n}, Ready \ {n}}
      BY <1>3, <2>1, ReadyFrame DEF SetInferenceEnabled
    <2>3. Ready' \subseteq contacted'
      BY ReadyHeard DEF Ready, InferenceReady, IInv, PendingOffline, GivenUpForGood
    <2>4. CASE n \in Ready'
      BY <2>1, <2>2, <2>3, <2>4 DEF PoolMove
    <2>5. CASE n \notin Ready'
      BY <2>1, <2>2, <2>5 DEF PoolMove
    <2> QED  BY <2>4, <2>5 DEF PoolMove
  <1>4. ASSUME NEW n \in Node, Remove(n) PROVE PoolMove
    <2>1. contacted' = contacted \ {n} /\ clock' = clock /\ n \notin DOMAIN nodes'
      BY <1>4 DEF Remove, Drop
    <2>2. Ready' \in {Ready \cup {n}, Ready \ {n}}
      BY <1>4, <2>1, ReadyFrame DEF Remove, Drop
    <2>3. n \notin Ready'
      BY <2>1, ReadyAfter
    <2> QED  BY <2>1, <2>2, <2>3 DEF PoolMove
  <1>5. ASSUME NEW n \in Node, MarkDegraded(n) PROVE PoolMove
    <2>1. contacted' = contacted /\ clock' = clock
      BY <1>5 DEF MarkDegraded
    <2>2. Ready' \in {Ready \cup {n}, Ready \ {n}}
      BY <1>5, <2>1, ReadyFrame DEF MarkDegraded
    <2>3. nodes'[n].state # "online"
      BY <1>5 DEF MarkDegraded, IInv, TypeOK, NodeRecord
    <2>4. n \notin Ready'
      BY <2>3, ReadyAfter
    <2> QED  BY <2>1, <2>2, <2>4 DEF PoolMove
  <1>6. ASSUME NEW n \in Node, NEW b \in BOOLEAN,
               UpdateCapability(n, b) \/ SetCpuOffloadEnabled(n, b)
        PROVE  PoolMove
    <2>1. /\ contacted' = contacted /\ clock' = clock
          /\ \/ nodes' = [nodes EXCEPT ![n].android = b]
             \/ nodes' = [nodes EXCEPT ![n].cpu_offload_enabled = b]
      BY <1>6 DEF UpdateCapability, SetCpuOffloadEnabled
    <2>2. /\ DOMAIN nodes' = DOMAIN nodes
          /\ \A m \in DOMAIN nodes :
                /\ nodes'[m].inference_enabled = nodes[m].inference_enabled
                /\ nodes'[m].state = nodes[m].state
                /\ nodes'[m].last_heartbeat = nodes[m].last_heartbeat
      BY <2>1 DEF IInv, TypeOK, NodeRecord
    <2>3. Ready' \subseteq Ready
      BY <2>1, <2>2, ReadyAfter, ReadyBefore
    <2> QED  BY <2>1, <2>3 DEF PoolMove
  <1>7. CASE SweepRead \/ UNCHANGED vars
    BY <1>7 DEF SweepRead, vars, Ready, InferenceReady, Fresh, PoolMove
  <1>8. CASE SweepRun
    <2>1. contacted' = contacted
      BY <1>8 DEF SweepRun
    <2> QED  BY <1>8, <2>1, SweepShrinks DEF PoolMove
  <1>9. CASE Tick
    <2>1. contacted' = contacted /\ nodes' = nodes /\ clock' = clock + 1
      BY <1>9 DEF Tick
    <2>2. ASSUME NEW m \in Ready' PROVE m \in Ready
      <3>1. /\ m \in DOMAIN nodes /\ nodes[m].inference_enabled
            /\ nodes[m].state = "online"
            /\ clock' - nodes[m].last_heartbeat <= DegradedSec
        BY <2>1, <2>2, ReadyAfter
      <3>2. nodes[m].last_heartbeat \in Int /\ clock \in Int
        BY <3>1 DEF IInv, TypeOK, NodeRecord
      <3>3. clock - nodes[m].last_heartbeat <= DegradedSec
        BY <2>1, <3>1, <3>2, ThresholdsAssumption
      <3> QED  BY <3>1, <3>3, ReadyBefore
    <2> QED  BY <2>1, <2>2 DEF PoolMove
  <1>10. CASE Crash
    <2>1. contacted' = {} /\ DOMAIN nodes' = {}
      BY <1>10 DEF Crash, NoNodes
    <2>2. Ready' = {}
      BY <2>1, ReadyAfter
    <2> QED  BY <2>1, <2>2 DEF PoolMove
  <1>11. ASSUME NEW readable \in LoadOutcomes, Restart(readable) PROVE PoolMove
    <2>1. contacted' = contacted /\ pending' = DOMAIN nodes'
      BY <1>11 DEF Restart
    <2>2. \A m \in DOMAIN nodes' : nodes'[m].state # "online"
      BY <2>1 DEF IInv, PendingOffline
    <2>3. Ready' = {}
      BY <2>2, ReadyAfter
    <2> QED  BY <2>1, <2>3 DEF PoolMove
  <1>12. CASE \E n \in Node : Reports(n) \/ MarkDegraded(n) \/ Operator(n)
    BY <1>1, <1>2, <1>3, <1>4, <1>5, <1>6, <1>12, BoundsAssumption
    DEF Reports, Operator, OffloadPolicy
  <1> QED  BY <1>7, <1>8, <1>9, <1>10, <1>11, <1>12 DEF Next, Background

\* The registry implements the pool it promises: initial states map to initial
\* states and every step to a step of the pool or to a stutter.
THEOREM RegistryImplementsPool == Spec => PoolRefinement
  <1>1. Init => Pool!PoolInit
    BY DEF Init, NoNodes, Pool!PoolInit, InferenceReady
  <1>2. IInv /\ IInv' /\ [Next]_vars => [Pool!PoolNext]_(Pool!poolVars)
    <2> SUFFICES ASSUME IInv, IInv', [Next]_vars PROVE Pool!PoolNext
      OBVIOUS
    <2> QED  BY PoolStep
             DEF PoolMove, Ready, Pool!PoolNext, Pool!Report, Pool!Admit, Pool!Lose,
                 Pool!Forget, Pool!Reset
  <1> QED  BY <1>1, <1>2, Invariance, PTL DEF Spec, PoolRefinement, Pool!PoolSpec

(***************************************************************************)
(* The thread that asks.                                                   *)
(***************************************************************************)

\* A node marked before the question was read from the clock is stale by that
\* reading already.
AskedLate ==
    /\ askNow \in Int
    /\ asking => \A n \in marked \ markedSince :
                     askNow - nodes[n].last_heartbeat > DegradedSec

\* A step that marks only with a note of it, and touches no other marked node's
\* stamp.
LEMMA AskedLateFrame ==
    ASSUME AskedLate, asking' = asking, askNow' = askNow,
           \A m \in marked' \ markedSince' :
               /\ m \in marked \ markedSince
               /\ nodes'[m].last_heartbeat = nodes[m].last_heartbeat
    PROVE  AskedLate'
  BY DEF AskedLate

LEMMA ClientStepIsStep == [ClientNext]_allVars => [Next]_vars
  BY DEF ClientNext, allVars, clientVars, Deliberate, Exclude, Readmit, AskRead, AskRun, Stop, Other,
         Next, Background, Reports, Operator, vars

LEMMA AskedLateStep ==
    ASSUME IInv, AskedLate, [ClientNext]_allVars
    PROVE  AskedLate'
  <1>0. /\ DOMAIN nodes \subseteq Node /\ \A n \in DOMAIN nodes : nodes[n] \in NodeRecord
        /\ marked \subseteq DOMAIN nodes /\ clock \in Int
    BY DEF IInv, TypeOK
  <1>1. ASSUME NEW n \in Node, Deliberate(n) PROVE AskedLate'
    <2>1. /\ \A m \in DOMAIN nodes \ {n} : nodes'[m] = nodes[m]
          /\ marked' \subseteq marked \cup {n}
      BY <1>0, <1>1 DEF Deliberate, MarkDegraded, Heartbeat
    <2>2. markedSince' = markedSince \cup (marked' \cap {n}) /\ asking' = asking /\ askNow' = askNow
      BY <1>1 DEF Deliberate
    <2> QED  BY <1>0, <2>1, <2>2, AskedLateFrame
  <1>2. ASSUME NEW n \in Node, Readmit(n) \/ Exclude(n) PROVE AskedLate'
    <2>1. asking' = asking /\ askNow' = askNow /\ markedSince' = markedSince
      BY <1>2 DEF Readmit, Exclude
    <2>2. CASE Remove(n)
      <3>1. marked' = marked \ {n} /\ \A m \in DOMAIN nodes \ {n} : nodes'[m] = nodes[m]
        BY <2>2 DEF Remove, Drop
      <3> QED  BY <1>0, <2>1, <3>1, AskedLateFrame
    <2>3. ASSUME NEW e \in BOOLEAN, SetInferenceEnabled(n, e) PROVE AskedLate'
      <3>1. /\ marked' = marked
            /\ \A m \in DOMAIN nodes : nodes'[m].last_heartbeat = nodes[m].last_heartbeat
        BY <1>0, <2>3 DEF SetInferenceEnabled, NodeRecord
      <3> QED  BY <1>0, <2>1, <3>1, AskedLateFrame
    <2> QED  BY <1>2, <2>2, <2>3 DEF Readmit, Exclude
  <1>3. CASE AskRead
    BY <1>0, <1>3 DEF AskRead, vars, AskedLate, IInv, MarkedStale
  <1>4. CASE AskRun
    BY <1>4 DEF AskRun, AskedLate
  <1>5. CASE Stop
    BY <1>5 DEF Stop, AskedLate
  <1>6. CASE Other
    <2>1. asking' = asking /\ askNow' = askNow /\ markedSince' = markedSince
      BY <1>6 DEF Other, clientVars
    <2>2. ASSUME NEW n \in Node, NEW a, Heartbeat(n, FALSE) \/ Upsert(n, a)
          PROVE  AskedLate'
      <3>1. marked' = marked \ {n} /\ \A m \in DOMAIN nodes \ {n} : nodes'[m] = nodes[m]
        BY <2>2 DEF Heartbeat, Upsert, Put
      <3> QED  BY <1>0, <2>1, <3>1, AskedLateFrame
    <2>3. ASSUME NEW n \in Node, NEW a, UpdateCapability(n, a) \/ SetCpuOffloadEnabled(n, a)
          PROVE  AskedLate'
      <3>1. /\ marked' = marked
            /\ \A m \in DOMAIN nodes : nodes'[m].last_heartbeat = nodes[m].last_heartbeat
        BY <1>0, <2>3 DEF UpdateCapability, SetCpuOffloadEnabled, NodeRecord
      <3> QED  BY <1>0, <2>1, <3>1, AskedLateFrame
    <2>4. CASE SweepRun
      <3>1. /\ marked' = marked
            /\ \A m \in DOMAIN nodes : nodes'[m].last_heartbeat = nodes[m].last_heartbeat
        BY <1>0, <2>4 DEF SweepRun, NodeRecord
      <3> QED  BY <1>0, <2>1, <3>1, AskedLateFrame
    <2>5. CASE SweepRead \/ Tick
      <3>1. marked' = marked /\ nodes' = nodes
        BY <2>5 DEF SweepRead, Tick
      <3> QED  BY <2>1, <3>1, AskedLateFrame
    <2>6. ASSUME NEW readable \in LoadOutcomes, Restart(readable) PROVE AskedLate'
      <3>1. marked' = {}
        BY <1>0, <2>6 DEF Restart, IInv, DownEmpty
      <3> QED  BY <2>1, <3>1, AskedLateFrame
    <2> QED  BY <1>6, <2>2, <2>3, <2>4, <2>5, <2>6 DEF Other, OffloadPolicy
  <1>7. CASE UNCHANGED allVars
    BY <1>7 DEF allVars, clientVars, vars, AskedLate
  <1> QED  BY <1>1, <1>2, <1>3, <1>4, <1>5, <1>6, <1>7 DEF ClientNext

\* An answer computed with a clock reading as old as the wait for the lock names no
\* node that was degraded on purpose before the question and has not reported
\* since (inference_ready_nodes, sweep_stale, mark_degraded).
THEOREM AnswersExcludeMarked == ClientSpec => AnswerExcludesMarked
  <1>1. ClientInit => Init /\ AskedLate
    BY DEF ClientInit, AskedLate
  <1>2. ASSUME IInv, AskedLate, [ClientNext]_allVars
        PROVE  [AskRun => answer' \cap (marked \ markedSince) = {}]_allVars
    <2> SUFFICES ASSUME AskRun, NEW n \in marked \ markedSince, n \in answer' PROVE FALSE
      OBVIOUS
    <2>1. asking /\ n \in DOMAIN nodes /\ askNow - nodes[n].last_heartbeat <= DegradedSec
      BY DEF AskRun, InferenceReady, Fresh
    <2>2. askNow \in Int /\ nodes[n].last_heartbeat \in Int /\ DegradedSec \in Int
      BY <1>2, <2>1, ThresholdsAssumption DEF AskedLate, IInv, TypeOK, NodeRecord
    <2>3. askNow - nodes[n].last_heartbeat > DegradedSec
      BY <1>2, <2>1 DEF AskedLate
    <2> QED  BY <2>1, <2>2, <2>3
  <1> QED  BY <1>1, <1>2, ClientStepIsStep, AskedLateStep, Invariance, PTL
           DEF ClientSpec, Spec, AnswerExcludesMarked
=============================================================================
