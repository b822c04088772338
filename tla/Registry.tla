------------------------------ MODULE Registry ------------------------------
(***************************************************************************)
(* The coordinator's NodeRegistry (src/daemon/ramdeck/registry.py): which  *)
(* nodes are known, how fresh their heartbeats are, what the operator      *)
(* allowed them to do, and the state file that survives a restart.         *)
(*                                                                         *)
(* Every mutator holds the registry's lock from its first read to its last *)
(* write, so each is one action, together with the save that ends it.  The *)
(* one exception is sweep_stale, which reads the clock BEFORE it takes the *)
(* lock: it is two actions, SweepRead and SweepRun, and anything may       *)
(* happen between them.                                                    *)
(*                                                                         *)
(* Time is an integer count of ticks, a tick standing for the 0.001 s that *)
(* mark_degraded adds to the degraded threshold.  Heartbeat stamps may lie *)
(* before tick 0 because degrading a node back-dates its stamp.            *)
(***************************************************************************)
EXTENDS Integers

CONSTANTS
    Node,               \* the node ids that may register
    DegradedSec,        \* HEARTBEAT_DEGRADED_SEC, in ticks
    UnreachableSec,     \* HEARTBEAT_UNREACHABLE_SEC, in ticks
    MaxClock,           \* bound: the clock stops here
    AndroidKinds,       \* bound: the values a report gives "is an Android"
    OffloadChoices,     \* bound: the values the operator gives cpu_offload
    SaveOutcomes,       \* bound: whether a save can succeed, fail or both
    LoadOutcomes        \* bound: whether the state file can be read at a start

ASSUME ThresholdsAssumption ==
    /\ DegradedSec \in Nat
    /\ UnreachableSec \in Nat
    /\ DegradedSec < UnreachableSec

ASSUME BoundsAssumption ==
    /\ MaxClock \in Nat
    /\ AndroidKinds \subseteq BOOLEAN
    /\ OffloadChoices \subseteq BOOLEAN
    /\ SaveOutcomes \subseteq BOOLEAN
    /\ LoadOutcomes \subseteq BOOLEAN

VARIABLES
    up,         \* the coordinator process is running
    nodes,      \* _nodes: node id -> its record
    pending,    \* _pending_reconfirmation
    disk,       \* registry_state.json: node id -> its record
    clock,      \* time.time()
    sweeping,   \* a sweep_stale call has read the clock and wants the lock
    sweepNow,   \* the clock value the latest sweep_stale call read
    changed,    \* what the latest completed sweep_stale returned
    saved,      \* the latest save reached the disk, or none was due since load
    contacted,  \* history: nodes that reported since the process started
    marked      \* history: nodes degraded on purpose and silent since

vars == <<up, nodes, pending, disk, clock, sweeping, sweepNow, changed, saved,
          contacted, marked>>
sweepVars == <<sweeping, sweepNow, changed>>

ConnectionState == {"online", "degraded", "unreachable"}

NodeRecord == [last_heartbeat : Int, state : ConnectionState,
               inference_enabled : BOOLEAN, cpu_offload_enabled : BOOLEAN,
               android : BOOLEAN]

NoNodes == [n \in {} |-> {}]

Put(f, n, r) == [m \in DOMAIN f \cup {n} |-> IF m = n THEN r ELSE f[m]]
Drop(f, S) == [m \in DOMAIN f \ S |-> f[m]]

(***************************************************************************)
(* Queries, as functions of the instant they are asked about.              *)
(***************************************************************************)
Fresh(n, now) == now - nodes[n].last_heartbeat <= DegradedSec

\* inference_ready_nodes: enabled, online and fresh.
InferenceReady(now) ==
    {n \in DOMAIN nodes : /\ nodes[n].inference_enabled
                          /\ nodes[n].state = "online"
                          /\ Fresh(n, now)}

\* nodes_not_ready_for_inference: enabled and not dropped, but not ready.
NotReadyForInference(now) ==
    {n \in DOMAIN nodes : /\ nodes[n].inference_enabled
                          /\ nodes[n].state # "unreachable"
                          /\ nodes[n].state # "online" \/ ~Fresh(n, now)}

\* active_nodes: the members of the pool.
Active == {n \in DOMAIN nodes : nodes[n].state # "unreachable"}

(***************************************************************************)
(* _persist_state writes a temporary file and renames it over the state    *)
(* file: the file holds the old contents or the new.  An exception is      *)
(* logged and swallowed, so the caller never learns that a save failed.  A *)
(* registry without a state path is one whose saves all fail.              *)
(***************************************************************************)
Persist(contents) ==
    \E ok \in SaveOutcomes :
        /\ saved' = ok
        /\ disk' = IF ok THEN contents ELSE disk

\* Mutant of BackDated: the 0.001 s that pushes the stamp past the threshold is
\* forgotten.
BackDatedToThreshold(hb) ==
    LET limit == clock - DegradedSec IN IF hb < limit THEN hb ELSE limit

\* min(last_heartbeat, time.time() - (HEARTBEAT_DEGRADED_SEC + 0.001))
BackDated(hb) ==
    LET limit == clock - (DegradedSec + 1) IN IF hb < limit THEN hb ELSE limit

(***************************************************************************)
(* Mutators.                                                               *)
(***************************************************************************)

\* Mutant of Upsert: a re-registration resets the operator's policy.
UpsertForgetsPolicy(n, isAndroid) ==
    /\ up
    /\ nodes' = Put(nodes, n, [last_heartbeat |-> clock, state |-> "online",
                               inference_enabled |-> TRUE,
                               cpu_offload_enabled |-> TRUE,
                               android |-> isAndroid])
    /\ pending' = pending \ {n}
    /\ Persist(nodes')
    /\ contacted' = contacted \cup {n}
    /\ marked' = marked \ {n}
    /\ UNCHANGED <<up, clock, sweepVars>>

\* upsert: a (re-)registration.  A known node keeps the operator's policy, a
\* new one gets the dataclass defaults.
Upsert(n, isAndroid) ==
    /\ up
    /\ nodes' = Put(nodes, n,
           [last_heartbeat |-> clock,
            state |-> "online",
            inference_enabled |->
                n \in DOMAIN nodes => nodes[n].inference_enabled,
            cpu_offload_enabled |->
                n \in DOMAIN nodes => nodes[n].cpu_offload_enabled,
            android |-> isAndroid])
    /\ pending' = pending \ {n}
    /\ Persist(nodes')
    /\ contacted' = contacted \cup {n}
    /\ marked' = marked \ {n}
    /\ UNCHANGED <<up, clock, sweepVars>>

\* heartbeat, from a known node (an unknown one is answered False and changes
\* nothing).  Critical memory pressure on an Android degrades the node within
\* the same call, by back-dating the stamp it has just written.
Heartbeat(n, critical) ==
    LET degrade == critical /\ nodes[n].android IN
    /\ up
    /\ n \in DOMAIN nodes
    /\ nodes' = [nodes EXCEPT
           ![n].last_heartbeat = IF degrade THEN BackDated(clock) ELSE clock,
           ![n].state = IF degrade THEN "degraded" ELSE "online"]
    /\ pending' = pending \ {n}
    /\ Persist(nodes')
    /\ contacted' = contacted \cup {n}
    /\ marked' = IF degrade THEN marked \cup {n} ELSE marked \ {n}
    /\ UNCHANGED <<up, clock, sweepVars>>

\* update_capability: the device class of a known node is corrected.
UpdateCapability(n, isAndroid) ==
    /\ up
    /\ n \in DOMAIN nodes
    /\ nodes' = [nodes EXCEPT ![n].android = isAndroid]
    /\ Persist(nodes')
    /\ UNCHANGED <<up, pending, clock, sweepVars, contacted, marked>>

\* remove: also saves when the node was not there.
Remove(n) ==
    /\ up
    /\ nodes' = Drop(nodes, {n})
    /\ pending' = pending \ {n}
    /\ Persist(nodes')
    /\ contacted' = contacted \ {n}
    /\ marked' = marked \ {n}
    /\ UNCHANGED <<up, clock, sweepVars>>

\* Mutant of MarkDegraded: the mark is not saved.
MarkUnsaved(n) ==
    /\ up
    /\ n \in DOMAIN nodes
    /\ nodes' = [nodes EXCEPT
           ![n].state = "degraded",
           ![n].last_heartbeat = BackDated(nodes[n].last_heartbeat)]
    /\ marked' = marked \cup {n}
    /\ UNCHANGED <<up, pending, disk, clock, sweepVars, saved, contacted>>

\* Mutant of MarkDegraded: only the state is changed, not the stamp.
MarkKeepsStamp(n) ==
    /\ up
    /\ n \in DOMAIN nodes
    /\ nodes' = [nodes EXCEPT ![n].state = "degraded"]
    /\ Persist(nodes')
    /\ marked' = marked \cup {n}
    /\ UNCHANGED <<up, pending, clock, sweepVars, contacted>>

\* mark_degraded: leaves _pending_reconfirmation alone.
MarkDegraded(n) ==
    /\ up
    /\ n \in DOMAIN nodes
    /\ nodes' = [nodes EXCEPT
           ![n].state = "degraded",
           ![n].last_heartbeat = BackDated(nodes[n].last_heartbeat)]
    /\ Persist(nodes')
    /\ marked' = marked \cup {n}
    /\ UNCHANGED <<up, pending, clock, sweepVars, contacted>>

SetInferenceEnabled(n, enabled) ==
    /\ up
    /\ n \in DOMAIN nodes
    /\ nodes' = [nodes EXCEPT ![n].inference_enabled = enabled]
    /\ Persist(nodes')
    /\ UNCHANGED <<up, pending, clock, sweepVars, contacted, marked>>

SetCpuOffloadEnabled(n, enabled) ==
    /\ up
    /\ n \in DOMAIN nodes
    /\ nodes' = [nodes EXCEPT ![n].cpu_offload_enabled = enabled]
    /\ Persist(nodes')
    /\ UNCHANGED <<up, pending, clock, sweepVars, contacted, marked>>

(***************************************************************************)
(* sweep_stale.  One thread of the coordinator calls it periodically, so   *)
(* at most one call is in progress.                                        *)
(***************************************************************************)
SweepRead ==
    /\ up
    /\ ~sweeping
    /\ sweeping' = TRUE
    /\ sweepNow' = clock
    /\ UNCHANGED <<up, nodes, pending, disk, clock, changed, saved, contacted,
                   marked>>

SweepAge(n) == sweepNow - nodes[n].last_heartbeat

\* Mutant of Expired: a node the state file brought back is waited for forever.
NeverExpired == {}

\* Restored nodes whose last heartbeat is now too old to wait for them.
Expired == {n \in pending : SweepAge(n) > UnreachableSec}

StateOfAge(age) ==
    CASE age > UnreachableSec -> "unreachable"
      [] age > DegradedSec /\ age <= UnreachableSec -> "degraded"
      [] age <= DegradedSec -> "online"

\* Mutant of SweptState: restored nodes are swept like the others.
SweptLikeOthers(n) == StateOfAge(SweepAge(n))

\* A restored node waiting for its first report is only ever given up on.
SweptState(n) ==
    IF n \in Expired THEN "unreachable"
    ELSE IF n \in pending THEN nodes[n].state ELSE StateOfAge(SweepAge(n))

SweepRun ==
    /\ up
    /\ sweeping
    /\ sweeping' = FALSE
    /\ nodes' = [n \in DOMAIN nodes |->
                    [nodes[n] EXCEPT !.state = SweptState(n)]]
    /\ pending' = pending \ Expired
    /\ changed' = {n \in DOMAIN nodes \ pending : SweptState(n) # nodes[n].state}
    /\ IF changed' # {} THEN Persist(nodes') ELSE UNCHANGED <<disk, saved>>
    /\ UNCHANGED <<up, clock, sweepNow, contacted, marked>>

(***************************************************************************)
(* The environment: time, and the coordinator stopping and starting.  A    *)
(* stop between a mutation and its save is a failed save followed by Crash.*)
(***************************************************************************)
Tick ==
    /\ clock < MaxClock
    /\ clock' = clock + 1
    /\ UNCHANGED <<up, nodes, pending, disk, sweepVars, saved, contacted, marked>>

Crash ==
    /\ up
    /\ up' = FALSE
    /\ nodes' = NoNodes
    /\ pending' = {}
    /\ sweeping' = FALSE
    /\ changed' = {}
    /\ contacted' = {}
    /\ marked' = {}
    /\ UNCHANGED <<disk, clock, sweepNow, saved>>

\* _load_state: records too old to matter are skipped, the others come back
\* unreachable and waiting for reconfirmation.
Stale(r) == clock - r.last_heartbeat > UnreachableSec

\* Mutant of Restored: the saved connection state is believed.
RestoredAsSaved == [n \in {m \in DOMAIN disk : ~Stale(disk[m])} |-> disk[n]]

Restored == [n \in {m \in DOMAIN disk : ~Stale(disk[m])} |->
                [disk[n] EXCEPT !.state = "unreachable"]]

\* A file that cannot be read or parsed is an empty registry.
Restart(readable) ==
    /\ ~up
    /\ up' = TRUE
    /\ nodes' = IF readable THEN Restored ELSE NoNodes
    /\ pending' = DOMAIN nodes'
    /\ saved' = TRUE
    /\ UNCHANGED <<disk, clock, sweepVars, contacted, marked>>

Init ==
    /\ up = TRUE
    /\ nodes = NoNodes
    /\ pending = {}
    /\ disk = NoNodes
    /\ clock = 0
    /\ sweeping = FALSE
    /\ sweepNow = 0
    /\ changed = {}
    /\ saved = TRUE
    /\ contacted = {}
    /\ marked = {}

Reports(n) ==
    \/ \E a \in AndroidKinds : Upsert(n, a) \/ UpdateCapability(n, a)
    \/ \E critical \in BOOLEAN : Heartbeat(n, critical)

OffloadPolicy(n) == \E e \in OffloadChoices : SetCpuOffloadEnabled(n, e)

Operator(n) ==
    \/ Remove(n)
    \/ \E enabled \in BOOLEAN : SetInferenceEnabled(n, enabled)
    \/ OffloadPolicy(n)

Background ==
    \/ SweepRead
    \/ SweepRun
    \/ Tick
    \/ Crash
    \/ \E readable \in LoadOutcomes : Restart(readable)

Next ==
    \/ \E n \in Node : Reports(n) \/ MarkDegraded(n) \/ Operator(n)
    \/ Background

Spec == Init /\ [][Next]_vars

\* The coordinator's sweeper runs periodically and never gives up the lock
\* forever; nothing is assumed of nodes, operator, crashes or restarts.
FairSpec == Spec /\ WF_vars(SweepRead) /\ WF_vars(SweepRun)

(***************************************************************************)
(* Properties.                                                             *)
(***************************************************************************)

\* The types of the variables, and the nesting of the sets of ids.
TypeOK ==
    /\ up \in BOOLEAN
    /\ DOMAIN nodes \subseteq Node /\ \A n \in DOMAIN nodes : nodes[n] \in NodeRecord
    /\ pending \subseteq DOMAIN nodes
    /\ DOMAIN disk \subseteq Node /\ \A n \in DOMAIN disk : disk[n] \in NodeRecord
    /\ clock \in Nat
    /\ sweeping \in BOOLEAN
    /\ sweepNow \in Nat /\ sweepNow <= clock
    /\ changed \subseteq Node
    /\ saved \in BOOLEAN
    /\ contacted \subseteq DOMAIN nodes
    /\ marked \subseteq DOMAIN nodes

\* A node restored from the state file is never online, and so never counted
\* ready, before it reports to this process: neither the sweep that gives up
\* on it nor any later sweep may revive it on the strength of the old stamp.
UnconfirmedNeverOnline ==
    \A n \in DOMAIN nodes : n \notin contacted => nodes[n].state # "online"

\* A node degraded on purpose (mark_degraded, or critical memory on an Android)
\* stays out of the inference pool until it reports again, whatever sweeps,
\* even those that read the clock before the mark, do to its state; while it is
\* in the pool and enabled, it is listed among the nodes that are not ready.
MarkHolds ==
    /\ marked \cap InferenceReady(clock) = {}
    /\ {n \in marked \cap Active : nodes[n].inference_enabled}
          \subseteq NotReadyForInference(clock)

\* As long as the latest save succeeded, a restart finds the stamp, policy and
\* class of every node known now: no mutator forgets to save, and the next save
\* that succeeds makes up for those that failed.  What the file holds between a
\* failed save and that one it leaves open (_persist_state, registry.py:349).
Durable(r) == <<r.last_heartbeat, r.inference_enabled, r.cpu_offload_enabled, r.android>>
DiskCurrent ==
    saved => \A n \in DOMAIN nodes :
                n \in DOMAIN disk /\ Durable(disk[n]) = Durable(nodes[n])

\* While the coordinator runs, the operator's policy for a node it keeps is
\* changed by the operator only: no report, sweep or degradation touches it.
PolicyStep ==
    up /\ up' =>
      \A n \in DOMAIN nodes \cap DOMAIN nodes' :
         /\ nodes'[n].inference_enabled # nodes[n].inference_enabled
              => \E e \in BOOLEAN : SetInferenceEnabled(n, e)
         /\ nodes'[n].cpu_offload_enabled # nodes[n].cpu_offload_enabled
              => \E e \in OffloadChoices : SetCpuOffloadEnabled(n, e)
PolicyOnlyByOperator == [][PolicyStep]_vars

\* A node that left the pool comes back by a report or a deliberate mark only: no
\* sweep revives it, however old the clock reading it waited with, not even a
\* restored node whose stamp is recent.
NoRevivalStep ==
    SweepRun => \A n \in DOMAIN nodes :
                    nodes[n].state = "unreachable" => nodes'[n].state = "unreachable"
NoRevival == [][NoRevivalStep]_vars

\* The registry implements the pool it promises to schedulers.
Pool == INSTANCE InferencePool WITH heard <- contacted,
                                    ready <- InferenceReady(clock)
PoolRefinement == Pool!PoolSpec

\* A node whose heartbeats stopped for longer than the unreachable threshold is
\* dropped by a sweep, and given up on if it was awaiting reconfirmation, unless
\* it reports, is removed or the coordinator stops first.
SilentDropped ==
    \A n \in Node :
        ( up /\ n \in DOMAIN nodes
             /\ clock - nodes[n].last_heartbeat > UnreachableSec )
        ~> ( ~up \/ n \notin DOMAIN nodes
                 \/ clock - nodes[n].last_heartbeat <= UnreachableSec
                 \/ (nodes[n].state = "unreachable" /\ n \notin pending) )
=============================================================================
