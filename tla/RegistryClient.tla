--------------------------- MODULE RegistryClient ---------------------------
(***************************************************************************)
(* The registry together with the two parties that rely on it: a thread    *)
(* that asks inference_ready_nodes for the nodes to run on, and an operator*)
(* who excludes nodes from inference and expects them to stay excluded.    *)
(*                                                                         *)
(* inference_ready_nodes, like sweep_stale, reads the clock before it takes*)
(* the lock: the question is two actions, AskRead and AskRun, between which*)
(* reports, sweeps, degradations and even a removal may happen.            *)
(***************************************************************************)
EXTENDS Registry

VARIABLES
    asking,         \* a call has read the clock and wants the lock
    askNow,         \* the clock value it read
    answer,         \* the nodes the latest call returned
    markedSince,    \* history: nodes degraded on purpose since AskRead
    excluded        \* history: nodes the operator excluded, and never
                    \* re-admitted or removed

clientVars == <<asking, askNow, answer, markedSince, excluded>>
allVars == <<vars, clientVars>>

ClientInit ==
    /\ Init
    /\ asking = FALSE
    /\ askNow = 0
    /\ answer = {}
    /\ markedSince = {}
    /\ excluded = {}

AskRead ==
    /\ up
    /\ ~asking
    /\ asking' = TRUE
    /\ askNow' = clock
    /\ markedSince' = {}
    /\ UNCHANGED <<vars, answer, excluded>>

AskRun ==
    /\ up
    /\ asking
    /\ asking' = FALSE
    /\ answer' = InferenceReady(askNow)
    /\ UNCHANGED <<vars, askNow, markedSince, excluded>>

\* The registry's own steps, with what they mean to its clients.
Deliberate(n) ==
    /\ MarkDegraded(n) \/ Heartbeat(n, TRUE)
    /\ markedSince' = markedSince \cup (marked' \cap {n})
    /\ UNCHANGED <<asking, askNow, answer, excluded>>

Exclude(n) ==
    /\ SetInferenceEnabled(n, FALSE)
    /\ excluded' = excluded \cup {n}
    /\ UNCHANGED <<asking, askNow, answer, markedSince>>

Readmit(n) ==
    /\ SetInferenceEnabled(n, TRUE) \/ Remove(n)
    /\ excluded' = excluded \ {n}
    /\ UNCHANGED <<asking, askNow, answer, markedSince>>

\* A restart starts without callers.
Stop ==
    /\ Crash
    /\ asking' = FALSE
    /\ answer' = {}
    /\ markedSince' = {}
    /\ UNCHANGED <<askNow, excluded>>

Other ==
    /\ \/ \E n \in Node : \/ Heartbeat(n, FALSE)
                          \/ OffloadPolicy(n)
                          \/ \E a \in AndroidKinds : \/ Upsert(n, a)
                                                     \/ UpdateCapability(n, a)
       \/ SweepRead \/ SweepRun \/ Tick
       \/ \E readable \in LoadOutcomes : Restart(readable)
    /\ UNCHANGED clientVars

ClientNext ==
    \/ \E n \in Node : Deliberate(n) \/ Exclude(n) \/ Readmit(n)
    \/ AskRead
    \/ AskRun
    \/ Stop
    \/ Other

ClientSpec == ClientInit /\ [][ClientNext]_allVars

\* A node degraded on purpose before inference_ready_nodes was called is not in
\* its answer unless it has reported since, although the call uses a clock
\* reading as old as the wait for the lock and a sweep with an older reading may
\* have put the node back online in between.
AnswerExcludesMarked ==
    [][ AskRun => answer' \cap (marked \ markedSince) = {} ]_allVars

\* registry.py:81 "Preserve explicit operator policy across re-register
\* events": a node the operator excluded is not enabled by registering again.
ExclusionSurvives ==
    \A n \in excluded \cap DOMAIN nodes : ~nodes[n].inference_enabled
=============================================================================
