--------------------------- MODULE InferencePool ---------------------------
(***************************************************************************)
(* What the node registry promises to whoever schedules inference on the   *)
(* cluster: the pool of nodes it offers ("ready") only ever grows because  *)
(* a node reported in person, or because the operator enabled a node that  *)
(* has reported since this coordinator started.  Time passing, sweeps,     *)
(* degradations and restarts can only shrink it.                           *)
(*                                                                         *)
(* Registry.tla is shown to implement this specification, by TLC on small  *)
(* instances and by proof in RegistryProofs.tla.                           *)
(***************************************************************************)
CONSTANT Node

VARIABLES
    heard,      \* nodes that reported since the coordinator started
    ready       \* nodes offered for inference

poolVars == <<heard, ready>>

PoolInit == heard = {} /\ ready = {}

\* A node registers or heartbeats; it may or may not become ready by it
\* (a policy may exclude it, its memory may be critical).
Report(n) ==
    /\ heard' = heard \cup {n}
    /\ ready' \in {ready \cup {n}, ready \ {n}}

\* The operator lets a node that is alive take part again.
Admit(n) ==
    /\ n \in heard
    /\ ready' = ready \cup {n}
    /\ UNCHANGED heard

\* Silence, a degradation or the operator take nodes out.
Lose ==
    /\ ready' \subseteq ready
    /\ UNCHANGED heard

\* A node is forgotten.
Forget(n) ==
    /\ heard' = heard \ {n}
    /\ ready' = ready \ {n}

\* The coordinator stops: nothing is offered until nodes report again.
Reset == heard' = {} /\ ready' = {}

PoolNext ==
    \/ \E n \in Node : Report(n) \/ Admit(n) \/ Forget(n)
    \/ Lose
    \/ Reset

PoolSpec == PoolInit /\ [][PoolNext]_poolVars
=============================================================================
