---------------------------- MODULE Compatibility ----------------------------
(***************************************************************************)
(* Does a GGUF model fit the pooled memory, and with how much context      *)
(* (check_model_compatibility_from_metadata in                             *)
(* src/daemon/ramdeck/compatibility.py)?                                   *)
(*                                                                         *)
(* The code estimates the memory of a context in two roundings up: bytes   *)
(* to MiB, and MiB to MiB with the safety margin.  The context it offers   *)
(* when the requested one does not fit comes from a division the other way *)
(* around, rounded once, and a loop then lowers it until the estimate      *)
(* agrees.  The questions are whether the two computations agree and where *)
(* the loop ends.                                                          *)
(*                                                                         *)
(* The figures are doubles in the code, and so they are here: a double is  *)
(* a whole number of grains, the finest fraction of a byte in play, and    *)
(* Near rounds a quotient to the nearest of them as the hardware does.     *)
(* The ratios are the doubles nearest to 1.1 and 1.2.  Mib, Grain and the  *)
(* spacings are powers of two, so that scaling by them rounds nothing; the *)
(* instances shrink all three and keep the roundings.                      *)
(*                                                                         *)
(* 0 stands for an absent (None) context, as it does in the code's "or"    *)
(* chains.                                                                 *)
(***************************************************************************)
EXTENDS Integers

CONSTANTS
    Mib,                        \* bytes in a MiB
    Grain,                      \* grains in a byte
    Digits,                     \* 2^52: doubles between 2^n and 2^(n+1)
    Spacings,                   \* grains from one double to the next
    WeightsNum, WeightsDen,     \* WEIGHTS_OVERHEAD
    MarginNum, MarginDen,       \* safety_margin
    MinContext,                 \* min_context
    DefaultContext,             \* the 2048 of a model that names no context
    FileSizes,                  \* file_size_bytes of the models asked about
    KvSizes,                    \* KV cache bytes per token; 0: not in the header
    NativeContexts,             \* native_context_length; 0: not in the header
    Requests,                   \* requested_context; 0: the caller names none
    Pools                       \* pooled_ram_mb

ASSUME RatiosAssumption ==
    /\ Mib \in Nat \ {0} /\ Grain \in Nat \ {0} /\ Digits \in Nat \ {0}
    /\ WeightsNum \in Nat \ {0} /\ WeightsDen \in Nat \ {0}
    /\ MarginDen \in Nat \ {0} /\ MarginNum \in Nat /\ MarginNum >= MarginDen
    /\ MinContext \in Nat \ {0} /\ DefaultContext \in Nat \ {0}

\* The spacings are powers of two from one grain up, as many as the figures
\* need, and the widest is at most half of what a token costs: beyond 2^50
\* bytes it would not be.
ASSUME SpacingsAssumption ==
    /\ Spacings \subseteq Nat \ {0} /\ 1 \in Spacings
    /\ \A S \in SUBSET Spacings :
          S # {} => \E widest \in S : \A s \in S : s <= widest
    /\ \A s, t \in Spacings : s <= t => \E k \in 1 .. t : t = s * k
    /\ \A s \in Spacings, k \in KvSizes : k > 0 => 2 * s <= k * Grain

ASSUME InputsAssumption ==
    /\ FileSizes \subseteq Nat /\ KvSizes \subseteq Nat
    /\ NativeContexts \subseteq Nat /\ Requests \subseteq Nat
    /\ Pools \subseteq Nat

VARIABLES
    size, kv, native,   \* the model: its file and what its header says
    request, pool,      \* the question
    phase,              \* "asked" -> "lowering" -> "reported"
    state,              \* CompatibilityState
    context             \* safe_context_size

inputs == <<size, kv, native, request, pool>>
vars == <<inputs, phase, state, context>>

CeilDiv(a, b) == -((-a) \div b)
Smaller(a, b) == IF a < b THEN a ELSE b

\* requested_context or metadata.native_context_length or 2048
Requested ==
    IF request > 0 THEN request ELSE IF native > 0 THEN native ELSE DefaultContext

\* How far apart the doubles are where n lies.
Spacing(n) ==
    CHOOSE s \in Spacings :
        /\ s = 1 \/ s * Digits <= n
        /\ \A t \in Spacings : t * Digits <= n => t <= s

\* The double nearest to a / b; of two, the one with an even last digit.
Near(a, b) ==
    LET s == Spacing(a \div b)
        q == a \div (b * s)
        r == a - (b * s) * q
    IN  IF 2 * r < b * s \/ (2 * r = b * s /\ q % 2 = 0) THEN s * q
        ELSE s * (q + 1)

Row == Mib * Grain  \* grains in a MiB

Weights == Near(WeightsNum * (size * Grain), WeightsDen)

\* estimate_required_mb: weights with their overhead, and the KV cache.
RequiredMb(c) == CeilDiv(Near(Weights + kv * Grain * c, 1), Row)

\* Mutant of WithMargin: the margin is put on a figure that already has it.
WithMarginTwice(mb) ==
    CeilDiv(Near(MarginNum * (Row * CeilDiv(MarginNum * mb, MarginDen)), MarginDen), Row)

\* math.ceil(required_mb * safety_margin)
WithMargin(mb) == CeilDiv(Near(MarginNum * (Row * mb), MarginDen), Row)

Fits(c) == WithMargin(RequiredMb(c)) <= pool

Usable == Near(MarginDen * (Row * pool), MarginNum)

\* Mutant of Spare: the weights are given the margin that the pool has lost.
SpareMarginTwice ==
    LET weights == Near(MarginNum * Weights, MarginDen)
    IN  IF Usable <= weights THEN 0 ELSE Near(Usable - weights, 1)

\* What the pool leaves beside the weights.
Spare == IF Usable <= Weights THEN 0 ELSE Near(Usable - Weights, 1)

\* safe_context_ceiling: the native context when the header does not say what a
\* token costs, None (0) when the weights alone exceed the pool.
SafeCeiling ==
    IF kv = 0 THEN native
    ELSE Spare \div (kv * Grain)

Init ==
    /\ size \in FileSizes /\ kv \in KvSizes /\ native \in NativeContexts
    /\ request \in Requests /\ pool \in Pools
    /\ phase = "asked"
    /\ state = "unknown"
    /\ context = 0

\* The requested context fits as it is.
JudgeFits ==
    /\ phase = "asked"
    /\ Fits(Requested)
    /\ phase' = "reported"
    /\ state' = "fits"
    /\ context' = Requested
    /\ UNCHANGED inputs

\* The ceiling is high enough to be of use: start from it.
JudgeReduced ==
    /\ phase = "asked"
    /\ ~Fits(Requested)
    /\ SafeCeiling >= MinContext
    /\ phase' = "lowering"
    /\ state' = "fits_with_reduced_context"
    /\ context' = Smaller(SafeCeiling, Requested)
    /\ UNCHANGED inputs

JudgeDoesNotFit ==
    /\ phase = "asked"
    /\ ~Fits(Requested)
    /\ SafeCeiling < MinContext
    /\ phase' = "reported"
    /\ state' = "does_not_fit"
    /\ context' = SafeCeiling
    /\ UNCHANGED inputs

\* Mutant of Lower: the context is halved instead of lowered by one.
LowerByHalf ==
    /\ phase = "lowering"
    /\ context > 0 /\ ~Fits(context)
    /\ context' = context \div 2
    /\ UNCHANGED <<inputs, phase, state>>

\* One turn of the loop.
Lower ==
    /\ phase = "lowering"
    /\ context > 0 /\ ~Fits(context)
    /\ context' = context - 1
    /\ UNCHANGED <<inputs, phase, state>>

\* The loop's condition is false: the report is written.
Report ==
    /\ phase = "lowering"
    /\ ~(context > 0 /\ ~Fits(context))
    /\ phase' = "reported"
    /\ UNCHANGED <<inputs, state, context>>

Next == JudgeFits \/ JudgeReduced \/ JudgeDoesNotFit \/ Lower \/ Report

Spec == Init /\ [][Next]_vars

(***************************************************************************)
(* Properties.                                                             *)
(***************************************************************************)

TypeOK ==
    /\ size \in Nat /\ kv \in KvSizes /\ native \in Nat
    /\ request \in Nat /\ pool \in Nat
    /\ phase \in {"asked", "lowering", "reported"}
    /\ state \in {"unknown", "fits", "fits_with_reduced_context", "does_not_fit"}
    /\ context \in Nat

\* Of the contexts above the one offered, up to the one requested, at most the
\* next would fit by the code's own estimate: the ceiling and the estimate round
\* the same figures differently, and that costs a token at most; and the loop
\* never passes over a context that fits (compatibility.py:219 to 226).
OfferWithinOne ==
    state = "fits_with_reduced_context" =>
        \A c \in (context + 2) .. Requested : ~Fits(c)

\* A model is turned away only if no context above the minimum would fit,
\* although the verdict looks at the ceiling only; the minimum itself may be
\* lost to the rounding of the ceiling (compatibility.py:218 and 228).
RejectionWithinOne ==
    state = "does_not_fit" => \A c \in (MinContext + 1) .. Requested : ~Fits(c)

\* The tokens that rounding up to a MiB can cost, and one for the doubles.
RoundingLoss == CeilDiv(Mib, kv) + 1

\* When the header says what a token costs, the loop ends within RoundingLoss
\* tokens of where it began, at a context that fits: of a realistic model only
\* a few tokens are lost, and the report's own figures agree with its verdict
\* (compatibility.py:223 to 226).
ReducedIsClose ==
    state = "fits_with_reduced_context" /\ kv > 0 =>
        /\ context + RoundingLoss >= Smaller(SafeCeiling, Requested)
        /\ phase = "reported" /\ RoundingLoss < MinContext /\ RoundingLoss < Requested
              => Fits(context)
=============================================================================
