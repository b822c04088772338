---------------------------- MODULE CommandService ----------------------------
(***************************************************************************)
(* What a node agent promises to whoever issues commands: it has one       *)
(* command in hand at a time, finishes it before it answers, and takes     *)
(* another only when the coordinator has the answer to the one before, or  *)
(* when that was lost.  A command that was answered is never taken again.  *)
(*                                                                         *)
(* Requests, registrations, pulses, command lines and both sides' restarts *)
(* are left out.  CommandLoop.tla is shown to implement this, by TLC on a  *)
(* small instance and by proof in CommandLoopProofs.tla.                   *)
(***************************************************************************)
CONSTANTS Command, Nothing

VARIABLES
    issued,     \* commands issued so far
    hand,       \* the command the agent has in hand
    phase,      \* of that command: "working" or "done"; "idle" without one
    sent,       \* an answer that is under way although its sender gave up on it
    answered    \* commands whose answer the coordinator has

serviceVars == <<issued, hand, phase, sent, answered>>

ServiceInit ==
    /\ issued = {} /\ answered = {}
    /\ hand = Nothing /\ sent = Nothing
    /\ phase = "idle"

IssueCommand(c) ==
    /\ c \notin issued
    /\ issued' = issued \cup {c}
    /\ UNCHANGED <<hand, phase, sent, answered>>

\* The answer is given and another command taken, if there is one, in one exchange.
Exchange(c) ==
    /\ phase # "working"
    /\ answered' = answered \cup ({hand} \ {Nothing})
    /\ c \in (issued \ answered') \cup {Nothing}
    /\ hand' = c
    /\ phase' = IF c = Nothing THEN "idle" ELSE "working"
    /\ UNCHANGED <<issued, sent>>

Complete ==
    /\ phase = "working"
    /\ phase' = "done"
    /\ UNCHANGED <<issued, hand, sent, answered>>

\* The answer arrives, and the agent does not learn of it.
Deliver ==
    /\ phase = "done"
    /\ answered' = answered \cup {hand}
    /\ UNCHANGED <<issued, hand, phase, sent>>

\* The answer stays under way, while the agent will send it again.
Delay ==
    /\ phase = "done"
    /\ sent = Nothing
    /\ sent' = hand
    /\ UNCHANGED <<issued, hand, phase, answered>>

\* What was under way arrives, or is turned away.
Arrive ==
    /\ sent # Nothing
    /\ sent' = Nothing
    /\ answered' \in {answered, answered \cup {sent}}
    /\ UNCHANGED <<issued, hand, phase>>

\* The agent loses what it has in hand.
Lose ==
    /\ hand # Nothing
    /\ hand' = Nothing
    /\ phase' = "idle"
    /\ UNCHANGED <<issued, sent, answered>>

ServiceNext ==
    \/ \E c \in Command : IssueCommand(c)
    \/ \E c \in Command \cup {Nothing} : Exchange(c)
    \/ Complete \/ Deliver \/ Delay \/ Arrive \/ Lose

ServiceSpec == ServiceInit /\ [][ServiceNext]_serviceVars
=============================================================================
