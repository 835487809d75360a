---------------------------- MODULE OneTimeCode ----------------------------
(***************************************************************************)
(* What a pairing code of the gateway setup promises: once handed out it   *)
(* admits at most one gateway, and a code that is closed, because it was   *)
(* used, ran out or was withdrawn, never admits one again.                 *)
(***************************************************************************)
CONSTANTS Codes, Gateways

VARIABLES
    state,     \* of a code: "none", "open" or "closed"
    admitted   \* the gateways that were told a token for a code

vars == <<state, admitted>>

Init ==
    /\ state = [c \in Codes |-> "none"]
    /\ admitted = [c \in Codes |-> {}]

Issue(c) ==
    /\ state[c] = "none"
    /\ state' = [state EXCEPT ![c] = "open"]
    /\ UNCHANGED admitted

Admit(c, g) ==
    /\ state[c] = "open"
    /\ state' = [state EXCEPT ![c] = "closed"]
    /\ admitted' = [admitted EXCEPT ![c] = {g}]

\* Codes run out, are withdrawn, or are used by someone who never hears the answer;
\* handing out a code may close others.
Close(C) ==
    /\ \A c \in C : state[c] = "open"
    /\ state' = [c \in Codes |-> IF c \in C THEN "closed" ELSE state[c]]
    /\ UNCHANGED admitted

Next ==
    \/ \E c \in Codes : Issue(c) \/ (\E g \in Gateways : Admit(c, g))
    \/ \E C \in SUBSET Codes : Close(C)

Spec == Init /\ [][Next]_vars

=============================================================================
