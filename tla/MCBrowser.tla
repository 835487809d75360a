----------------------------- MODULE MCBrowser -----------------------------
(* Instances of Browser for TLC. *)
EXTENDS Browser

CONSTANTS i1, i2, h1, r1, r2

Apart == {[x \in Things |-> CASE x = i1 -> r1 [] x = i2 -> r2 [] x = h1 -> r1 [] OTHER -> Null]}

=============================================================================
