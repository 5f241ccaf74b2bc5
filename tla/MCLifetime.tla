----------------------------- MODULE MCLifetime -----------------------------
(* Lifetime for TLC: b on a and r, a on r.                                 *)
EXTENDS Lifetime

Triangle == [x \in {"r", "a", "b"} |->
               CASE x = "r" -> {} [] x = "a" -> {"r"} [] x = "b" -> {"r", "a"}]
=============================================================================
