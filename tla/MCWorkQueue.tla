----------------------------- MODULE MCWorkQueue -----------------------------
(* WorkQueue for TLC: a low mark among the high ones, clients that may      *)
(* defer a run.                                                             *)
EXTENDS WorkQueue

High == {1, 2}
Low == {0, 1}
MayDefer == {TRUE, FALSE}
=============================================================================
