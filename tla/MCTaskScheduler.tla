--------------------------- MODULE MCTaskScheduler ---------------------------
(* A small instance of TaskScheduler for TLC.                               *)
EXTENDS TaskScheduler

CONSTANTS t1, t2, t3, t4

\* Task id 0 is excluded from all of task id 2 and from instance 0 of task id 1.
MCRules == [g \in Groups |->
              IF g = 0 THEN <<[match_id |-> 2, match_instance |-> -1],
                              [match_id |-> 1, match_instance |-> 0]>>
              ELSE <<>>]

\* A task without instance, a task of an instance and two tasks of a group that
\* exclude it: the exit of t3 walks both deferq_ trees, t1 may find t2 running
\* when t3 has exited, and t4 is left waiting when t3 is started.
MCEntryOf == [t \in Tasks |-> CASE t = t1 -> <<0, -1>>
                                  [] t = t2 -> <<1, 0>>
                                  [] t \in {t3, t4} -> <<2, 0>>]
=============================================================================
