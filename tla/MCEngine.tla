------------------------------ MODULE MCEngine ------------------------------
(* Small instances of Engine; the configurations choose among these values. *)
EXTENDS Engine, TLC

Recurring(overlap) == [kind |-> "recurring", runAt |-> 0, overlap |-> overlap,
                       paused |-> FALSE, completed |-> FALSE]
Once(runAt) == [kind |-> "once", runAt |-> runAt, overlap |-> FALSE,
                paused |-> FALSE, completed |-> FALSE]

RecurringSeed == Recurring(FALSE)
OnceSeed == Once(10)

NoInputs == {}
RecurringInputs == {Recurring(FALSE), Recurring(TRUE)}
OnceInputs == {Once(10), Once(20)}
OverlappingOnce == {[Once(10) EXCEPT !.overlap = TRUE]}

AttemptSymmetry == Permutations(Attempts)
=============================================================================
