--------------------------- MODULE MCJobLifecycle ---------------------------
(* Small instances of JobLifecycle for TLC. *)
EXTENDS JobLifecycle, TLC

CONSTANTS j1, w1, w2, t1, t2, t3, nobody

OneJob     == {j1}
OneWorker  == {w1}
TwoWorkers == {w1, w2}

\* Worker w1 may run two handlers at once after its channel was replaced.
OneTask    == {t1}
ThreeTasks == {t1, t2, t3}
MCWorkerOf == [t \in Tasks |-> IF t = t3 THEN w2 ELSE w1]

\* The two handler slots of w1 are interchangeable.
SlotSymmetry == Permutations({t1, t2})

NoFaults == {}
\* Failures after which the system recovers by itself.
Recoverable == {"publish", "crash", "channel", "lock_error", "write_error",
                "rec_error", "sweep_error"}
=============================================================================
