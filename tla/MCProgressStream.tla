-------------------------- MODULE MCProgressStream --------------------------
(* Small instances of ProgressStream for TLC. *)
EXTENDS ProgressStream

CONSTANTS j1, j2, w1, c1, nobody, sweeper

TwoJobs   == {j1, j2}
OneJob    == {j1}
OneWorker == {w1}
OneCard   == {c1}
FollowOne == [c \in Cards |-> j1]
=============================================================================
