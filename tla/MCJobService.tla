---------------------------- MODULE MCJobService ----------------------------
(* TLC instances of JobService.                                            *)
EXTENDS JobService, TLC

\* Requests of one kind, and jobs, are interchangeable (safety runs only).
Interchangeable ==
    Permutations(Jobs) \cup Permutations(Runs) \cup Permutations(Discards)
=============================================================================
