---------------------------- MODULE MCQueueTable ----------------------------
(* The instances of QueueTable that TLC checks. *)
EXTENDS QueueTable, TLC

\* The callers of the packet manager are interchangeable, and so are the others.
UserSymmetry == Permutations(Users) \cup Permutations(Threads \ Users)
=============================================================================
