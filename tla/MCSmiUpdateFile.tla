-------------------------- MODULE MCSmiUpdateFile --------------------------
(* Instance of SmiUpdateFile: the processes are interchangeable.             *)
EXTENDS SmiUpdateFile, TLC

Processes == Permutations(Proc)
=============================================================================
