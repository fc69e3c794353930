------------------------------- MODULE MCBackup -------------------------------
(* Backup on a small instance.  Processes are interchangeable.             *)
EXTENDS Backup, TLC

ProcSymmetry == Permutations(Proc)
===============================================================================
