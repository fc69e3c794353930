------------------------------- MODULE MCPhotos -------------------------------
(* Photos on small instances.                                              *)
EXTENDS Photos, TLC

Sym == Permutations(Worker) \cup Permutations(Key)
===============================================================================
