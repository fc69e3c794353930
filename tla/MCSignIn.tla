------------------------------- MODULE MCSignIn -------------------------------
(* SignIn on small instances.                                              *)
EXTENDS SignIn, TLC

Sym == Permutations(Tab) \cup Permutations(Email) \cup Permutations(Link)
           \cup Permutations(Session) \cup Permutations(Nonce)
===============================================================================
