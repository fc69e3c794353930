-------------------------------- MODULE MCMail --------------------------------
(* Mail on a small instance.                                               *)
EXTENDS Mail
===============================================================================
