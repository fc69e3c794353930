----------------------------- MODULE MCPublicCache -----------------------------
(* PublicCache on a small instance.                                        *)
EXTENDS PublicCache
================================================================================
