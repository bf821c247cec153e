---------------------------- MODULE MCChildPipes ----------------------------
(* Instances of ChildPipes for TLC. *)
EXTENDS ChildPipes
=============================================================================
