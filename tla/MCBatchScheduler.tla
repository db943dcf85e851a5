-------------------------- MODULE MCBatchScheduler --------------------------
(***************************************************************************)
(* BatchScheduler for TLC: three prompts of one tree, two of a batch and   *)
(* one of a sub-agent; or one batch of two.                                *)
(***************************************************************************)
EXTENDS BatchScheduler

Two == 1..2
Three == 1..3
OneTree == {"t"}

\* one turn of the root session with two calls, one prompt of a sub-agent
SessionOf3 == <<"root", "root", "sub">>
TreeOf3 == <<"t", "t", "t">>
BatchOf3 == <<"m1", "m1", "m2">>

\* one batch of two
SessionOf1 == <<"root", "root">>
TreeOf1 == <<"t", "t">>
BatchOf1 == <<"m1", "m1">>
=============================================================================
