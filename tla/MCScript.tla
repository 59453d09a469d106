------------------------------ MODULE MCScript ------------------------------
(***************************************************************************)
(* A small instance of Script for TLC: requests and two commands, one that *)
(* may kill the agent's thread.                                            *)
(***************************************************************************)
EXTENDS Script

CONSTANTS c1, c2

MCCallSeqs == {<<c1>>, <<c1, c2>>}

MCLines == [command : {"user", "reset", "save"}, arg : {None}]
=============================================================================
