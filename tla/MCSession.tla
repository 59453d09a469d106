------------------------------ MODULE MCSession ------------------------------
(***************************************************************************)
(* Small instances of Session for TLC: requests, commands that change the  *)
(* context, and commands that do not; no files and no save points, which   *)
(* MCAgent covers.                                                         *)
(***************************************************************************)
EXTENDS Session

CONSTANTS c1, c2

MCCallSeqs == {<<c1>>, <<c1, c2>>}

MCTyped == [command : {"user", "reset", "notice"}, arg : {None}]
=============================================================================
