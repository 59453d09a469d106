----------------------------- MODULE MCTextReply -----------------------------
(***************************************************************************)
(* All dialects, and replies long enough for a slip that takes a call with  *)
(* it and for another call behind that.                                     *)
(***************************************************************************)
EXTENDS TextReply

MCDialects == {"ntcode", "xml", "json_block", "gemma"}
=============================================================================
