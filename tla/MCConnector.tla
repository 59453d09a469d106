----------------------------- MODULE MCConnector -----------------------------
(***************************************************************************)
(* A small instance of Connector for TLC: two messages in one queue, one   *)
(* in two others, and one that stays empty.                                *)
(***************************************************************************)
EXTENDS Connector

MCMaxSent == [user |-> 2, agent |-> 1, req |-> 1, resp |-> 0]
=============================================================================
