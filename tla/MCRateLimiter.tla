---------------------------- MODULE MCRateLimiter ----------------------------
(***************************************************************************)
(* Two callers, a limit of 4 tokens in a window of 3 ticks, estimates that *)
(* fit alone, fit together and never fit, and calls that use less and more *)
(* than they reserved.                                                     *)
(***************************************************************************)
EXTENDS RateLimiter

=============================================================================
