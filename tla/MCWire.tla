------------------------------- MODULE MCWire -------------------------------
(***************************************************************************)
(* Wire with replies of every shape the adapters treat differently: text,  *)
(* none, empty text, thinking alone and before a call, one call and two,   *)
(* text behind a call, ids of the server, missing ids, other calls.        *)
(***************************************************************************)
EXTENDS Wire

MCAnthropicReplies ==
    {<<>>, <<"text">>, <<"empty">>, <<"opaque">>,
     <<"opaque", "empty", "call">>, <<"call", "text", "call">>}

MCServerReplies ==
    {[text |-> FALSE, calls |-> <<>>],
     [text |-> TRUE,  calls |-> <<>>],
     [text |-> FALSE, calls |-> <<"server">>],
     [text |-> TRUE,  calls |-> <<"missing", "other", "server">>]}
=============================================================================
