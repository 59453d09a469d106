------------------------------- MODULE MCAgent -------------------------------
(***************************************************************************)
(* Small instances of Agent for TLC.                                       *)
(***************************************************************************)
EXTENDS Agent

CONSTANTS c1, c2

\* One good call, or a good and a bad one in one reply.
MCCallSeqs == {<<c1>>, <<c1, c2>>}

\* Files start absent, or one was left there by something else.
Absent    == [kind |-> "absent", msgs |-> <<>>]
Malformed == [kind |-> "malformed", msgs |-> <<>>]
Foreign   == [kind |-> "foreign", msgs |-> <<>>]

\* A save of an earlier session with an open request at its end.
OldSave == [kind |-> "saved", msgs |-> <<UserMessage(0)>>]

MCFiles == {Absent, Foreign, OldSave}

\* Approvals are explored for two messages and without files.
MCFewWithApprovals ==
    verbose \/ asks > 0 =>
        /\ sent <= 2
        /\ \A p \in Paths : files[p] = Absent
        /\ \A n \in Names : ~savePoints[n].set
=============================================================================
