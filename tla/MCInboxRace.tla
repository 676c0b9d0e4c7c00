----------------------------- MODULE MCInboxRace -----------------------------
(* Instances of InboxRace for TLC: bob follows and undoes, carol follows,   *)
(* and bob accepts the local actor's follow.                                *)
EXTENDS InboxRace, TLC

CONSTANTS bob, carol, f1, f2, u1, a1

MCSender == [m \in {f1, f2, u1, a1} |-> IF m = f2 THEN carol ELSE bob]
=============================================================================
