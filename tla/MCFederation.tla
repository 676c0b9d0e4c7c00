---------------------------- MODULE MCFederation ----------------------------
(* An instance of Federation for TLC: a local author and two remote actors  *)
(* that follow, one of whom leaves again.                                   *)
EXTENDS Federation, TLC

CONSTANTS alice, bob, carol, x, f1, f2, u1, n1

MCDomain == [z \in Actors |-> IF z = alice THEN "here" ELSE x]
MCHandle == [z \in Actors |-> z]
MCInbox  == [z \in Actors |-> z]
MCNotes  == [z \in Actors |-> IF z = alice THEN {n1} ELSE {}]

MCIntervals == <<1, 1>>

ByUri(i, t, a, o) ==
    [id |-> i, type |-> t, actor |-> a, object |-> o, embedded |-> FALSE,
     inner |-> [type |-> "none", object |-> NoUri, content |-> NoContent]]

MCMessages ==
    { ByUri(f1, "Follow", bob, alice),
      ByUri(f2, "Follow", carol, alice),
      ByUri(u1, "Undo", carol, f2) }
=============================================================================
