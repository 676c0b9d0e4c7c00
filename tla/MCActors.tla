------------------------------ MODULE MCActors ------------------------------
(* An instance of Actors for TLC: two local actors, one with the document   *)
(* this server shows, one with a document from before it was created here;  *)
(* bob, who rotates his key under the same id and under a new one, and      *)
(* sometimes publishes none; carol and dave, whose server shows one key for *)
(* all its actors and rotates it; a stub of carol whose URI ends in a       *)
(* number, and dave's name is that number.                                  *)
EXTENDS Actors, TLC

CONSTANTS alice, amy, bob, carol, dave

Key(i, p)       == [id |-> i, pem |-> p]
Doc(u, h, k, v) == [uri |-> u, handle |-> h, key |-> k, version |-> v]

MCLocalKey == [u \in Locals |-> Key(u, "pem1")]

MCStubHandle == [u \in Remotes |-> IF u = bob THEN "bob" ELSE "12"]

MCDocuments ==
    { Doc(bob, "bob", Key("bob#main-key", "pem1"), 1),
      Doc(bob, "bob", Key("bob#main-key", "pem2"), 2),
      Doc(bob, "bob", Key("bob#new-key", "pem3"), 3),
      Doc(bob, "bob", NoKey, 4),
      Doc(carol, "carol", Key("server#key", "pem1"), 1),
      Doc(carol, "carol", Key("server#key", "pem2"), 2),
      Doc(dave, "12", Key("server#key", "pem1"), 1),
      Doc(alice, "alice", Key(alice, "pem1"), 1),
      Doc(amy, "amy", NoKey, 1) }
=============================================================================
