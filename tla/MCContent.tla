------------------------------ MODULE MCContent ------------------------------
(* An instance of Content for TLC: a local user, who writes; bob and rob,   *)
(* who claim one handle, of which only the first gets a row; and carol, who *)
(* reacts.  In one behaviour other servers send activities of one group,    *)
(* about the graph or about objects.                                        *)
EXTENDS Content, TLC

CONSTANTS alice, bob, carol, rob, x, f1, f2, f3, u1, r1, k1, a1, l1,
          c1, c2, p1, d1, d2, y1, b1, u2, u3, n1, o1

MCDomain == [z \in Actors |-> IF z = alice THEN "here" ELSE x]
MCHandle == [z \in Actors |-> IF z = rob THEN bob ELSE z]
MCInbox  == [z \in Actors |-> IF z = alice THEN "local" ELSE "shared"]
MCNotes  == [z \in Actors |-> IF z = alice THEN {n1} ELSE {}]

Inner(t, o, c)      == [type |-> t, object |-> o, content |-> c]
ByUri(i, t, a, o)   ==
    [id |-> i, type |-> t, actor |-> a, object |-> o, embedded |-> FALSE,
     inner |-> Inner("none", NoUri, NoContent)]
With(i, t, a, o, n) ==
    [id |-> i, type |-> t, actor |-> a, object |-> o, embedded |-> TRUE, inner |-> n]

(* Everything that can happen to the follow of one remote actor, and        *)
(* another one's Follow.                                                    *)
GraphMessages ==
    { ByUri(f1, "Follow", bob, alice),     \* the same follow, sent anew after an undo
      ByUri(f2, "Follow", bob, alice),
      ByUri(NoUri, "Follow", bob, alice),  \* a Follow without id
      ByUri(f3, "Follow", rob, alice),     \* its stub may not be possible, or stop bob's
      ByUri(u1, "Undo", bob, f1),          \* may come before what it undoes
      ByUri(a1, "Accept", bob, l1),        \* of the local user's own follow
      ByUri(r1, "Reject", bob, l1),
      ByUri(k1, "Block", bob, alice) }

ObjectMessages ==
    { With(c1, "Create", bob, o1, Inner("Note", NoUri, "hello")),
      With(c2, "Create", bob, o1, Inner("Note", NoUri, "hello")),  \* sent anew
      With(p1, "Update", bob, o1, Inner("Note", NoUri, "edited")),
      ByUri(d1, "Delete", bob, o1),
      ByUri(d2, "Delete", carol, o1),      \* not hers
      ByUri(NoUri, "Like", carol, NoUri),  \* fails
      ByUri(y1, "Like", carol, o1),
      ByUri(u2, "Undo", carol, y1),        \* by URI
      ByUri(b1, "Announce", bob, n1),
      With(u3, "Undo", bob, b1, Inner("Announce", n1, NoContent)),
      ByUri(f1, "Follow", bob, alice) }

MCMessages == GraphMessages \union ObjectMessages

VARIABLE group  \* what other servers send, chosen once

Sends == [graph |-> GraphMessages, objects |-> ObjectMessages]

(* Bounds: with activities about the graph, no notes; with those about      *)
(* objects, the local user follows nobody and writes one thing.             *)
MCInit == CInit /\ group \in DOMAIN Sends
MCNext ==
    /\ CNext
    /\ log' \subseteq Sends[group]
    /\ group = "graph" => owner' = owner
    /\ group = "objects" => follow'[alice] = follow[alice] /\ content'[n1] # "edited"
    /\ UNCHANGED group
MCSpec == MCInit /\ [][MCNext]_<<cvars, group>>
=============================================================================
