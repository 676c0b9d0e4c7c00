---------------------------- MODULE ContentProofs ----------------------------
(***************************************************************************)
(* Proofs about Content: its steps are steps of SocialGraph, which hands   *)
(* it the theorems about the graph, and what it says of objects holds for  *)
(* any sets of actors, objects and activities.                             *)
(***************************************************************************)
EXTENDS Content, SocialGraphProofs

(* To the graph, an activity about objects is one it has no handler for. *)
LEMMA ObjectsAreOther ==
  ASSUME NEW m \in Messages, ProcessObject(m)
  PROVE  ProcessOther(m)
<1>1. UndoneType(m) \in {"Like", "Announce"} => HasObject(m)
      BY DEF UndoneType, HasObject, Logged
<1> QED
    BY <1>1 DEF ProcessObject, ProcessCreate, ProcessUpdate, ProcessDelete, ProcessLike,
                ProcessAnnounce, ProcessUndoLike, ProcessUndoAnnounce, ProcessOther, IsForGraph

LEMMA ContentStep == [CNext]_cvars => [Next]_vars
<1> SUFFICES ASSUME [CNext]_cvars PROVE [Next]_vars
    OBVIOUS
<1>1. ASSUME NEW m \in Messages, ProcessObject(m) PROVE Next
      BY <1>1, ObjectsAreOther DEF Next, ProcessMessage
<1>2. ASSUME NEW m \in Messages, ProcessMessage(m) PROVE Next
      BY <1>2 DEF Next
<1>3. CASE \E a \in LocalActors, o \in Objects, c \in Contents : CreateNote(a, o, c)
      BY <1>3 DEF CreateNote
<1>4. CASE RefreshStatuses
      BY <1>4 DEF RefreshStatuses, Next
<1>5. CASE Moderate /\ UNCHANGED <<graphVars, contentVars>>
      BY <1>5 DEF Next
<1>6. CASE SetAutoAccept /\ UNCHANGED contentVars
      BY <1>6 DEF Next
<1>7. ASSUME NEW a \in Actors, NEW b \in Actors, NEW u \in AppUris \union {NoUri},
             NEW s \in {"pending", "accepted"}, LocalFollow(a, b, u, s)
      PROVE  Next
      BY <1>7 DEF Next
<1>8. CASE UNCHANGED cvars
      BY <1>8 DEF cvars
<1> QED
    BY <1>1, <1>2, <1>3, <1>4, <1>5, <1>6, <1>7, <1>8 DEF CNext

(* The server with its objects is a server with its social graph: what is  *)
(* proved of SocialGraph holds of Content.                                 *)
THEOREM ContentIsGraph == CSpec => Spec
<1>1. CInit => Init
      BY DEF CInit
<1> QED
    BY <1>1, ContentStep, PTL DEF CSpec, Spec

-----------------------------------------------------------------------------
(* Types. *)

ObjectTypes ==
    /\ owner     \in [Objects -> Actors \union {Nobody}]
    /\ deleted   \in [Objects -> BOOLEAN]
    /\ content   \in [Objects -> Contents \union {NoContent}]
    /\ likes     \in [Objects -> SUBSET Actors]
    /\ announces \in [Objects -> SUBSET Actors]
    /\ statuses  \in [Actors -> Nat]
    /\ sent      \in [Objects -> [Inboxes -> Nat]]

LEMMA InsertType ==
  ASSUME ObjectTypes, NEW o, NEW a \in Actors, NEW c \in Contents \union {NoContent},
         InsertObject(o, a, c)
  PROVE  /\ owner'    \in [Objects -> Actors \union {Nobody}]
         /\ deleted'  \in [Objects -> BOOLEAN]
         /\ content'  \in [Objects -> Contents \union {NoContent}]
         /\ statuses' \in [Actors -> Nat]
<1>1. owner' \in [Objects -> Actors \union {Nobody}]
      BY DEF ObjectTypes, InsertObject
<1>2. deleted' \in [Objects -> BOOLEAN]
      BY DEF ObjectTypes, InsertObject
<1>3. content' \in [Objects -> Contents \union {NoContent}]
      BY DEF ObjectTypes, InsertObject
<1>4. statuses' \in [Actors -> Nat]
      BY DEF ObjectTypes, InsertObject
<1> QED
    BY <1>1, <1>2, <1>3, <1>4

LEMMA ReactionTypes ==
  ASSUME NEW reactions \in [Objects -> SUBSET Actors], NEW m, m.actor \in Actors
  PROVE  /\ WithReaction(reactions, m)    \in [Objects -> SUBSET Actors]
         /\ WithoutReaction(reactions, m) \in [Objects -> SUBSET Actors]
  BY DEF WithReaction, WithoutReaction

LEMMA ObjectSetsFinite ==
  ASSUME NEW a
  PROVE  /\ IsFiniteSet(OwnedBy(a)) /\ Cardinality(OwnedBy(a)) \in Nat
         /\ IsFiniteSet(LiveBy(a)) /\ Cardinality(LiveBy(a)) \in Nat
<1>1. OwnedBy(a) \in SUBSET Objects /\ LiveBy(a) \in SUBSET Objects
      BY DEF OwnedBy, LiveBy
<1>2. IsFiniteSet(OwnedBy(a)) /\ IsFiniteSet(LiveBy(a))
      BY <1>1, ContentAssumption, FS_Subset
<1> QED
    BY <1>2, FS_CardinalityType

LEMMA ObjectTypesNext ==
  ASSUME TypeOK, ObjectTypes, [CNext]_cvars
  PROVE  ObjectTypes'
<1>a. NoContent \in Contents \union {NoContent}
      OBVIOUS
<1>b. \A m \in Messages : /\ m.actor \in Actors
                          /\ m.embedded => m.inner.content \in Contents \union {NoContent}
      BY MessagesAssumption, ContentAssumption
<1>1. ASSUME NEW m \in Messages, ProcessCreate(m) PROVE ObjectTypes'
  <2>1. CASE InsertObject(m.object, m.actor, m.inner.content) /\ m.embedded
        BY <1>1, <1>b, <2>1, InsertType DEF ProcessCreate, ObjectTypes
  <2>2. CASE UNCHANGED <<objectVars, statuses>>
        BY <1>1, <2>2 DEF ProcessCreate, ObjectTypes, objectVars
  <2> QED
      BY <1>1, <2>1, <2>2 DEF ProcessCreate, IsStored
<1>2. ASSUME NEW m \in Messages, ProcessUpdate(m) PROVE ObjectTypes'
      BY <1>2, <1>b DEF ProcessUpdate, ObjectTypes
<1>3. ASSUME NEW m \in Messages, ProcessDelete(m) PROVE ObjectTypes'
      BY <1>3, <1>a DEF ProcessDelete, ObjectTypes
<1>4. ASSUME NEW m \in Messages,
             ProcessLike(m) \/ ProcessAnnounce(m) \/ ProcessUndoLike(m) \/ ProcessUndoAnnounce(m)
      PROVE  ObjectTypes'
  <2>1. /\ WithReaction(likes, m)        \in [Objects -> SUBSET Actors]
        /\ WithoutReaction(likes, m)     \in [Objects -> SUBSET Actors]
        /\ WithReaction(announces, m)    \in [Objects -> SUBSET Actors]
        /\ WithoutReaction(announces, m) \in [Objects -> SUBSET Actors]
        BY <1>b, ReactionTypes DEF ObjectTypes
  <2> QED
      BY <1>4, <2>1
      DEF ProcessLike, ProcessAnnounce, ProcessUndoLike, ProcessUndoAnnounce, ObjectTypes, objectVars
<1>5. ASSUME NEW a \in LocalActors, NEW o \in Objects, NEW c \in Contents, CreateNote(a, o, c)
      PROVE  ObjectTypes'
  <2>1. \A i \in Inboxes : Cardinality(RemoteFollowers(a, i)) \in Nat
    <3> TAKE i \in Inboxes
    <3>1. RemoteFollowers(a, i) \in SUBSET Actors
          BY DEF RemoteFollowers, FollowersOf
    <3> QED
        BY <3>1, ActorsAssumption, FS_Subset, FS_CardinalityType
  <2>2. sent' \in [Objects -> [Inboxes -> Nat]]
        BY <1>5, <2>1 DEF CreateNote, ObjectTypes
  <2>3. a \in Actors
        BY ActorsAssumption
  <2> QED
      BY <1>5, <2>2, <2>3, InsertType DEF CreateNote, ObjectTypes
<1>6. CASE RefreshStatuses
  <2>1. statuses' \in [Actors -> Nat]
        BY <1>6, ObjectSetsFinite DEF RefreshStatuses
  <2> QED
      BY <1>6, <2>1 DEF RefreshStatuses, ObjectTypes, objectVars
<1>7. CASE UNCHANGED contentVars
      BY <1>7 DEF contentVars, objectVars, ObjectTypes
<1> QED
    BY <1>1, <1>2, <1>3, <1>4, <1>5, <1>6, <1>7 DEF CNext, ProcessObject, cvars

LEMMA CInitType == CInit => CTypeOK
<1> SUFFICES ASSUME CInit PROVE CTypeOK
    OBVIOUS
<1>1. TypeOK
      BY InitType DEF CInit
<1>2. /\ owner     \in [Objects -> Actors \union {Nobody}]
      /\ deleted   \in [Objects -> BOOLEAN]
      /\ content   \in [Objects -> Contents \union {NoContent}]
      BY DEF CInit
<1>3. /\ likes     \in [Objects -> SUBSET Actors]
      /\ announces \in [Objects -> SUBSET Actors]
      /\ statuses  \in [Actors -> Nat]
      /\ sent      \in [Objects -> [Inboxes -> Nat]]
      BY DEF CInit
<1> QED
    BY <1>1, <1>2, <1>3 DEF CTypeOK

LEMMA CNextType == CTypeOK /\ [CNext]_cvars => CTypeOK'
<1> SUFFICES ASSUME CTypeOK, [CNext]_cvars PROVE CTypeOK'
    OBVIOUS
<1>1. TypeOK'
      BY ContentStep, NextType DEF CTypeOK
<1>2. ObjectTypes'
      BY ObjectTypesNext DEF CTypeOK, ObjectTypes
<1> QED
    BY <1>1, <1>2 DEF CTypeOK, ObjectTypes

(* Tables of objects, reactions, counts and deliveries keep their types. *)
THEOREM ContentTypes == CSpec => []CTypeOK
<1> QED
    BY CInitType, CNextType, PTL DEF CSpec

-----------------------------------------------------------------------------
(* The count of statuses. *)

(* What changes of the objects in one step: nothing, one new row, or rows  *)
(* that are marked deleted.                                                *)
LEMMA ObjectChanges ==
  ASSUME CTypeOK, [CNext]_cvars
  PROVE  \/ UNCHANGED <<owner, deleted, statuses>>
         \/ \E o \in Objects, a \in Actors, c \in Contents \union {NoContent} :
               ~HasRow(o) /\ InsertObject(o, a, c)
         \/ /\ UNCHANGED <<owner, statuses>>
            /\ \E o \in Objects : HasRow(o) /\ deleted' = [deleted EXCEPT ![o] = TRUE]
         \/ UNCHANGED <<owner, deleted>> /\ RefreshStatuses

<1> USE DEF objectVars
<1>0. \A m \in Messages :
         /\ m.actor \in Actors
         /\ m.embedded => /\ m.inner.content \in Contents \union {NoContent}
                          /\ m.type = "Create" => m.object \in Objects
      BY MessagesAssumption, ContentAssumption
<1>1. ASSUME NEW m \in Messages, ProcessCreate(m), IsStored(m), ~HasRow(m.object)
      PROVE  \E o \in Objects, a \in Actors, c \in Contents \union {NoContent} :
                ~HasRow(o) /\ InsertObject(o, a, c)
      BY <1>0, <1>1 DEF ProcessCreate, IsStored
<1>2. ASSUME NEW m \in Messages, ProcessDelete(m)
      PROVE  /\ UNCHANGED <<owner, statuses>>
             /\ \/ UNCHANGED deleted
                \/ \E o \in Objects : HasRow(o) /\ deleted' = [deleted EXCEPT ![o] = TRUE]
  <2>1. m.actor # Nobody
        BY MessagesAssumption, ContentAssumption
  <2> QED
      BY <1>2, <2>1 DEF ProcessDelete, Owns, HasRow
<1>3. ASSUME NEW a \in LocalActors, NEW o \in Objects, NEW c \in Contents, CreateNote(a, o, c)
      PROVE  a \in Actors /\ ~HasRow(o) /\ InsertObject(o, a, c)
      BY <1>3, ActorsAssumption DEF CreateNote
<1>4. ASSUME NEW m \in Messages, ProcessObject(m), ~(IsStored(m) /\ ~HasRow(m.object)),
             ~ProcessDelete(m)
      PROVE  UNCHANGED <<owner, deleted, statuses>>
      BY <1>4 DEF ProcessObject, ProcessCreate, ProcessUpdate, ProcessLike, ProcessAnnounce,
                  ProcessUndoLike, ProcessUndoAnnounce
<1>5. ASSUME NEW m \in Messages, ProcessObject(m), ~ProcessCreate(m), ~ProcessDelete(m)
      PROVE  UNCHANGED <<owner, deleted, statuses>>
      BY <1>5 DEF ProcessObject, ProcessUpdate, ProcessLike, ProcessAnnounce,
                  ProcessUndoLike, ProcessUndoAnnounce
<1>6. CASE RefreshStatuses
      BY <1>6 DEF RefreshStatuses
<1>7. CASE UNCHANGED contentVars
      BY <1>7 DEF contentVars
<1> QED
    BY <1>1, <1>2, <1>3, <1>4, <1>5, <1>6, <1>7 DEF CNext, cvars

LEMMA NextCounted == CTypeOK /\ StatusesCounted /\ [CNext]_cvars => StatusesCounted'
<1> SUFFICES ASSUME CTypeOK, StatusesCounted, [CNext]_cvars PROVE StatusesCounted'
    OBVIOUS
<1>1. CASE UNCHANGED <<owner, deleted, statuses>>
      BY <1>1 DEF StatusesCounted, LiveBy, OwnedBy
<1>2. ASSUME NEW o \in Objects, NEW a \in Actors, NEW c \in Contents \union {NoContent},
             ~HasRow(o), InsertObject(o, a, c)
      PROVE  StatusesCounted'
  <2>1. /\ owner'    = [owner EXCEPT ![o] = a]
        /\ deleted'  = [deleted EXCEPT ![o] = FALSE]
        /\ statuses' = [statuses EXCEPT ![a] = @ + 1]
        /\ owner[o] = Nobody
        BY <1>2 DEF InsertObject, HasRow
  <2>2. SUFFICES ASSUME NEW b \in Actors
                 PROVE  /\ Cardinality(LiveBy(b)') <= statuses'[b]
                        /\ statuses'[b] <= Cardinality(OwnedBy(b)')
        BY DEF StatusesCounted
  <2>3. b # Nobody
        BY ContentAssumption
  <2>4. /\ Cardinality(LiveBy(b)) <= statuses[b] /\ statuses[b] <= Cardinality(OwnedBy(b))
        /\ statuses[b] \in Nat
        BY DEF StatusesCounted, CTypeOK
  <2>5. CASE b # a
    <3>1. OwnedBy(b)' = OwnedBy(b) /\ LiveBy(b)' = LiveBy(b)
          BY <2>1, <2>3, <2>5 DEF OwnedBy, LiveBy, CTypeOK
    <3>2. statuses'[b] = statuses[b]
          BY <2>1, <2>5 DEF CTypeOK
    <3> QED
        BY <2>4, <3>1, <3>2
  <2>6. CASE b = a
    <3>1. o \notin OwnedBy(b) /\ o \notin LiveBy(b)
          BY <2>1, <2>3 DEF OwnedBy, LiveBy
    <3>2. OwnedBy(b)' = OwnedBy(b) \union {o} /\ LiveBy(b)' = LiveBy(b) \union {o}
          BY <2>1, <2>6 DEF OwnedBy, LiveBy, CTypeOK
    <3>3. /\ Cardinality(OwnedBy(b)') = Cardinality(OwnedBy(b)) + 1
          /\ Cardinality(LiveBy(b)') = Cardinality(LiveBy(b)) + 1
          BY <3>1, <3>2, ObjectSetsFinite, FS_AddElement
    <3>4. statuses'[b] = statuses[b] + 1
          BY <2>1, <2>6 DEF CTypeOK
    <3> QED
        BY <2>4, <3>3, <3>4, ObjectSetsFinite
  <2> QED
      BY <2>5, <2>6
<1>3. ASSUME UNCHANGED <<owner, statuses>>,
             NEW o \in Objects, deleted' = [deleted EXCEPT ![o] = TRUE]
      PROVE  StatusesCounted'
  <2>1. ASSUME NEW a \in Actors PROVE Cardinality(LiveBy(a)') <= Cardinality(LiveBy(a))
    <3>1. LiveBy(a)' \in SUBSET LiveBy(a)
          BY <1>3 DEF LiveBy, OwnedBy, CTypeOK
    <3> QED
        BY <3>1, ObjectSetsFinite, FS_Subset
  <2>2. \A a \in Actors : OwnedBy(a)' = OwnedBy(a)
        BY <1>3 DEF OwnedBy
  <2>3. ASSUME NEW a \in Actors
        PROVE  /\ Cardinality(LiveBy(a)') <= statuses'[a]
               /\ statuses'[a] <= Cardinality(OwnedBy(a)')
    <3>1. /\ Cardinality(LiveBy(a)) <= statuses[a] /\ statuses[a] <= Cardinality(OwnedBy(a))
          /\ statuses[a] \in Nat
          BY DEF StatusesCounted, CTypeOK
    <3>2. LiveBy(a)' \in SUBSET LiveBy(a)
          BY <1>3 DEF LiveBy, OwnedBy, CTypeOK
    <3>3. Cardinality(LiveBy(a)') \in Nat
          BY <3>2, ObjectSetsFinite, FS_Subset, FS_CardinalityType
    <3> QED
        BY <1>3, <2>1, <2>2, <3>1, <3>3, ObjectSetsFinite
  <2> QED
      BY <2>3 DEF StatusesCounted
<1>4. CASE UNCHANGED <<owner, deleted>> /\ RefreshStatuses
  <2>1. \A a \in Actors : LiveBy(a)' = LiveBy(a) /\ OwnedBy(a)' = OwnedBy(a)
        BY <1>4 DEF LiveBy, OwnedBy
  <2>2. \A a \in Actors : statuses'[a] = Cardinality(LiveBy(a))
        BY <1>4 DEF RefreshStatuses
  <2>3. \A a \in Actors : Cardinality(LiveBy(a)) <= Cardinality(OwnedBy(a))
    <3> TAKE a \in Actors
    <3>1. LiveBy(a) \in SUBSET OwnedBy(a)
          BY DEF LiveBy
    <3> QED
        BY <3>1, ObjectSetsFinite, FS_Subset
  <2> QED
      BY <2>1, <2>2, <2>3, ObjectSetsFinite DEF StatusesCounted
<1> QED
    BY <1>1, <1>2, <1>3, <1>4, ObjectChanges

(* The count of statuses never loses an object that is there and never     *)
(* counts one twice, whatever is created, deleted, sent again or refreshed.*)
THEOREM StatusesSafe == CSpec => []StatusesCounted
<1>1. CInit => StatusesCounted
  <2> SUFFICES ASSUME CInit, NEW a \in Actors
               PROVE  Cardinality(LiveBy(a)) <= statuses[a] /\ statuses[a] <= Cardinality(OwnedBy(a))
      BY DEF StatusesCounted
  <2>1. OwnedBy(a) = {} /\ LiveBy(a) = {}
        BY ContentAssumption DEF CInit, OwnedBy, LiveBy
  <2>2. statuses[a] = 0
        BY DEF CInit
  <2> QED
      BY <2>1, <2>2, FS_EmptySet
<1>2. CTypeOK /\ StatusesCounted /\ [CNext]_cvars => CTypeOK' /\ StatusesCounted'
      BY CNextType, NextCounted
<1> QED
    BY <1>1, <1>2, CInitType, PTL DEF CSpec

-----------------------------------------------------------------------------
(* What a step may do to an object. *)

(* Only a row can be marked deleted. *)
MarkedHasRow == \A o \in Objects : deleted[o] => HasRow(o)

LEMMA NextMarked ==
  ASSUME CTypeOK, MarkedHasRow, [CNext]_cvars
  PROVE  /\ MarkedHasRow'
         /\ \A o \in Objects : /\ deleted[o] => deleted'[o]
                               /\ HasRow(o) => owner'[o] = owner[o]
<1>1. CASE UNCHANGED <<owner, deleted>>
      BY <1>1 DEF MarkedHasRow, HasRow
<1>2. ASSUME NEW p \in Objects, NEW a \in Actors, NEW c \in Contents \union {NoContent},
             ~HasRow(p), InsertObject(p, a, c)
      PROVE  /\ MarkedHasRow'
             /\ \A o \in Objects : /\ deleted[o] => deleted'[o]
                                   /\ HasRow(o) => owner'[o] = owner[o]
  <2>1. /\ owner'   = [owner EXCEPT ![p] = a]
        /\ deleted' = [deleted EXCEPT ![p] = FALSE]
        BY <1>2 DEF InsertObject
  <2> QED
      BY <1>2, <2>1 DEF MarkedHasRow, HasRow, CTypeOK
<1>3. ASSUME UNCHANGED owner, NEW p \in Objects, deleted' = [deleted EXCEPT ![p] = TRUE], HasRow(p)
      PROVE  /\ MarkedHasRow'
             /\ \A o \in Objects : /\ deleted[o] => deleted'[o]
                                   /\ HasRow(o) => owner'[o] = owner[o]
      BY <1>3 DEF MarkedHasRow, HasRow, CTypeOK
<1> QED
    BY <1>1, <1>2, <1>3, ObjectChanges

(* A deleted object comes back by no activity, and never changes hands:    *)
(* not by a Create that is late or sent again, nor by one of another actor.*)
THEOREM TombstonesSafe == CSpec => TombstonesStay
<1>1. CInit => CTypeOK /\ MarkedHasRow
      BY CInitType DEF CInit, MarkedHasRow
<1>2. CTypeOK /\ MarkedHasRow /\ [CNext]_cvars => CTypeOK' /\ MarkedHasRow'
      BY CNextType, NextMarked
<1>3. CSpec => [](CTypeOK /\ MarkedHasRow)
      BY <1>1, <1>2, PTL DEF CSpec
<1>4. CTypeOK /\ MarkedHasRow /\ [CNext]_cvars =>
        [\A o \in Objects : /\ deleted[o] => deleted'[o]
                            /\ HasRow(o) => owner'[o] = owner[o]]_cvars
      BY NextMarked
<1> QED
    BY <1>3, <1>4, PTL DEF CSpec, TombstonesStay

(* The words of a note, and whether it is there at all, are its author's:  *)
(* they change only by an activity of the author not processed before.     *)
THEOREM OwnersSafe == CSpec => OnlyOwnersChange
<1>1. CTypeOK /\ [CNext]_cvars =>
        [\A o \in Objects :
           HasRow(o) /\ (content'[o] # content[o] \/ deleted'[o] # deleted[o]) =>
             \E m \in log' :
                /\ m.actor = owner[o] /\ m.object = o
                /\ m.type \in {"Update", "Delete"}
                /\ m \notin log \/ m.id = NoUri]_cvars
  <2> SUFFICES ASSUME CTypeOK, [CNext]_cvars, NEW o \in Objects, HasRow(o),
                      content'[o] # content[o] \/ deleted'[o] # deleted[o]
               PROVE  \E m \in log' :
                        /\ m.actor = owner[o] /\ m.object = o
                        /\ m.type \in {"Update", "Delete"}
                        /\ m \notin log \/ m.id = NoUri
      OBVIOUS
  <2>1. ASSUME NEW m \in Messages, ProcessUpdate(m) \/ ProcessDelete(m),
               owner[o] = m.actor, m.object = o
        PROVE  /\ m \in log' /\ m.type \in {"Update", "Delete"}
               /\ m \notin log \/ m.id = NoUri
        BY <2>1 DEF ProcessUpdate, ProcessDelete, Receive, IsDuplicate, Logged
  <2>2. ASSUME NEW m \in Messages, ProcessUpdate(m) \/ ProcessDelete(m)
        PROVE  owner[o] = m.actor /\ m.object = o
        BY <2>2 DEF ProcessUpdate, ProcessDelete, Owns, CTypeOK
  <2>3. ASSUME NEW m \in Messages, ProcessCreate(m) PROVE FALSE
        BY <2>3 DEF ProcessCreate, InsertObject, objectVars, CTypeOK
  <2>4. ASSUME NEW p \in Objects, NEW a, NEW c, CreateNote(a, p, c) PROVE FALSE
        BY <2>4 DEF CreateNote, InsertObject, CTypeOK
  <2>5. ~UNCHANGED objectVars
        BY DEF objectVars
  <2> QED
      BY <2>1, <2>2, <2>3, <2>4, <2>5
      DEF CNext, ProcessObject, ProcessLike, ProcessAnnounce, ProcessUndoLike, ProcessUndoAnnounce,
          RefreshStatuses, cvars, contentVars
<1> QED
    BY <1>1, ContentTypes, PTL DEF CSpec, OnlyOwnersChange

(* A reaction that was undone stays undone: a Like or an Announce that is  *)
(* delivered again is in the log.                                          *)
THEOREM ReactionsSafe == CSpec => ReactionsComeAnew
<1>1. CTypeOK /\ [CNext]_cvars =>
        [\A o \in Objects, a \in Actors :
           LET New(t) == \E m \in log' :
                   /\ m.type = t /\ m.actor = a /\ m.object = o
                   /\ m \notin log \/ m.id = NoUri
           IN  /\ a \in likes'[o] \ likes[o] => New("Like")
               /\ a \in announces'[o] \ announces[o] => New("Announce")]_cvars
  <2> SUFFICES ASSUME CTypeOK, [CNext]_cvars, NEW o \in Objects, NEW a \in Actors
               PROVE  /\ a \in likes'[o] \ likes[o] =>
                           \E m \in log' : /\ m.type = "Like" /\ m.actor = a /\ m.object = o
                                           /\ m \notin log \/ m.id = NoUri
                      /\ a \in announces'[o] \ announces[o] =>
                           \E m \in log' : /\ m.type = "Announce" /\ m.actor = a /\ m.object = o
                                           /\ m \notin log \/ m.id = NoUri
      OBVIOUS
  <2>1. ASSUME NEW m \in Messages, Receive(m)
        PROVE  m \in log' /\ (m \notin log \/ m.id = NoUri)
        BY <2>1 DEF Receive, IsDuplicate, Logged
  <2>2. ASSUME NEW m \in Messages, NEW r \in [Objects -> SUBSET Actors],
               a \in WithReaction(r, m)[o] \ r[o]
        PROVE  m.actor = a /\ m.object = o
        BY <2>2 DEF WithReaction
  <2>3. ASSUME NEW m \in Messages, NEW r \in [Objects -> SUBSET Actors]
        PROVE  WithoutReaction(r, m)[o] \subseteq r[o]
        BY DEF WithoutReaction
  <2>4. likes \in [Objects -> SUBSET Actors] /\ announces \in [Objects -> SUBSET Actors]
        BY DEF CTypeOK
  <2>5. ASSUME NEW m \in Messages, ProcessLike(m)
        PROVE  /\ m.type = "Like" /\ Receive(m)
               /\ likes' = WithReaction(likes, m) /\ UNCHANGED announces
        BY <2>5 DEF ProcessLike
  <2>6. ASSUME NEW m \in Messages, ProcessAnnounce(m)
        PROVE  /\ m.type = "Announce" /\ Receive(m)
               /\ announces' = WithReaction(announces, m) /\ UNCHANGED likes
        BY <2>6 DEF ProcessAnnounce
  <2>7. ASSUME NEW m \in Messages, ProcessUndoLike(m) \/ ProcessUndoAnnounce(m)
        PROVE  likes'[o] \subseteq likes[o] /\ announces'[o] \subseteq announces[o]
        BY <2>3, <2>4, <2>7 DEF ProcessUndoLike, ProcessUndoAnnounce
  <2>8. CASE UNCHANGED <<likes, announces>>
        BY <2>8
  <2>9. \/ UNCHANGED <<likes, announces>>
        \/ \E m \in Messages : \/ ProcessLike(m) \/ ProcessAnnounce(m)
                               \/ ProcessUndoLike(m) \/ ProcessUndoAnnounce(m)
        BY DEF CNext, ProcessObject, ProcessCreate, ProcessUpdate, ProcessDelete,
               CreateNote, RefreshStatuses, cvars, contentVars
  <2> QED
      BY <2>1, <2>2, <2>4, <2>5, <2>6, <2>7, <2>8, <2>9
<1> QED
    BY <1>1, ContentTypes, PTL DEF CSpec, ReactionsComeAnew
=============================================================================
