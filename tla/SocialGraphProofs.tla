-------------------------- MODULE SocialGraphProofs --------------------------
(***************************************************************************)
(* Proofs about SocialGraph for any finite set of actors and any set of    *)
(* activities, delivered in any order any number of times.                 *)
(***************************************************************************)
EXTENDS SocialGraph, FiniteSetTheorems, TLAPS

LEMMA ReceiveType ==
  ASSUME InboxTypeOK, NEW m \in Messages, Receive(m)
  PROVE  /\ InboxTypeOK'
         /\ m.actor \in Actors
         /\ m.id \in Uris \union {NoUri}
  BY MessagesAssumption DEF InboxTypeOK, Receive, Uris

LEMMA CountedType ==
  ASSUME NEW n \in Nat, NEW was, NEW now
  PROVE  Counted(n, was, now) \in Nat
  BY DEF Counted

LEMMA SetRowType ==
  ASSUME TypeOK, NEW a \in Actors, NEW b \in Actors, NEW s \in RowStates,
         NEW u \in FollowUris, SetRow(a, b, s, u)
  PROVE  /\ follow'    \in [Actors -> [Actors -> RowStates]]
         /\ followUri' \in [Actors -> [Actors -> FollowUris]]
         /\ followers' \in [Actors -> Nat]
         /\ following' \in [Actors -> Nat]
<1>1. /\ Counted(followers[b], follow[a][b], s) \in Nat
      /\ Counted(following[a], follow[a][b], s) \in Nat
      BY CountedType DEF TypeOK
<1> QED
    BY <1>1 DEF TypeOK, SetRow

LEMMA DeleteBothType ==
  ASSUME TypeOK, NEW a \in Actors, NEW b \in Actors, DeleteBoth(a, b)
  PROVE  /\ follow'    \in [Actors -> [Actors -> RowStates]]
         /\ followUri' \in [Actors -> [Actors -> FollowUris]]
         /\ followers' \in [Actors -> Nat]
         /\ following' \in [Actors -> Nat]
<1>0. "none" \in RowStates /\ NoUri \in FollowUris
      BY DEF RowStates, FollowUris
<1>1. CASE a = b /\ DeleteRow(a, a)
      BY <1>0, <1>1, SetRowType DEF DeleteRow
<1>2. CASE a # b
  <2>1. follow' \in [Actors -> [Actors -> RowStates]]
    <3>1. follow' = [[follow EXCEPT ![a][b] = "none"] EXCEPT ![b][a] = "none"]
          BY <1>2 DEF DeleteBoth
    <3>2. [follow EXCEPT ![a][b] = "none"] \in [Actors -> [Actors -> RowStates]]
          BY <1>0 DEF TypeOK
    <3> QED
        BY <1>0, <3>1, <3>2
  <2>2. followUri' \in [Actors -> [Actors -> FollowUris]]
    <3>1. followUri' = [[followUri EXCEPT ![a][b] = NoUri] EXCEPT ![b][a] = NoUri]
          BY <1>2 DEF DeleteBoth
    <3>2. [followUri EXCEPT ![a][b] = NoUri] \in [Actors -> [Actors -> FollowUris]]
          BY <1>0 DEF TypeOK
    <3> QED
        BY <1>0, <3>1, <3>2
  <2>3. followers' \in [Actors -> Nat]
    <3>1. followers' = [c \in Actors |->
                          IF c = b THEN Counted(followers[b], follow[a][b], "none")
                          ELSE IF c = a THEN Counted(followers[a], follow[b][a], "none")
                          ELSE followers[c]]
          BY <1>2 DEF TypeOK, DeleteBoth
    <3>2. /\ Counted(followers[b], follow[a][b], "none") \in Nat
          /\ Counted(followers[a], follow[b][a], "none") \in Nat
          BY CountedType DEF TypeOK
    <3> QED
        BY <3>1, <3>2 DEF TypeOK
  <2>4. following' \in [Actors -> Nat]
    <3>1. following' = [c \in Actors |->
                          IF c = a THEN Counted(following[a], follow[a][b], "none")
                          ELSE IF c = b THEN Counted(following[b], follow[b][a], "none")
                          ELSE following[c]]
          BY <1>2 DEF TypeOK, DeleteBoth
    <3>2. /\ Counted(following[a], follow[a][b], "none") \in Nat
          /\ Counted(following[b], follow[b][a], "none") \in Nat
          BY CountedType DEF TypeOK
    <3> QED
        BY <3>1, <3>2 DEF TypeOK
  <2> QED
      BY <2>1, <2>2, <2>3, <2>4
<1> QED
    BY <1>1, <1>2 DEF DeleteBoth

-----------------------------------------------------------------------------
LEMMA InitType == Init => TypeOK
<1> SUFFICES ASSUME Init PROVE TypeOK
    OBVIOUS
<1>1. InboxTypeOK
      BY ActorsAssumption DEF Init, InboxInit, InboxTypeOK
<1>2. /\ follow    \in [Actors -> [Actors -> RowStates]]
      /\ followUri \in [Actors -> [Actors -> FollowUris]]
      BY DEF Init, GraphInit, RowStates, FollowUris
<1>3. /\ followers   \in [Actors -> Nat]
      /\ following   \in [Actors -> Nat]
      /\ actorBlocks \subseteq Actors \X Actors
      /\ autoAccept  \in BOOLEAN
      /\ accepts     \in [Uris \union {NoUri} -> Nat]
      BY DEF Init, GraphInit
<1> QED
    BY <1>1, <1>2, <1>3 DEF TypeOK

LEMMA NextType == TypeOK /\ [Next]_vars => TypeOK'
<1> SUFFICES ASSUME TypeOK, [Next]_vars PROVE TypeOK'
    OBVIOUS
<1>0. "none" \in RowStates /\ NoUri \in FollowUris /\ InboxTypeOK
      BY DEF RowStates, FollowUris, TypeOK
<1>1. ASSUME NEW m \in Messages, ProcessFollow(m) PROVE TypeOK'
  <2>1. InboxTypeOK' /\ m.actor \in Actors /\ m.id \in Uris \union {NoUri}
        BY <1>0, <1>1, ReceiveType DEF ProcessFollow
  <2>2. m.object \in Actors
        BY <1>1, <2>1 DEF ProcessFollow, InboxTypeOK
  <2>3. RowUri(m) \in FollowUris
        BY <2>1, <2>2 DEF RowUri, FollowUris, TypeOK
  <2>4. (IF autoAccept THEN "accepted" ELSE "pending") \in RowStates
        BY DEF RowStates
  <2>5. accepts' \in [Uris \union {NoUri} -> Nat]
        BY <1>1, <2>1 DEF ProcessFollow, Answer, TypeOK
  <2>6. /\ follow'    \in [Actors -> [Actors -> RowStates]]
        /\ followUri' \in [Actors -> [Actors -> FollowUris]]
        /\ followers' \in [Actors -> Nat]
        /\ following' \in [Actors -> Nat]
        BY <1>1, <2>1, <2>2, <2>3, <2>4, SetRowType DEF ProcessFollow
  <2> QED
      BY <1>1, <2>1, <2>5, <2>6 DEF ProcessFollow, TypeOK
<1>2. ASSUME NEW m \in Messages, ProcessAccept(m) PROVE TypeOK'
  <2>1. InboxTypeOK'
        BY <1>0, <1>2, ReceiveType DEF ProcessAccept
  <2>2. ASSUME NEW a \in Actors, NEW b \in Actors, SetRow(a, b, "accepted", followUri[a][b])
        PROVE  TypeOK'
    <3>1. "accepted" \in RowStates /\ followUri[a][b] \in FollowUris
          BY DEF RowStates, TypeOK
    <3> QED
        BY <1>2, <2>1, <2>2, <3>1, SetRowType DEF ProcessAccept, TypeOK
  <2>3. ASSUME UNCHANGED table PROVE TypeOK'
        BY <1>2, <2>1, <2>3 DEF ProcessAccept, TypeOK, table
  <2> QED
      BY <1>2, <2>2, <2>3 DEF ProcessAccept
<1>3. ASSUME NEW m \in Messages, ProcessReject(m) PROVE TypeOK'
  <2>1. InboxTypeOK'
        BY <1>0, <1>3, ReceiveType DEF ProcessReject
  <2>2. ASSUME NEW a \in Actors, NEW b \in Actors, DeleteRow(a, b) PROVE TypeOK'
        BY <1>0, <1>3, <2>1, <2>2, SetRowType DEF ProcessReject, TypeOK, DeleteRow
  <2>3. ASSUME UNCHANGED table PROVE TypeOK'
        BY <1>3, <2>1, <2>3 DEF ProcessReject, TypeOK, table
  <2> QED
      BY <1>3, <2>2, <2>3 DEF ProcessReject
<1>4. ASSUME NEW m \in Messages, ProcessBlock(m) PROVE TypeOK'
  <2>1. InboxTypeOK' /\ m.actor \in Actors
        BY <1>0, <1>4, ReceiveType DEF ProcessBlock
  <2>2. ASSUME m.object \in known',
               actorBlocks' = actorBlocks \union {<<m.actor, m.object>>},
               DeleteBoth(m.actor, m.object)
        PROVE  TypeOK'
    <3>1. m.object \in Actors
          BY <2>1, <2>2 DEF InboxTypeOK
    <3> QED
        BY <1>4, <2>1, <2>2, <3>1, DeleteBothType DEF ProcessBlock, TypeOK
  <2>3. ASSUME UNCHANGED <<actorBlocks, table>> PROVE TypeOK'
        BY <1>4, <2>1, <2>3 DEF ProcessBlock, TypeOK, table
  <2> QED
      BY <1>4, <2>2, <2>3 DEF ProcessBlock
<1>5. ASSUME NEW m \in Messages, ProcessUndoFollow(m) PROVE TypeOK'
  <2>1. InboxTypeOK' /\ m.actor \in Actors
        BY <1>0, <1>5, ReceiveType DEF ProcessUndoFollow
  <2>2. ASSUME UndoneObject(m) \in known', DeleteRow(m.actor, UndoneObject(m))
        PROVE  TypeOK'
    <3>1. UndoneObject(m) \in Actors
          BY <2>1, <2>2 DEF InboxTypeOK
    <3> QED
        BY <1>0, <1>5, <2>1, <2>2, <3>1, SetRowType
           DEF ProcessUndoFollow, TypeOK, DeleteRow
  <2>3. ASSUME UNCHANGED table PROVE TypeOK'
        BY <1>5, <2>1, <2>3 DEF ProcessUndoFollow, TypeOK, table
  <2> QED
      BY <1>5, <2>2, <2>3 DEF ProcessUndoFollow
<1>6. ASSUME NEW m \in Messages, ProcessOther(m) PROVE TypeOK'
      BY <1>0, <1>6, ReceiveType DEF ProcessOther, graphVars, TypeOK
<1>7. ASSUME NEW a \in Actors, NEW b \in Actors, NEW u \in AppUris \union {NoUri},
             NEW s \in {"pending", "accepted"}, LocalFollow(a, b, u, s)
      PROVE TypeOK'
  <2>1. s \in RowStates /\ u \in FollowUris
        BY DEF RowStates, FollowUris
  <2> QED
      BY <1>7, <2>1, SetRowType DEF LocalFollow, inboxVars, TypeOK, InboxTypeOK
<1>8. ASSUME Moderate, UNCHANGED graphVars PROVE TypeOK'
      BY <1>8 DEF Moderate, BlockDomain, UnblockDomain, graphVars, TypeOK, InboxTypeOK
<1>9. ASSUME SetAutoAccept PROVE TypeOK'
      BY <1>9 DEF SetAutoAccept, inboxVars, table, TypeOK, InboxTypeOK
<1>10. ASSUME RefreshStats PROVE TypeOK'
  <2>1. \A a \in Actors :
           Cardinality(FollowersOf(a)) \in Nat /\ Cardinality(FollowedBy(a)) \in Nat
        BY ActorsAssumption, FS_Subset, FS_CardinalityType DEF FollowersOf, FollowedBy
  <2> QED
      BY <1>10, <2>1 DEF RefreshStats, inboxVars, TypeOK, InboxTypeOK
<1>11. ASSUME UNCHANGED vars PROVE TypeOK'
       BY <1>11 DEF vars, inboxVars, graphVars, TypeOK, InboxTypeOK
<1> QED
    BY <1>1, <1>2, <1>3, <1>4, <1>5, <1>6, <1>7, <1>8, <1>9, <1>10, <1>11
       DEF Next, ProcessMessage

(* Every table keeps the type of its columns. *)
THEOREM TypeCorrect == Spec => []TypeOK
<1>1. Init => TypeOK
      BY InitType
<1>2. TypeOK /\ [Next]_vars => TypeOK'
      BY NextType
<1> QED
    BY <1>1, <1>2, PTL DEF Spec

-----------------------------------------------------------------------------
(* The counters. *)

(* The trigger's arithmetic counts a set to which an element is added ... *)
LEMMA CountedUp ==
  ASSUME NEW S, IsFiniteSet(S), NEW z, NEW was, was = "accepted" <=> z \in S
  PROVE  Counted(Cardinality(S), was, "accepted") = Cardinality(S \union {z})
<1>1. Cardinality(S) \in Nat
      BY FS_CardinalityType
<1> QED
    BY <1>1, FS_AddElement DEF Counted

(* ... or from which it is taken away. *)
LEMMA CountedDown ==
  ASSUME NEW S, IsFiniteSet(S), NEW z, NEW was, was = "accepted" <=> z \in S,
         NEW now, now # "accepted"
  PROVE  Counted(Cardinality(S), was, now) = Cardinality(S \ {z})
<1>1. Cardinality(S) \in Nat
      BY FS_CardinalityType
<1>2. CASE was = "accepted"
  <2>1. Cardinality(S) > 0
        BY <1>1, <1>2, FS_EmptySet
  <2> QED
      BY <1>1, <1>2, <2>1, FS_RemoveElement DEF Counted
<1>3. CASE was # "accepted"
      BY <1>1, <1>3, FS_RemoveElement DEF Counted
<1> QED
    BY <1>2, <1>3

LEMMA EndsFinite ==
  ASSUME NEW c \in Actors
  PROVE  IsFiniteSet(FollowersOf(c)) /\ IsFiniteSet(FollowedBy(c))
  BY ActorsAssumption, FS_Subset DEF FollowersOf, FollowedBy

LEMMA SetRowStats ==
  ASSUME TypeOK, StatsMatchGraph, NEW a \in Actors, NEW b \in Actors,
         NEW s \in RowStates, NEW u, SetRow(a, b, s, u)
  PROVE  StatsMatchGraph'
<1>1. \A c, d \in Actors :
        follow'[c][d] = IF c = a /\ d = b THEN s ELSE follow[c][d]
      BY DEF TypeOK, SetRow
<1>2. ASSUME NEW c \in Actors PROVE followers'[c] = Cardinality(FollowersOf(c)')
  <2>1. CASE c = b
    <3>1. FollowersOf(b)' =
            IF s = "accepted" THEN FollowersOf(b) \union {a} ELSE FollowersOf(b) \ {a}
          BY <1>1 DEF FollowersOf
    <3>2. a \in FollowersOf(b) <=> follow[a][b] = "accepted"
          BY DEF FollowersOf
    <3>3. followers'[b] = Counted(Cardinality(FollowersOf(b)), follow[a][b], s)
          BY DEF SetRow, StatsMatchGraph, TypeOK
    <3>4. IsFiniteSet(FollowersOf(b))
          BY EndsFinite
    <3>5. Counted(Cardinality(FollowersOf(b)), follow[a][b], s) = Cardinality(FollowersOf(b)')
          BY <3>1, <3>2, <3>4, CountedUp, CountedDown
    <3> QED
        BY <2>1, <3>3, <3>5
  <2>2. CASE c # b
    <3>1. FollowersOf(c)' = FollowersOf(c)
          BY <1>1, <2>2 DEF FollowersOf
    <3> QED
        BY <2>2, <3>1 DEF SetRow, StatsMatchGraph, TypeOK
  <2> QED
      BY <2>1, <2>2
<1>3. ASSUME NEW c \in Actors PROVE following'[c] = Cardinality(FollowedBy(c)')
  <2>1. CASE c = a
    <3>1. FollowedBy(a)' =
            IF s = "accepted" THEN FollowedBy(a) \union {b} ELSE FollowedBy(a) \ {b}
          BY <1>1 DEF FollowedBy
    <3>2. b \in FollowedBy(a) <=> follow[a][b] = "accepted"
          BY DEF FollowedBy
    <3>3. following'[a] = Counted(Cardinality(FollowedBy(a)), follow[a][b], s)
          BY DEF SetRow, StatsMatchGraph, TypeOK
    <3>4. IsFiniteSet(FollowedBy(a))
          BY EndsFinite
    <3>5. Counted(Cardinality(FollowedBy(a)), follow[a][b], s) = Cardinality(FollowedBy(a)')
          BY <3>1, <3>2, <3>4, CountedUp, CountedDown
    <3> QED
        BY <2>1, <3>3, <3>5
  <2>2. CASE c # a
    <3>1. FollowedBy(c)' = FollowedBy(c)
          BY <1>1, <2>2 DEF FollowedBy
    <3> QED
        BY <2>2, <3>1 DEF SetRow, StatsMatchGraph, TypeOK
  <2> QED
      BY <2>1, <2>2
<1> QED
    BY <1>2, <1>3 DEF StatsMatchGraph

LEMMA DeleteBothStats ==
  ASSUME TypeOK, StatsMatchGraph, NEW a \in Actors, NEW b \in Actors, DeleteBoth(a, b)
  PROVE  StatsMatchGraph'
<1>1. CASE a = b /\ DeleteRow(a, a)
      BY <1>1, SetRowStats DEF DeleteRow, RowStates
<1>2. CASE a # b
  <2>1. \A c, d \in Actors :
          follow'[c][d] = IF (c = a /\ d = b) \/ (c = b /\ d = a) THEN "none" ELSE follow[c][d]
    <3>1. follow' = [[follow EXCEPT ![a][b] = "none"] EXCEPT ![b][a] = "none"]
          BY <1>2 DEF DeleteBoth
    <3> QED
        BY <3>1 DEF TypeOK
  <2>2. ASSUME NEW c \in Actors, NEW d \in Actors, {c, d} = {a, b}
        PROVE  /\ followers'[c] = Counted(followers[c], follow[d][c], "none")
               /\ following'[c] = Counted(following[c], follow[c][d], "none")
    <3>1. (c = a /\ d = b) \/ (c = b /\ d = a)
          BY <1>2, <2>2
    <3> QED
        BY <1>2, <3>1 DEF DeleteBoth, TypeOK
  <2>3. ASSUME NEW c \in Actors, NEW d \in Actors, {c, d} = {a, b}
        PROVE  /\ followers'[c] = Cardinality(FollowersOf(c)')
               /\ following'[c] = Cardinality(FollowedBy(c)')
    <3>0. (c = a /\ d = b) \/ (c = b /\ d = a)
          BY <1>2, <2>3
    <3>1. FollowersOf(c)' = FollowersOf(c) \ {d} /\ FollowedBy(c)' = FollowedBy(c) \ {d}
          BY <1>2, <2>1, <3>0 DEF FollowersOf, FollowedBy
    <3>2. /\ d \in FollowersOf(c) <=> follow[d][c] = "accepted"
          /\ d \in FollowedBy(c) <=> follow[c][d] = "accepted"
          BY DEF FollowersOf, FollowedBy
    <3>3. /\ Counted(Cardinality(FollowersOf(c)), follow[d][c], "none")
               = Cardinality(FollowersOf(c) \ {d})
          /\ Counted(Cardinality(FollowedBy(c)), follow[c][d], "none")
               = Cardinality(FollowedBy(c) \ {d})
      <4>1. IsFiniteSet(FollowersOf(c)) /\ IsFiniteSet(FollowedBy(c))
            BY EndsFinite
      <4>2. Counted(Cardinality(FollowersOf(c)), follow[d][c], "none")
              = Cardinality(FollowersOf(c) \ {d})
            BY <3>2, <4>1, CountedDown
      <4>3. Counted(Cardinality(FollowedBy(c)), follow[c][d], "none")
              = Cardinality(FollowedBy(c) \ {d})
            BY <3>2, <4>1, CountedDown
      <4> QED
          BY <4>2, <4>3
    <3> QED
        BY <2>2, <2>3, <3>1, <3>3 DEF StatsMatchGraph
  <2>4. ASSUME NEW c \in Actors, c \notin {a, b}
        PROVE  /\ followers'[c] = Cardinality(FollowersOf(c)')
               /\ following'[c] = Cardinality(FollowedBy(c)')
    <3>1. FollowersOf(c)' = FollowersOf(c) /\ FollowedBy(c)' = FollowedBy(c)
          BY <2>1, <2>4 DEF FollowersOf, FollowedBy
    <3>2. followers'[c] = followers[c] /\ following'[c] = following[c]
          BY <1>2, <2>4 DEF DeleteBoth, TypeOK
    <3> QED
        BY <3>1, <3>2 DEF StatsMatchGraph
  <2>5. {b, a} = {a, b}
        OBVIOUS
  <2> QED
      BY <2>3, <2>4, <2>5 DEF StatsMatchGraph
<1> QED
    BY <1>1, <1>2 DEF DeleteBoth

LEMMA InitStats == Init => StatsMatchGraph
<1> SUFFICES ASSUME Init, NEW c \in Actors
             PROVE  /\ followers[c] = Cardinality(FollowersOf(c))
                    /\ following[c] = Cardinality(FollowedBy(c))
    BY DEF StatsMatchGraph
<1>1. FollowersOf(c) = {} /\ FollowedBy(c) = {}
      BY DEF Init, GraphInit, FollowersOf, FollowedBy
<1> QED
    BY <1>1, FS_EmptySet DEF Init, GraphInit

LEMMA NextStats == TypeOK /\ StatsMatchGraph /\ [Next]_vars => StatsMatchGraph'
<1> SUFFICES ASSUME TypeOK, StatsMatchGraph, [Next]_vars PROVE StatsMatchGraph'
    OBVIOUS
<1>0. ASSUME follow' = follow, followers' = followers, following' = following
      PROVE  StatsMatchGraph'
      BY <1>0 DEF StatsMatchGraph, FollowersOf, FollowedBy
<1>a. \A m \in Messages : Receive(m) => m.actor \in Actors /\ known' \subseteq Actors
      BY ReceiveType DEF TypeOK, InboxTypeOK
<1>1. ASSUME NEW m \in Messages, ProcessFollow(m) PROVE StatsMatchGraph'
  <2>1. m.actor \in Actors /\ m.object \in Actors
        BY <1>a, <1>1 DEF ProcessFollow
  <2>2. (IF autoAccept THEN "accepted" ELSE "pending") \in RowStates
        BY DEF RowStates
  <2> QED
      BY <1>1, <2>1, <2>2, SetRowStats DEF ProcessFollow
<1>2. ASSUME NEW m \in Messages, ProcessAccept(m) PROVE StatsMatchGraph'
  <2>1. "accepted" \in RowStates
        BY DEF RowStates
  <2> QED
      BY <1>0, <1>2, <2>1, SetRowStats DEF ProcessAccept, table
<1>3. ASSUME NEW m \in Messages, ProcessReject(m) PROVE StatsMatchGraph'
  <2>1. "none" \in RowStates
        BY DEF RowStates
  <2> QED
      BY <1>0, <1>3, <2>1, SetRowStats DEF ProcessReject, DeleteRow, table
<1>4. ASSUME NEW m \in Messages, ProcessBlock(m) PROVE StatsMatchGraph'
      BY <1>0, <1>a, <1>4, DeleteBothStats DEF ProcessBlock, table
<1>5. ASSUME NEW m \in Messages, ProcessUndoFollow(m) PROVE StatsMatchGraph'
  <2>1. "none" \in RowStates
        BY DEF RowStates
  <2> QED
      BY <1>0, <1>a, <1>5, <2>1, SetRowStats DEF ProcessUndoFollow, DeleteRow, table
<1>6. ASSUME NEW m \in Messages, ProcessOther(m) PROVE StatsMatchGraph'
      BY <1>0, <1>6 DEF ProcessOther, graphVars
<1>7. ASSUME NEW a \in Actors, NEW b \in Actors, NEW u \in AppUris \union {NoUri},
             NEW s \in {"pending", "accepted"}, LocalFollow(a, b, u, s)
      PROVE  StatsMatchGraph'
      BY <1>7, SetRowStats DEF LocalFollow, RowStates
<1>8. ASSUME UNCHANGED graphVars PROVE StatsMatchGraph'
      BY <1>0, <1>8 DEF graphVars
<1>9. ASSUME SetAutoAccept PROVE StatsMatchGraph'
      BY <1>0, <1>9 DEF SetAutoAccept, table
<1>10. ASSUME RefreshStats PROVE StatsMatchGraph'
       BY <1>10 DEF RefreshStats, StatsMatchGraph, FollowersOf, FollowedBy
<1> QED
    BY <1>1, <1>2, <1>3, <1>4, <1>5, <1>6, <1>7, <1>8, <1>9, <1>10
       DEF Next, ProcessMessage, vars

(* followers_count and following_count are always the numbers of accepted  *)
(* rows, whatever activities come, in whatever order and however often.    *)
THEOREM StatsSafe == Spec => []StatsMatchGraph
<1>1. Init => TypeOK /\ StatsMatchGraph
      BY InitType, InitStats
<1>2. TypeOK /\ StatsMatchGraph /\ [Next]_vars => TypeOK' /\ StatsMatchGraph'
      BY NextType, NextStats
<1> QED
    BY <1>1, <1>2, PTL DEF Spec

-----------------------------------------------------------------------------
(* One answer to a Follow. *)

(* Why: an answered Follow is in the log, where the next delivery finds it. *)
AnsweredIsLogged == \A u \in Uris : accepts[u] > 0 => Logged(u)

LEMMA LogGrows == TypeOK /\ [Next]_vars => log \subseteq log'
  BY DEF Next, ProcessMessage, ProcessFollow, ProcessAccept, ProcessReject, ProcessBlock,
         ProcessUndoFollow, ProcessOther, Receive, LocalFollow, Moderate, BlockDomain,
         UnblockDomain, SetAutoAccept, RefreshStats, vars, inboxVars

LEMMA NextAnswered ==
  TypeOK /\ AnsweredOnce /\ AnsweredIsLogged /\ [Next]_vars
    => AnsweredOnce' /\ AnsweredIsLogged'
<1> SUFFICES ASSUME TypeOK, AnsweredOnce, AnsweredIsLogged, [Next]_vars
             PROVE  AnsweredOnce' /\ AnsweredIsLogged'
    OBVIOUS
<1>1. \A u \in Uris : Logged(u) => Logged(u)'
      BY LogGrows DEF Logged
<1>2. ASSUME NEW m \in Messages, ProcessFollow(m)
      PROVE  AnsweredOnce' /\ AnsweredIsLogged'
  <2>1. Receive(m) /\ m.id \in Uris \union {NoUri}
        BY <1>2, ReceiveType DEF ProcessFollow, TypeOK
  <2>2. m.id \in Uris => ~Logged(m.id) /\ Logged(m.id)'
        BY <2>1 DEF Receive, IsDuplicate, Logged, Uris
  <2>3. accepts' = accepts \/ accepts' = [accepts EXCEPT ![m.id] = @ + 1]
        BY <1>2 DEF ProcessFollow, Answer
  <2>4. m.id \in Uris => accepts[m.id] = 0
        BY <2>2 DEF AnsweredIsLogged, TypeOK
  <2>5. ASSUME NEW u \in Uris
        PROVE  accepts'[u] <= 1 /\ (accepts'[u] > 0 => Logged(u)')
    <3>1. accepts[u] \in Nat /\ accepts[u] <= 1 /\ (accepts[u] > 0 => Logged(u))
          BY DEF AnsweredOnce, AnsweredIsLogged, TypeOK
    <3>2. CASE u = m.id
      <4>1. accepts[u] = 0 /\ Logged(u)'
            BY <2>2, <2>4, <3>2
      <4>2. accepts'[u] \in {accepts[u], accepts[u] + 1}
            BY <2>3, <3>2 DEF TypeOK
      <4> QED
          BY <4>1, <4>2
    <3>3. CASE u # m.id
      <4>1. accepts'[u] = accepts[u]
            BY <2>3, <3>3 DEF TypeOK
      <4> QED
          BY <1>1, <3>1, <4>1
    <3> QED
        BY <3>2, <3>3
  <2> QED
      BY <2>5 DEF AnsweredOnce, AnsweredIsLogged
<1>3. ASSUME UNCHANGED accepts
      PROVE  AnsweredOnce' /\ AnsweredIsLogged'
      BY <1>1, <1>3 DEF AnsweredOnce, AnsweredIsLogged
<1> QED
    BY <1>2, <1>3
       DEF Next, ProcessMessage, ProcessAccept, ProcessReject, ProcessBlock,
           ProcessUndoFollow, ProcessOther, LocalFollow, SetAutoAccept, RefreshStats,
           vars, graphVars

(* A Follow is answered with one Accept at most, however often it is sent. *)
THEOREM AnswersSafe == Spec => []AnsweredOnce
<1>1. Init => TypeOK /\ AnsweredOnce /\ AnsweredIsLogged
      BY InitType DEF Init, GraphInit, AnsweredOnce, AnsweredIsLogged
<1>2. TypeOK /\ AnsweredOnce /\ AnsweredIsLogged /\ [Next]_vars
        => TypeOK' /\ AnsweredOnce' /\ AnsweredIsLogged'
      BY NextType, NextAnswered
<1> QED
    BY <1>1, <1>2, PTL DEF Spec

-----------------------------------------------------------------------------
(* What the URI of a row names. *)

(* A Follow by a of b, received under the URI u. *)
IsFollowOf(u, a, b) ==
  \E m \in log : m.id = u /\ m.type = "Follow" /\ m.actor = a /\ m.object = b

UriHasItsFollow ==
  \A a, b \in Actors :
    /\ follow[a][b] = "none" => followUri[a][b] = NoUri
    /\ followUri[a][b] # NoUri =>
         \/ followUri[a][b] \in AppUris /\ a \in LocalActors
         \/ IsFollowOf(followUri[a][b], a, b)

LEMMA NextOneEntry == TypeOK /\ OneEntryPerUri /\ [Next]_vars => OneEntryPerUri'
<1> SUFFICES ASSUME OneEntryPerUri, [Next]_vars PROVE OneEntryPerUri'
    OBVIOUS
<1>1. ASSUME NEW m \in Messages, Receive(m) PROVE OneEntryPerUri'
  <2>1. log' = log \union {m} /\ (m.id # NoUri => \A n \in log : n.id # m.id)
        BY <1>1 DEF Receive, IsDuplicate, Logged
  <2> QED
      BY <2>1 DEF OneEntryPerUri
<1>2. ASSUME UNCHANGED log PROVE OneEntryPerUri'
      BY <1>2 DEF OneEntryPerUri
<1> QED
    BY <1>1, <1>2
       DEF Next, ProcessMessage, ProcessFollow, ProcessAccept, ProcessReject, ProcessBlock,
           ProcessUndoFollow, ProcessOther, LocalFollow, Moderate, BlockDomain, UnblockDomain,
           SetAutoAccept, RefreshStats, vars, inboxVars

(* A row that keeps its URI, or goes, keeps the invariant. *)
LEMMA UriUntouched ==
  ASSUME TypeOK, UriHasItsFollow, log \subseteq log',
         \A c, d \in Actors :
            \/ follow'[c][d] = "none" /\ followUri'[c][d] = NoUri
            \/ /\ followUri'[c][d] = followUri[c][d]
               /\ follow'[c][d] = "none" => follow[c][d] = "none"
  PROVE  UriHasItsFollow'
  BY DEF UriHasItsFollow, IsFollowOf

LEMMA NextUris ==
  TypeOK /\ UriHasItsFollow /\ [Next]_vars => UriHasItsFollow'
<1> SUFFICES ASSUME TypeOK, UriHasItsFollow, [Next]_vars PROVE UriHasItsFollow'
    OBVIOUS
<1>0. log \subseteq log'
      BY LogGrows
<1>a. \A m \in Messages : Receive(m) => m.actor \in Actors /\ known' \subseteq Actors
      BY ReceiveType DEF TypeOK, InboxTypeOK
<1>b. ASSUME UNCHANGED <<follow, followUri>> PROVE UriHasItsFollow'
      BY <1>0, <1>b DEF UriHasItsFollow, IsFollowOf
<1>c. ASSUME NEW a \in Actors, NEW b \in Actors, DeleteRow(a, b) PROVE UriHasItsFollow'
  <2>1. \A c, d \in Actors :
          \/ follow'[c][d] = "none" /\ followUri'[c][d] = NoUri
          \/ follow'[c][d] = follow[c][d] /\ followUri'[c][d] = followUri[c][d]
        BY <1>c DEF DeleteRow, SetRow, TypeOK
  <2> QED
      BY <1>0, <2>1, UriUntouched
<1>1. ASSUME NEW m \in Messages, ProcessFollow(m) PROVE UriHasItsFollow'
  <2> DEFINE a == m.actor
             b == m.object
             s == IF autoAccept THEN "accepted" ELSE "pending"
  <2>1. a \in Actors /\ b \in Actors
        BY <1>a, <1>1 DEF ProcessFollow
  <2>2. /\ follow'    = [follow EXCEPT ![a][b] = s]
        /\ followUri' = [followUri EXCEPT ![a][b] = RowUri(m)]
        /\ m \in log' /\ m.type = "Follow"
        BY <1>1 DEF ProcessFollow, SetRow, Receive
  <2>3. \A c, d \in Actors : ~(c = a /\ d = b) =>
           follow'[c][d] = follow[c][d] /\ followUri'[c][d] = followUri[c][d]
        BY <2>1, <2>2 DEF TypeOK
  <2>4. followUri'[a][b] = IF m.id = NoUri THEN followUri[a][b] ELSE m.id
        BY <2>1, <2>2 DEF RowUri, TypeOK
  <2>5. m.id # NoUri => IsFollowOf(m.id, a, b)'
        BY <2>2 DEF IsFollowOf
  <2>6. follow'[a][b] # "none"
        BY <2>1, <2>2 DEF TypeOK
  <2>7. ASSUME NEW c \in Actors, NEW d \in Actors
        PROVE  /\ follow'[c][d] = "none" => followUri'[c][d] = NoUri
               /\ followUri'[c][d] # NoUri =>
                    \/ followUri'[c][d] \in AppUris /\ c \in LocalActors
                    \/ IsFollowOf(followUri[c][d], c, d)'
    <3>1. CASE c = a /\ d = b
          BY <1>0, <2>4, <2>5, <2>6, <3>1 DEF UriHasItsFollow, IsFollowOf
    <3>2. CASE ~(c = a /\ d = b)
          BY <1>0, <2>3, <3>2 DEF UriHasItsFollow, IsFollowOf
    <3> QED
        BY <3>1, <3>2
  <2> QED
      BY <2>7 DEF UriHasItsFollow
<1>2. ASSUME NEW m \in Messages, ProcessAccept(m) PROVE UriHasItsFollow'
  <2>1. ASSUME NEW a \in Actors, NEW b \in Actors, HasUri(a, b, m.object),
               SetRow(a, b, "accepted", followUri[a][b])
        PROVE  UriHasItsFollow'
    <3>1. \A c, d \in Actors : followUri'[c][d] = followUri[c][d]
          BY <2>1 DEF SetRow, TypeOK
    <3>2. \A c, d \in Actors : follow'[c][d] = "none" => follow[c][d] = "none"
          BY <2>1 DEF SetRow, TypeOK
    <3> QED
        BY <1>0, <3>1, <3>2, UriUntouched
  <2> QED
      BY <1>2, <1>b, <2>1 DEF ProcessAccept, table
<1>3. ASSUME NEW m \in Messages, ProcessReject(m) PROVE UriHasItsFollow'
      BY <1>3, <1>b, <1>c DEF ProcessReject, table
<1>4. ASSUME NEW m \in Messages, ProcessBlock(m) PROVE UriHasItsFollow'
  <2>1. ASSUME NEW a \in Actors, NEW b \in Actors, DeleteBoth(a, b), a # b
        PROVE  UriHasItsFollow'
    <3>1. /\ follow'    = [[follow EXCEPT ![a][b] = "none"] EXCEPT ![b][a] = "none"]
          /\ followUri' = [[followUri EXCEPT ![a][b] = NoUri] EXCEPT ![b][a] = NoUri]
          BY <2>1 DEF DeleteBoth
    <3>2. \A c, d \in Actors :
            follow'[c][d] =
              IF (c = a /\ d = b) \/ (c = b /\ d = a) THEN "none" ELSE follow[c][d]
          BY <3>1 DEF TypeOK
    <3>3. \A c, d \in Actors :
            followUri'[c][d] =
              IF (c = a /\ d = b) \/ (c = b /\ d = a) THEN NoUri ELSE followUri[c][d]
          BY <3>1 DEF TypeOK
    <3> QED
        BY <1>0, <3>2, <3>3, UriUntouched
  <2>2. ASSUME NEW a \in Actors, NEW b \in Actors, DeleteBoth(a, b)
        PROVE  UriHasItsFollow'
        BY <1>c, <2>1, <2>2 DEF DeleteBoth
  <2> QED
      BY <1>4, <1>a, <1>b, <2>2 DEF ProcessBlock, table
<1>5. ASSUME NEW m \in Messages, ProcessUndoFollow(m) PROVE UriHasItsFollow'
      BY <1>5, <1>a, <1>b, <1>c DEF ProcessUndoFollow, table
<1>6. ASSUME NEW a \in Actors, NEW b \in Actors, NEW u \in AppUris \union {NoUri},
             NEW s \in {"pending", "accepted"}, LocalFollow(a, b, u, s)
      PROVE  UriHasItsFollow'
  <2>1. \A c, d \in Actors :
           IF c = a /\ d = b THEN follow'[c][d] = s /\ followUri'[c][d] = u
           ELSE follow'[c][d] = follow[c][d] /\ followUri'[c][d] = followUri[c][d]
        BY <1>6 DEF LocalFollow, SetRow, TypeOK
  <2>2. a \in LocalActors /\ log' = log
        BY <1>6 DEF LocalFollow, inboxVars
  <2> QED
      BY <2>1, <2>2 DEF UriHasItsFollow, IsFollowOf
<1> QED
    BY <1>b, <1>1, <1>2, <1>3, <1>4, <1>5, <1>6
       DEF Next, ProcessMessage, ProcessOther, SetAutoAccept, RefreshStats, vars,
           graphVars, table

(* An Accept, a Reject or an Undo by URI finds the row its URI names, and  *)
(* the log still holds the Follow that made or last renewed it.            *)
THEOREM UrisSafe == Spec => []UriNamesItsFollow
<1>1. Init => TypeOK /\ OneEntryPerUri /\ UriHasItsFollow
      BY InitType DEF Init, InboxInit, GraphInit, OneEntryPerUri, UriHasItsFollow
<1>2. TypeOK /\ OneEntryPerUri /\ UriHasItsFollow /\ [Next]_vars
        => TypeOK' /\ OneEntryPerUri' /\ UriHasItsFollow'
      BY NextType, NextOneEntry, NextUris
<1>3. OneEntryPerUri /\ UriHasItsFollow => UriNamesItsFollow
  <2> SUFFICES ASSUME OneEntryPerUri, UriHasItsFollow,
                      NEW a \in Actors, NEW b \in Actors, followUri[a][b] # NoUri,
                      IsFollowOf(followUri[a][b], a, b)
               PROVE  /\ Logged(followUri[a][b])
                      /\ Entry(followUri[a][b]).type = "Follow"
                      /\ Entry(followUri[a][b]).actor = a
                      /\ Entry(followUri[a][b]).object = b
      BY DEF UriHasItsFollow, UriNamesItsFollow
  <2>1. PICK m \in log : /\ m.id = followUri[a][b] /\ m.type = "Follow"
                         /\ m.actor = a /\ m.object = b
        BY DEF IsFollowOf
  <2>2. Entry(followUri[a][b]) \in log /\ Entry(followUri[a][b]).id = followUri[a][b]
        BY <2>1 DEF Entry
  <2>3. Entry(followUri[a][b]) = m
        BY <2>1, <2>2 DEF OneEntryPerUri
  <2> QED
      BY <2>1, <2>3 DEF Logged
<1> QED
    BY <1>1, <1>2, <1>3, PTL DEF Spec

-----------------------------------------------------------------------------
(* Followers of local actors have been told. *)

(* Accepts are never taken back, and a row stays, goes, or is told of. *)
LEMMA ToldUntouched ==
  ASSUME TypeOK, FollowersWereTold, log \subseteq log',
         \A u \in Uris \union {NoUri} : accepts[u] > 0 => accepts'[u] > 0,
         \A c \in Actors, d \in LocalActors :
            \/ follow'[c][d] # "accepted"
            \/ follow[c][d] = "accepted" /\ followUri'[c][d] = followUri[c][d]
            \/ followUri'[c][d] \in Uris =>
                  \/ accepts'[followUri'[c][d]] > 0 \/ AnsweredWithoutId(c, d)'
                  \/ \E m \in log' : m.type = "Accept" /\ m.object = followUri'[c][d]
  PROVE  FollowersWereTold'
<1>1. ASSUME NEW c \in Actors, NEW d \in Actors, AnsweredWithoutId(c, d)
      PROVE  AnsweredWithoutId(c, d)'
      BY <1>1 DEF AnsweredWithoutId
<1> QED
    BY <1>1, ActorsAssumption DEF FollowersWereTold

LEMMA NextTold == TypeOK /\ FollowersWereTold /\ [Next]_vars => FollowersWereTold'
<1> SUFFICES ASSUME TypeOK, FollowersWereTold, [Next]_vars PROVE FollowersWereTold'
    OBVIOUS
<1>0. log \subseteq log' /\ LocalActors \subseteq Actors
      BY LogGrows, ActorsAssumption
<1>a. ASSUME UNCHANGED accepts,
             \A c \in Actors, d \in LocalActors :
                \/ follow'[c][d] # "accepted"
                \/ follow[c][d] = "accepted" /\ followUri'[c][d] = followUri[c][d]
      PROVE  FollowersWereTold'
      BY <1>0, <1>a, ToldUntouched
<1>1. ASSUME NEW m \in Messages, ProcessFollow(m) PROVE FollowersWereTold'
  <2>1. m.actor \in Actors /\ m.object \in Actors /\ m.id \in Uris \union {NoUri}
        BY <1>1, ReceiveType DEF ProcessFollow, TypeOK, InboxTypeOK
  <2>2. \A u \in Uris \union {NoUri} : accepts[u] > 0 => accepts'[u] > 0
        BY <1>1, <2>1 DEF ProcessFollow, Answer, TypeOK
  <2>3. \A c, d \in Actors : c # m.actor \/ d # m.object =>
          follow'[c][d] = follow[c][d] /\ followUri'[c][d] = followUri[c][d]
        BY <1>1, <2>1 DEF ProcessFollow, SetRow, TypeOK
  <2>4. /\ follow'[m.actor][m.object] = IF autoAccept THEN "accepted" ELSE "pending"
        /\ followUri'[m.actor][m.object] = RowUri(m)
        BY <1>1, <2>1 DEF ProcessFollow, SetRow, TypeOK
  <2>5. autoAccept /\ m.object \in LocalActors => accepts'[m.id] > 0
        BY <1>1, <2>1 DEF ProcessFollow, Answer, TypeOK
  <2>6. m.id # NoUri => RowUri(m) = m.id
        BY DEF RowUri
  <2>7. m.id = NoUri /\ accepts'[m.id] > 0 => AnsweredWithoutId(m.actor, m.object)'
        BY <1>1 DEF ProcessFollow, Receive, AnsweredWithoutId
  <2> QED
      BY <1>0, <2>2, <2>3, <2>4, <2>5, <2>6, <2>7, ToldUntouched
<1>2. ASSUME NEW m \in Messages, ProcessAccept(m) PROVE FollowersWereTold'
  <2>1. m \in log' /\ m.type = "Accept" /\ UNCHANGED accepts
        BY <1>2 DEF ProcessAccept, Receive
  <2>2. CASE \E a, b \in Actors : HasUri(a, b, m.object) /\ SetRow(a, b, "accepted", followUri[a][b])
    <3>1. PICK a \in Actors, b \in Actors :
            HasUri(a, b, m.object) /\ SetRow(a, b, "accepted", followUri[a][b])
          BY <2>2
    <3>2. followUri'[a][b] = m.object
          BY <3>1 DEF HasUri, SetRow, TypeOK
    <3>3. \A c, d \in Actors : c # a \/ d # b =>
            follow'[c][d] = follow[c][d] /\ followUri'[c][d] = followUri[c][d]
          BY <3>1 DEF SetRow, TypeOK
    <3> QED
        BY <1>0, <2>1, <3>2, <3>3, ToldUntouched
  <2>3. CASE UNCHANGED table
        BY <1>a, <2>1, <2>3 DEF table
  <2> QED
      BY <1>2, <2>2, <2>3 DEF ProcessAccept
<1>3. ASSUME NEW a \in Actors, NEW b \in Actors, DeleteRow(a, b), UNCHANGED accepts
      PROVE  FollowersWereTold'
      BY <1>0, <1>a, <1>3 DEF DeleteRow, SetRow, TypeOK
<1>4. ASSUME NEW m \in Messages, ProcessReject(m) PROVE FollowersWereTold'
      BY <1>a, <1>3, <1>4 DEF ProcessReject, table
<1>5. ASSUME NEW m \in Messages, ProcessBlock(m) PROVE FollowersWereTold'
  <2>1. m.actor \in Actors /\ known' \subseteq Actors
        BY <1>5, ReceiveType DEF ProcessBlock, TypeOK, InboxTypeOK
  <2>2. CASE m.object \in known' /\ DeleteBoth(m.actor, m.object)
    <3>1. CASE DeleteRow(m.actor, m.actor)
          BY <1>3, <1>5, <2>1, <3>1 DEF ProcessBlock
    <3>2. CASE ~DeleteRow(m.actor, m.actor)
      <4>1. m.actor # m.object /\ m.object \in Actors
            BY <2>1, <2>2, <3>2 DEF DeleteBoth
      <4>2. /\ follow' = [[follow EXCEPT ![m.actor][m.object] = "none"]
                                  EXCEPT ![m.object][m.actor] = "none"]
            /\ followUri' = [[followUri EXCEPT ![m.actor][m.object] = NoUri]
                                        EXCEPT ![m.object][m.actor] = NoUri]
            BY <2>2, <3>2 DEF DeleteBoth
      <4>3. \A c, d \in Actors :
               \/ follow'[c][d] = "none"
               \/ follow'[c][d] = follow[c][d] /\ followUri'[c][d] = followUri[c][d]
            BY <2>1, <4>1, <4>2 DEF TypeOK
      <4> QED
          BY <1>0, <1>5, <1>a, <4>3 DEF ProcessBlock
    <3> QED
        BY <3>1, <3>2
  <2>3. CASE UNCHANGED table
        BY <1>a, <1>5, <2>3 DEF ProcessBlock, table
  <2> QED
      BY <1>5, <2>2, <2>3 DEF ProcessBlock
<1>6. ASSUME NEW m \in Messages, ProcessUndoFollow(m) PROVE FollowersWereTold'
  <2>1. m.actor \in Actors /\ known' \subseteq Actors
        BY <1>6, ReceiveType DEF ProcessUndoFollow, TypeOK, InboxTypeOK
  <2> QED
      BY <1>3, <1>6, <1>a, <2>1 DEF ProcessUndoFollow, table
<1>7. ASSUME NEW a \in Actors, NEW b \in Actors, NEW u \in AppUris \union {NoUri},
             NEW s, LocalFollow(a, b, u, s)
      PROVE  FollowersWereTold'
  <2>1. followUri'[a][b] \notin Uris /\ UNCHANGED accepts
        BY <1>7, GraphAssumption DEF LocalFollow, SetRow, TypeOK, Uris
  <2>2. \A c, d \in Actors : c # a \/ d # b =>
          follow'[c][d] = follow[c][d] /\ followUri'[c][d] = followUri[c][d]
        BY <1>7 DEF LocalFollow, SetRow, TypeOK
  <2> QED
      BY <1>0, <2>1, <2>2, ToldUntouched
<1>8. ASSUME UNCHANGED <<follow, followUri, accepts>> PROVE FollowersWereTold'
      BY <1>a, <1>8
<1> QED
    BY <1>1, <1>2, <1>4, <1>5, <1>6, <1>7, <1>8
       DEF Next, ProcessMessage, ProcessOther, SetAutoAccept, RefreshStats, vars,
           graphVars, table

(* Nobody is counted among the followers of a local actor who was not told *)
(* of it: whatever activities come, in whatever order and however often.   *)
THEOREM ToldSafe == Spec => []FollowersWereTold
<1>1. Init => TypeOK /\ FollowersWereTold
      BY InitType, ActorsAssumption DEF Init, GraphInit, FollowersWereTold
<1>2. TypeOK /\ FollowersWereTold /\ [Next]_vars => TypeOK' /\ FollowersWereTold'
      BY NextType, NextTold
<1> QED
    BY <1>1, <1>2, PTL DEF Spec

-----------------------------------------------------------------------------
(* What is gone. *)

(* A row appears by a Follow that is not in the log, or by the application. *)
LEMMA OnlyFollowsAdd ==
  ASSUME TypeOK, [Next]_vars, NEW a \in Actors, NEW b \in Actors,
         follow[a][b] = "none", follow'[a][b] # "none"
  PROVE  \/ a \in LocalActors
         \/ \E m \in Messages :
              /\ m.type = "Follow" /\ m.actor = a /\ m.object = b
              /\ m \in log'
              /\ ~Logged(m.id)
<1>1. ASSUME NEW m \in Messages, ProcessFollow(m)
      PROVE  /\ m.type = "Follow" /\ m.actor = a /\ m.object = b
             /\ m \in log'
             /\ ~Logged(m.id)
      BY <1>1 DEF ProcessFollow, Receive, IsDuplicate, SetRow, TypeOK
<1>2. ASSUME NEW m \in Messages, ProcessAccept(m) PROVE FALSE
  <2>1. PICK c \in Actors, d \in Actors :
          /\ HasUri(c, d, m.object)
          /\ SetRow(c, d, "accepted", followUri[c][d])
        BY <1>2 DEF ProcessAccept, table
  <2>2. follow[c][d] # "none" /\ follow' = [follow EXCEPT ![c][d] = "accepted"]
        BY <2>1 DEF HasUri, SetRow
  <2> QED
      BY <2>2 DEF TypeOK
<1>3. ASSUME NEW c, NEW d, DeleteRow(c, d) PROVE FALSE
      BY <1>3 DEF DeleteRow, SetRow, TypeOK
<1>4. ASSUME NEW m \in Messages, ProcessReject(m) PROVE FALSE
      BY <1>3, <1>4 DEF ProcessReject, table
<1>5. ASSUME NEW m \in Messages, ProcessBlock(m) PROVE FALSE
  <2>1. ASSUME NEW c, NEW d, DeleteBoth(c, d) PROVE FALSE
    <3>1. CASE c # d
      <4>1. follow' = [[follow EXCEPT ![c][d] = "none"] EXCEPT ![d][c] = "none"]
            BY <1>3, <2>1, <3>1 DEF DeleteBoth
      <4> QED
          BY <4>1 DEF TypeOK
    <3> QED
        BY <1>3, <2>1, <3>1 DEF DeleteBoth
  <2> QED
      BY <1>5, <2>1 DEF ProcessBlock, table
<1>6. ASSUME NEW m \in Messages, ProcessUndoFollow(m) PROVE FALSE
      BY <1>3, <1>6 DEF ProcessUndoFollow, table
<1>7. ASSUME NEW c \in Actors, NEW d \in Actors, NEW u, NEW s, LocalFollow(c, d, u, s)
      PROVE  a \in LocalActors
      BY <1>7 DEF LocalFollow, SetRow, TypeOK
<1>8. CASE UNCHANGED follow
      BY <1>8
<1> QED
    BY <1>1, <1>2, <1>4, <1>5, <1>6, <1>7, <1>8
       DEF Next, ProcessMessage, ProcessOther, SetAutoAccept, RefreshStats, vars,
           graphVars, table

(* No repeated, delayed or reordered delivery of a Follow brings back what *)
(* an Undo, a Reject or a Block took away.                                 *)
THEOREM GoneSafe == Spec => GoneStaysGone
<1>1. TypeOK /\ [Next]_vars =>
        [\A a, b \in Actors :
            follow[a][b] = "none" /\ follow'[a][b] # "none" =>
                \/ a \in LocalActors
                \/ \E m \in Messages :
                    /\ m.type = "Follow" /\ m.actor = a /\ m.object = b
                    /\ m \in log'
                    /\ ~Logged(m.id)]_vars
      BY OnlyFollowsAdd
<1> QED
    BY <1>1, TypeCorrect, PTL DEF Spec, GoneStaysGone
=============================================================================
