----------------------------- MODULE SocialGraph -----------------------------
(***************************************************************************)
(* The social graph: ap_follows with its URIs, the counters that triggers  *)
(* keep in ap_actor_stats, actor blocks, and the Accept activities the     *)
(* server answers with.  Follow, Accept, Reject, Block and Undo Follow     *)
(* come through the inbox; the GUC that accepts follows automatically may  *)
(* change at any time.                                                     *)
(***************************************************************************)
EXTENDS Inbox

CONSTANTS
    AppUris,      \* URIs an application gives the follows of its local users
    MaxAnonymous  \* bound: Follows without id that are answered

VARIABLES
    follow,      \* follow[a][b]: row of a following b: "none", "pending", "accepted"
    followUri,   \* ap_follows.uri of that row
    followers,   \* ap_actor_stats.followers_count
    following,   \* ap_actor_stats.following_count
    actorBlocks, \* rows of ap_blocks between actors
    autoAccept,  \* GUC pg_fedi.auto_accept_follows
    accepts      \* accepts[u]: Accept activities queued in answer to Follow u

graphVars == <<follow, followUri, followers, following, actorBlocks, autoAccept, accepts>>
vars      == <<inboxVars, graphVars>>

FollowUris == Uris \union AppUris \union {NoUri}
RowStates  == {"none", "pending", "accepted"}

ASSUME GraphAssumption ==
    /\ AppUris \intersect (Uris \union {NoUri}) = {}
    /\ MaxAnonymous \in Nat

TypeOK ==
    /\ InboxTypeOK
    /\ follow      \in [Actors -> [Actors -> RowStates]]
    /\ followUri   \in [Actors -> [Actors -> FollowUris]]
    /\ followers   \in [Actors -> Nat]
    /\ following   \in [Actors -> Nat]
    /\ actorBlocks \subseteq Actors \X Actors
    /\ autoAccept  \in BOOLEAN
    /\ accepts     \in [Uris \union {NoUri} -> Nat]

GraphInit ==
    /\ follow      = [a \in Actors |-> [b \in Actors |-> "none"]]
    /\ followUri   = [a \in Actors |-> [b \in Actors |-> NoUri]]
    /\ followers   = [a \in Actors |-> 0]
    /\ following   = [a \in Actors |-> 0]
    /\ actorBlocks = {}
    /\ autoAccept  \in BOOLEAN
    /\ accepts     = [u \in Uris \union {NoUri} |-> 0]

Init == InboxInit /\ GraphInit

-----------------------------------------------------------------------------
(* The table and its trigger. *)

(* Mutant of Counted: the trigger does not look at the old row. *)
CountedBlindly(n, was, now) == IF now = "accepted" THEN n + 1 ELSE n - 1

(* ap_follow_stats_update on one counter of one end of a row. *)
Counted(n, was, now) ==
    IF was # "accepted" /\ now = "accepted" THEN n + 1
    ELSE IF was = "accepted" /\ now # "accepted" THEN (IF n > 0 THEN n - 1 ELSE 0)
    ELSE n

(* INSERT, UPDATE or DELETE of the row of a following b, with the trigger. *)
(* The trigger ignores a row that stays as accepted as it was.             *)
SetRow(a, b, s, u) ==
    /\ follow'    = [follow EXCEPT ![a][b] = s]
    /\ followUri' = [followUri EXCEPT ![a][b] = u]
    /\ followers' = [followers EXCEPT ![b] = Counted(@, follow[a][b], s)]
    /\ following' = [following EXCEPT ![a] = Counted(@, follow[a][b], s)]

(* Mutant of DeleteRow: the rows go without their trigger. *)
DeleteRowUncounted(a, b) ==
    /\ follow'    = [follow EXCEPT ![a][b] = "none"]
    /\ followUri' = [followUri EXCEPT ![a][b] = NoUri]
    /\ UNCHANGED <<followers, following>>

DeleteRow(a, b) == SetRow(a, b, "none", NoUri)

(* DELETE of the rows of both directions between two actors. *)
DeleteBoth(a, b) ==
    \/ a = b /\ DeleteRow(a, a)
    \/ /\ a # b
       /\ follow'    = [follow EXCEPT ![a][b] = "none", ![b][a] = "none"]
       /\ followUri' = [followUri EXCEPT ![a][b] = NoUri, ![b][a] = NoUri]
       /\ followers' = [followers EXCEPT ![b] = Counted(@, follow[a][b], "none"),
                                         ![a] = Counted(@, follow[b][a], "none")]
       /\ following' = [following EXCEPT ![a] = Counted(@, follow[a][b], "none"),
                                         ![b] = Counted(@, follow[b][a], "none")]

table == <<follow, followUri, followers, following>>

HasUri(a, b, u) == u # NoUri /\ follow[a][b] # "none" /\ followUri[a][b] = u

(* WHERE uri = u on ap_follows finds one row or none. *)
IsUriOfRow(u) == \E a, b \in Actors : HasUri(a, b, u)

(* UNIQUE(uri) on ap_follows, for the row of a following b. *)
UriIsFree(u, a, b) ==
    \A c, d \in Actors : HasUri(c, d, u) => c = a /\ d = b

-----------------------------------------------------------------------------
(* The handlers. *)

(* uri = COALESCE(EXCLUDED.uri, ap_follows.uri). *)
RowUri(m) == IF m.id = NoUri THEN followUri[m.actor][m.object] ELSE m.id

(* Mutant of Answer: an upsert of an existing row is not answered. *)
AnswerNewRow(m) ==
    IF autoAccept /\ m.object \in LocalActors /\ follow[m.actor][m.object] = "none"
    THEN accepts' = [accepts EXCEPT ![m.id] = @ + 1]
    ELSE UNCHANGED accepts

(* An Accept activity and its delivery are queued for a local target only. *)
Answer(m) ==
    IF autoAccept /\ m.object \in LocalActors
    THEN accepts' = [accepts EXCEPT ![m.id] = @ + 1]
    ELSE UNCHANGED accepts

(* process_follow: the row is inserted or updated to what the GUC says,    *)
(* even if that takes an acceptance back; an unknown target is an error.   *)
ProcessFollow(m) ==
    /\ m.type = "Follow"
    /\ Receive(m)
    /\ m.object \in known'
    /\ UriIsFree(m.id, m.actor, m.object)
    /\ m.id = NoUri => accepts[NoUri] < MaxAnonymous
    /\ SetRow(m.actor, m.object, IF autoAccept THEN "accepted" ELSE "pending", RowUri(m))
    /\ Answer(m)
    /\ UNCHANGED <<actorBlocks, autoAccept>>

(* process_accept: UPDATE ... WHERE uri = the Follow's. *)
ProcessAccept(m) ==
    /\ m.type = "Accept"
    /\ HasObject(m)
    /\ Receive(m)
    /\ \/ \E a, b \in Actors :
            /\ HasUri(a, b, m.object)
            /\ SetRow(a, b, "accepted", followUri[a][b])
       \/ ~IsUriOfRow(m.object) /\ UNCHANGED table
    /\ UNCHANGED <<actorBlocks, autoAccept, accepts>>

(* process_reject: DELETE ... WHERE uri = the Follow's. *)
ProcessReject(m) ==
    /\ m.type = "Reject"
    /\ HasObject(m)
    /\ Receive(m)
    /\ \/ \E a, b \in Actors : HasUri(a, b, m.object) /\ DeleteRow(a, b)
       \/ ~IsUriOfRow(m.object) /\ UNCHANGED table
    /\ UNCHANGED <<actorBlocks, autoAccept, accepts>>

(* process_block: nothing but the log if the target has no row. *)
ProcessBlock(m) ==
    /\ m.type = "Block"
    /\ m.object # NoUri
    /\ Receive(m)
    /\ \/ /\ m.object \in known'
          /\ actorBlocks' = actorBlocks \union {<<m.actor, m.object>>}
          /\ DeleteBoth(m.actor, m.object)
       \/ m.object \notin known' /\ UNCHANGED <<actorBlocks, table>>
    /\ UNCHANGED <<autoAccept, accepts>>

(* process_undo: type and object of what is undone are read from the       *)
(* embedded activity, or from the log when only its URI is given.          *)
UndoneType(m) ==
    IF m.embedded THEN m.inner.type
    ELSE IF Logged(m.object) THEN Entry(m.object).type ELSE "unknown"
UndoneObject(m) ==
    IF m.embedded THEN m.inner.object
    ELSE IF Logged(m.object) THEN Entry(m.object).object ELSE NoUri

(* The Undo itself is in the log by then, but undoes nothing that is an Undo. *)
ProcessUndoFollow(m) ==
    /\ m.type = "Undo"
    /\ UndoneType(m) = "Follow"
    /\ Receive(m)
    /\ \/ UndoneObject(m) \in known' /\ DeleteRow(m.actor, UndoneObject(m))
       \/ UndoneObject(m) \notin known' /\ UNCHANGED table
    /\ UNCHANGED <<actorBlocks, autoAccept, accepts>>

(* Any other activity: logged, and nothing of the graph changes.  Content  *)
(* says what those about objects need.                                     *)
IsForGraph(m) ==
    \/ m.type \in {"Follow", "Accept", "Reject", "Block"}
    \/ m.type = "Undo" /\ UndoneType(m) = "Follow"

ProcessOther(m) ==
    /\ ~IsForGraph(m)
    /\ m.type = "Undo" => HasObject(m)
    /\ Receive(m)
    /\ UNCHANGED graphVars

-----------------------------------------------------------------------------
(* An application's own INSERT INTO ap_follows, for a local user. *)
LocalFollow(a, b, u, s) ==
    /\ a \in LocalActors
    /\ b \in known
    /\ follow[a][b] = "none"
    /\ UriIsFree(u, a, b)
    /\ SetRow(a, b, s, u)
    /\ UNCHANGED <<inboxVars, actorBlocks, autoAccept, accepts>>

SetAutoAccept ==
    /\ autoAccept' = ~autoAccept
    /\ UNCHANGED <<inboxVars, table, actorBlocks, accepts>>

FollowersOf(b) == {a \in Actors : follow[a][b] = "accepted"}
FollowedBy(a)  == {b \in Actors : follow[a][b] = "accepted"}

(* ap_refresh_actor_stats, the two counters of the graph. *)
RefreshStats ==
    /\ followers' = [b \in Actors |-> Cardinality(FollowersOf(b))]
    /\ following' = [a \in Actors |-> Cardinality(FollowedBy(a))]
    /\ UNCHANGED <<inboxVars, follow, followUri, actorBlocks, autoAccept, accepts>>

ProcessMessage(m) ==
    \/ ProcessFollow(m)
    \/ ProcessAccept(m)
    \/ ProcessReject(m)
    \/ ProcessBlock(m)
    \/ ProcessUndoFollow(m)
    \/ ProcessOther(m)

Next ==
    \/ \E m \in Messages : ProcessMessage(m)
    \/ \E a, b \in Actors, u \in AppUris \union {NoUri}, s \in {"pending", "accepted"} : LocalFollow(a, b, u, s)
    \/ Moderate /\ UNCHANGED graphVars
    \/ SetAutoAccept
    \/ RefreshStats

Spec == Init /\ [][Next]_vars

-----------------------------------------------------------------------------
(* The counters that triggers keep row by row are the numbers of accepted  *)
(* rows, through inserts, upserts that accept or take back, deletes of one *)
(* row and of both directions.                                             *)
StatsMatchGraph ==
    \A a \in Actors :
        /\ followers[a] = Cardinality(FollowersOf(a))
        /\ following[a] = Cardinality(FollowedBy(a))

(* A row's URI names a Follow by that follower of that actor, received and *)
(* logged, or an application's own follow: an Accept or a Reject of it,    *)
(* and an Undo by URI, find the follow they are about and no other.        *)
UriNamesItsFollow ==
    \A a, b \in Actors :
        LET u == followUri[a][b] IN
        follow[a][b] # "none" /\ u # NoUri =>
            \/ u \in AppUris /\ a \in LocalActors
            \/ Logged(u) /\ LET m == Entry(u) IN
                              m.type = "Follow" /\ m.actor = a /\ m.object = b

(* However often a Follow is delivered, it is answered once. *)
AnsweredOnce == \A u \in Uris : accepts[u] <= 1

(* A Follow without id was received from a for b, and one was answered. *)
AnsweredWithoutId(a, b) ==
    /\ accepts[NoUri] > 0
    /\ \E m \in log : m.type = "Follow" /\ m.id = NoUri /\ m.actor = a /\ m.object = b

(* A follower counted for a local actor has been told so: the Follow its   *)
(* row names, or one without id, was answered by an Accept of this server, *)
(* or an Accept was received for it.                                       *)
FollowersWereTold ==
    \A a \in Actors, b \in LocalActors :
        LET u == followUri[a][b] IN
        follow[a][b] = "accepted" /\ u \in Uris =>
            \/ accepts[u] > 0 \/ AnsweredWithoutId(a, b)
            \/ \E m \in log : m.type = "Accept" /\ m.object = u

(* A follow that was undone, rejected or blocked away comes back only by a *)
(* Follow that was never processed before, or by the application: not by   *)
(* another delivery of the one that made it.                               *)
GoneStaysGone ==
    [][\A a, b \in Actors :
        follow[a][b] = "none" /\ follow'[a][b] # "none" =>
            \/ a \in LocalActors
            \/ \E m \in Messages :
                /\ m.type = "Follow" /\ m.actor = a /\ m.object = b
                /\ m \in log'
                /\ ~Logged(m.id)]_vars

=============================================================================
