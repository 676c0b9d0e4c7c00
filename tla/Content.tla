------------------------------- MODULE Content -------------------------------
(***************************************************************************)
(* The whole server behind its inbox and its application interface: the    *)
(* social graph together with ap_objects, ap_likes, ap_announces, the      *)
(* count of statuses in ap_actor_stats, and the deliveries a note is       *)
(* queued for.  Create, Update, Delete, Like, Announce and the Undo of the *)
(* last two come through the inbox; ap_create_note is the application's.   *)
(***************************************************************************)
EXTENDS SocialGraph

CONSTANTS
    Objects,    \* URIs of objects
    Notes,      \* Notes[a]: the URIs ap_create_note may give the notes of a
    Inbox,      \* Inbox[a]: COALESCE(shared_inbox_uri, inbox_uri) of the actor
    Contents,   \* what an object may contain
    Nobody,     \* no owner: the object has no row
    NoContent   \* NULL

VARIABLES
    owner,     \* ap_objects.actor_id, Nobody before the row is inserted
    deleted,   \* ap_objects.deleted_at IS NOT NULL
    content,   \* ap_objects.content and content_text
    likes,     \* likes[o]: actors with a row in ap_likes
    announces, \* announces[o]: actors with a row in ap_announces
    statuses,  \* ap_actor_stats.statuses_count
    sent       \* sent[o][i]: rows of ap_deliveries for note o to inbox i

objectVars  == <<owner, deleted, content>>
contentVars == <<objectVars, likes, announces, statuses, sent>>
cvars       == <<vars, contentVars>>

Inboxes == {Inbox[a] : a \in Actors}

ASSUME ContentAssumption ==
    /\ IsFiniteSet(Objects)
    /\ Notes \in [Actors -> SUBSET Objects]
    /\ Nobody \notin Actors
    /\ NoContent \notin Contents
    /\ \A m \in Messages : m.embedded =>
        /\ m.inner.content \in Contents \union {NoContent}
        /\ m.type = "Create" => m.object \in Objects

CTypeOK ==
    /\ TypeOK
    /\ owner     \in [Objects -> Actors \union {Nobody}]
    /\ deleted   \in [Objects -> BOOLEAN]
    /\ content   \in [Objects -> Contents \union {NoContent}]
    /\ likes     \in [Objects -> SUBSET Actors]
    /\ announces \in [Objects -> SUBSET Actors]
    /\ statuses  \in [Actors -> Nat]
    /\ sent      \in [Objects -> [Inboxes -> Nat]]

CInit ==
    /\ Init
    /\ owner     = [o \in Objects |-> Nobody]
    /\ deleted   = [o \in Objects |-> FALSE]
    /\ content   = [o \in Objects |-> NoContent]
    /\ likes     = [o \in Objects |-> {}]
    /\ announces = [o \in Objects |-> {}]
    /\ statuses  = [a \in Actors |-> 0]
    /\ sent      = [o \in Objects |-> [i \in Inboxes |-> 0]]

-----------------------------------------------------------------------------
HasRow(o)   == owner[o] # Nobody
OwnedBy(a)  == {o \in Objects : owner[o] = a}
LiveBy(a)   == {o \in OwnedBy(a) : ~deleted[o]}

(* INSERT INTO ap_objects, with the trigger ap_status_count_update. *)
InsertObject(o, a, c) ==
    /\ owner'    = [owner EXCEPT ![o] = a]
    /\ deleted'  = [deleted EXCEPT ![o] = FALSE]
    /\ content'  = [content EXCEPT ![o] = c]
    /\ statuses' = [statuses EXCEPT ![a] = @ + 1]

(* process_create has a list of the object types it stores; of the others, *)
(* "Person" stands for all.                                                *)
IsStored(m) == m.embedded /\ m.inner.type = "Note"

(* Mutants of ProcessCreate: an upsert makes the object anew; the object   *)
(* already there is counted once more.                                     *)
CreateUpserts(m) ==
    /\ m.type = "Create"
    /\ Receive(m)
    /\ IF IsStored(m) THEN InsertObject(m.object, m.actor, m.inner.content)
       ELSE UNCHANGED <<objectVars, statuses>>
    /\ UNCHANGED <<graphVars, likes, announces, sent>>
CreateCountsTwice(m) ==
    /\ m.type = "Create"
    /\ Receive(m)
    /\ IF IsStored(m) THEN statuses' = [statuses EXCEPT ![m.actor] = @ + 1]
       ELSE UNCHANGED statuses
    /\ IF IsStored(m) /\ ~HasRow(m.object)
       THEN /\ owner'   = [owner EXCEPT ![m.object] = m.actor]
            /\ content' = [content EXCEPT ![m.object] = m.inner.content]
       ELSE UNCHANGED <<owner, content>>
    /\ UNCHANGED <<graphVars, deleted, likes, announces, sent>>

(* process_create: ON CONFLICT (uri) DO NOTHING, whoever owns the row and  *)
(* whether or not it is deleted.                                           *)
ProcessCreate(m) ==
    /\ m.type = "Create"
    /\ HasObject(m)
    /\ Receive(m)
    /\ IF IsStored(m) /\ ~HasRow(m.object)
       THEN InsertObject(m.object, m.actor, m.inner.content)
       ELSE UNCHANGED <<objectVars, statuses>>
    /\ UNCHANGED <<graphVars, likes, announces, sent>>

(* Mutant of Owns: the sender is not compared with the owner. *)
OwnsAnything(a, o) == o \in Objects

(* WHERE uri = o AND actor_id = a *)
Owns(a, o) == o \in Objects /\ owner[o] = a

(* process_update: a deleted object takes the new content, too. *)
ProcessUpdate(m) ==
    /\ m.type = "Update"
    /\ m.object # NoUri
    /\ Receive(m)
    /\ IF m.embedded /\ Owns(m.actor, m.object) /\ m.inner.content # NoContent
       THEN content' = [content EXCEPT ![m.object] = m.inner.content]
       ELSE UNCHANGED content
    /\ UNCHANGED <<graphVars, owner, deleted, likes, announces, statuses, sent>>

(* process_delete: the row stays, without content; the status count does   *)
(* not change, its trigger is for INSERT and DELETE only.                  *)
ProcessDelete(m) ==
    /\ m.type = "Delete"
    /\ m.object # NoUri
    /\ Receive(m)
    /\ IF Owns(m.actor, m.object)
       THEN /\ deleted' = [deleted EXCEPT ![m.object] = TRUE]
            /\ content' = [content EXCEPT ![m.object] = NoContent]
       ELSE UNCHANGED <<deleted, content>>
    /\ UNCHANGED <<graphVars, owner, likes, announces, statuses, sent>>

(* process_like and process_announce: ON CONFLICT DO NOTHING; a reaction   *)
(* to an object that has no row is forgotten.                              *)
WithReaction(reactions, m) ==
    IF m.object \in Objects /\ HasRow(m.object)
    THEN [reactions EXCEPT ![m.object] = @ \union {m.actor}]
    ELSE reactions

(* process_undo of a Like or an Announce: the sender's own reaction. *)
WithoutReaction(reactions, m) ==
    IF UndoneObject(m) \in Objects
    THEN [reactions EXCEPT ![UndoneObject(m)] = @ \ {m.actor}]
    ELSE reactions

ProcessLike(m) ==
    /\ m.type = "Like"
    /\ m.object # NoUri
    /\ Receive(m)
    /\ likes' = WithReaction(likes, m)
    /\ UNCHANGED <<graphVars, objectVars, announces, statuses, sent>>

ProcessAnnounce(m) ==
    /\ m.type = "Announce"
    /\ m.object # NoUri
    /\ Receive(m)
    /\ announces' = WithReaction(announces, m)
    /\ UNCHANGED <<graphVars, objectVars, likes, statuses, sent>>

ProcessUndoLike(m) ==
    /\ m.type = "Undo"
    /\ UndoneType(m) = "Like"
    /\ Receive(m)
    /\ likes' = WithoutReaction(likes, m)
    /\ UNCHANGED <<graphVars, objectVars, announces, statuses, sent>>

ProcessUndoAnnounce(m) ==
    /\ m.type = "Undo"
    /\ UndoneType(m) = "Announce"
    /\ Receive(m)
    /\ announces' = WithoutReaction(announces, m)
    /\ UNCHANGED <<graphVars, objectVars, likes, statuses, sent>>

-----------------------------------------------------------------------------
(* ap_create_note: the object, and one delivery for each accepted remote   *)
(* follower, so several to an inbox that followers share.                  *)
RemoteFollowers(a, i) ==
    {f \in FollowersOf(a) : f \notin LocalActors /\ Inbox[f] = i}

CreateNote(a, o, c) ==
    /\ a \in LocalActors
    /\ o \in Notes[a]
    /\ ~HasRow(o)
    /\ InsertObject(o, a, c)
    /\ sent' = [sent EXCEPT ![o] = [i \in Inboxes |-> Cardinality(RemoteFollowers(a, i))]]
    /\ UNCHANGED <<vars, likes, announces>>

(* ap_refresh_actor_stats: with the counters of the graph, the number of   *)
(* objects that are not deleted.                                           *)
RefreshStatuses ==
    /\ RefreshStats
    /\ statuses' = [a \in Actors |-> Cardinality(LiveBy(a))]
    /\ UNCHANGED <<objectVars, likes, announces, sent>>

-----------------------------------------------------------------------------
ProcessObject(m) ==
    \/ ProcessCreate(m)
    \/ ProcessUpdate(m)
    \/ ProcessDelete(m)
    \/ ProcessLike(m)
    \/ ProcessAnnounce(m)
    \/ ProcessUndoLike(m)
    \/ ProcessUndoAnnounce(m)

IsForObjects(m) ==
    \/ m.type \in {"Create", "Update", "Delete", "Like", "Announce"}
    \/ m.type = "Undo" /\ UndoneType(m) \in {"Like", "Announce"}

CNext ==
    \/ \E m \in Messages :
        \/ ProcessObject(m)
        \/ ~IsForObjects(m) /\ ProcessMessage(m) /\ UNCHANGED contentVars
    \/ \E a \in LocalActors, o \in Objects, c \in Contents : CreateNote(a, o, c)
    \/ RefreshStatuses
    \/ Moderate /\ UNCHANGED <<graphVars, contentVars>>
    \/ SetAutoAccept /\ UNCHANGED contentVars
    \/ \E a, b \in Actors, u \in AppUris \union {NoUri}, s \in {"pending", "accepted"} :
        LocalFollow(a, b, u, s) /\ UNCHANGED contentVars

CSpec == CInit /\ [][CNext]_cvars

-----------------------------------------------------------------------------
(* The count of statuses lies between the objects an actor has and those   *)
(* it ever had: Creates sent again or by several servers, soft deletes and *)
(* recalculations in any order neither lose one nor count one twice.       *)
StatusesCounted ==
    \A a \in Actors :
        /\ Cardinality(LiveBy(a)) <= statuses[a]
        /\ statuses[a] <= Cardinality(OwnedBy(a))

(* A deleted object stays deleted and its owner's: a Create of it that is  *)
(* sent again, or arrives late, brings nothing back to the timelines.      *)
TombstonesStay ==
    [][\A o \in Objects :
        /\ deleted[o] => deleted'[o]
        /\ HasRow(o) => owner'[o] = owner[o]]_cvars

(* What an object says, and whether it is deleted, changes only by an      *)
(* activity of its owner, about that object, not processed before.         *)
OnlyOwnersChange ==
    [][\A o \in Objects :
        HasRow(o) /\ (content'[o] # content[o] \/ deleted'[o] # deleted[o]) =>
            \E m \in log' :
                /\ m.actor = owner[o] /\ m.object = o
                /\ m.type \in {"Update", "Delete"}
                /\ m \notin log \/ m.id = NoUri]_cvars

(* A like or a boost appears only by an activity of its actor about that   *)
(* object, not processed before: one that was undone stays undone however  *)
(* often its Like is delivered again.                                      *)
ReactionsComeAnew ==
    [][\A o \in Objects, a \in Actors :
        LET New(t) == \E m \in log' :
                /\ m.type = t /\ m.actor = a /\ m.object = o
                /\ m \notin log \/ m.id = NoUri
        IN  /\ a \in likes'[o] \ likes[o] => New("Like")
            /\ a \in announces'[o] \ announces[o] => New("Announce")]_cvars
=============================================================================
