-------------------------------- MODULE Inbox --------------------------------
(***************************************************************************)
(* What ap_process_inbox_activity does with every activity, whatever its   *)
(* type: the domain block, the de-duplication, the stub row of an unknown  *)
(* sender and the activity log (src/activities.rs).  The handlers of the   *)
(* types are in the modules that extend this one; here an activity changes *)
(* nothing else, as one of a type without handler does.                    *)
(*                                                                         *)
(* A call is one transaction, and an error in it undoes all of it, so a    *)
(* call that fails is a step that changes nothing; InboxRace looks at      *)
(* calls that overlap.  The network is as bad as it can be: any activity   *)
(* may be received at any time, in any order, any number of times.         *)
(***************************************************************************)
EXTENDS Integers, FiniteSets

CONSTANTS
    Actors,      \* URIs of actors
    LocalActors, \* the actors of this server
    Handle,      \* Handle[a]: username and domain of the row of actor a
    Domain,      \* Domain[a]: parse_domain of the actor's URI
    Messages,    \* the activities other servers may send
    NoUri        \* an absent "id" or "object"

(* An activity as the handlers read it.  "object" is the URI in the        *)
(* activity's object, or the id of the object embedded in it; "embedded"   *)
(* tells the two apart; "inner" holds what is read of an embedded object:  *)
(* its type, its own object and its content.                               *)
InnerFields == {"type", "object", "content"}

ASSUME ActorsAssumption ==
    /\ IsFiniteSet(Actors)
    /\ LocalActors \subseteq Actors
ASSUME MessagesAssumption ==
    \A m \in Messages :
        /\ DOMAIN m = {"id", "type", "actor", "object", "embedded", "inner"}
        /\ m.actor \in Actors
        /\ m.embedded \in BOOLEAN
        /\ DOMAIN m.inner = InnerFields

Uris == {m.id : m \in Messages} \ {NoUri}

VARIABLES
    known,   \* actors that have a row in ap_actors
    log,     \* ap_activities: what was received and processed
    blocked  \* ap_blocks: domains with a row (duplicate rows are not told apart)

inboxVars == <<known, log, blocked>>

InboxTypeOK ==
    /\ known \subseteq Actors
    /\ log \subseteq Messages
    /\ blocked \subseteq {Domain[a] : a \in Actors}

InboxInit ==
    /\ known = LocalActors
    /\ log = {}
    /\ blocked = {}

-----------------------------------------------------------------------------
(* activity.get("object") finds one.  A handler that needs the object, or  *)
(* its URI, fails without, and with it the call.                           *)
HasObject(m) == m.embedded \/ m.object # NoUri

Logged(u) == u # NoUri /\ \E m \in log : m.id = u
Entry(u)  == CHOOSE m \in log : m.id = u

(* Mutant of IsDuplicate: no de-duplication. *)
IsNeverDuplicate(m) == FALSE

IsRefused(m)   == Domain[m.actor] \in blocked
IsDuplicate(m) == Logged(m.id)

(* resolve_actor_id: the sender's row, or a stub.  The stub violates       *)
(* UNIQUE(username, domain) if a row with another URI has its handle.      *)
CanResolve(a) == a \in known \/ \A b \in known : Handle[b] # Handle[a]

(* Mutant of Receive: the activity is not stored. *)
ReceiveUnlogged(m) ==
    /\ ~IsRefused(m)
    /\ ~IsDuplicate(m)
    /\ CanResolve(m.actor)
    /\ known' = known \union {m.actor}
    /\ UNCHANGED <<log, blocked>>

(* The way of an activity that is neither refused nor a duplicate: both    *)
(* of these return early and leave no trace.                               *)
Receive(m) ==
    /\ ~IsRefused(m)
    /\ ~IsDuplicate(m)
    /\ CanResolve(m.actor)
    /\ known' = known \union {m.actor}
    /\ log'   = log \union {m}
    /\ UNCHANGED blocked

(* ap_block_domain and ap_unblock_domain.  Nothing known of the domain is  *)
(* removed by a block.                                                     *)
BlockDomain(x) ==
    /\ blocked' = blocked \union {x}
    /\ UNCHANGED <<known, log>>

UnblockDomain(x) ==
    /\ blocked' = blocked \ {x}
    /\ UNCHANGED <<known, log>>

Moderate == \E a \in Actors : BlockDomain(Domain[a]) \/ UnblockDomain(Domain[a])

-----------------------------------------------------------------------------
(* ap_activities.uri is UNIQUE: an id names one activity for ever, however *)
(* often the id is sent again, with the same content or another.           *)
OneEntryPerUri ==
    \A m, n \in log : m.id = n.id /\ m.id # NoUri => m = n
=============================================================================
