------------------------------ MODULE InboxRace ------------------------------
(***************************************************************************)
(* Calls of ap_process_inbox_activity that overlap, statement by statement *)
(* (src/activities.rs), with moderation and ap_refresh_actor_stats beside  *)
(* them (src/admin.rs).  Remote actors follow one local actor, undo that,  *)
(* and accept the follows the local actor sent to them.                    *)
(*                                                                         *)
(* Every HTTP request runs its call in a backend and a transaction of its  *)
(* own, at READ COMMITTED: a statement sees what was committed before it,  *)
(* a write waits for the transaction that has written the same row or      *)
(* inserted the same unique key, and then sees what that one committed.    *)
(*                                                                         *)
(* Social graph and log are here what the committed transactions made of   *)
(* them; "change" is what an open transaction has done to its row of       *)
(* ap_follows.  The GUC accepts follows; all actors have rows, and the     *)
(* local actor's follow of each sender is there, pending or accepted.      *)
(*                                                                         *)
(* A change of a row runs the trigger, which updates the statistics of the *)
(* followed actor first and of the follower second, so that a Follow and   *)
(* the Accept of the follow in the other direction lock the same two rows  *)
(* in opposite order.  The database finds such a deadlock and rolls one    *)
(* transaction back.                                                       *)
(***************************************************************************)
EXTENDS Integers, FiniteSets

CONSTANTS
    Calls,        \* backends that run the function
    Senders,      \* remote actors, each on a domain of its own
    Follows,      \* ids of Follow activities
    Undos,        \* ids of Undo activities that embed their Follow
    Answers,      \* ids of Accept activities, of the local actor's follows
    Sender,       \* Sender[m]: the actor of activity m
    Local,        \* the local actor
    Refresher,    \* the backend that recalculates
    NoMessage,    \* the call of an idle backend
    MaxCalls,     \* bound: calls in a behaviour
    MaxAdmin      \* bound: domain blocks and recalculations in a behaviour

Messages == Follows \union Undos \union Answers

(* A row of ap_follows is "in", a sender following the local actor, or     *)
(* "out", the other direction.                                             *)
Directions == {"in", "out"}
Rows       == Directions \X Senders
Row(m)     == <<IF m \in Answers THEN "out" ELSE "in", Sender[m]>>

(* The rows of ap_actor_stats, by their actor, and the two that the        *)
(* trigger updates: of the followed actor, then of the follower.           *)
Counters  == Senders \union {Local}
First(m)  == IF m \in Answers THEN Sender[m] ELSE Local
Second(m) == IF m \in Answers THEN Local ELSE Sender[m]

(* What a transaction locks: an entry of the log, a row of ap_follows, a   *)
(* row of ap_actor_stats.                                                  *)
Entry(m)   == <<"entry", m>>
RowOf(m)   == <<"row", Row(m)>>
Counter(k) == <<"counter", k>>

Agents == Calls \union {Refresher}

ASSUME RaceAssumption ==
    /\ IsFiniteSet(Senders)
    /\ IsFiniteSet(Calls)
    /\ Follows \intersect (Undos \union Answers) = {}
    /\ Undos \intersect Answers = {}
    /\ NoMessage \notin Messages
    /\ \A m \in Messages : Sender[m] \in Senders
    /\ Local \notin Senders
    /\ Refresher \notin Calls
ASSUME RaceBounds == {MaxCalls, MaxAdmin} \subseteq Nat

VARIABLES
    log,        \* activities processed, committed
    rows,       \* accepted rows of ap_follows, committed
    count,      \* the local actor's followers_count ("in") and following_count ("out"), committed
    accepts,    \* accepts[m]: Accept activities queued for Follow m, committed
    blocked,    \* senders whose domain is blocked, committed
    grace,      \* observation: calls of a blocked sender that may still commit
    pc, msg,    \* the next statement of a call, and its activity
    change,     \* what the call's transaction has done to the row it is about
    counting,   \* ap_refresh_actor_stats has counted and not yet written
    counted,    \* what it counted
    locked,     \* the rows of ap_actor_stats it has locked
    begun, refreshes, blocks  \* for the bounds

committed == <<log, rows, count, accepts>>
call      == <<pc, msg, change>>
refresh   == <<counting, counted, locked, refreshes>>
admin     == <<blocked, blocks, grace>>
vars      == <<log, rows, count, accepts, blocked, grace, pc, msg, change,
               counting, counted, locked, begun, refreshes, blocks>>

Statements == {"idle", "block", "duplicate", "store", "handle", "first", "second", "commit"}
Changes    == {"none", "add", "keep", "delete"}

TypeOK ==
    /\ log       \subseteq Messages
    /\ rows      \subseteq Rows
    /\ count     \in [Directions -> Nat]
    /\ accepts   \in [Follows -> Nat]
    /\ blocked   \subseteq Senders
    /\ grace     \in [Senders -> Int]
    /\ pc        \in [Calls -> Statements]
    /\ msg       \in [Calls -> Messages \union {NoMessage}]
    /\ change    \in [Calls -> Changes]
    /\ counting  \in BOOLEAN
    /\ counted   \in [Directions -> Nat]
    /\ locked    \subseteq Counters
    /\ {begun, refreshes, blocks} \subseteq Nat

Init ==
    /\ log = {} /\ rows = {}
    /\ count   = [d \in Directions |-> 0]
    /\ accepts = [f \in Follows |-> 0]
    /\ blocked = {}
    /\ grace   = [s \in Senders |-> 0]
    /\ pc      = [c \in Calls |-> "idle"]
    /\ msg     = [c \in Calls |-> NoMessage]
    /\ change  = [c \in Calls |-> "none"]
    /\ counting = FALSE /\ locked = {}
    /\ counted = [d \in Directions |-> 0]
    /\ begun = 0 /\ refreshes = 0 /\ blocks = 0

-----------------------------------------------------------------------------
(* Locks. *)

Stored(c)  == pc[c] \in {"handle", "first", "second", "commit"}
Changed(c) == change[c] # "none"
Counts(c)  == change[c] \in {"add", "delete"}

(* The locks of an open transaction. *)
Holds(a) ==
    IF a = Refresher THEN {Counter(k) : k \in locked} ELSE
        (IF Stored(a) THEN {Entry(msg[a])} ELSE {})
        \union (IF Changed(a) THEN {RowOf(msg[a])} ELSE {})
        \union (IF Counts(a) /\ pc[a] \in {"second", "commit"} THEN {Counter(First(msg[a]))} ELSE {})
        \union (IF Counts(a) /\ pc[a] = "commit" THEN {Counter(Second(msg[a]))} ELSE {})

(* Mutant of Needs: an Undo also resets the log entry of its Follow.       *)
NeedsUndoneEntry(a) ==
    CASE a = Refresher -> IF counting THEN {Counter(k) : k \in Counters \ locked} ELSE {}
      [] a # Refresher /\ pc[a] = "store"  -> {Entry(msg[a])}
      [] a # Refresher /\ pc[a] = "handle" ->
           IF msg[a] \in Undos /\ Row(msg[a]) \notin rows THEN {} ELSE {RowOf(msg[a])}
      [] a # Refresher /\ pc[a] = "first" ->
           {Counter(First(msg[a]))}
           \union {Entry(f) : f \in {f \in Follows : msg[a] \in Undos /\ Sender[f] = Sender[msg[a]]}}
      [] a # Refresher /\ pc[a] = "second" -> {Counter(Second(msg[a]))}
      [] OTHER -> {}

(* The locks that its next statement takes.  INSERT INTO ap_activities ... *)
(* ON CONFLICT (uri) waits while another transaction holds the uri.  The   *)
(* upsert of a Follow and the UPDATE of an Accept wait for their row; the  *)
(* DELETE of an Undo takes what is committed, it does not see, and does    *)
(* not wait for, a row that is being inserted.                             *)
Needs(a) ==
    CASE a = Refresher -> IF counting THEN {Counter(k) : k \in Counters \ locked} ELSE {}
      [] a # Refresher /\ pc[a] = "store"  -> {Entry(msg[a])}
      [] a # Refresher /\ pc[a] = "handle" ->
           IF msg[a] \in Undos /\ Row(msg[a]) \notin rows THEN {} ELSE {RowOf(msg[a])}
      [] a # Refresher /\ pc[a] = "first"  -> {Counter(First(msg[a]))}
      [] a # Refresher /\ pc[a] = "second" -> {Counter(Second(msg[a]))}
      [] OTHER -> {}

WaitsFor(a) == {e \in Agents \ {a} : Needs(a) \intersect Holds(e) # {}}
CanGo(c)    == WaitsFor(c) = {}

-----------------------------------------------------------------------------
(* The statements of one call. *)

From(c, s) == Sender[msg[c]] = s

(* The network delivers an activity: anew, or another time. *)
Begin(c, m) ==
    /\ pc[c] = "idle"
    /\ begun < MaxCalls
    /\ begun' = begun + 1
    /\ pc'    = [pc EXCEPT ![c] = "block"]
    /\ msg'   = [msg EXCEPT ![c] = m]
    /\ UNCHANGED <<committed, admin, change, refresh>>

(* Mutant of Return: a lock of the session, not of the transaction. *)
ReturnKeepsRow(c) ==
    /\ pc' = [pc EXCEPT ![c] = "idle"]
    /\ UNCHANGED <<msg, change>>

(* The call is over and its backend free; nothing of it is left. *)
Return(c) ==
    /\ pc'     = [pc EXCEPT ![c] = "idle"]
    /\ msg'    = [msg EXCEPT ![c] = NoMessage]
    /\ change' = [change EXCEPT ![c] = "none"]

Goto(c, s) ==
    /\ pc' = [pc EXCEPT ![c] = s]
    /\ UNCHANGED <<msg, change>>

(* Mutant of CheckBlock: the followers an actor has are let through. *)
CheckBlockOfStrangers(c) ==
    /\ pc[c] = "block"
    /\ IF Sender[msg[c]] \in blocked /\ Row(msg[c]) \notin rows THEN Return(c) ELSE Goto(c, "duplicate")
    /\ UNCHANGED <<committed, admin, refresh, begun>>

(* SELECT EXISTS ... FROM ap_blocks. *)
CheckBlock(c) ==
    /\ pc[c] = "block"
    /\ IF Sender[msg[c]] \in blocked THEN Return(c) ELSE Goto(c, "duplicate")
    /\ UNCHANGED <<committed, admin, refresh, begun>>

(* SELECT EXISTS ... FROM ap_activities WHERE uri = $1 AND processed. *)
CheckDuplicate(c) ==
    /\ pc[c] = "duplicate"
    /\ IF msg[c] \in log THEN Return(c) ELSE Goto(c, "store")
    /\ UNCHANGED <<committed, admin, refresh, begun>>

(* INSERT INTO ap_activities ... ON CONFLICT (uri) DO UPDATE SET processed *)
(* = false: another call with the same uri may have committed or not.      *)
Store(c) ==
    /\ pc[c] = "store"
    /\ CanGo(c)
    /\ Goto(c, "handle")
    /\ UNCHANGED <<committed, admin, refresh, begun>>

(* A change that the trigger counts goes on to the counters. *)
Handle(c, x) ==
    /\ pc'     = [pc EXCEPT ![c] = IF x \in {"add", "delete"} THEN "first" ELSE "commit"]
    /\ change' = [change EXCEPT ![c] = x]
    /\ UNCHANGED <<msg, committed, admin, refresh, begun>>

(* process_follow, the upsert of the row; process_accept, the UPDATE of    *)
(* the row: it is accepted then, or stays so.                              *)
HandleFollow(c) ==
    /\ pc[c] = "handle"
    /\ msg[c] \in Follows \union Answers
    /\ CanGo(c)
    /\ Handle(c, IF Row(msg[c]) \in rows THEN "keep" ELSE "add")

(* process_undo. *)
HandleUndo(c) ==
    /\ pc[c] = "handle"
    /\ msg[c] \in Undos
    /\ CanGo(c)
    /\ Handle(c, IF Row(msg[c]) \in rows THEN "delete" ELSE "none")

(* ap_follow_stats_update: the followers_count of the followed actor.      *)
CountFirst(c) ==
    /\ pc[c] = "first"
    /\ CanGo(c)
    /\ Goto(c, "second")
    /\ UNCHANGED <<committed, admin, refresh, begun>>

(* And the following_count of the follower. *)
CountSecond(c) ==
    /\ pc[c] = "second"
    /\ CanGo(c)
    /\ Goto(c, "commit")
    /\ UNCHANGED <<committed, admin, refresh, begun>>

(* What is left of the grace after a commit. *)
Spent(s) == IF s \in blocked THEN [grace EXCEPT ![s] = @ - 1] ELSE grace

(* Mutants of Commit: an Undo is taken off the count, with or without row; *)
(* the handler of a Follow counts it, whether or not the row is new; the   *)
(* activity is not marked processed.                                       *)
CommitCountsUndos(c) ==
    LET m == msg[c] IN
    /\ pc[c] = "commit"
    /\ log' = log \union {m}
    /\ rows' = IF m \in Undos THEN rows \ {Row(m)} ELSE rows \union {Row(m)}
    /\ count' = [count EXCEPT ![Row(m)[1]] =
                   IF change[c] = "add" THEN @ + 1 ELSE IF m \in Undos THEN @ - 1 ELSE @]
    /\ accepts' = [f \in Follows |-> IF f = m THEN accepts[f] + 1 ELSE accepts[f]]
    /\ grace' = Spent(Sender[m])
    /\ Return(c)
    /\ UNCHANGED <<blocked, blocks, refresh, begun>>
CommitCountsFollows(c) ==
    LET m == msg[c] IN
    /\ pc[c] = "commit"
    /\ log' = log \union {m}
    /\ rows' = CASE change[c] \in {"add", "keep"} -> rows \union {Row(m)}
                 [] change[c] = "delete" -> rows \ {Row(m)}
                 [] OTHER -> rows
    /\ count' = [count EXCEPT ![Row(m)[1]] =
                   CASE change[c] \in {"add", "keep"} -> @ + 1
                     [] change[c] = "delete" -> IF @ > 0 THEN @ - 1 ELSE 0
                     [] OTHER -> @]
    /\ accepts' = [f \in Follows |-> IF f = m THEN accepts[f] + 1 ELSE accepts[f]]
    /\ grace' = Spent(Sender[m])
    /\ Return(c)
    /\ UNCHANGED <<blocked, blocks, refresh, begun>>
CommitUnmarked(c) ==
    LET m == msg[c] IN
    /\ pc[c] = "commit"
    /\ rows' = CASE change[c] \in {"add", "keep"} -> rows \union {Row(m)}
                 [] change[c] = "delete" -> rows \ {Row(m)}
                 [] OTHER -> rows
    /\ count' = [count EXCEPT ![Row(m)[1]] =
                   CASE change[c] = "add" -> @ + 1
                     [] change[c] = "delete" -> IF @ > 0 THEN @ - 1 ELSE 0
                     [] OTHER -> @]
    /\ accepts' = [f \in Follows |-> IF f = m THEN accepts[f] + 1 ELSE accepts[f]]
    /\ grace' = Spent(Sender[m])
    /\ Return(c)
    /\ UNCHANGED <<log, blocked, blocks, refresh, begun>>

(* The Accept that answers a Follow and its delivery are inserted, the     *)
(* activity is marked processed, and everything the call did is committed. *)
Commit(c) ==
    LET m == msg[c] IN
    /\ pc[c] = "commit"
    /\ log' = log \union {m}
    /\ rows' = CASE change[c] \in {"add", "keep"} -> rows \union {Row(m)}
                 [] change[c] = "delete" -> rows \ {Row(m)}
                 [] OTHER -> rows
    /\ count' = [count EXCEPT ![Row(m)[1]] =
                   CASE change[c] = "add" -> @ + 1
                     [] change[c] = "delete" -> IF @ > 0 THEN @ - 1 ELSE 0
                     [] OTHER -> @]
    /\ accepts' = [f \in Follows |-> IF f = m THEN accepts[f] + 1 ELSE accepts[f]]
    /\ grace' = Spent(Sender[m])
    /\ Return(c)
    /\ UNCHANGED <<blocked, blocks, refresh, begun>>

(* The client gives up, the backend dies or a statement fails: rollback. *)
Abort(c) ==
    /\ pc[c] # "idle"
    /\ Return(c)
    /\ UNCHANGED <<committed, admin, refresh, begun>>

-----------------------------------------------------------------------------
(* The administrator. *)

(* The calls of a sender that have passed the check for blocks. *)
Through(s) == {c \in Calls : pc[c] \notin {"idle", "block"} /\ From(c, s)}

Block(s) ==
    /\ s \notin blocked
    /\ blocks + refreshes < MaxAdmin
    /\ blocks'  = blocks + 1
    /\ blocked' = blocked \union {s}
    /\ grace'   = [grace EXCEPT ![s] = Cardinality(Through(s))]
    /\ UNCHANGED <<committed, call, refresh, begun>>

Unblock(s) ==
    /\ s \in blocked
    /\ blocked' = blocked \ {s}
    /\ grace'   = [grace EXCEPT ![s] = 0]
    /\ UNCHANGED <<committed, call, refresh, blocks, begun>>

(* ap_refresh_actor_stats is one UPDATE, whose counts are those of its     *)
(* snapshot.  It locks one row after the other, in the order in which it   *)
(* finds them; a row may have to be waited for, and is then the newest     *)
(* one, but the counts are not taken again.                                *)
RowsOf(d) == {r \in rows : r[1] = d}

RefreshCounts ==
    /\ ~counting
    /\ blocks + refreshes < MaxAdmin
    /\ refreshes' = refreshes + 1
    /\ counting'  = TRUE
    /\ counted'   = [d \in Directions |-> Cardinality(RowsOf(d))]
    /\ UNCHANGED <<locked, committed, call, admin, begun>>

RefreshLocks(k) ==
    /\ counting
    /\ k \notin locked
    /\ \A c \in Calls : Counter(k) \notin Holds(c)
    /\ locked' = locked \union {k}
    /\ UNCHANGED <<counting, counted, refreshes, committed, call, admin, begun>>

RefreshEnds ==
    /\ counting' = FALSE
    /\ counted'  = [d \in Directions |-> 0]
    /\ locked'   = {}
    /\ UNCHANGED <<log, rows, accepts, call, admin, begun, refreshes>>

RefreshWrites ==
    /\ counting
    /\ locked = Counters
    /\ count' = counted
    /\ RefreshEnds

RefreshAborts ==
    /\ counting
    /\ UNCHANGED count
    /\ RefreshEnds

-----------------------------------------------------------------------------
(* Deadlocks. *)

Waiting == {a \in Agents : WaitsFor(a) # {}}
WaitsWithin(S) == S # {} /\ \A a \in S : WaitsFor(a) \intersect S # {}

(* The agents of S wait for each other in a circle. *)
Deadlocked(S) == WaitsWithin(S) /\ \A R \in SUBSET S : WaitsWithin(R) => R = S

(* The database rolls one of them back. *)
Rollback(a) == IF a = Refresher THEN RefreshAborts ELSE Abort(a)
BreakDeadlock ==
    \E a \in Agents :
        /\ Rollback(a)
        /\ \E S \in SUBSET Waiting : a \in S /\ Deadlocked(S)

-----------------------------------------------------------------------------
Step(c) ==
    \/ CheckBlock(c)
    \/ CheckDuplicate(c)
    \/ Store(c)
    \/ HandleFollow(c)
    \/ HandleUndo(c)
    \/ CountFirst(c)
    \/ CountSecond(c)
    \/ Commit(c)

Next ==
    \/ \E c \in Calls :
        \/ \E m \in Messages : Begin(c, m)
        \/ Step(c)
        \/ Abort(c)
    \/ \E s \in Senders : Block(s) \/ Unblock(s)
    \/ RefreshCounts
    \/ \E k \in Counters : RefreshLocks(k)
    \/ RefreshWrites
    \/ RefreshAborts
    \/ BreakDeadlock

Spec == Init /\ [][Next]_vars

(* A backend executes its statements when their locks are free, and the    *)
(* database breaks deadlocks; nothing else has to happen.                  *)
FairSpec ==
    /\ Spec
    /\ \A c \in Calls : WF_vars(Step(c))
    /\ WF_vars(RefreshWrites \/ \E k \in Counters : RefreshLocks(k))
    /\ WF_vars(BreakDeadlock)

-----------------------------------------------------------------------------
(* Until the first recalculation, the counts that the trigger keeps are    *)
(* the numbers of accepted rows, however calls for the same and for        *)
(* different rows overlap, even when an activity is processed twice.       *)
CountMatchesRows ==
    refreshes = 0 => \A d \in Directions : count[d] = Cardinality(RowsOf(d))

(* A block does not stop the calls that have passed the check, but no      *)
(* others: from the block to its end, no more activities of the sender are *)
(* processed than calls of it were past the check at that moment, however  *)
(* long these wait and whatever else arrives.                              *)
BlockLetsFewThrough == \A s \in blocked : grace[s] >= 0

(* The check for duplicates lets a Follow through again only where calls   *)
(* overlap: however often it is delivered, it is answered at most once per *)
(* backend.                                                                *)
AnswersAreBounded == \A f \in Follows : accepts[f] <= Cardinality(Calls)

(* Why: a call has written its row only when its counters and the commit   *)
(* are left, and what it has done still fits the committed row then.       *)
WritersCommit ==
    \A c \in Calls :
        /\ pc[c] # "idle" => msg[c] \in Messages
        /\ change[c] # "none" => pc[c] \in {"first", "second", "commit"}

ChangesFit ==
    \A c \in Calls :
        /\ change[c] = "add" => Row(msg[c]) \notin rows
        /\ change[c] \in {"keep", "delete"} => Row(msg[c]) \in rows

(* Log entries and rows of ap_follows are never waited for in a circle:    *)
(* calls that deadlock are all at the second counter, and the deadlocks    *)
(* are those of a recalculation, and of a sender's own Follow or Undo with *)
(* its Accept of the follow in the other direction.                        *)
OnlyCrossingsDeadlock ==
    \A S \in SUBSET Waiting : Deadlocked(S) =>
        /\ \A c \in S \ {Refresher} : pc[c] = "second"
        /\ \/ Refresher \in S
           \/ \E c, e \in S :
                /\ Sender[msg[c]] = Sender[msg[e]]
                /\ msg[c] \in Answers /\ msg[e] \notin Answers

(* Every call returns: what it waits for is let go, by the end of another  *)
(* call or because a deadlock was broken.                                  *)
CallsReturn == \A c \in Calls : pc[c] # "idle" ~> pc[c] = "idle"

-----------------------------------------------------------------------------
(* activities.rs: "De-duplicate: skip if we've already processed this      *)
(* activity": no Follow is answered twice.                                 *)
ProcessedOnce == \A f \in Follows : accepts[f] <= 1

(* admin.rs: "Recalculate all actor stats from source data": a completed   *)
(* recalculation leaves the right count when no call is open.              *)
RefreshRecalculates ==
    ~counting /\ (\A c \in Calls : pc[c] = "idle") =>
        \A d \in Directions : count[d] = Cardinality(RowsOf(d))
=============================================================================
