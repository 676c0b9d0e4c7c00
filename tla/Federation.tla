----------------------------- MODULE Federation -----------------------------
(***************************************************************************)
(* The server and its delivery queue as one system.  The server is Content *)
(* (the inbox, the social graph, objects and the application interface),   *)
(* the queue is an instance of Delivery whose rows are named by what they  *)
(* deliver:                                                                *)
(*                                                                         *)
(*   - the Accept that answers a Follow goes to the follower;              *)
(*   - a note goes to each actor that is an accepted follower of its       *)
(*     author in the transaction that creates it.                          *)
(*                                                                         *)
(* process_follow and ap_create_note insert these rows in the transaction  *)
(* that changes the graph or the objects, so one step of the server is one *)
(* step of the queue, too.  The queue's other steps leave the server as it *)
(* is: a worker's report is not seen by graph, inbox or objects.           *)
(***************************************************************************)
EXTENDS Content, Sequences

CONSTANTS Workers, MaxAttempts, RetryIntervals, BatchSize, OverdueCap, MaxCrashes

VARIABLES status, attempts, wait, kind, job, seen, crashes, received, posts, pollError

(* Every Follow has an id: the answers to Follows without one are told     *)
(* apart by nothing.                                                       *)
ASSUME FederationAssumption ==
    \A m \in Messages : m.type = "Follow" => m.id # NoUri

(* What Delivery assumes. *)
ASSUME QueueAssumption ==
    /\ MaxAttempts \in 1..20
    /\ RetryIntervals \in Seq(Nat)
    /\ Len(RetryIntervals) > 0
    /\ BatchSize \in Nat \ {0}
    /\ IsFiniteSet(Workers)
    /\ OverdueCap \in Nat
    /\ MaxCrashes \in Nat

Remote == Actors \ LocalActors

(* Rows of ap_deliveries. *)
AcceptRow(u)  == <<"Accept", u>>
NoteRow(o, f) == <<"Create", o, f>>

AcceptRows == {AcceptRow(m.id) : m \in {n \in Messages : n.type = "Follow"}}
NoteRows   == {NoteRow(o, f) : o \in UNION {Notes[a] : a \in LocalActors}, f \in Remote}

Q == INSTANCE Delivery WITH
        Deliveries <- AcceptRows \union NoteRows, Kinds <- {"Accept", "Create"}

queueVars == <<status, attempts, wait, kind, job, seen, crashes, received, posts, pollError>>
fvars     == <<cvars, queueVars>>

FInit == CInit /\ Q!Init

-----------------------------------------------------------------------------
(* ap_process_inbox_activity. *)
Process(m) ==
    \/ ProcessObject(m)
    \/ ~IsForObjects(m) /\ ProcessMessage(m) /\ UNCHANGED contentVars

(* The answer just given to Follow m is queued with it. *)
AnswerRows(m) == IF accepts'[m.id] # accepts[m.id] THEN {AcceptRow(m.id)} ELSE {}

(* Mutant of ProcessInbox: the Accept is stored but not queued. *)
ProcessInboxUnqueued(m) ==
    /\ Process(m)
    /\ UNCHANGED queueVars

ProcessInbox(m) ==
    /\ Process(m)
    /\ Q!Enqueue(AnswerRows(m), "Accept")

(* Mutant of Audience: followers that were not accepted, too. *)
AudienceOfAll(a) == {f \in Remote : follow[f][a] # "none"}

(* WHERE following_id = author AND accepted AND the follower is remote. *)
Audience(a) == FollowersOf(a) \ LocalActors

PublishNote(a, o, c) ==
    /\ CreateNote(a, o, c)
    /\ Q!Enqueue({NoteRow(o, f) : f \in Audience(a)}, "Create")

(* The setting and the recalculation of the counters, in any state of the  *)
(* queue.  Domain blocks, which only keep activities out, as the network   *)
(* may, and an application's own follows, which queue nothing, are left to *)
(* Content.                                                                *)
Administer ==
    /\ (SetAutoAccept /\ UNCHANGED contentVars) \/ RefreshStatuses
    /\ UNCHANGED queueVars

(* The queue on its own: polls, POSTs, reports, crashes, cleanup, time. *)
Deliver == Q!Progress /\ UNCHANGED cvars

FNext ==
    \/ \E m \in Messages : ProcessInbox(m)
    \/ \E a \in LocalActors, o \in Objects, c \in Contents : PublishNote(a, o, c)
    \/ Administer
    \/ Deliver

(* The workers' fairness; nothing obliges anyone to send or to publish. *)
FSpec == FInit /\ [][FNext]_fvars /\ Q!Fairness

-----------------------------------------------------------------------------
(* A Follow of a by f was processed, and accepted: an Accept was queued    *)
(* for it, or one was received.                                            *)
Answered(f, a) ==
    \E m \in log :
        /\ m.type = "Follow" /\ m.actor = f /\ m.object = a
        /\ \/ status[AcceptRow(m.id)] # "Absent"
           \/ \E n \in log : n.type = "Accept" /\ n.object = m.id

(* A step queues the row; a step makes o, and not by a Create received. *)
IsQueued(row)  == status[row] = "Absent" /\ status'[row] # "Absent"
IsPublished(o) ==
    /\ ~HasRow(o) /\ HasRow(o)'
    /\ ~ \E m \in log' : m.type = "Create" /\ m.object = o

(* A note is queued when it is made, never later, for those who are        *)
(* accepted followers of its author at that moment and were answered, and  *)
(* for all of them: a follow undone before gets no row, one accepted       *)
(* before loses none, whatever is in the queue.                            *)
NotesGoToFollowers ==
    [][\A o \in Objects, f \in Remote : NoteRow(o, f) \in NoteRows =>
        LET a == owner'[o] IN
        /\ IsQueued(NoteRow(o, f)) =>
            ~HasRow(o) /\ follow[f][a] = "accepted" /\ Answered(f, a)
        /\ (IsPublished(o) /\ follow[f][a] = "accepted") => IsQueued(NoteRow(o, f))]_fvars

(* Who follows a local actor by a Follow with auto-accept hears of it: the *)
(* Accept arrives, unless every attempt failed, or polls fail, which they  *)
(* do only when a note was published to a follower.                        *)
FollowersHear ==
    \A f \in Remote, b \in LocalActors, m \in Messages :
        m.type = "Follow" /\ m.actor = f /\ m.object = b =>
            (accepts[m.id] > 0 ~>
                \/ received[AcceptRow(m.id)]
                \/ status[AcceptRow(m.id)] \in {"Expired", "Removed"}
                \/ /\ pollError
                   /\ \E a \in LocalActors : \E o \in Notes[a], i \in Inboxes : sent[o][i] > 0)

-----------------------------------------------------------------------------
(* What Delivery does with one worker, of the queue of the server.         *)

(* The queue keeps its promise to the server. *)
KeepsPromise == Q!KeepsPromise

(* The rows the worker holds are still to be delivered. *)
HeldRowsArePending == Q!HeldRowsArePending

(* A remote inbox gets at most one POST more per crash than the attempts   *)
(* the GUC allows.                                                         *)
PostsBounded == Q!PostsBounded

(* Delivered and Expired are final, but for the cleanup of Expired rows.   *)
SettledStays == Q!SettledStays
=============================================================================
