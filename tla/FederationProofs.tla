--------------------------- MODULE FederationProofs ---------------------------
(***************************************************************************)
(* Proofs about Federation: it is the server of Content and the queue of   *)
(* Delivery, step by step, so that what is proved of each holds of the     *)
(* whole, among it the safety of the queue with one worker; and a note is  *)
(* queued for nobody but the followers its author accepted.                *)
(***************************************************************************)
EXTENDS Federation, ContentProofs

Rows == AcceptRows \union NoteRows

LEMMA ServerStep == [FNext]_fvars => [CNext]_cvars
<1> SUFFICES ASSUME [FNext]_fvars PROVE [CNext]_cvars
    OBVIOUS
<1>1. ASSUME NEW m \in Messages, ProcessInbox(m) PROVE CNext
      BY <1>1 DEF ProcessInbox, Process, CNext
<1>2. ASSUME NEW a \in LocalActors, NEW o \in Objects, NEW c \in Contents, PublishNote(a, o, c)
      PROVE  CNext
      BY <1>2 DEF PublishNote, CNext
<1>3. CASE Administer
      BY <1>3 DEF Administer, CNext
<1>4. CASE Deliver
      BY <1>4 DEF Deliver
<1>5. CASE UNCHANGED fvars
      BY <1>5 DEF fvars
<1> QED
    BY <1>1, <1>2, <1>3, <1>4, <1>5 DEF FNext

(* The server does not notice its queue. *)
THEOREM FederationIsServer == FSpec => CSpec
<1>1. FInit => CInit
      BY DEF FInit
<1> QED
    BY <1>1, ServerStep, PTL DEF FSpec, CSpec

LEMMA QueueStep == [FNext]_fvars => [Q!Next]_(Q!vars)
<1> SUFFICES ASSUME [FNext]_fvars PROVE [Q!Next]_(Q!vars)
    OBVIOUS
<1>1. ASSUME NEW m \in Messages, ProcessInbox(m) PROVE [Q!Next]_(Q!vars)
  <2>1. CASE m.type = "Follow"
    <3>1. AnswerRows(m) \in SUBSET Rows
          BY <2>1 DEF AnswerRows, AcceptRows, Rows
    <3> QED
        BY <1>1, <3>1 DEF ProcessInbox, Q!Next, Rows
  <2>2. CASE m.type # "Follow"
    <3>1. AnswerRows(m) = {}
          BY <1>1, <2>2
          DEF ProcessInbox, AnswerRows, Process, ProcessObject, ProcessCreate, ProcessUpdate,
              ProcessDelete, ProcessLike, ProcessAnnounce, ProcessUndoLike, ProcessUndoAnnounce,
              graphVars, ProcessMessage, ProcessFollow, ProcessAccept, ProcessReject,
              ProcessBlock, ProcessUndoFollow, ProcessOther
    <3> QED
        BY <1>1, <3>1 DEF ProcessInbox, Q!Next
  <2> QED
      BY <2>1, <2>2
<1>2. ASSUME NEW a \in LocalActors, NEW o \in Objects, NEW c \in Contents, PublishNote(a, o, c)
      PROVE  Q!Next
  <2>1. {NoteRow(o, f) : f \in Audience(a)} \in SUBSET Rows
        BY <1>2 DEF PublishNote, CreateNote, NoteRows, Rows, Audience, FollowersOf, Remote
  <2> QED
      BY <1>2, <2>1 DEF PublishNote, Q!Next, Rows
<1>3. CASE Administer
      BY <1>3 DEF Administer, queueVars, Q!vars
<1>4. CASE Deliver
      BY <1>4 DEF Deliver, Q!Next
<1>5. CASE UNCHANGED fvars
      BY <1>5 DEF fvars, queueVars, Q!vars
<1> QED
    BY <1>1, <1>2, <1>3, <1>4, <1>5 DEF FNext

(* The queue of the server is the queue of Delivery, with its fairness. *)
THEOREM FederationIsQueue == FSpec => Q!FairSpec
<1>1. FInit => Q!Init
      BY DEF FInit
<1> QED
    BY <1>1, QueueStep, PTL DEF FSpec, Q!FairSpec, Q!Spec

-----------------------------------------------------------------------------
(* What holds of the server holds while it delivers. *)

(* The counters match the graph while Accepts and notes are delivered. *)
THEOREM StatsOfServer == FSpec => []StatsMatchGraph
<1> QED
    BY FederationIsServer, ContentIsGraph, StatsSafe, PTL

-----------------------------------------------------------------------------
(* The audience of a note. *)

FollowersWereAnswered ==
  \A f \in Remote, a \in LocalActors : follow[f][a] = "accepted" => Answered(f, a)

NotesAreAddressed ==
  \A o \in Objects, f \in Remote :
    NoteRow(o, f) \in NoteRows /\ status[NoteRow(o, f)] # "Absent" =>
      HasRow(o) /\ Answered(f, owner[o])

QueueInv ==
  /\ status \in [Rows -> Q!Statuses]
  /\ job \in [Workers -> [Rows -> Q!JobStates]]
  /\ \A w \in Workers, d \in Rows : job[w][d] # "idle" => status[d] # "Absent"

AInv ==
  /\ CTypeOK
  /\ UriHasItsFollow
  /\ MarkedHasRow
  /\ QueueInv
  /\ FollowersWereAnswered
  /\ NotesAreAddressed

LEMMA EnqueueRows ==
  ASSUME QueueInv, NEW S, NEW k, Q!Enqueue(S, k)
  PROVE  /\ QueueInv'
         /\ \A d \in Rows : IF d \in S THEN status[d] = "Absent" /\ status'[d] = "Queued"
                            ELSE status'[d] = status[d]
<1>1. status' = [d \in Rows |-> IF d \in S THEN "Queued" ELSE status[d]]
      BY DEF Q!Enqueue, Rows
<1>2. (\A d \in S : status[d] = "Absent") /\ UNCHANGED job
      BY DEF Q!Enqueue, Q!worker
<1> QED
    BY <1>1, <1>2 DEF QueueInv, Q!Statuses

(* A row that is there stays, or is removed; none appears. *)
SameRows == \A d \in Rows : status'[d] = "Absent" <=> status[d] = "Absent"

LEMMA ProgressRows ==
  ASSUME QueueInv, Q!Progress
  PROVE  QueueInv' /\ SameRows
<1>1. ASSUME NEW S \in SUBSET Rows, Q!Cleanup(S) PROVE QueueInv' /\ SameRows
  <2>1. /\ status' = [d \in Rows |-> IF d \in S THEN "Removed" ELSE status[d]]
        /\ \A d \in S : status[d] = "Expired"
        /\ UNCHANGED job
        BY <1>1 DEF Q!Cleanup, Q!worker, Rows
  <2> QED
      BY <2>1 DEF QueueInv, SameRows, Q!Statuses
<1>2. ASSUME NEW w \in Workers, NEW d \in Rows, NEW j \in Q!JobStates,
             job[w][d] # "idle", job' = [job EXCEPT ![w][d] = j], UNCHANGED status
      PROVE  QueueInv' /\ SameRows
      BY <1>2 DEF QueueInv, SameRows
<1>3. ASSUME NEW w \in Workers, NEW d \in Rows, NEW s \in Q!Statuses \ {"Absent"},
             job[w][d] # "idle", job' = [job EXCEPT ![w][d] = "idle"],
             status' = [status EXCEPT ![d] = s]
      PROVE  QueueInv' /\ SameRows
      BY <1>3 DEF QueueInv, SameRows, Q!JobStates
<1>4. ASSUME NEW w \in Workers, NEW d \in Rows, Q!Post(w, d)
      PROVE  QueueInv' /\ SameRows
      BY <1>2, <1>4 DEF Q!Post, Q!PostAccepted, Q!PostFailed, Q!Job, Q!queue, Q!JobStates
<1>5. ASSUME NEW w \in Workers, NEW d \in Rows, Q!Report(w, d)
      PROVE  QueueInv' /\ SameRows
  <2>1. CASE Q!ReportSuccess(w, d)
        BY <1>2, <1>3, <2>1 DEF Q!ReportSuccess, Q!Job, Q!JobStates, Q!Statuses
  <2>2. CASE Q!FailureRead(w, d)
        BY <1>2, <2>2 DEF Q!FailureRead, Q!Job, Q!JobStates, Q!queue
  <2>3. CASE Q!FailureWrite(w, d)
        BY <1>2, <1>3, <2>3 DEF Q!FailureWrite, Q!Job, Q!JobStates, Q!Statuses
  <2> QED
      BY <1>5, <2>1, <2>2, <2>3 DEF Q!Report
<1>6. ASSUME NEW w \in Workers, NEW j \in [Rows -> Q!JobStates],
             \A d \in Rows : j[d] # "idle" => status[d] # "Absent",
             job' = [job EXCEPT ![w] = j], UNCHANGED status
      PROVE  QueueInv' /\ SameRows
      BY <1>6 DEF QueueInv, SameRows
<1>7. ASSUME NEW w \in Workers, Q!Poll(w) PROVE QueueInv' /\ SameRows
  <2>1. PICK S \in SUBSET Q!Due :
           job' = [job EXCEPT ![w] = [d \in Rows |-> IF d \in S THEN "polled" ELSE "idle"]]
        BY <1>7 DEF Q!Poll, Rows
  <2> DEFINE j == [d \in Rows |-> IF d \in S THEN "polled" ELSE "idle"]
  <2>2. \A d \in S : status[d] # "Absent"
        BY DEF Q!Due, Q!Pending
  <2>3. j \in [Rows -> Q!JobStates] /\ \A d \in Rows : j[d] # "idle" => status[d] # "Absent"
        BY <2>2 DEF Q!JobStates
  <2>4. UNCHANGED status
        BY <1>7 DEF Q!Poll, Q!queue
  <2>5. job' = [job EXCEPT ![w] = j]
        BY <2>1
  <2> QED
      BY <1>6, <2>3, <2>4, <2>5
<1>8. ASSUME NEW w \in Workers, Q!Crash(w) PROVE QueueInv' /\ SameRows
  <2> DEFINE j == [d \in Rows |-> "idle"]
  <2>1. j \in [Rows -> Q!JobStates] /\ \A d \in Rows : j[d] = "idle"
        BY DEF Q!JobStates
  <2>2. job' = [job EXCEPT ![w] = j] /\ UNCHANGED status
        BY <1>8 DEF Q!Crash, Q!queue, Rows
  <2> QED
      BY <1>6, <2>1, <2>2
<1>9. CASE UNCHANGED <<status, job>>
      BY <1>9 DEF QueueInv, SameRows
<1> QED
    BY <1>1, <1>4, <1>5, <1>7, <1>8, <1>9
    DEF Q!Progress, Q!PollFails, Q!Tick, Q!queue, Q!worker, Rows

(* What was answered stays answered. *)
LEMMA AnsweredStays ==
  ASSUME log \subseteq log', log \subseteq Messages, NEW f, NEW a,
         \A d \in Rows : status[d] # "Absent" => status'[d] # "Absent",
         Answered(f, a)
  PROVE  Answered(f, a)'
  BY DEF Answered, Rows, AcceptRows

(* Rows of notes are told apart by note and follower. *)
LEMMA RowsAreTold ==
  ASSUME NEW u, NEW o, NEW f, NEW p, NEW g
  PROVE  /\ AcceptRow(u) # NoteRow(o, f)
         /\ NoteRow(o, f) = NoteRow(p, g) => o = p /\ f = g
  BY DEF AcceptRow, NoteRow

LEMMA FollowersNext ==
  ASSUME AInv, [FNext]_fvars,
         \A d \in Rows : status[d] # "Absent" => status'[d] # "Absent"
  PROVE  FollowersWereAnswered'
<1>0. /\ log \subseteq log' /\ log \subseteq Messages /\ TypeOK /\ TypeOK'
      /\ Remote \subseteq Actors /\ LocalActors \subseteq Actors
      /\ \A f \in Remote : f \notin LocalActors
      BY ServerStep, ContentStep, LogGrows, NextType, ActorsAssumption
      DEF AInv, CTypeOK, TypeOK, InboxTypeOK, Remote
<1>a. SUFFICES ASSUME NEW f \in Remote, NEW a \in LocalActors, follow'[f][a] = "accepted",
                      follow[f][a] # "accepted"
               PROVE  Answered(f, a)'
      BY <1>0, AnsweredStays DEF FollowersWereAnswered, AInv
<1>1. ASSUME NEW m \in Messages, ProcessFollow(m), ProcessInbox(m) PROVE Answered(f, a)'
  <2>1. m.type = "Follow" /\ m \in log' /\ m.actor \in Actors /\ m.object \in Actors
        BY <1>0, <1>1, ReceiveType DEF ProcessFollow, Receive, TypeOK, InboxTypeOK
  <2>2. m.actor = f /\ m.object = a /\ autoAccept
        BY <1>0, <1>1, <1>a, <2>1 DEF ProcessFollow, SetRow, TypeOK
  <2>3. m.id \in Uris /\ accepts' = [accepts EXCEPT ![m.id] = @ + 1]
        BY <1>1, <2>1, <2>2, FederationAssumption DEF ProcessFollow, Answer, Uris
  <2>4. accepts'[m.id] # accepts[m.id]
        BY <1>0, <2>3 DEF TypeOK
  <2>5. Q!Enqueue({AcceptRow(m.id)}, "Accept") /\ AcceptRow(m.id) \in Rows
        BY <1>1, <2>1, <2>4 DEF ProcessInbox, AnswerRows, Rows, AcceptRows
  <2>6. status'[AcceptRow(m.id)] # "Absent"
        BY <2>5, EnqueueRows DEF AInv
  <2> QED
      BY <2>1, <2>2, <2>6 DEF Answered
<1>2. ASSUME NEW m \in Messages, ProcessAccept(m) PROVE Answered(f, a)'
  <2>1. PICK b \in Actors, c \in Actors :
           HasUri(b, c, m.object) /\ SetRow(b, c, "accepted", followUri[b][c])
        BY <1>0, <1>2, <1>a DEF ProcessAccept, table
  <2>2. b = f /\ c = a
        BY <1>0, <1>a, <2>1 DEF SetRow, TypeOK
  <2>3. followUri[f][a] = m.object /\ m.object # NoUri
        BY <2>1, <2>2 DEF HasUri
  <2>4. IsFollowOf(m.object, f, a)
        BY <1>0, <2>3 DEF AInv, UriHasItsFollow
  <2>5. m \in log' /\ m.type = "Accept"
        BY <1>2 DEF ProcessAccept, Receive
  <2> QED
      BY <1>0, <2>4, <2>5 DEF IsFollowOf, Answered
<1>3. ASSUME NEW b \in Actors, NEW c \in Actors, DeleteRow(b, c) PROVE FALSE
      BY <1>0, <1>3, <1>a DEF DeleteRow, SetRow, TypeOK
<1>4. ASSUME NEW m \in Messages, ProcessReject(m) PROVE FALSE
      BY <1>3, <1>4, <1>a DEF ProcessReject, table
<1>5. ASSUME NEW m \in Messages, ProcessBlock(m) PROVE FALSE
  <2>1. m.actor \in Actors /\ known' \subseteq Actors
        BY <1>5, <1>0, ReceiveType DEF ProcessBlock, TypeOK, InboxTypeOK
  <2>2. m.object \in Actors /\ DeleteBoth(m.actor, m.object)
        BY <1>5, <1>a, <2>1 DEF ProcessBlock, table
  <2>3. follow' = [[follow EXCEPT ![m.actor][m.object] = "none"]
                           EXCEPT ![m.object][m.actor] = "none"]
        BY <1>3, <2>1, <2>2 DEF DeleteBoth
  <2> QED
      BY <1>0, <1>a, <2>1, <2>2, <2>3 DEF TypeOK
<1>6. ASSUME NEW m \in Messages, ProcessUndoFollow(m) PROVE FALSE
  <2>1. m.actor \in Actors /\ known' \subseteq Actors
        BY <1>6, <1>0, ReceiveType DEF ProcessUndoFollow, TypeOK, InboxTypeOK
  <2> QED
      BY <1>3, <1>6, <1>a, <2>1 DEF ProcessUndoFollow, table
<1>7. ASSUME NEW m \in Messages, ProcessInbox(m) PROVE Answered(f, a)'
  <2>1. ASSUME ProcessObject(m) PROVE FALSE
        BY <1>a, <2>1, ObjectsAreOther DEF ProcessOther, graphVars
  <2> QED
      BY <1>1, <1>2, <1>4, <1>5, <1>6, <1>7, <1>a, <2>1
      DEF ProcessInbox, Process, ProcessMessage, ProcessOther, graphVars
<1>8. ~UNCHANGED follow
      BY <1>a
<1> QED
    BY <1>7, <1>8
    DEF FNext, PublishNote, CreateNote, Administer, SetAutoAccept, RefreshStatuses, RefreshStats,
        Deliver, fvars, cvars, vars, graphVars, table

(* What a step does to the rows of the queue. *)
LEMMA RowsNext ==
  ASSUME QueueInv, [FNext]_fvars
  PROVE  /\ QueueInv'
         /\ \A d \in Rows : status[d] # "Absent" => status'[d] # "Absent"
<1>1. ASSUME NEW m \in Messages, ProcessInbox(m)
      PROVE  Q!Enqueue(AnswerRows(m), "Accept")
      BY <1>1 DEF ProcessInbox
<1>2. ASSUME NEW a, NEW o, NEW c, PublishNote(a, o, c)
      PROVE  Q!Enqueue({NoteRow(o, f) : f \in Audience(a)}, "Create")
      BY <1>2 DEF PublishNote
<1>3. CASE Deliver
      BY <1>3, ProgressRows DEF Deliver, SameRows
<1>4. CASE UNCHANGED <<status, job>>
      BY <1>4 DEF QueueInv
<1>5. ASSUME NEW S, NEW k, Q!Enqueue(S, k)
      PROVE  /\ QueueInv'
             /\ \A d \in Rows : status[d] # "Absent" => status'[d] # "Absent"
      BY <1>5, EnqueueRows
<1> QED
    BY <1>1, <1>2, <1>3, <1>4, <1>5 DEF FNext, Administer, fvars, queueVars

LEMMA NotesNext ==
  ASSUME AInv, [FNext]_fvars,
         \A d \in Rows : status[d] # "Absent" => status'[d] # "Absent"
  PROVE  NotesAreAddressed'
<1>0. /\ log \subseteq log' /\ log \subseteq Messages
      /\ LocalActors \subseteq Actors /\ Nobody \notin Actors
      BY ServerStep, ContentStep, LogGrows, ActorsAssumption, ContentAssumption
      DEF AInv, CTypeOK, TypeOK, InboxTypeOK
<1>1. ASSUME NEW o \in Objects, HasRow(o) PROVE HasRow(o)' /\ owner'[o] = owner[o]
      BY <1>1, ServerStep, NextMarked DEF AInv, HasRow
<1>2. ASSUME NEW o \in Objects, NEW f \in Remote, NoteRow(o, f) \in NoteRows,
             status[NoteRow(o, f)] # "Absent"
      PROVE  HasRow(o)' /\ Answered(f, owner[o])' /\ owner'[o] = owner[o]
  <2>1. HasRow(o) /\ Answered(f, owner[o])
        BY <1>2 DEF AInv, NotesAreAddressed
  <2>2. owner'[o] = owner[o] /\ HasRow(o)'
        BY <1>1, <2>1
  <2> DEFINE a == owner[o]
  <2>3. ASSUME NEW b, Answered(f, b) PROVE Answered(f, b)'
        BY <1>0, <2>3, AnsweredStays
  <2> QED
      BY <2>1, <2>2, <2>3 DEF Answered
<1>3. ASSUME \A o \in Objects, f \in Remote : NoteRow(o, f) \in NoteRows =>
                (status'[NoteRow(o, f)] # "Absent" => status[NoteRow(o, f)] # "Absent")
      PROVE  NotesAreAddressed'
      BY <1>2, <1>3 DEF NotesAreAddressed, Answered
<1>4. ASSUME NEW m \in Messages, ProcessInbox(m) PROVE NotesAreAddressed'
  <2>1. ASSUME NEW o, NEW f PROVE NoteRow(o, f) \notin AnswerRows(m)
        BY RowsAreTold DEF AnswerRows
  <2>2. Q!Enqueue(AnswerRows(m), "Accept")
        BY <1>4 DEF ProcessInbox
  <2>3. \A d \in Rows : d \notin AnswerRows(m) => status'[d] = status[d]
        BY <2>2, EnqueueRows DEF AInv
  <2> QED
      BY <1>3, <2>1, <2>3 DEF Rows
<1>5. ASSUME NEW a \in LocalActors, NEW o \in Objects, NEW c \in Contents, PublishNote(a, o, c)
      PROVE  NotesAreAddressed'
  <2> DEFINE S == {NoteRow(o, f) : f \in Audience(a)}
  <2>1. Q!Enqueue(S, "Create") /\ CreateNote(a, o, c)
        BY <1>5 DEF PublishNote
  <2>2. \A d \in Rows : d \notin S => status'[d] = status[d]
        BY <2>1, EnqueueRows DEF AInv
  <2>3. owner'[o] = a /\ HasRow(o)' /\ ~HasRow(o)
        BY <1>0, <2>1 DEF CreateNote, InsertObject, HasRow, AInv, CTypeOK
  <2>4. ASSUME NEW p \in Objects, NEW f \in Remote, NoteRow(p, f) \in NoteRows,
               status'[NoteRow(p, f)] # "Absent"
        PROVE  HasRow(p)' /\ Answered(f, owner[p])'
    <3>1. CASE NoteRow(p, f) \in S
      <4>1. p = o /\ f \in Audience(a)
            BY <3>1, RowsAreTold
      <4>2. Answered(f, a)
            BY <4>1 DEF Audience, FollowersOf, AInv, FollowersWereAnswered
      <4>3. Answered(f, a)'
            BY <1>0, <4>2, AnsweredStays
      <4> QED
          BY <2>3, <4>1, <4>3 DEF Answered
    <3>2. CASE NoteRow(p, f) \notin S
      <4>1. status[NoteRow(p, f)] # "Absent"
            BY <2>2, <2>4, <3>2 DEF Rows
      <4> QED
          BY <1>2, <2>4, <4>1
    <3> QED
        BY <3>1, <3>2
  <2> QED
      BY <2>4 DEF NotesAreAddressed, Answered
<1>6. CASE Deliver
      BY <1>3, <1>6, ProgressRows DEF Deliver, SameRows, Rows, AInv
<1>7. CASE UNCHANGED status
      BY <1>3, <1>7
<1> QED
    BY <1>4, <1>5, <1>6, <1>7 DEF FNext, Administer, fvars, queueVars

LEMMA AInvInit == FInit => AInv
<1> SUFFICES ASSUME FInit PROVE AInv
    OBVIOUS
<1>1. CTypeOK /\ UriHasItsFollow /\ MarkedHasRow
      BY CInitType DEF FInit, CInit, Init, GraphInit, UriHasItsFollow, MarkedHasRow
<1>2. QueueInv /\ \A d \in Rows : status[d] = "Absent"
      BY DEF FInit, Q!Init, QueueInv, Rows, Q!Statuses, Q!JobStates
<1>3. FollowersWereAnswered
      BY ActorsAssumption DEF FInit, CInit, Init, GraphInit, FollowersWereAnswered, Remote
<1>4. NotesAreAddressed
      BY <1>2 DEF NotesAreAddressed, Rows
<1> QED
    BY <1>1, <1>2, <1>3, <1>4 DEF AInv

LEMMA AInvNext == AInv /\ [FNext]_fvars => AInv'
<1> SUFFICES ASSUME AInv, [FNext]_fvars PROVE AInv'
    OBVIOUS
<1>1. [CNext]_cvars /\ [Next]_vars
      BY ServerStep, ContentStep
<1>2. CTypeOK' /\ UriHasItsFollow' /\ MarkedHasRow'
      BY <1>1, CNextType, NextUris, NextMarked DEF AInv, CTypeOK
<1>3. QueueInv' /\ \A d \in Rows : status[d] # "Absent" => status'[d] # "Absent"
      BY RowsNext DEF AInv
<1>4. FollowersWereAnswered' /\ NotesAreAddressed'
      BY <1>3, FollowersNext, NotesNext
<1> QED
    BY <1>2, <1>3, <1>4 DEF AInv

(* A note is queued when it is made, for exactly the remote actors that    *)
(* are accepted followers of its author then, and each of them was         *)
(* answered: in any order of Follows, Accepts, Undos, notes, deliveries    *)
(* and crashes.                                                            *)
THEOREM AudienceSafe == FSpec => NotesGoToFollowers
<1> DEFINE Goes(o, f) ==
        LET a == owner'[o] IN
        /\ IsQueued(NoteRow(o, f)) =>
            ~HasRow(o) /\ follow[f][a] = "accepted" /\ Answered(f, a)
        /\ (IsPublished(o) /\ follow[f][a] = "accepted") => IsQueued(NoteRow(o, f))
<1>1. ASSUME AInv, [FNext]_fvars, NEW o \in Objects, NEW f \in Remote, NoteRow(o, f) \in NoteRows
      PROVE  Goes(o, f)
  <2>0. /\ NoteRow(o, f) \in Rows
        /\ owner \in [Objects -> Actors \union {Nobody}] /\ Nobody \notin Actors
        /\ LocalActors \subseteq Actors
        BY <1>1, ActorsAssumption, ContentAssumption DEF Rows, AInv, CTypeOK
  <2>1. CASE UNCHANGED <<status, owner>>
        BY <2>1 DEF IsQueued, IsPublished, HasRow
  <2>2. ASSUME NEW m \in Messages, ProcessInbox(m) PROVE Goes(o, f)
    <3>1. NoteRow(o, f) \notin AnswerRows(m)
          BY RowsAreTold DEF AnswerRows
    <3>2. Q!Enqueue(AnswerRows(m), "Accept")
          BY <2>2 DEF ProcessInbox
    <3>3. ~IsQueued(NoteRow(o, f))
          BY <1>1, <2>0, <3>1, <3>2, EnqueueRows DEF AInv, IsQueued
    <3>4. ASSUME HasRow(o)', ~HasRow(o)
          PROVE  m.type = "Create" /\ m.object = o /\ m \in log'
      <4>1. ~UNCHANGED owner
            BY <3>4 DEF HasRow
      <4>2. ProcessCreate(m) /\ InsertObject(m.object, m.actor, m.inner.content)
            BY <2>2, <4>1
            DEF ProcessInbox, Process, ProcessObject, ProcessCreate, ProcessUpdate, ProcessDelete,
                ProcessLike, ProcessAnnounce, ProcessUndoLike, ProcessUndoAnnounce,
                contentVars, objectVars
      <4>3. m.object = o
            BY <2>0, <3>4, <4>2 DEF InsertObject, HasRow
      <4> QED
          BY <4>2, <4>3 DEF ProcessCreate, Receive
    <3>5. ~IsPublished(o)
          BY <3>4 DEF IsPublished
    <3> QED
        BY <3>3, <3>5
  <2>3. ASSUME NEW a \in LocalActors, NEW p \in Objects, NEW c \in Contents, PublishNote(a, p, c)
        PROVE  Goes(o, f)
    <3> DEFINE S == {NoteRow(p, g) : g \in Audience(a)}
    <3>1. Q!Enqueue(S, "Create") /\ CreateNote(a, p, c)
          BY <2>3 DEF PublishNote
    <3>2. owner' = [owner EXCEPT ![p] = a] /\ ~HasRow(p)
          BY <3>1 DEF CreateNote, InsertObject
    <3>3. IsQueued(NoteRow(o, f)) <=> NoteRow(o, f) \in S
          BY <1>1, <2>0, <3>1, EnqueueRows DEF AInv, IsQueued
    <3>4. NoteRow(o, f) \in S <=> o = p /\ f \in Audience(a)
          BY RowsAreTold
    <3>5. f \in Audience(a) <=> follow[f][a] = "accepted"
          BY <1>1 DEF Audience, FollowersOf, Remote
    <3>6. follow[f][a] = "accepted" => Answered(f, a)
          BY <1>1 DEF AInv, FollowersWereAnswered
    <3>7. IsPublished(o) => o = p
          BY <2>0, <3>2 DEF IsPublished, HasRow
    <3>8. o = p => owner'[o] = a
          BY <2>0, <3>2
    <3> HIDE DEF S
    <3> QED
        BY <3>2, <3>3, <3>4, <3>5, <3>6, <3>7, <3>8
  <2>4. CASE Deliver
    <3>1. ~IsQueued(NoteRow(o, f)) /\ UNCHANGED owner
          BY <1>1, <2>0, <2>4, ProgressRows
          DEF Deliver, SameRows, AInv, IsQueued, cvars, contentVars, objectVars
    <3> QED
        BY <3>1 DEF IsPublished, HasRow
  <2>5. CASE Administer
        BY <2>1, <2>5
        DEF Administer, RefreshStatuses, queueVars, contentVars, objectVars
  <2> QED
      BY <1>1, <2>1, <2>2, <2>3, <2>4, <2>5
      DEF FNext, fvars, queueVars, cvars, contentVars, objectVars
<1>2. AInv /\ [FNext]_fvars =>
        [\A o \in Objects, f \in Remote : NoteRow(o, f) \in NoteRows =>
            LET a == owner'[o] IN
            /\ IsQueued(NoteRow(o, f)) =>
                ~HasRow(o) /\ follow[f][a] = "accepted" /\ Answered(f, a)
            /\ (IsPublished(o) /\ follow[f][a] = "accepted") => IsQueued(NoteRow(o, f))]_fvars
      BY <1>1
<1> QED
    BY <1>2, AInvInit, AInvNext, PTL DEF FSpec, NotesGoToFollowers

-----------------------------------------------------------------------------
(* The queue and the server's own account of it.                           *)

(* The followers a note is queued for at an inbox. *)
NotesTo(o, i) ==
  {f \in Remote : /\ Inbox[f] = i /\ NoteRow(o, f) \in NoteRows
                  /\ status[NoteRow(o, f)] # "Absent"}

(* The transactions that change the graph or the objects insert their      *)
(* rows with them: a Follow is answered exactly if its Accept was queued,  *)
(* and a note was queued for exactly as many followers as were counted.    *)
QueueMatchesServer ==
  /\ \A m \in Messages : m.type = "Follow" =>
        (accepts[m.id] > 0 <=> status[AcceptRow(m.id)] # "Absent")
  /\ \A o \in Objects, i \in Inboxes : sent[o][i] = Cardinality(NotesTo(o, i))

ReceivedWasQueued ==
  /\ received \in [Rows -> BOOLEAN]
  /\ \A d \in Rows : received[d] => status[d] # "Absent"

(* Whatever the network does, a remote inbox gets an Accept only of a      *)
(* Follow in the log, and a note only if it exists and the addressee is or *)
(* was an accepted follower of its owner.                                  *)
NothingUnasked ==
  /\ \A m \in Messages : m.type = "Follow" /\ received[AcceptRow(m.id)] => Logged(m.id)
  /\ \A o \in Objects, f \in Remote :
        NoteRow(o, f) \in NoteRows /\ received[NoteRow(o, f)] =>
            HasRow(o) /\ Answered(f, owner[o])

MInv == /\ AInv /\ AnsweredOnce /\ AnsweredIsLogged
        /\ QueueMatchesServer /\ ReceivedWasQueued

LEMMA ReceivedNext ==
  ASSUME QueueInv, ReceivedWasQueued, [FNext]_fvars
  PROVE  ReceivedWasQueued'
<1>1. \A d \in Rows : status[d] # "Absent" => status'[d] # "Absent"
      BY RowsNext
<1>2. CASE UNCHANGED received
      BY <1>1, <1>2 DEF ReceivedWasQueued
<1>3. ASSUME NEW w \in Workers, NEW d \in Rows, Q!Post(w, d)
      PROVE  ReceivedWasQueued'
  <2>1. job[w][d] = "polled"
        BY <1>3, Zenon DEF Q!Post, Q!PostAccepted, Q!PostFailed, Q!Job
  <2>2. status[d] # "Absent"
        BY <2>1 DEF QueueInv
  <2>3. \E b \in BOOLEAN : received' = [received EXCEPT ![d] = b]
    <3>1. \A b \in BOOLEAN : (received[d] \/ b) \in BOOLEAN
          BY DEF ReceivedWasQueued
    <3> QED
        BY <1>3, <3>1, Zenon DEF Q!Post, Q!PostAccepted, Q!PostFailed
  <2>4. PICK b \in BOOLEAN : received' = [received EXCEPT ![d] = b]
        BY <2>3
  <2>5. /\ received' \in [Rows -> BOOLEAN]
        /\ \A e \in Rows : e # d => received'[e] = received[e]
        BY <2>4 DEF ReceivedWasQueued
  <2> QED
      BY <1>1, <2>2, <2>5 DEF ReceivedWasQueued
<1>4. CASE Deliver
  <2>1. ASSUME NEW w \in Workers, NEW d \in Rows, Q!Report(w, d)
        PROVE  UNCHANGED received
        BY <2>1 DEF Q!Report, Q!ReportSuccess, Q!FailureRead, Q!FailureWrite
  <2> QED
      BY <1>2, <1>3, <1>4, <2>1
      DEF Deliver, Q!Progress, Q!Poll, Q!PollFails, Q!Crash, Q!Cleanup, Q!Tick, Rows
<1>5. ASSUME NEW S, NEW k, Q!Enqueue(S, k)
      PROVE  UNCHANGED received
      BY <1>5 DEF Q!Enqueue
<1> QED
    BY <1>2, <1>4, <1>5 DEF FNext, ProcessInbox, PublishNote, Administer, fvars, queueVars

(* Steps that bring no row leave both accounts as they are. *)
LEMMA MatchStays ==
  ASSUME AInv, QueueMatchesServer, UNCHANGED <<accepts, sent>>, SameRows
  PROVE  QueueMatchesServer'
<1>1. ASSUME NEW m \in Messages, m.type = "Follow"
      PROVE  AcceptRow(m.id) \in Rows
      BY <1>1 DEF Rows, AcceptRows
<1>2. ASSUME NEW o, NEW i
      PROVE  NotesTo(o, i)' = NotesTo(o, i)
      BY DEF NotesTo, SameRows, Rows
<1> QED
    BY <1>1, <1>2 DEF QueueMatchesServer, SameRows

LEMMA MatchInbox ==
  ASSUME AInv, QueueMatchesServer, NEW m \in Messages, ProcessInbox(m)
  PROVE  QueueMatchesServer'
<1>1. TypeOK /\ Q!Enqueue(AnswerRows(m), "Accept") /\ Process(m)
      BY DEF AInv, CTypeOK, ProcessInbox
<1>2. \A d \in Rows : IF d \in AnswerRows(m) THEN status'[d] # "Absent"
                      ELSE status'[d] = status[d]
      BY <1>1, EnqueueRows DEF AInv
<1>3. UNCHANGED sent
      BY <1>1 DEF Process, ProcessObject, ProcessCreate, ProcessUpdate, ProcessDelete, ProcessLike,
                  ProcessAnnounce, ProcessUndoLike, ProcessUndoAnnounce, contentVars
<1>4. \/ UNCHANGED accepts
      \/ m.type = "Follow" /\ accepts' = [accepts EXCEPT ![m.id] = @ + 1]
  <2>1. CASE ProcessObject(m)
        BY <2>1, ObjectsAreOther DEF ProcessOther, graphVars
  <2>2. CASE ProcessMessage(m)
        BY <2>2 DEF ProcessMessage, ProcessFollow, Answer, ProcessAccept, ProcessReject,
                    ProcessBlock, ProcessUndoFollow, ProcessOther, graphVars
  <2> QED
      BY <1>1, <2>1, <2>2 DEF Process
<1>5. \A o \in Objects, i \in Inboxes : NotesTo(o, i)' = NotesTo(o, i)
  <2>1. ASSUME NEW o, NEW f, NoteRow(o, f) \in NoteRows
        PROVE  status'[NoteRow(o, f)] = status[NoteRow(o, f)]
    <3>1. NoteRow(o, f) \notin AnswerRows(m)
          BY RowsAreTold DEF AnswerRows
    <3> QED
        BY <1>2, <2>1, <3>1 DEF Rows
  <2> QED
      BY <2>1 DEF NotesTo
<1>6. ASSUME NEW n \in Messages, n.type = "Follow"
      PROVE  accepts'[n.id] > 0 <=> status'[AcceptRow(n.id)] # "Absent"
  <2>1. n.id \in Uris /\ AcceptRow(n.id) \in Rows /\ accepts[n.id] \in Nat
        BY <1>1, <1>6, FederationAssumption DEF Uris, Rows, AcceptRows, TypeOK
  <2>2. accepts[n.id] > 0 <=> status[AcceptRow(n.id)] # "Absent"
        BY <1>6 DEF QueueMatchesServer
  <2>3. CASE n.id = m.id
    <3>1. CASE accepts'[m.id] = accepts[m.id]
      <4>1. AcceptRow(n.id) \notin AnswerRows(m)
            BY <3>1 DEF AnswerRows
      <4> QED
          BY <1>2, <2>1, <2>2, <2>3, <3>1, <4>1
    <3>2. CASE accepts'[m.id] # accepts[m.id]
      <4>1. AcceptRow(n.id) \in AnswerRows(m)
            BY <2>3, <3>2 DEF AnswerRows
      <4>2. accepts' = [accepts EXCEPT ![m.id] = @ + 1]
            BY <1>4, <3>2
      <4>3. accepts'[n.id] = accepts[n.id] + 1
            BY <1>1, <2>1, <2>3, <4>2 DEF TypeOK
      <4> QED
          BY <1>2, <2>1, <4>1, <4>3
    <3> QED
        BY <3>1, <3>2
  <2>4. CASE n.id # m.id
    <3>1. AcceptRow(n.id) \notin AnswerRows(m)
          BY <2>4 DEF AnswerRows, AcceptRow
    <3>2. accepts'[n.id] = accepts[n.id]
          BY <1>1, <1>4, <2>1, <2>4 DEF TypeOK
    <3> QED
        BY <1>2, <2>1, <2>2, <3>1, <3>2
  <2> QED
      BY <2>3, <2>4
<1>7. \A o \in Objects, i \in Inboxes : sent'[o][i] = Cardinality(NotesTo(o, i)')
      BY <1>3, <1>5 DEF QueueMatchesServer
<1> QED
    BY <1>6, <1>7 DEF QueueMatchesServer

LEMMA MatchNote ==
  ASSUME AInv, QueueMatchesServer,
         NEW a \in LocalActors, NEW o \in Objects, NEW c \in Contents, PublishNote(a, o, c)
  PROVE  QueueMatchesServer'
<1> DEFINE S == {NoteRow(o, f) : f \in Audience(a)}
<1>1. /\ CTypeOK /\ Q!Enqueue(S, "Create") /\ CreateNote(a, o, c)
      /\ UNCHANGED accepts /\ o \in Notes[a] /\ ~HasRow(o)
      BY DEF AInv, PublishNote, CreateNote, vars, graphVars
<1>2. \A d \in Rows : IF d \in S THEN status'[d] # "Absent" ELSE status'[d] = status[d]
      BY <1>1, EnqueueRows DEF AInv
<1>3. ASSUME NEW m \in Messages, m.type = "Follow"
      PROVE  status'[AcceptRow(m.id)] = status[AcceptRow(m.id)]
  <2>1. AcceptRow(m.id) \in Rows
        BY <1>3 DEF Rows, AcceptRows
  <2>2. AcceptRow(m.id) \notin S
        BY RowsAreTold
  <2> QED
      BY <1>2, <2>1, <2>2
<1>4. ASSUME NEW i \in Inboxes
      PROVE  NotesTo(o, i)' = RemoteFollowers(a, i)
  <2>1. \A f \in Remote : NoteRow(o, f) \in NoteRows
        BY <1>1 DEF NoteRows
  <2>2. \A f \in Remote : ~ (status[NoteRow(o, f)] # "Absent")
        BY <1>1, <2>1 DEF AInv, NotesAreAddressed
  <2>3. \A f \in Remote : NoteRow(o, f) \in S <=> f \in Audience(a)
        BY RowsAreTold
  <2>4. \A f \in Remote : status'[NoteRow(o, f)] # "Absent" <=> f \in Audience(a)
        BY <1>2, <2>1, <2>2, <2>3 DEF Rows
  <2>5. \A f \in RemoteFollowers(a, i) : f \in Remote /\ f \in Audience(a)
        BY DEF RemoteFollowers, FollowersOf, Remote, Audience
  <2>6. \A f \in Remote : f \in Audience(a) /\ Inbox[f] = i => f \in RemoteFollowers(a, i)
        BY DEF RemoteFollowers, Audience
  <2>7. \A f \in RemoteFollowers(a, i) : Inbox[f] = i
        BY DEF RemoteFollowers
  <2> QED
      BY <2>1, <2>4, <2>5, <2>6, <2>7 DEF NotesTo
<1>5. ASSUME NEW p \in Objects, p # o, NEW i \in Inboxes
      PROVE  NotesTo(p, i)' = NotesTo(p, i)
  <2>1. \A f \in Remote : NoteRow(p, f) \notin S
        BY <1>5, RowsAreTold
  <2> QED
      BY <1>2, <2>1 DEF NotesTo, Rows
<1>6. sent' = [sent EXCEPT ![o] = [i \in Inboxes |-> Cardinality(RemoteFollowers(a, i))]]
      BY <1>1 DEF CreateNote
<1>7. ASSUME NEW p \in Objects, NEW i \in Inboxes
      PROVE  sent'[p][i] = Cardinality(NotesTo(p, i)')
      BY <1>1, <1>4, <1>5, <1>6, <1>7 DEF CTypeOK, QueueMatchesServer
<1>8. ASSUME NEW m \in Messages, m.type = "Follow"
      PROVE  accepts'[m.id] > 0 <=> status'[AcceptRow(m.id)] # "Absent"
      BY <1>1, <1>3, <1>8 DEF QueueMatchesServer
<1> QED
    BY <1>7, <1>8 DEF QueueMatchesServer

LEMMA MInvInit == FInit => MInv
<1> SUFFICES ASSUME FInit PROVE MInv
    OBVIOUS
<1>1. /\ AInv /\ received \in [Rows -> BOOLEAN]
      /\ \A d \in Rows : status[d] = "Absent" /\ received[d] = FALSE
      BY AInvInit DEF FInit, Q!Init, Rows
<1>2. accepts = [u \in Uris \union {NoUri} |-> 0]
      BY DEF FInit, CInit, Init, GraphInit
<1>3. AnsweredOnce /\ AnsweredIsLogged
      BY <1>2 DEF AnsweredOnce, AnsweredIsLogged
<1>4. ASSUME NEW o \in Objects, NEW i \in Inboxes
      PROVE  sent[o][i] = Cardinality(NotesTo(o, i))
  <2>1. NotesTo(o, i) = {}
        BY <1>1 DEF NotesTo, Rows
  <2>2. sent[o][i] = 0
        BY DEF FInit, CInit
  <2> QED
      BY <2>1, <2>2, FS_EmptySet
<1>5. ASSUME NEW m \in Messages, m.type = "Follow"
      PROVE  accepts[m.id] > 0 <=> status[AcceptRow(m.id)] # "Absent"
  <2>1. AcceptRow(m.id) \in Rows /\ accepts[m.id] = 0
        BY <1>2, <1>5 DEF Rows, AcceptRows, Uris
  <2> QED
      BY <1>1, <2>1
<1>6. QueueMatchesServer
      BY <1>4, <1>5 DEF QueueMatchesServer
<1>7. ReceivedWasQueued
      BY <1>1 DEF ReceivedWasQueued
<1> QED
    BY <1>1, <1>3, <1>6, <1>7 DEF MInv

LEMMA MInvNext == MInv /\ [FNext]_fvars => MInv'
<1> SUFFICES ASSUME MInv, [FNext]_fvars PROVE MInv'
    OBVIOUS
<1>0. AInv /\ TypeOK /\ QueueInv /\ QueueMatchesServer /\ [Next]_vars
      BY ServerStep, ContentStep DEF MInv, AInv, CTypeOK
<1>1. AInv' /\ AnsweredOnce' /\ AnsweredIsLogged' /\ ReceivedWasQueued'
      BY <1>0, AInvNext, NextAnswered, ReceivedNext DEF MInv
<1>2. QueueMatchesServer'
  <2>1. CASE Deliver
    <3>1. SameRows
          BY <1>0, <2>1, ProgressRows DEF Deliver
    <3> QED
        BY <1>0, <2>1, <3>1, MatchStays DEF Deliver, cvars, vars, graphVars, contentVars
  <2>2. CASE UNCHANGED <<accepts, sent, status>>
        BY <1>0, <2>2, MatchStays DEF SameRows
  <2>3. CASE Administer
        BY <2>2, <2>3 DEF Administer, SetAutoAccept, RefreshStatuses, RefreshStats, contentVars,
                          queueVars
  <2> QED
      BY <1>0, <2>1, <2>2, <2>3, MatchInbox, MatchNote
      DEF FNext, fvars, cvars, vars, graphVars, contentVars, queueVars
<1> QED
    BY <1>1, <1>2 DEF MInv

(* Graph, objects and queue never disagree on what was queued, in spite of *)
(* the queue's own life: deliveries, failures, crashes and cleanups.       *)
THEOREM MatchSafe == FSpec => []QueueMatchesServer
<1>1. MInv => QueueMatchesServer
      BY DEF MInv
<1> QED
    BY <1>1, MInvInit, MInvNext, PTL DEF FSpec

(* From end to end: no remote inbox gets an Accept of what it did not send *)
(* or a note that it did not ask for.                                      *)
THEOREM UnaskedSafe == FSpec => []NothingUnasked
<1>1. MInv => NothingUnasked
  <2> SUFFICES ASSUME MInv PROVE NothingUnasked
      OBVIOUS
  <2>1. ASSUME NEW m \in Messages, m.type = "Follow", received[AcceptRow(m.id)]
        PROVE  Logged(m.id)
    <3>1. m.id \in Uris /\ AcceptRow(m.id) \in Rows
          BY <2>1, FederationAssumption DEF Uris, Rows, AcceptRows
    <3>2. accepts[m.id] > 0
          BY <2>1, <3>1 DEF MInv, ReceivedWasQueued, QueueMatchesServer
    <3> QED
        BY <3>1, <3>2 DEF MInv, AnsweredIsLogged
  <2>2. ASSUME NEW o \in Objects, NEW f \in Remote, NoteRow(o, f) \in NoteRows,
               received[NoteRow(o, f)]
        PROVE  HasRow(o) /\ Answered(f, owner[o])
        BY <2>2 DEF MInv, AInv, NotesAreAddressed, ReceivedWasQueued, Rows
  <2> QED
      BY <2>1, <2>2 DEF NothingUnasked
<1> QED
    BY <1>1, MInvInit, MInvNext, PTL DEF FSpec

-----------------------------------------------------------------------------
(* What is proved of the queue with one worker, of the queue of the server: *)
(* an instance of the proofs, which are about an instance of Delivery of    *)
(* their own, with the same definitions.                                    *)
QP == INSTANCE DeliveryProofs WITH
        Deliveries <- AcceptRows \union NoteRows, Kinds <- {"Accept", "Create"}

LEMMA SameActions ==
  /\ \A S \in SUBSET Rows, k \in {"Accept", "Create"} : Q!Enqueue(S, k) <=> QP!Enqueue(S, k)
  /\ \A S \in SUBSET Rows : Q!Cleanup(S) <=> QP!Cleanup(S)
  /\ \A w \in Workers :
        /\ Q!Poll(w) <=> QP!Poll(w)
        /\ Q!PollFails(w) <=> QP!PollFails(w)
        /\ Q!Crash(w) <=> QP!Crash(w)
        /\ \A d \in Rows : (Q!Post(w, d) <=> QP!Post(w, d)) /\ (Q!Report(w, d) <=> QP!Report(w, d))
  /\ Q!Tick <=> QP!Tick
<1> USE DEF Q!queue, QP!queue, Q!worker, QP!worker, Q!Pending, QP!Pending
<1>2. ASSUME NEW S \in SUBSET Rows, NEW k \in {"Accept", "Create"}
      PROVE  Q!Enqueue(S, k) <=> QP!Enqueue(S, k)
      BY DEF Q!Enqueue, QP!Enqueue
<1>3. ASSUME NEW S \in SUBSET Rows PROVE Q!Cleanup(S) <=> QP!Cleanup(S)
      BY DEF Q!Cleanup, QP!Cleanup
<1>4. Q!Due = QP!Due
      BY DEF Q!Due, QP!Due
<1>5. ASSUME NEW S PROVE Q!IsBatch(S) <=> QP!IsBatch(S)
  <2>1. Q!Cardinality(S) = QP!Cardinality(S)
        BY Zenon DEF Q!Cardinality, QP!Cardinality, Q!IsFiniteSet, QP!IsFiniteSet
  <2> QED
      BY <1>4, <2>1 DEF Q!IsBatch, QP!IsBatch
<1>6. ASSUME NEW d PROVE Q!HasRaw(d) <=> QP!HasRaw(d)
      BY DEF Q!HasRaw, QP!HasRaw
<1>7. ASSUME NEW w \in Workers PROVE Q!Poll(w) <=> QP!Poll(w)
      BY <1>4, <1>5, <1>6 DEF Q!Poll, QP!Poll
<1>8. ASSUME NEW w \in Workers PROVE Q!PollFails(w) <=> QP!PollFails(w)
      BY <1>4, <1>5, <1>6 DEF Q!PollFails, QP!PollFails
<1>9. ASSUME NEW w \in Workers PROVE Q!Crash(w) <=> QP!Crash(w)
      BY DEF Q!Crash, QP!Crash
<1>10. ASSUME NEW w \in Workers, NEW d \in Rows PROVE Q!Post(w, d) <=> QP!Post(w, d)
  <2>1. Q!PostAccepted(w, d) <=> QP!PostAccepted(w, d)
        BY DEF Q!PostAccepted, QP!PostAccepted, Q!Job, QP!Job
  <2>2. Q!PostFailed(w, d) <=> QP!PostFailed(w, d)
        BY DEF Q!PostFailed, QP!PostFailed, Q!Job, QP!Job
  <2> QED
      BY <2>1, <2>2 DEF Q!Post, QP!Post
<1>11. ASSUME NEW w \in Workers, NEW d \in Rows PROVE Q!Report(w, d) <=> QP!Report(w, d)
  <2>1. Q!ReportSuccess(w, d) <=> QP!ReportSuccess(w, d)
        BY DEF Q!ReportSuccess, QP!ReportSuccess, Q!Job, QP!Job
  <2>2. Q!FailureRead(w, d) <=> QP!FailureRead(w, d)
        BY DEF Q!FailureRead, QP!FailureRead, Q!Job, QP!Job
  <2>3. Q!FailureWrite(w, d) <=> QP!FailureWrite(w, d)
        BY DEF Q!FailureWrite, QP!FailureWrite, Q!Job, QP!Job, Q!RetryInterval, QP!RetryInterval
  <2> QED
      BY <2>1, <2>2, <2>3 DEF Q!Report, QP!Report
<1>12. Q!Tick <=> QP!Tick
      BY DEF Q!Tick, QP!Tick
<1> QED
    BY <1>2, <1>3, <1>7, <1>8, <1>9, <1>10, <1>11, <1>12

LEMMA SameQueue ==
  /\ Q!Init <=> QP!Init
  /\ Q!Next <=> QP!Next
  /\ Q!vars = QP!vars
<1>1. Q!vars = QP!vars
      BY DEF Q!queue, QP!queue, Q!worker, QP!worker, Q!vars, QP!vars
<1>2. Q!Init <=> QP!Init
      BY DEF Q!Init, QP!Init
<1>3. Q!Next <=> QP!Next
      BY SameActions DEF Q!Next, QP!Next, Q!Progress, QP!Progress, Rows
<1> QED
    BY <1>1, <1>2, <1>3

LEMMA QueueAssumed ==
  /\ OverdueCap \in Nat /\ MaxCrashes \in Nat
  /\ QP!IsFiniteSet(Workers)
  /\ {"Accept", "Create"} \subseteq {"Accept", "Create"}
  /\ BatchSize \in Nat \ {0}
  /\ RetryIntervals \in Seq(Nat) /\ Len(RetryIntervals) > 0
  /\ MaxAttempts \in 1..20
<1>1. IsFiniteSet(Workers) <=> QP!IsFiniteSet(Workers)
      BY DEF IsFiniteSet, QP!IsFiniteSet
<1> QED
    BY <1>1, QueueAssumption

LEMMA FederationIsProvedQueue == FSpec => QP!Spec
<1>1. Q!Init => QP!Init
      BY SameQueue
<1>2. [Q!Next]_(Q!vars) => [QP!Next]_(QP!vars)
      BY SameQueue DEF Q!vars, QP!vars, Q!queue, QP!queue, Q!worker, QP!worker
<1> QED
    BY <1>1, <1>2, FederationIsQueue, PTL DEF Q!FairSpec, Q!Spec, QP!Spec

(* While notes and Accepts are queued and delivered, the rows a single     *)
(* worker holds are still to be delivered.                                 *)
THEOREM QueueHeldSafe ==
  ASSUME NEW u \in Workers, Workers = {u}
  PROVE  FSpec => []HeldRowsArePending
<1>1. QP!Spec => []QP!HeldRowsArePending
      BY QP!HeldSafe, QueueAssumed, Zenon
<1>2. QP!HeldRowsArePending => HeldRowsArePending
      BY DEF HeldRowsArePending, Q!HeldRowsArePending, QP!HeldRowsArePending, Q!Pending, QP!Pending
<1> QED
    BY <1>1, <1>2, FederationIsProvedQueue, PTL

(* And the remote inboxes get at most MaxAttempts POSTs of each Accept and *)
(* each note, and one more for every crash.                                *)
THEOREM QueuePostsSafe ==
  ASSUME NEW u \in Workers, Workers = {u}
  PROVE  FSpec => []PostsBounded
<1>1. QP!Spec => []QP!PostsBounded
      BY QP!PostsSafe, QueueAssumed, Zenon
<1>2. QP!PostsBounded => PostsBounded
      BY DEF PostsBounded, Q!PostsBounded, QP!PostsBounded
<1> QED
    BY <1>1, <1>2, FederationIsProvedQueue, PTL

(* And what was delivered or given up stays so. *)
THEOREM QueueSettledSafe ==
  ASSUME NEW u \in Workers, Workers = {u}
  PROVE  FSpec => SettledStays
<1>1. QP!Spec => QP!SettledStays
      BY QP!SettledSafe, QueueAssumed, Zenon
<1>2. QP!SettledStays => SettledStays
      BY PTL DEF SettledStays, Q!SettledStays, QP!SettledStays, Q!vars, QP!vars,
                 Q!queue, QP!queue, Q!worker, QP!worker
<1> QED
    BY <1>1, <1>2, FederationIsProvedQueue, PTL

(* The two instances promise the same. *)
LEMMA SamePromise ==
  /\ QP!P!PInit => Q!P!PInit
  /\ [QP!P!PNext]_(QP!P!pvars) => [Q!P!PNext]_(Q!P!pvars)
<1>0. QP!PromiseState = Q!PromiseState /\ QP!PromiseState' = Q!PromiseState'
      BY DEF QP!PromiseState, Q!PromiseState, QP!Outcome, Q!Outcome
<1>1. QP!P!PInit => Q!P!PInit
      BY <1>0 DEF QP!P!PInit, Q!P!PInit
<1>2. QP!P!pvars = Q!P!pvars /\ QP!P!pvars' = Q!P!pvars'
      BY <1>0 DEF QP!P!pvars, Q!P!pvars
<1> USE DEF Rows
<1>3. ASSUME NEW d \in Rows
      PROVE  /\ QP!P!Arrive(d) => Q!P!Arrive(d)
             /\ QP!P!Settle(d) => Q!P!Settle(d)
             /\ QP!P!Miss(d) => Q!P!Miss(d)
      BY <1>0 DEF QP!P!Arrive, Q!P!Arrive, QP!P!Settle, Q!P!Settle, QP!P!Miss, Q!P!Miss
<1>4. ASSUME NEW S \in SUBSET Rows
      PROVE  /\ QP!P!Accept(S) => Q!P!Accept(S)
             /\ QP!P!Forget(S) => Q!P!Forget(S)
      BY <1>0 DEF QP!P!Accept, Q!P!Accept, QP!P!Forget, Q!P!Forget
<1>5. QP!P!Break => Q!P!Break
      BY <1>0 DEF QP!P!Break, Q!P!Break
<1>6. QP!P!PNext => Q!P!PNext
      BY <1>3, <1>4, <1>5 DEF QP!P!PNext, Q!P!PNext
<1> QED
    BY <1>1, <1>2, <1>6

(* The queue does nothing to the server's deliveries that its promise does *)
(* not allow: KeepsPromise without its fairness.                           *)
THEOREM QueuePromiseSafe ==
  ASSUME NEW u \in Workers, Workers = {u}
  PROVE  FSpec => Q!P!PSpec
<1>1. QP!Spec => QP!P!PSpec
      BY QP!Implements, QueueAssumed, Zenon
<1> QED
    BY <1>1, SamePromise, FederationIsProvedQueue, PTL DEF Q!P!PSpec, QP!P!PSpec
=============================================================================
