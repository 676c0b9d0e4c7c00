--------------------------- MODULE DeliveryProofs ---------------------------
(***************************************************************************)
(* Proofs about Delivery for any rows, any finite set of workers, any      *)
(* schedule, any limit on attempts and any number of crashes.              *)
(***************************************************************************)
EXTENDS Delivery, FiniteSetTheorems, TLAPS

(* The index computed by ap_delivery_failure is always inside the array. *)
LEMMA RetryIntervalType == ASSUME NEW n \in Nat PROVE RetryInterval(n) \in Nat
  BY IntervalsAssumption DEF RetryInterval

LEMMA InitType == Init => TypeOK
<1> SUFFICES ASSUME Init PROVE TypeOK
    OBVIOUS
<1>1. /\ status   \in [Deliveries -> Statuses]
      /\ attempts \in [Deliveries -> Nat]
      /\ wait     \in [Deliveries -> Int]
      /\ kind     \in [Deliveries -> {"Accept", "Create"}]
      BY DEF Init, Statuses
<1>2. /\ job  \in [Workers -> [Deliveries -> JobStates]]
      /\ seen \in [Workers -> [Deliveries -> Nat]]
      BY DEF Init, JobStates
<1>3. /\ crashes   \in Nat
      /\ received  \in [Deliveries -> BOOLEAN]
      /\ posts     \in [Deliveries -> Nat]
      /\ pollError \in BOOLEAN
      BY DEF Init
<1> QED
    BY <1>1, <1>2, <1>3 DEF TypeOK

LEMMA NextType == TypeOK /\ [Next]_vars => TypeOK'
<1> SUFFICES ASSUME TypeOK, [Next]_vars PROVE TypeOK'
    OBVIOUS
<1> USE DEF TypeOK, Statuses, JobStates, queue, worker
<1>1. ASSUME NEW S \in SUBSET Deliveries, NEW k \in Kinds, Enqueue(S, k) PROVE TypeOK'
      BY <1>1, KindsAssumption DEF Enqueue
<1>2. ASSUME NEW S \in SUBSET Deliveries, Cleanup(S) PROVE TypeOK'
      BY <1>2 DEF Cleanup
<1>3. ASSUME NEW w \in Workers, Poll(w) PROVE TypeOK'
      BY <1>3 DEF Poll
<1>4. ASSUME NEW w \in Workers, PollFails(w) PROVE TypeOK'
      BY <1>4 DEF PollFails
<1>5. ASSUME NEW w \in Workers, Crash(w) PROVE TypeOK'
      BY <1>5 DEF Crash
<1>6. ASSUME NEW w \in Workers, NEW d \in Deliveries, PostAccepted(w, d) PROVE TypeOK'
      BY <1>6 DEF PostAccepted, Job
<1>7. ASSUME NEW w \in Workers, NEW d \in Deliveries, PostFailed(w, d) PROVE TypeOK'
      BY <1>7 DEF PostFailed, Job
<1>8. ASSUME NEW w \in Workers, NEW d \in Deliveries, ReportSuccess(w, d) PROVE TypeOK'
      BY <1>8 DEF ReportSuccess, Job
<1>9. ASSUME NEW w \in Workers, NEW d \in Deliveries, FailureRead(w, d) PROVE TypeOK'
      BY <1>9 DEF FailureRead, Job
<1>10. ASSUME NEW w \in Workers, NEW d \in Deliveries, FailureWrite(w, d) PROVE TypeOK'
  <2>1. /\ seen[w][d] + 1 \in Nat
        /\ RetryInterval(seen[w][d] + 1) \in Nat
        BY RetryIntervalType
  <2>2. CASE status[d] = "Removed"
        BY <1>10, <2>2 DEF FailureWrite, Job
  <2>3. CASE status[d] # "Removed" /\ seen[w][d] + 1 >= MaxAttempts
        BY <1>10, <2>1, <2>3 DEF FailureWrite, Job
  <2>4. CASE status[d] # "Removed" /\ ~(seen[w][d] + 1 >= MaxAttempts)
    <3>1. /\ attempts' = [attempts EXCEPT ![d] = seen[w][d] + 1]
          /\ status'   = [status EXCEPT ![d] = "Failed"]
          /\ wait'     = [wait EXCEPT ![d] = RetryInterval(seen[w][d] + 1)]
          /\ job'      = [job EXCEPT ![w][d] = "idle"]
          /\ seen'     = [seen EXCEPT ![w][d] = 0]
          /\ UNCHANGED <<kind, crashes, received, posts, pollError>>
          BY <1>10, <2>4 DEF FailureWrite, Job
    <3> QED
        BY <2>1, <3>1
  <2> QED
      BY <2>2, <2>3, <2>4
<1>11. ASSUME Tick PROVE TypeOK'
       BY <1>11, BoundsAssumption DEF Tick
<1>12. ASSUME UNCHANGED vars PROVE TypeOK'
       BY <1>12 DEF vars
<1> QED
    BY <1>1, <1>2, <1>3, <1>4, <1>5, <1>6, <1>7, <1>8, <1>9, <1>10, <1>11, <1>12
       DEF Next, Progress, Post, Report

(* Every variable keeps the type of its column or of what it observes. *)
THEOREM TypeCorrect == Spec => []TypeOK
<1>1. Init => TypeOK
      BY InitType
<1>2. TypeOK /\ [Next]_vars => TypeOK'
      BY NextType
<1> QED
    BY <1>1, <1>2, PTL DEF Spec
-----------------------------------------------------------------------------
(* The budget of attempts. *)

LEMMA BudgetInit == Init => PendingHasBudget /\ RemovedHadExpired
  BY DEF Init, PendingHasBudget, RemovedHadExpired, Pending

LEMMA BudgetNext ==
  TypeOK /\ PendingHasBudget /\ RemovedHadExpired /\ [Next]_vars
    => PendingHasBudget' /\ RemovedHadExpired'
<1> SUFFICES ASSUME TypeOK, PendingHasBudget, RemovedHadExpired, [Next]_vars
             PROVE  PendingHasBudget' /\ RemovedHadExpired'
    OBVIOUS
<1> USE MaxAttemptsAssumption
    DEF TypeOK, PendingHasBudget, RemovedHadExpired, Pending, Statuses
<1>1. ASSUME NEW S \in SUBSET Deliveries, NEW k \in Kinds, Enqueue(S, k)
      PROVE  PendingHasBudget' /\ RemovedHadExpired'
      BY <1>1 DEF Enqueue
<1>2. ASSUME NEW S \in SUBSET Deliveries, Cleanup(S)
      PROVE  PendingHasBudget' /\ RemovedHadExpired'
      BY <1>2 DEF Cleanup
<1>3. ASSUME NEW w \in Workers, NEW d \in Deliveries, ReportSuccess(w, d)
      PROVE  PendingHasBudget' /\ RemovedHadExpired'
      BY <1>3 DEF ReportSuccess
<1>4. ASSUME NEW w \in Workers, NEW d \in Deliveries, FailureWrite(w, d)
      PROVE  PendingHasBudget' /\ RemovedHadExpired'
  <2>1. CASE status[d] = "Removed"
        BY <1>4, <2>1 DEF FailureWrite
  <2>2. CASE status[d] # "Removed"
    <3>1. /\ attempts' = [attempts EXCEPT ![d] = seen[w][d] + 1]
          /\ status'   = [status EXCEPT ![d] =
                            IF seen[w][d] + 1 >= MaxAttempts THEN "Expired" ELSE "Failed"]
          BY <1>4, <2>2 DEF FailureWrite
    <3>2. seen[w][d] + 1 \in Nat
          OBVIOUS
    <3>3. PendingHasBudget'
          BY <3>1, <3>2
    <3>4. RemovedHadExpired'
          BY <3>1, <3>2
    <3> QED
        BY <3>3, <3>4
  <2> QED
      BY <2>1, <2>2
<1>5. ASSUME UNCHANGED <<status, attempts>>
      PROVE  PendingHasBudget' /\ RemovedHadExpired'
      BY <1>5
<1> QED
    BY <1>1, <1>2, <1>3, <1>4, <1>5
       DEF Next, Progress, Post, Report, Poll, PollFails, Crash, PostAccepted, PostFailed,
           FailureRead, Tick, vars, queue

(* Whatever the workers do, a row that waits for another attempt has one   *)
(* left, and a row is marked Expired only when it has none.                *)
THEOREM BudgetSafe == Spec => []PendingHasBudget
<1>1. Init => TypeOK /\ PendingHasBudget /\ RemovedHadExpired
      BY InitType, BudgetInit
<1>2. TypeOK /\ PendingHasBudget /\ RemovedHadExpired /\ [Next]_vars
        => TypeOK' /\ PendingHasBudget' /\ RemovedHadExpired'
      BY NextType, BudgetNext
<1> QED
    BY <1>1, <1>2, PTL DEF Spec

-----------------------------------------------------------------------------
(* What Delivered means. *)

LEMMA ReceivedNext ==
  TypeOK /\ DeliveredWasReceived /\ AcceptedWasReceived /\ [Next]_vars
    => DeliveredWasReceived' /\ AcceptedWasReceived'
<1> SUFFICES ASSUME TypeOK, DeliveredWasReceived, AcceptedWasReceived, [Next]_vars
             PROVE  DeliveredWasReceived' /\ AcceptedWasReceived'
    OBVIOUS
<1> USE DEF TypeOK, DeliveredWasReceived, AcceptedWasReceived
<1>1. ASSUME NEW S \in SUBSET Deliveries, NEW k \in Kinds, Enqueue(S, k)
      PROVE  DeliveredWasReceived' /\ AcceptedWasReceived'
      BY <1>1 DEF Enqueue, worker
<1>2. ASSUME NEW S \in SUBSET Deliveries, Cleanup(S)
      PROVE  DeliveredWasReceived' /\ AcceptedWasReceived'
      BY <1>2 DEF Cleanup, worker
<1>3. ASSUME NEW w \in Workers, Poll(w)
      PROVE  DeliveredWasReceived' /\ AcceptedWasReceived'
      BY <1>3 DEF Poll, queue
<1>4. ASSUME NEW w \in Workers, Crash(w)
      PROVE  DeliveredWasReceived' /\ AcceptedWasReceived'
      BY <1>4 DEF Crash, queue
<1>5. ASSUME NEW w \in Workers, NEW d \in Deliveries, PostAccepted(w, d)
      PROVE  DeliveredWasReceived' /\ AcceptedWasReceived'
      BY <1>5 DEF PostAccepted, Job, queue
<1>6. ASSUME NEW w \in Workers, NEW d \in Deliveries, PostFailed(w, d)
      PROVE  DeliveredWasReceived' /\ AcceptedWasReceived'
      BY <1>6 DEF PostFailed, Job, queue
<1>7. ASSUME NEW w \in Workers, NEW d \in Deliveries, ReportSuccess(w, d)
      PROVE  DeliveredWasReceived' /\ AcceptedWasReceived'
      BY <1>7 DEF ReportSuccess, Job
<1>8. ASSUME NEW w \in Workers, NEW d \in Deliveries, FailureRead(w, d)
      PROVE  DeliveredWasReceived' /\ AcceptedWasReceived'
      BY <1>8 DEF FailureRead, Job, queue
<1>9. ASSUME NEW w \in Workers, NEW d \in Deliveries, FailureWrite(w, d)
      PROVE  DeliveredWasReceived' /\ AcceptedWasReceived'
      BY <1>9 DEF FailureWrite, Job
<1>10. ASSUME UNCHANGED <<status, job, received>>
       PROVE  DeliveredWasReceived' /\ AcceptedWasReceived'
       BY <1>10
<1> QED
    BY <1>1, <1>2, <1>3, <1>4, <1>5, <1>6, <1>7, <1>8, <1>9, <1>10
       DEF Next, Progress, Post, Report, PollFails, Tick, vars, queue, worker

(* The queue never says Delivered of an activity the remote inbox lacks. *)
THEOREM DeliveredIsTrue == Spec => []DeliveredWasReceived
<1>1. Init => TypeOK /\ DeliveredWasReceived /\ AcceptedWasReceived
      BY InitType DEF Init, DeliveredWasReceived, AcceptedWasReceived
<1>2. TypeOK /\ DeliveredWasReceived /\ AcceptedWasReceived /\ [Next]_vars
        => TypeOK' /\ DeliveredWasReceived' /\ AcceptedWasReceived'
      BY NextType, ReceivedNext
<1> QED
    BY <1>1, <1>2, PTL DEF Spec

-----------------------------------------------------------------------------
(* No attempt is charged that was not made. *)

LEMMA UnreportedFinite ==
  ASSUME NEW d \in Deliveries
  PROVE  /\ IsFiniteSet(Unreported(d))
         /\ Cardinality(Unreported(d)) \in Nat
<1>1. Unreported(d) \in SUBSET Workers
      BY DEF Unreported
<1> QED
    BY <1>1, WorkersAssumption, FS_Subset, FS_CardinalityType

(* A step that starts no POST leaves no more to report than there was. *)
LEMMA FewerUnreported ==
  ASSUME TypeOK, NEW d \in Deliveries, Unreported(d)' \subseteq Unreported(d)
  PROVE  /\ Cardinality(Unreported(d)') \in Nat
         /\ Cardinality(Unreported(d)') <= Cardinality(Unreported(d))
<1>1. Unreported(d)' \in SUBSET Unreported(d)
      OBVIOUS
<1> QED
    BY <1>1, UnreportedFinite, FS_Subset, FS_CardinalityType

(* A report takes its worker out of those who owe one. *)
LEMMA OneReported ==
  ASSUME TypeOK, NEW w \in Workers, NEW d \in Deliveries,
         w \in Unreported(d), Unreported(d)' = Unreported(d) \ {w}
  PROVE  Cardinality(Unreported(d)') = Cardinality(Unreported(d)) - 1
  BY UnreportedFinite, FS_RemoveElement

LEMMA AccountedInit == Init => AttemptsAccounted
<1> SUFFICES ASSUME Init PROVE AttemptsAccounted
    OBVIOUS
<1>1. ASSUME NEW d \in Deliveries PROVE Cardinality(Unreported(d)) = 0
  <2>1. Unreported(d) = {}
        BY DEF Init, Unreported
  <2> QED
      BY <2>1, FS_EmptySet
<1> QED
    BY <1>1 DEF Init, AttemptsAccounted

LEMMA AccountedNext == TypeOK /\ AttemptsAccounted /\ [Next]_vars => AttemptsAccounted'
<1> SUFFICES ASSUME TypeOK, AttemptsAccounted, [Next]_vars PROVE AttemptsAccounted'
    OBVIOUS
<1> USE DEF TypeOK, AttemptsAccounted
<1>0. TypeOK'
      BY NextType
<1>1. ASSUME \A d \in Deliveries : Unreported(d)' \subseteq Unreported(d),
             attempts' = attempts, posts' = posts,
             \A w \in Workers, d \in Deliveries :
                job'[w][d] = "reporting" => job[w][d] = "reporting" /\ seen'[w][d] = seen[w][d]
      PROVE  AttemptsAccounted'
  <2>1. ASSUME NEW d \in Deliveries
        PROVE  /\ Cardinality(Unreported(d)') \in Nat
               /\ Cardinality(Unreported(d)') <= Cardinality(Unreported(d))
        BY <1>1, FewerUnreported
  <2> QED
      BY <1>1, <2>1, UnreportedFinite
<1>2. ASSUME NEW S \in SUBSET Deliveries, NEW k \in Kinds, Enqueue(S, k)
      PROVE  AttemptsAccounted'
  <2>1. \A e \in Deliveries : Unreported(e)' = Unreported(e)
        BY <1>2 DEF Enqueue, worker, Unreported
  <2>2. /\ attempts' = [e \in Deliveries |-> IF e \in S THEN 0 ELSE attempts[e]]
        /\ UNCHANGED <<job, seen, posts>>
        BY <1>2 DEF Enqueue, worker
  <2> QED
      BY <2>1, <2>2, UnreportedFinite
<1>3. ASSUME NEW w \in Workers, Poll(w)
      PROVE  AttemptsAccounted'
  <2>1. \A v \in Workers, e \in Deliveries :
           \/ job'[v][e] = job[v][e]
           \/ job[v][e] = "idle" /\ job'[v][e] = "polled"
        BY <1>3 DEF Poll
  <2>2. \A e \in Deliveries : Unreported(e)' \subseteq Unreported(e)
        BY <2>1 DEF Unreported
  <2> QED
      BY <1>1, <1>3, <2>1, <2>2 DEF Poll, queue
<1>4. ASSUME NEW w \in Workers, Crash(w)
      PROVE  AttemptsAccounted'
  <2>1. \A v \in Workers, e \in Deliveries :
           \/ job'[v][e] = job[v][e] /\ seen'[v][e] = seen[v][e]
           \/ job'[v][e] = "idle"
        BY <1>4 DEF Crash
  <2>2. \A e \in Deliveries : Unreported(e)' \subseteq Unreported(e)
        BY <2>1 DEF Unreported
  <2> QED
      BY <1>1, <1>4, <2>1, <2>2 DEF Crash, queue
<1>5. ASSUME NEW w \in Workers, NEW d \in Deliveries, Post(w, d)
      PROVE  AttemptsAccounted'
  <2>1. /\ job[w][d] = "polled"
        /\ posts' = [posts EXCEPT ![d] = @ + 1]
        /\ UNCHANGED <<attempts, seen>>
        /\ \E s \in {"accepted", "refused"} : job' = [job EXCEPT ![w][d] = s]
        BY <1>5 DEF Post, PostAccepted, PostFailed, Job, queue
  <2>2. w \notin Unreported(d) /\ Unreported(d)' = Unreported(d) \union {w}
        BY <2>1 DEF Unreported
  <2>3. Cardinality(Unreported(d)') = Cardinality(Unreported(d)) + 1
        BY <2>2, UnreportedFinite, FS_AddElement
  <2>4. \A e \in Deliveries \ {d} : Unreported(e)' = Unreported(e)
        BY <2>1 DEF Unreported
  <2>5. \A v \in Workers, e \in Deliveries :
           job'[v][e] = "reporting" => job[v][e] = "reporting"
        BY <2>1
  <2> QED
      BY <2>1, <2>3, <2>4, <2>5, UnreportedFinite
<1>6. ASSUME NEW w \in Workers, NEW d \in Deliveries, FailureRead(w, d)
      PROVE  AttemptsAccounted'
  <2>1. /\ job[w][d] = "refused"
        /\ job' = [job EXCEPT ![w][d] = "reporting"]
        /\ seen' = [seen EXCEPT ![w][d] =
                      IF status[d] = "Removed" THEN 0 ELSE attempts[d]]
        /\ UNCHANGED <<attempts, posts>>
        BY <1>6 DEF FailureRead, Job, queue
  <2>2. \A e \in Deliveries : Unreported(e)' = Unreported(e)
        BY <2>1 DEF Unreported
  <2>3. seen'[w][d] <= attempts[d] /\ seen'[w][d] \in Nat
        BY <2>1
  <2>4. \A v \in Workers, e \in Deliveries :
           \/ v = w /\ e = d
           \/ job'[v][e] = job[v][e] /\ seen'[v][e] = seen[v][e]
        BY <2>1
  <2> QED
      BY <2>1, <2>2, <2>3, <2>4, UnreportedFinite
<1>7. ASSUME NEW w \in Workers, NEW d \in Deliveries, ReportSuccess(w, d)
      PROVE  AttemptsAccounted'
  <2>1. /\ job[w][d] = "accepted"
        /\ job' = [job EXCEPT ![w][d] = "idle"]
        /\ attempts' \in {attempts, [attempts EXCEPT ![d] = @ + 1]}
        /\ UNCHANGED <<seen, posts>>
        BY <1>7 DEF ReportSuccess, Job
  <2>2. w \in Unreported(d) /\ Unreported(d)' = Unreported(d) \ {w}
        BY <2>1 DEF Unreported
  <2>3. Cardinality(Unreported(d)') = Cardinality(Unreported(d)) - 1
        BY <2>2, OneReported
  <2>4. \A e \in Deliveries \ {d} : Unreported(e)' = Unreported(e)
        BY <2>1 DEF Unreported
  <2>5. \A v \in Workers, e \in Deliveries :
           job'[v][e] = "reporting" => job[v][e] = "reporting"
        BY <2>1
  <2>6. attempts'[d] <= attempts[d] + 1
        BY <2>1
  <2> QED
      BY <1>0, <2>1, <2>3, <2>4, <2>5, <2>6, UnreportedFinite
<1>8. ASSUME NEW w \in Workers, NEW d \in Deliveries, FailureWrite(w, d)
      PROVE  AttemptsAccounted'
  <2>1. /\ job[w][d] = "reporting"
        /\ job' = [job EXCEPT ![w][d] = "idle"]
        /\ seen' = [seen EXCEPT ![w][d] = 0]
        /\ attempts' \in {attempts, [attempts EXCEPT ![d] = seen[w][d] + 1]}
        /\ UNCHANGED posts
        BY <1>8 DEF FailureWrite, Job
  <2>2. w \in Unreported(d) /\ Unreported(d)' = Unreported(d) \ {w}
        BY <2>1 DEF Unreported
  <2>3. Cardinality(Unreported(d)') = Cardinality(Unreported(d)) - 1
        BY <2>2, OneReported
  <2>4. \A e \in Deliveries \ {d} : Unreported(e)' = Unreported(e)
        BY <2>1 DEF Unreported
  <2>5. \A v \in Workers, e \in Deliveries :
           job'[v][e] = "reporting" => job[v][e] = "reporting" /\ seen'[v][e] = seen[v][e]
        BY <2>1
  <2>6. attempts'[d] \in {attempts[d], seen[w][d] + 1}
        BY <2>1
  <2> QED
      BY <1>0, <2>1, <2>3, <2>4, <2>5, <2>6, UnreportedFinite
<1>9. ASSUME UNCHANGED <<attempts, posts, job, seen>>
      PROVE  AttemptsAccounted'
      BY <1>9 DEF Unreported
<1> QED
    BY <1>2, <1>3, <1>4, <1>5, <1>6, <1>7, <1>8, <1>9
       DEF Next, Progress, Report, Cleanup, PollFails, Tick, vars, queue, worker

(* However workers overlap, crash and overwrite each other's reports, a    *)
(* row is charged no attempt that was not made, and is given up after      *)
(* MaxAttempts POSTs at the earliest.                                      *)
THEOREM AttemptsSafe == Spec => []AttemptsWereMade
<1>1. Init => IInv
      BY InitType, BudgetInit, AccountedInit
         DEF IInv, Init, DeliveredWasReceived, AcceptedWasReceived
<1>2. IInv /\ [Next]_vars => IInv'
      BY NextType, BudgetNext, ReceivedNext, AccountedNext DEF IInv
<1>3. IInv => AttemptsWereMade
  <2> SUFFICES ASSUME IInv, NEW d \in Deliveries
               PROVE  /\ attempts[d] <= posts[d]
                      /\ status[d] \in {"Expired", "Removed"} => posts[d] >= MaxAttempts
      BY DEF AttemptsWereMade
  <2>1. attempts[d] + Cardinality(Unreported(d)) <= posts[d]
        BY DEF IInv, AttemptsAccounted
  <2>2. attempts[d] <= posts[d]
        BY <2>1, UnreportedFinite DEF IInv, TypeOK
  <2>3. status[d] \in {"Expired", "Removed"} => attempts[d] >= MaxAttempts
        BY DEF IInv, PendingHasBudget, RemovedHadExpired
  <2> QED
      BY <2>2, <2>3, MaxAttemptsAssumption DEF IInv, TypeOK
<1> QED
    BY <1>1, <1>2, <1>3, PTL DEF Spec

-----------------------------------------------------------------------------
(* One worker. *)

LEMMA HeldNext ==
  ASSUME TypeOK, HeldRowsArePending, NEW u \in Workers, Workers = {u}, [Next]_vars
  PROVE  HeldRowsArePending'
<1> SUFFICES ASSUME NEW e \in Deliveries, job'[u][e] # "idle"
             PROVE  status'[e] \in Pending
    BY DEF HeldRowsArePending
<1> USE DEF TypeOK, HeldRowsArePending, Pending, Statuses
<1>1. ASSUME NEW S \in SUBSET Deliveries, NEW k \in Kinds, Enqueue(S, k)
      PROVE  status'[e] \in Pending
      BY <1>1 DEF Enqueue, worker
<1>2. ASSUME NEW S \in SUBSET Deliveries, Cleanup(S) PROVE status'[e] \in Pending
      BY <1>2 DEF Cleanup, worker
<1>3. ASSUME Poll(u) PROVE status'[e] \in Pending
  <2>1. PICK S \in SUBSET Due :
          job' = [job EXCEPT ![u] = [d \in Deliveries |-> IF d \in S THEN "polled" ELSE "idle"]]
        BY <1>3 DEF Poll
  <2>2. e \in Due /\ status' = status
        BY <1>3, <2>1 DEF Poll, queue
  <2> QED
      BY <2>2 DEF Due
<1>4. ASSUME Crash(u) PROVE status'[e] \in Pending
      BY <1>4 DEF Crash
<1>5. ASSUME NEW d \in Deliveries, Post(u, d) PROVE status'[e] \in Pending
      BY <1>5 DEF Post, PostAccepted, PostFailed, Job, queue
<1>6. ASSUME NEW d \in Deliveries, FailureRead(u, d) PROVE status'[e] \in Pending
      BY <1>6 DEF FailureRead, Job, queue
<1>7. ASSUME NEW d \in Deliveries, ReportSuccess(u, d) \/ FailureWrite(u, d)
      PROVE  status'[e] \in Pending
  <2>1. job' = [job EXCEPT ![u][d] = "idle"] /\ job[u][e] # "idle" /\ e # d
        BY <1>7 DEF ReportSuccess, FailureWrite, Job
  <2>2. status'[e] = status[e]
        BY <1>7, <2>1 DEF ReportSuccess, FailureWrite
  <2> QED
      BY <2>1, <2>2
<1>8. ASSUME UNCHANGED <<status, job>> PROVE status'[e] \in Pending
      BY <1>8
<1> QED
    BY <1>1, <1>2, <1>3, <1>4, <1>5, <1>6, <1>7, <1>8
       DEF Next, Progress, Report, PollFails, Tick, queue, worker, vars

(* With one worker, what it holds is still to be delivered: neither its    *)
(* reports about other rows nor a cleanup settles a row under its hands.   *)
THEOREM HeldSafe ==
  ASSUME NEW u \in Workers, Workers = {u}
  PROVE  Spec => []HeldRowsArePending
<1>1. Init => TypeOK /\ HeldRowsArePending
      BY InitType DEF Init, HeldRowsArePending
<1>2. TypeOK /\ HeldRowsArePending /\ [Next]_vars => TypeOK' /\ HeldRowsArePending'
      BY NextType, HeldNext
<1> QED
    BY <1>1, <1>2, PTL DEF Spec

(* Why POSTs are bounded: one that is not charged yet is the one under     *)
(* way, or was lost in a crash.                                            *)
Open(u, d) == IF job[u][d] \in {"accepted", "refused", "reporting"} THEN 1 ELSE 0

ChargedOnce(u) ==
    \A d \in Deliveries :
        /\ posts[d] <= attempts[d] + crashes + Open(u, d)
        /\ attempts[d] <= MaxAttempts
        /\ job[u][d] = "reporting" => seen[u][d] = attempts[d]
        /\ status[d] = "Absent" => posts[d] = 0

LEMMA ChargedNext ==
  ASSUME TypeOK, PendingHasBudget, HeldRowsArePending, NEW u \in Workers, ChargedOnce(u),
         Workers = {u}, [Next]_vars
  PROVE  ChargedOnce(u)'
<1> DEFINE Charged(e) ==
        /\ posts'[e] <= attempts'[e] + crashes' + Open(u, e)'
        /\ attempts'[e] <= MaxAttempts
        /\ job'[u][e] = "reporting" => seen'[u][e] = attempts'[e]
        /\ status'[e] = "Absent" => posts'[e] = 0
<1> SUFFICES ASSUME NEW e \in Deliveries PROVE Charged(e)
    BY DEF ChargedOnce
<1>0. /\ posts[e] \in Nat /\ attempts[e] \in Nat /\ crashes \in Nat /\ MaxAttempts \in Nat
      /\ posts[e] <= attempts[e] + crashes + Open(u, e)
      /\ attempts[e] <= MaxAttempts
      /\ job[u][e] = "reporting" => seen[u][e] = attempts[e]
      /\ status[e] = "Absent" => posts[e] = 0
      /\ job[u][e] # "idle" => status[e] \in Pending /\ attempts[e] < MaxAttempts
      BY MaxAttemptsAssumption DEF TypeOK, ChargedOnce, HeldRowsArePending, PendingHasBudget
<1>1. ASSUME NEW S \in SUBSET Deliveries, NEW k \in Kinds, Enqueue(S, k) PROVE Charged(e)
  <2>1. e \in S => status[e] = "Absent" /\ attempts'[e] = 0 /\ status'[e] = "Queued"
        BY <1>1 DEF Enqueue
  <2>2. e \notin S => attempts'[e] = attempts[e] /\ status'[e] = status[e]
        BY <1>1 DEF Enqueue
  <2>3. UNCHANGED <<job, seen, crashes, posts>> /\ Open(u, e)' = Open(u, e)
        BY <1>1 DEF Enqueue, worker, Open
  <2>4. status[e] = "Absent" => job[u][e] = "idle"
        BY <1>0 DEF Pending
  <2>5. Open(u, e) \in {0, 1}
        BY DEF Open
  <2> QED
      BY <1>0, <2>1, <2>2, <2>3, <2>4, <2>5
<1>2. ASSUME UNCHANGED <<attempts, job, seen, crashes, posts>>,
             status'[e] = "Absent" => status[e] = "Absent"
      PROVE  Charged(e)
      BY <1>0, <1>2 DEF Open
<1>3. ASSUME Poll(u) PROVE Charged(e)
  <2>1. UNCHANGED <<attempts, status, seen, crashes, posts>>
        BY <1>3 DEF Poll, queue
  <2>2. job[u][e] = "idle" /\ job'[u][e] \in {"polled", "idle"}
        BY <1>3 DEF Poll, TypeOK
  <2> QED
      BY <1>0, <2>1, <2>2 DEF Open
<1>4. ASSUME Crash(u) PROVE Charged(e)
  <2>1. UNCHANGED <<attempts, status, posts>> /\ crashes' = crashes + 1 /\ job'[u][e] = "idle"
        BY <1>4 DEF Crash, queue, TypeOK
  <2> QED
      BY <1>0, <2>1 DEF Open
<1>5. ASSUME NEW d \in Deliveries, Post(u, d) PROVE Charged(e)
  <2>1. UNCHANGED <<attempts, status, seen, crashes>> /\ job[u][d] = "polled"
        BY <1>5 DEF Post, PostAccepted, PostFailed, Job, queue
  <2>2. e # d => posts'[e] = posts[e] /\ job'[u][e] = job[u][e]
        BY <1>5 DEF Post, PostAccepted, PostFailed, Job, TypeOK
  <2>3. e = d => posts'[e] = posts[e] + 1 /\ job'[u][e] \in {"accepted", "refused"}
        BY <1>5 DEF Post, PostAccepted, PostFailed, Job, TypeOK
  <2>4. CASE e # d
        BY <1>0, <2>1, <2>2, <2>4 DEF Open
  <2>5. CASE e = d
    <3>1. status[e] # "Absent"
          BY <1>0, <2>1, <2>5 DEF Pending
    <3> QED
        BY <1>0, <2>1, <2>3, <2>5, <3>1 DEF Open
  <2> QED
      BY <2>4, <2>5
<1>6. ASSUME NEW d \in Deliveries, FailureRead(u, d) PROVE Charged(e)
  <2>1. UNCHANGED <<attempts, status, crashes, posts>> /\ job[u][d] = "refused"
        BY <1>6 DEF FailureRead, Job, queue
  <2>2. e # d => job'[u][e] = job[u][e] /\ seen'[u][e] = seen[u][e]
        BY <1>6 DEF FailureRead, Job, TypeOK
  <2>3. e = d => job'[u][e] = "reporting" /\ seen'[u][e] = attempts[e]
    <3>1. e = d => status[e] # "Removed"
          BY <1>0, <2>1 DEF Pending
    <3> QED
        BY <1>6, <3>1 DEF FailureRead, Job, TypeOK
  <2> QED
      BY <1>0, <2>1, <2>2, <2>3 DEF Open
<1>7. ASSUME NEW d \in Deliveries, ReportSuccess(u, d) \/ FailureWrite(u, d) PROVE Charged(e)
  <2>1. UNCHANGED <<crashes, posts>> /\ job[u][d] \in {"accepted", "reporting"}
        BY <1>7 DEF ReportSuccess, FailureWrite, Job
  <2>2. CASE e # d
    <3>1. /\ attempts'[e] = attempts[e] /\ status'[e] = status[e]
          /\ job'[u][e] = job[u][e] /\ seen'[u][e] = seen[u][e]
          BY <1>7, <2>2 DEF ReportSuccess, FailureWrite, Job, TypeOK
    <3> QED
        BY <1>0, <2>1, <3>1 DEF Open
  <2>3. CASE e = d
    <3>1. status[d] \in Pending /\ status[d] # "Removed" /\ attempts[d] < MaxAttempts
          BY <1>0, <2>1, <2>3 DEF Pending
    <3>2. job[u][d] = "reporting" => seen[u][d] = attempts[d]
          BY <1>0, <2>3
    <3>3. attempts'[d] = attempts[d] + 1
      <4>1. CASE ReportSuccess(u, d)
            BY <3>1, <4>1 DEF ReportSuccess, TypeOK
      <4>2. CASE FailureWrite(u, d)
            BY <3>1, <3>2, <4>2 DEF FailureWrite, Job, TypeOK
      <4> QED
          BY <1>7, <4>1, <4>2
    <3>4. job'[u][d] = "idle"
          BY <1>7 DEF ReportSuccess, FailureWrite, Job, TypeOK
    <3>5. status'[d] # "Absent"
          BY <1>7, <3>1 DEF ReportSuccess, FailureWrite, TypeOK
    <3>6. Open(u, d) = 1 /\ Open(u, d)' = 0
          BY <2>1, <3>4 DEF Open
    <3> QED
        BY <1>0, <2>1, <2>3, <3>1, <3>3, <3>4, <3>5, <3>6
  <2> QED
      BY <2>2, <2>3
<1>8. ASSUME NEW S \in SUBSET Deliveries, Cleanup(S) PROVE Charged(e)
  <2>1. UNCHANGED <<attempts, job, seen, crashes, posts>>
        BY <1>8 DEF Cleanup, worker
  <2>2. status'[e] = "Absent" => status[e] = "Absent"
        BY <1>8 DEF Cleanup
  <2> QED
      BY <1>2, <2>1, <2>2
<1> QED
    BY <1>1, <1>2, <1>3, <1>4, <1>5, <1>6, <1>7, <1>8
       DEF Next, Progress, Report, PollFails, Tick, queue, worker, vars

(* With one worker a remote inbox gets at most MaxAttempts POSTs of a row, *)
(* and one more for every crash of the worker.                             *)
THEOREM PostsSafe ==
  ASSUME NEW u \in Workers, Workers = {u}
  PROVE  Spec => []PostsBounded
<1> DEFINE Inv == /\ TypeOK /\ PendingHasBudget /\ RemovedHadExpired
                  /\ HeldRowsArePending /\ ChargedOnce(u)
<1>1. Init => Inv
  <2>1. Init => HeldRowsArePending
        BY DEF Init, HeldRowsArePending
  <2>2. Init => ChargedOnce(u)
        BY MaxAttemptsAssumption DEF Init, ChargedOnce, Open
  <2> QED
      BY <2>1, <2>2, InitType, BudgetInit
<1>2. Inv /\ [Next]_vars => Inv'
      BY NextType, BudgetNext, HeldNext, ChargedNext
<1>3. Inv => PostsBounded
  <2> SUFFICES ASSUME Inv, NEW d \in Deliveries PROVE posts[d] <= MaxAttempts + crashes
      BY DEF PostsBounded
  <2>1. posts[d] \in Nat /\ attempts[d] \in Nat /\ crashes \in Nat /\ MaxAttempts \in Nat
        BY MaxAttemptsAssumption DEF TypeOK
  <2>2. posts[d] <= attempts[d] + crashes + Open(u, d) /\ attempts[d] <= MaxAttempts
        BY DEF ChargedOnce
  <2>3. job[u][d] # "idle" => attempts[d] < MaxAttempts
        BY DEF HeldRowsArePending, PendingHasBudget
  <2> QED
      BY <2>1, <2>2, <2>3 DEF Open
<1> QED
    BY <1>1, <1>2, <1>3, PTL DEF Spec

-----------------------------------------------------------------------------
(* One worker keeps the safety of the promise. *)

OneInv(u) ==
  /\ IInv
  /\ HeldRowsArePending
  /\ ChargedOnce(u)

LEMMA OneInit ==
  ASSUME NEW u \in Workers, Init
  PROVE  OneInv(u)
<1>1. IInv
      BY InitType, BudgetInit, AccountedInit DEF Init, IInv, DeliveredWasReceived, AcceptedWasReceived
<1>2. HeldRowsArePending /\ ChargedOnce(u)
      BY MaxAttemptsAssumption DEF Init, HeldRowsArePending, ChargedOnce, Open
<1> QED
    BY <1>1, <1>2 DEF OneInv

LEMMA OneNext ==
  ASSUME NEW u \in Workers, Workers = {u}, OneInv(u), [Next]_vars
  PROVE  OneInv(u)'
<1>1. IInv'
      BY NextType, BudgetNext, ReceivedNext, AccountedNext DEF OneInv, IInv
<1>2. HeldRowsArePending' /\ ChargedOnce(u)'
      BY HeldNext, ChargedNext DEF OneInv, IInv
<1> QED
    BY <1>1, <1>2 DEF OneInv

LEMMA PromiseInit == Init => P!PInit
  BY DEF Init, P!PInit, PromiseState, Outcome

(* A row keeps its outcome: the rest of the server sees nothing of it. *)
LEMMA PromiseStutter ==
  ASSUME UNCHANGED <<status, attempts, received, pollError>>
  PROVE  UNCHANGED P!pvars
  BY DEF P!pvars, PromiseState

LEMMA PromiseNext ==
  ASSUME NEW u \in Workers, Workers = {u}, OneInv(u), [Next]_vars
  PROVE  [P!PNext]_(P!pvars)
<1>0. /\ TypeOK
      /\ \A d \in Deliveries : job[u][d] # "idle" =>
            /\ status[d] \in Pending /\ PromiseState[d] = "open"
            /\ attempts[d] < MaxAttempts
            /\ job[u][d] = "accepted" => received[d]
            /\ job[u][d] = "reporting" => seen[u][d] = attempts[d]
      BY DEF OneInv, IInv, HeldRowsArePending, PendingHasBudget, AcceptedWasReceived, ChargedOnce,
             PromiseState, Outcome, Pending
<1>1. ASSUME NEW S \in SUBSET Deliveries, NEW k, Enqueue(S, k) PROVE P!PNext
  <2>1. \A d \in S : status[d] = "Absent" /\ PromiseState[d] = "none"
        BY <1>1 DEF Enqueue, PromiseState, Outcome
  <2>2. PromiseState' = [d \in Deliveries |-> IF d \in S THEN "open" ELSE PromiseState[d]]
        BY <1>1 DEF Enqueue, PromiseState, Outcome
  <2>3. \A d \in S : attempts[d] = 0
    <3> TAKE d \in S
    <3>1. posts[d] = 0
          BY <2>1 DEF OneInv, ChargedOnce
    <3>2. attempts[d] + Cardinality(Unreported(d)) <= posts[d]
          BY DEF OneInv, IInv, AttemptsAccounted
    <3> QED
        BY <1>0, <3>1, <3>2, UnreportedFinite DEF TypeOK
  <2>4. UNCHANGED <<attempts, received, pollError>>
        BY <1>0, <1>1, <2>3 DEF Enqueue, TypeOK
  <2> QED
      BY <2>1, <2>2, <2>4 DEF P!PNext, P!Accept
<1>2. ASSUME NEW S \in SUBSET Deliveries, Cleanup(S) PROVE P!PNext
  <2>1. S # {} /\ \A d \in S : PromiseState[d] = "given_up"
        BY <1>2 DEF Cleanup, PromiseState, Outcome
  <2>2. PromiseState' = [d \in Deliveries |-> IF d \in S THEN "removed" ELSE PromiseState[d]]
        BY <1>2 DEF Cleanup, PromiseState, Outcome
  <2>3. UNCHANGED <<attempts, received, pollError>>
        BY <1>2 DEF Cleanup
  <2> QED
      BY <2>1, <2>2, <2>3 DEF P!PNext, P!Forget
<1>3. ASSUME PollFails(u) PROVE P!PNext
  <2>1. pollError' = TRUE /\ UNCHANGED <<status, attempts, received>>
        BY <1>3 DEF PollFails, queue
  <2> QED
      BY <2>1 DEF P!PNext, P!Break, PromiseState
<1>4. ASSUME NEW d \in Deliveries, Post(u, d) PROVE [P!PNext]_(P!pvars)
  <2>1. PromiseState[d] = "open" /\ UNCHANGED <<status, attempts, pollError>>
        BY <1>0, <1>4 DEF Post, PostAccepted, PostFailed, Job, queue
  <2>2. CASE received' = received
        BY <2>1, <2>2, PromiseStutter
  <2>3. CASE received' # received
    <3>1. PICK b \in BOOLEAN : received' = [received EXCEPT ![d] = b]
      <4>1. CASE PostAccepted(u, d)
            BY <4>1 DEF PostAccepted
      <4>2. CASE PostFailed(u, d)
            BY <1>0, <4>2 DEF PostFailed
      <4> QED
          BY <1>4, <4>1, <4>2 DEF Post
    <3>2. received[d] => b
      <4>1. CASE PostAccepted(u, d)
            BY <1>0, <3>1, <4>1 DEF PostAccepted, TypeOK
      <4>2. CASE PostFailed(u, d)
            BY <1>0, <3>1, <4>2 DEF PostFailed, TypeOK
      <4> QED
          BY <1>4, <4>1, <4>2 DEF Post
    <3>3. received[d] # b
          BY <1>0, <2>3, <3>1 DEF TypeOK
    <3>4. received' = [received EXCEPT ![d] = TRUE] /\ ~received[d]
          BY <1>0, <3>1, <3>2, <3>3 DEF TypeOK
    <3> QED
        BY <2>1, <3>4 DEF P!PNext, P!Arrive, PromiseState
  <2> QED
      BY <2>2, <2>3
<1>5. ASSUME NEW d \in Deliveries, ReportSuccess(u, d) PROVE P!PNext
  <2>1. /\ PromiseState[d] = "open" /\ attempts[d] < MaxAttempts /\ received[d]
        /\ status[d] \in Pending
        BY <1>0, <1>5 DEF ReportSuccess, Job
  <2>2. /\ status'   = [status EXCEPT ![d] = "Delivered"]
        /\ attempts' = [attempts EXCEPT ![d] = @ + 1]
        /\ UNCHANGED <<received, pollError>>
        BY <1>5, <2>1 DEF ReportSuccess, Pending
  <2>3. PromiseState' = [PromiseState EXCEPT ![d] = "delivered"]
        BY <1>0, <2>2 DEF PromiseState, Outcome, TypeOK
  <2> QED
      BY <2>1, <2>2, <2>3 DEF P!PNext, P!Settle
<1>6. ASSUME NEW d \in Deliveries, FailureWrite(u, d) PROVE P!PNext
  <2>1. /\ PromiseState[d] = "open" /\ attempts[d] < MaxAttempts /\ attempts[d] \in Nat
        /\ status[d] \in Pending /\ seen[u][d] = attempts[d] /\ MaxAttempts \in Nat
        BY <1>0, <1>6, MaxAttemptsAssumption DEF FailureWrite, Job, TypeOK
  <2>2. /\ status' = [status EXCEPT ![d] =
                       IF attempts[d] + 1 = MaxAttempts THEN "Expired" ELSE "Failed"]
        /\ attempts' = [attempts EXCEPT ![d] = @ + 1]
        /\ UNCHANGED <<received, pollError>>
        BY <1>6, <2>1 DEF FailureWrite, Pending
  <2>3. PromiseState' = [PromiseState EXCEPT ![d] =
                           IF attempts[d] + 1 = MaxAttempts THEN "given_up" ELSE "open"]
        BY <1>0, <2>2 DEF PromiseState, Outcome, TypeOK
  <2> QED
      BY <2>1, <2>2, <2>3 DEF P!PNext, P!Miss
<1>7. CASE UNCHANGED <<status, attempts, received, pollError>>
      BY <1>7, PromiseStutter
<1> QED
    BY <1>1, <1>2, <1>3, <1>4, <1>5, <1>6, <1>7
    DEF Next, Progress, Poll, Crash, Report, FailureRead, Tick, queue, vars

(* One worker, crashing at any time, implements the abstract queue: the    *)
(* rest of the server sees rows that are accepted, tried up to MaxAttempts *)
(* times, delivered only after they arrived, or given up.                  *)
THEOREM Implements ==
  ASSUME NEW u \in Workers, Workers = {u}
  PROVE  Spec => P!PSpec
<1>1. OneInv(u) /\ [Next]_vars => OneInv(u)'
      BY OneNext
<1>2. OneInv(u) /\ [Next]_vars => [P!PNext]_(P!pvars)
      BY PromiseNext
<1>3. Init => OneInv(u)
      BY OneInit
<1> QED
    BY <1>1, <1>2, <1>3, PromiseInit, PTL DEF Spec, P!PSpec

(* With one worker Delivered and Expired are final: no late report brings  *)
(* a settled row back.                                                     *)
THEOREM SettledSafe ==
  ASSUME NEW u \in Workers, Workers = {u}
  PROVE  Spec => SettledStays
<1>1. OneInv(u) /\ [Next]_vars =>
        [\A d \in Deliveries :
            /\ status[d] = "Delivered" => status'[d] = "Delivered"
            /\ status[d] = "Expired"   => status'[d] \in {"Expired", "Removed"}]_vars
  <2> SUFFICES ASSUME OneInv(u), [Next]_vars, NEW d \in Deliveries
               PROVE  /\ status[d] = "Delivered" => status'[d] = "Delivered"
                      /\ status[d] = "Expired"   => status'[d] \in {"Expired", "Removed"}
      OBVIOUS
  <2>1. \A e \in Deliveries : status[e] \notin Pending => job[u][e] = "idle"
        BY DEF OneInv, HeldRowsArePending
  <2>2. ASSUME NEW e \in Deliveries, Report(u, e), status[d] \notin Pending
        PROVE  status'[d] = status[d]
        BY <2>1, <2>2
        DEF Report, ReportSuccess, FailureRead, FailureWrite, Job, queue, OneInv, IInv, TypeOK
  <2>3. ASSUME NEW S, NEW k, Enqueue(S, k), status[d] \notin Pending, status[d] # "Absent"
        PROVE  status'[d] = status[d]
        BY <2>3 DEF Enqueue
  <2>4. ASSUME NEW S, Cleanup(S)
        PROVE  status'[d] = status[d] \/ (status[d] = "Expired" /\ status'[d] = "Removed")
        BY <2>4 DEF Cleanup
  <2> QED
      BY <2>2, <2>3, <2>4
      DEF Next, Progress, Poll, PollFails, Crash, Post, PostAccepted, PostFailed, Tick, queue,
          vars, Pending
<1>2. OneInv(u) /\ [Next]_vars => OneInv(u)'
      BY OneNext
<1>3. Init => OneInv(u)
      BY OneInit
<1> QED
    BY <1>1, <1>2, <1>3, PTL DEF Spec, SettledStays
=============================================================================
