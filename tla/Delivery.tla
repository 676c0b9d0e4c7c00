------------------------------ MODULE Delivery ------------------------------
(***************************************************************************)
(* The outbound delivery queue: the table ap_deliveries, the four SQL      *)
(* functions that move its rows (src/delivery.rs, ap_cleanup_expired_...   *)
(* in src/admin.rs) and the worker processes that call them.               *)
(*                                                                         *)
(*   - A poll returns the oldest due rows.  It does not claim them: a      *)
(*     second worker that polls meanwhile gets the same rows.              *)
(*   - The worker POSTs each row it was given and reports the outcome with *)
(*     one SQL call per row.  It polls again when its rows are reported.   *)
(*   - ap_delivery_success is one UPDATE.  ap_delivery_failure is a SELECT *)
(*     and an UPDATE, so two calls for one row can interleave.             *)
(*   - A worker may crash between any two of these steps.                  *)
(*                                                                         *)
(* The worker is not in the repository: its actions are what the API asks  *)
(* of it (README, "Delivery worker").                                      *)
(***************************************************************************)
EXTENDS Integers, Sequences, FiniteSets

CONSTANTS
    Deliveries,     \* ids of the rows of ap_deliveries
    Workers,        \* delivery worker processes
    Kinds,          \* kinds of activity enqueued, a subset of {"Accept", "Create"}
    MaxAttempts,    \* GUC pg_fedi.max_delivery_attempts
    RetryIntervals, \* RETRY_INTERVALS, in ticks of the model's clock
    BatchSize,      \* argument of ap_get_pending_deliveries
    OverdueCap,     \* bound: how far in the past next_retry_at is told apart
    MaxCrashes      \* bound: worker crashes in a behaviour

ASSUME MaxAttemptsAssumption == MaxAttempts \in 1..20
ASSUME IntervalsAssumption ==
    /\ RetryIntervals \in Seq(Nat)
    /\ Len(RetryIntervals) > 0
ASSUME BatchAssumption == BatchSize \in Nat \ {0}
ASSUME KindsAssumption == Kinds \subseteq {"Accept", "Create"}
ASSUME WorkersAssumption == IsFiniteSet(Workers)
ASSUME BoundsAssumption == OverdueCap \in Nat /\ MaxCrashes \in Nat

VARIABLES
    status,     \* ap_deliveries.status, "Absent" before INSERT, "Removed" after DELETE
    attempts,   \* ap_deliveries.attempts
    wait,       \* next_retry_at - now(): due when <= 0
    kind,       \* the activity the row delivers
    job,        \* what a worker is doing about a row it was given
    seen,       \* attempts as read by the running ap_delivery_failure
    crashes,    \* crashes so far
    received,   \* observation: the remote inbox got the activity
    posts,      \* observation: HTTP POSTs made for the row
    pollError   \* observation: ap_get_pending_deliveries raised an error

queue  == <<status, attempts, wait, kind>>
worker == <<job, seen>>
vars   == <<status, attempts, wait, kind, job, seen, crashes, received, posts, pollError>>

Statuses  == {"Absent", "Queued", "Failed", "Delivered", "Expired", "Removed"}
Pending   == {"Queued", "Failed"}
JobStates == {"idle", "polled", "accepted", "refused", "reporting"}

TypeOK ==
    /\ status    \in [Deliveries -> Statuses]
    /\ attempts  \in [Deliveries -> Nat]
    /\ wait      \in [Deliveries -> Int]
    /\ kind      \in [Deliveries -> {"Accept", "Create"}]
    /\ job       \in [Workers -> [Deliveries -> JobStates]]
    /\ seen      \in [Workers -> [Deliveries -> Nat]]
    /\ crashes   \in Nat
    /\ received  \in [Deliveries -> BOOLEAN]
    /\ posts     \in [Deliveries -> Nat]
    /\ pollError \in BOOLEAN

Init ==
    /\ status    = [d \in Deliveries |-> "Absent"]
    /\ attempts  = [d \in Deliveries |-> 0]
    /\ wait      = [d \in Deliveries |-> 0]
    /\ kind      = [d \in Deliveries |-> "Accept"]
    /\ job       = [w \in Workers |-> [d \in Deliveries |-> "idle"]]
    /\ seen      = [w \in Workers |-> [d \in Deliveries |-> 0]]
    /\ crashes   = 0
    /\ received  = [d \in Deliveries |-> FALSE]
    /\ posts     = [d \in Deliveries |-> 0]
    /\ pollError = FALSE

-----------------------------------------------------------------------------
(* The database side. *)

(* INSERT INTO ap_deliveries: by process_follow the one row of an Accept,  *)
(* by ap_create_note a row for each follower.  Queued, no attempt, due at  *)
(* once.                                                                   *)
Enqueue(S, k) ==
    /\ \A d \in S : status[d] = "Absent"
    /\ status'   = [d \in Deliveries |-> IF d \in S THEN "Queued" ELSE status[d]]
    /\ attempts' = [d \in Deliveries |-> IF d \in S THEN 0 ELSE attempts[d]]
    /\ wait'     = [d \in Deliveries |-> IF d \in S THEN 0 ELSE wait[d]]
    /\ kind'     = [d \in Deliveries |-> IF d \in S THEN k ELSE kind[d]]
    /\ UNCHANGED <<worker, crashes, received, posts, pollError>>

(* Mutant of HasRaw: the Accept is stored without its JSON, too. *)
HasRawNever(d) == FALSE

(* Only the Accept is stored with its JSON (ap_activities.raw); the Create *)
(* of a note is inserted without it.                                       *)
HasRaw(d) == kind[d] = "Accept"

(* Mutants of Due: the query forgets rows that failed before, or takes     *)
(* every row that was not delivered.                                       *)
DueForgetsFailed == {d \in Deliveries : status[d] = "Queued" /\ wait[d] <= 0}
DueTakesExpired ==
    {d \in Deliveries : status[d] \in Pending \union {"Expired"} /\ wait[d] <= 0}

(* WHERE status is Queued or Failed AND next_retry_at <= now().  The       *)
(* sender is a local actor, whose private key is never NULL.               *)
Due == {d \in Deliveries : status[d] \in Pending /\ wait[d] <= 0}

(* ORDER BY next_retry_at LIMIT BatchSize: ties are broken arbitrarily.    *)
IsBatch(S) ==
    /\ Cardinality(S) <= BatchSize
    /\ S # Due => Cardinality(S) = BatchSize
    /\ \A d \in S, e \in Due \ S : wait[d] <= wait[e]

(* The worker's two calls about a row start and end with the row given. *)
Job(w, d, from, to) ==
    /\ job[w][d] = from
    /\ job' = [job EXCEPT ![w][d] = to]

(* ap_get_pending_deliveries when every row of the batch has its JSON. *)
Poll(w) ==
    /\ \A d \in Deliveries : job[w][d] = "idle"
    /\ \E S \in SUBSET Due :
        /\ IsBatch(S)
        /\ S # {}
        /\ \A d \in S : HasRaw(d)
        /\ job' = [job EXCEPT ![w] = [d \in Deliveries |-> IF d \in S THEN "polled" ELSE "idle"]]
    /\ UNCHANGED <<queue, seen, crashes, received, posts, pollError>>

(* The same call when a row of the batch has no JSON: .unwrap() of the     *)
(* NULL panics, the call fails and no row is returned.                     *)
PollFails(w) ==
    /\ \A d \in Deliveries : job[w][d] = "idle"
    /\ \E S \in SUBSET Due : IsBatch(S) /\ \E d \in S : ~HasRaw(d)
    /\ pollError' = TRUE
    /\ UNCHANGED <<queue, worker, crashes, received, posts>>

(* ap_delivery_success: one UPDATE by id, whatever the row's status is.    *)
(* The UPDATE of a row that Cleanup deleted changes nothing.               *)
ReportSuccess(w, d) ==
    /\ Job(w, d, "accepted", "idle")
    /\ IF status[d] = "Removed"
         THEN UNCHANGED <<status, attempts>>
         ELSE /\ status'   = [status EXCEPT ![d] = "Delivered"]
              /\ attempts' = [attempts EXCEPT ![d] = @ + 1]
    /\ UNCHANGED <<wait, kind, seen, crashes, received, posts, pollError>>

(* Mutants of FailureRead: a missing row counts as -1; the attempt is      *)
(* counted when it is read as well as when it is written.                  *)
FailureReadNoRow(w, d) ==
    /\ Job(w, d, "refused", "reporting")
    /\ seen' = [seen EXCEPT ![w][d] = IF status[d] = "Removed" THEN -1 ELSE attempts[d]]
    /\ UNCHANGED <<queue, crashes, received, posts, pollError>>
FailureReadCounts(w, d) ==
    /\ Job(w, d, "refused", "reporting")
    /\ seen' = [seen EXCEPT ![w][d] = attempts[d] + 1]
    /\ UNCHANGED <<queue, crashes, received, posts, pollError>>

(* ap_delivery_failure, first statement: SELECT attempts.  Without a row   *)
(* the call fails here; 0 stands for what it does not read, as the UPDATE  *)
(* that is not made would find no row either.                              *)
FailureRead(w, d) ==
    /\ Job(w, d, "refused", "reporting")
    /\ seen' = [seen EXCEPT ![w][d] = IF status[d] = "Removed" THEN 0 ELSE attempts[d]]
    /\ UNCHANGED <<queue, crashes, received, posts, pollError>>

(* The index is new_attempts, clamped to the last interval; RETRY_INTERVALS *)
(* is an array indexed from 0, a TLA+ sequence is indexed from 1.           *)
RetryInterval(n) ==
    RetryIntervals[IF n < Len(RetryIntervals) THEN n + 1 ELSE Len(RetryIntervals)]

(* Mutants of FailureWrite: > for >=; the last attempt marks the row       *)
(* Delivered.                                                              *)
FailureWriteOneMore(w, d) ==
    LET n == seen[w][d] + 1 IN
    /\ Job(w, d, "reporting", "idle")
    /\ seen'     = [seen EXCEPT ![w][d] = 0]
    /\ status'   = [status EXCEPT ![d] = IF n > MaxAttempts THEN "Expired" ELSE "Failed"]
    /\ attempts' = [attempts EXCEPT ![d] = n]
    /\ wait'     = [wait EXCEPT ![d] = RetryInterval(n)]
    /\ UNCHANGED <<kind, crashes, received, posts, pollError>>
FailureWriteDelivers(w, d) ==
    LET n == seen[w][d] + 1 IN
    /\ Job(w, d, "reporting", "idle")
    /\ seen'     = [seen EXCEPT ![w][d] = 0]
    /\ status'   = [status EXCEPT ![d] = IF n >= MaxAttempts THEN "Delivered" ELSE "Failed"]
    /\ attempts' = [attempts EXCEPT ![d] = n]
    /\ wait'     = [wait EXCEPT ![d] = RetryInterval(n)]
    /\ UNCHANGED <<kind, crashes, received, posts, pollError>>

(* ap_delivery_failure, second statement: UPDATE by id with the count      *)
(* computed from what the first statement read.                            *)
FailureWrite(w, d) ==
    LET n == seen[w][d] + 1 IN
    /\ Job(w, d, "reporting", "idle")
    /\ seen' = [seen EXCEPT ![w][d] = 0]
    /\ IF status[d] = "Removed"
         THEN UNCHANGED <<status, attempts, wait>>
         ELSE /\ attempts' = [attempts EXCEPT ![d] = n]
              /\ IF n >= MaxAttempts
                   THEN status' = [status EXCEPT ![d] = "Expired"] /\ UNCHANGED wait
                   ELSE /\ status' = [status EXCEPT ![d] = "Failed"]
                        /\ wait'   = [wait EXCEPT ![d] = RetryInterval(n)]
    /\ UNCHANGED <<kind, crashes, received, posts, pollError>>

(* Mutant of Cleanup: it removes every settled row. *)
CleanupSettled(S) ==
    /\ S # {}
    /\ \A d \in S : status[d] \in {"Delivered", "Expired"}
    /\ status' = [d \in Deliveries |-> IF d \in S THEN "Removed" ELSE status[d]]
    /\ UNCHANGED <<attempts, wait, kind, worker, crashes, received, posts, pollError>>

(* ap_cleanup_expired_deliveries: the Expired rows older than some age. *)
Cleanup(S) ==
    /\ S # {}
    /\ \A d \in S : status[d] = "Expired"
    /\ status' = [d \in Deliveries |-> IF d \in S THEN "Removed" ELSE status[d]]
    /\ UNCHANGED <<attempts, wait, kind, worker, crashes, received, posts, pollError>>

-----------------------------------------------------------------------------
(* The worker side, the network and the clock. *)

(* The remote inbox answers 2xx. *)
PostAccepted(w, d) ==
    /\ Job(w, d, "polled", "accepted")
    /\ posts'    = [posts EXCEPT ![d] = @ + 1]
    /\ received' = [received EXCEPT ![d] = TRUE]
    /\ UNCHANGED <<queue, seen, crashes, pollError>>

(* An error status or no answer; without an answer the remote inbox may    *)
(* have got the activity all the same.                                     *)
PostFailed(w, d) ==
    /\ Job(w, d, "polled", "refused")
    /\ posts' = [posts EXCEPT ![d] = @ + 1]
    /\ \E arrived \in BOOLEAN :
          received' = [received EXCEPT ![d] = @ \/ arrived]
    /\ UNCHANGED <<queue, seen, crashes, pollError>>

(* The worker dies and restarts: it forgets its rows, and the transaction  *)
(* of the SQL call it was in is rolled back.                               *)
Crash(w) ==
    /\ crashes < MaxCrashes
    /\ \E d \in Deliveries : job[w][d] # "idle"
    /\ crashes' = crashes + 1
    /\ job'  = [job EXCEPT ![w] = [d \in Deliveries |-> "idle"]]
    /\ seen' = [seen EXCEPT ![w] = [d \in Deliveries |-> 0]]
    /\ UNCHANGED <<queue, received, posts, pollError>>

(* Time passes.  next_retry_at matters only while the row is pending. *)
Tick ==
    /\ \E d \in Deliveries : status[d] \in Pending /\ wait[d] > -OverdueCap
    /\ wait' = [d \in Deliveries |->
                  IF status[d] \in Pending /\ wait[d] > -OverdueCap
                  THEN wait[d] - 1 ELSE wait[d]]
    /\ UNCHANGED <<status, attempts, kind, worker, crashes, received, posts, pollError>>

-----------------------------------------------------------------------------
Report(w, d) ==
    \/ ReportSuccess(w, d)
    \/ FailureRead(w, d)
    \/ FailureWrite(w, d)

Post(w, d) == PostAccepted(w, d) \/ PostFailed(w, d)

(* What moves rows once they are there. *)
Progress ==
    \/ \E S \in SUBSET Deliveries : Cleanup(S)
    \/ \E w \in Workers :
        \/ Poll(w)
        \/ PollFails(w)
        \/ Crash(w)
        \/ \E d \in Deliveries : Post(w, d) \/ Report(w, d)
    \/ Tick

Next ==
    \/ \E S \in SUBSET Deliveries, k \in Kinds : Enqueue(S, k)
    \/ Progress

Spec == Init /\ [][Next]_vars

(* A worker keeps polling, POSTs what it was given (a POST ends, by an     *)
(* answer or by the client's timeout) and reports; time does not stop.     *)
(* Nothing obliges a worker to crash, an application to enqueue or an      *)
(* administrator to clean up.                                              *)
Fairness ==
    /\ \A w \in Workers :
        /\ WF_vars(Poll(w) \/ PollFails(w))
        /\ \A d \in Deliveries : WF_vars(Post(w, d)) /\ WF_vars(Report(w, d))
    /\ WF_vars(Tick)

FairSpec == Spec /\ Fairness

-----------------------------------------------------------------------------
(* Safety with any number of workers. *)

(* A row waits for another attempt only while it has attempts left, and is *)
(* given up only when it has none (MAX_DELIVERY_ATTEMPTS).                 *)
PendingHasBudget ==
    \A d \in Deliveries :
        /\ status[d] \in Pending => attempts[d] < MaxAttempts
        /\ status[d] = "Expired" => attempts[d] >= MaxAttempts

(* The queue says Delivered only of an activity the remote inbox has. *)
DeliveredWasReceived ==
    \A d \in Deliveries : status[d] = "Delivered" => received[d]

(* However workers overlap and crash, a row is never charged an attempt    *)
(* that was not made: in particular it expires after MaxAttempts POSTs or  *)
(* more, never earlier.                                                    *)
AttemptsWereMade ==
    \A d \in Deliveries :
        /\ attempts[d] <= posts[d]
        /\ status[d] \in {"Expired", "Removed"} => posts[d] >= MaxAttempts

(* Why: a POST answered and not yet reported will be charged at most once, *)
(* whether its report counts from the row or from an earlier read of it.   *)
Unreported(d) == {w \in Workers : job[w][d] \in {"accepted", "refused", "reporting"}}

AttemptsAccounted ==
    \A d \in Deliveries :
        /\ attempts[d] + Cardinality(Unreported(d)) <= posts[d]
        /\ \A w \in Workers :
              job[w][d] = "reporting" => seen[w][d] + Cardinality(Unreported(d)) <= posts[d]

(* Why: only an accepted POST is reported as a success, and a row that was *)
(* cleaned up had expired.                                                 *)
AcceptedWasReceived ==
    \A w \in Workers, d \in Deliveries : job[w][d] = "accepted" => received[d]

RemovedHadExpired ==
    \A d \in Deliveries : status[d] = "Removed" => attempts[d] >= MaxAttempts

IInv ==
    /\ TypeOK
    /\ PendingHasBudget
    /\ RemovedHadExpired
    /\ DeliveredWasReceived
    /\ AcceptedWasReceived
    /\ AttemptsAccounted

-----------------------------------------------------------------------------
(* Safety when one worker serves the queue. *)

(* The rows a worker holds are still to be delivered: nothing it was given *)
(* was settled, or removed by a cleanup, meanwhile.                        *)
HeldRowsArePending ==
    \A w \in Workers, d \in Deliveries : job[w][d] # "idle" => status[d] \in Pending

(* The remote inbox gets at most one POST more per crash than the attempts *)
(* the GUC allows.                                                         *)
PostsBounded ==
    \A d \in Deliveries : posts[d] <= MaxAttempts + crashes

(* Delivered and Expired are final, but for the cleanup of Expired rows.   *)
SettledStays ==
    [][\A d \in Deliveries :
        /\ status[d] = "Delivered" => status'[d] = "Delivered"
        /\ status[d] = "Expired"   => status'[d] \in {"Expired", "Removed"}]_vars

(* What the rest of the server knows of a row. *)
Outcome ==
    [Absent |-> "none", Queued |-> "open", Failed |-> "open",
     Delivered |-> "delivered", Expired |-> "given_up", Removed |-> "removed"]

PromiseState == [d \in Deliveries |-> Outcome[status[d]]]

P == INSTANCE DeliveryPromise WITH
        state <- PromiseState, tries <- attempts, arrived <- received, broken <- pollError

(* One worker that may crash makes the queue keep its promise to the       *)
(* server: every row ends delivered or given up, after at most MaxAttempts *)
(* recorded attempts, once, unless polls fail.                             *)
KeepsPromise == P!Promise

-----------------------------------------------------------------------------
(* Liveness with any number of workers. *)

(* As long as polls do not fail, every row enqueued is delivered or given  *)
(* up for good, whatever the remote inbox answers and however often the    *)
(* workers restart: a late report may bring a settled row back, but not    *)
(* for ever.                                                               *)
EverySettles ==
    []~pollError =>
        \A d \in Deliveries : status[d] \in Pending ~> [](status[d] \notin Pending)

-----------------------------------------------------------------------------
(* Claims of the documentation and the tests. *)

(* README: "Retry schedule: 1m, 5m, 30m, 2h, 12h, 24h, 3d, 7d, then        *)
(* expire": the n-th failed attempt is retried after the n-th interval.    *)
DocumentedSchedule ==
    [][\A d \in Deliveries :
        status'[d] = "Failed" /\ attempts'[d] = attempts[d] + 1
            => wait'[d] = RetryIntervals[attempts'[d]]]_vars

(* endpoint_test.sql, of ap_get_pending_deliveries: "the function should   *)
(* not error".                                                             *)
PollNeverErrors == ~pollError
=============================================================================
