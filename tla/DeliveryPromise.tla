--------------------------- MODULE DeliveryPromise ---------------------------
(***************************************************************************)
(* What the delivery queue promises the rest of the server, seen row by    *)
(* row: a delivery enqueued is tried a bounded number of times and ends    *)
(* Delivered, after the remote inbox got it, or given up after the last    *)
(* attempt.  Ends are final; only what was given up is ever removed.  The  *)
(* schedule, the workers, their crashes and their calls are not seen.      *)
(***************************************************************************)
EXTENDS Integers

CONSTANTS Deliveries, MaxAttempts

VARIABLES
    state,   \* "none", "open", "delivered", "given_up" or "removed"
    tries,   \* attempts recorded
    arrived, \* the remote inbox has it
    broken   \* the queue has failed to hand out its rows

pvars == <<state, tries, arrived, broken>>

PInit ==
    /\ state   = [d \in Deliveries |-> "none"]
    /\ tries   = [d \in Deliveries |-> 0]
    /\ arrived = [d \in Deliveries |-> FALSE]
    /\ broken  = FALSE

(* Some rows are accepted together. *)
Accept(S) ==
    /\ \A d \in S : state[d] = "none"
    /\ state' = [d \in Deliveries |-> IF d \in S THEN "open" ELSE state[d]]
    /\ UNCHANGED <<tries, arrived, broken>>

(* The remote inbox gets the activity, maybe without the sender learning it. *)
Arrive(d) ==
    /\ state[d] = "open"
    /\ ~arrived[d]
    /\ arrived' = [arrived EXCEPT ![d] = TRUE]
    /\ UNCHANGED <<state, tries, broken>>

Settle(d) ==
    /\ state[d] = "open"
    /\ arrived[d]
    /\ tries[d] < MaxAttempts
    /\ tries' = [tries EXCEPT ![d] = @ + 1]
    /\ state' = [state EXCEPT ![d] = "delivered"]
    /\ UNCHANGED <<arrived, broken>>

Miss(d) ==
    /\ state[d] = "open"
    /\ tries[d] < MaxAttempts
    /\ tries' = [tries EXCEPT ![d] = @ + 1]
    /\ state' = [state EXCEPT ![d] =
                   IF tries[d] + 1 = MaxAttempts THEN "given_up" ELSE "open"]
    /\ UNCHANGED <<arrived, broken>>

Forget(S) ==
    /\ S # {}
    /\ \A d \in S : state[d] = "given_up"
    /\ state' = [d \in Deliveries |-> IF d \in S THEN "removed" ELSE state[d]]
    /\ UNCHANGED <<tries, arrived, broken>>

Break ==
    /\ broken' = TRUE
    /\ UNCHANGED <<state, tries, arrived>>

PNext ==
    \/ \E d \in Deliveries : Arrive(d) \/ Settle(d) \/ Miss(d)
    \/ \E S \in SUBSET Deliveries : Accept(S) \/ Forget(S)
    \/ Break

PSpec == PInit /\ [][PNext]_pvars

(* As long as the queue is not broken, an open delivery is tried until it  *)
(* settles or is given up.                                                 *)
TriesOn(d) == ~broken /\ (Settle(d) \/ Miss(d))

Promise ==
    /\ PSpec
    /\ \A d \in Deliveries : WF_pvars(TriesOn(d))
=============================================================================
