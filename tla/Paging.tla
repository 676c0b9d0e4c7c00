------------------------------- MODULE Paging -------------------------------
(***************************************************************************)
(* Reading a list page by page while it changes.                           *)
(*                                                                         *)
(* The outbox, followers and following collections (src/serialization.rs)  *)
(* are read by page number, LIMIT PAGE_SIZE OFFSET (page - 1) * PAGE_SIZE; *)
(* the home timeline (src/admin.rs) by a cursor, the id of a row already   *)
(* shown.  Every page is a query of its own: between two of them rows      *)
(* arrive and disappear.                                                   *)
(*                                                                         *)
(*   - Rows stand in the order of their dates, latest first, and arrive in *)
(*     any order: a transaction commits after a later one, a Create comes  *)
(*     with an old date, an Accept lets an old follow into the list.       *)
(*   - Ids are given in the order of arrival.                              *)
(*   - A reader follows the links it is given and stops where there is     *)
(*     none; the reader of the timeline stops at an empty page.            *)
(*                                                                         *)
(* Assumption: no two rows of a list have the same date.                   *)
(***************************************************************************)
EXTENDS Integers, FiniteSets, FiniteSetsExt

CONSTANTS
    N,          \* bound: rows that may ever be in the list
    PageSize,   \* PAGE_SIZE; max_results of the timeline
    MaxChanges  \* bound: arrivals, and departures, during the walk

ASSUME PagingAssumption ==
    /\ N \in Nat
    /\ PageSize \in Nat \ {0}
    /\ MaxChanges \in Nat

(* The rows, named by their rank in the order of dates: N is the latest. *)
Rows == 1..N

(* How the list is walked: from the link `first` by `next`; from the link  *)
(* `last` of the outbox by `prev`; the timeline by before_id.              *)
Readers == {"next", "prev", "cursor"}

ShownCap == MaxChanges + 2  \* bound: how often a row is told to be shown

VARIABLES
    reader,   \* which walk it is
    id,       \* id of each row, in the order of arrival; 0: not there yet
    listed,   \* the rows the query's WHERE clause selects
    walk,     \* "before", "reading" or "done"
    at,       \* the page to read next; the cursor, 0 for NULL
    shown,    \* observation: how often the reader was given the row
    kept,     \* observation: rows that were listed during all of the walk
    added,    \* observation: rows that came into the list during the walk
    dropped   \* observation: rows that left the list during the walk

vars == <<reader, id, listed, walk, at, shown, kept, added, dropped>>

TypeOK ==
    /\ reader \in Readers
    /\ id \in [Rows -> 0..N]
    /\ listed \subseteq {r \in Rows : id[r] # 0}
    /\ walk \in {"before", "reading", "done"}
    /\ at \in Nat
    /\ shown \in [Rows -> 0..ShownCap]
    /\ kept \subseteq listed
    /\ added \in 0..MaxChanges
    /\ dropped \in 0..MaxChanges

Init ==
    /\ reader \in Readers
    /\ id      = [r \in Rows |-> 0]
    /\ listed  = {}
    /\ walk    = "before"
    /\ at      = 0
    /\ shown   = [r \in Rows |-> 0]
    /\ kept    = {}
    /\ added   = 0
    /\ dropped = 0

-----------------------------------------------------------------------------
(* Queries. *)

(* ORDER BY date DESC LIMIT PageSize OFFSET skip over the rows S. *)
Window(S, skip) ==
    {r \in S : Cardinality({s \in S : s >= r}) \in (skip + 1)..(skip + PageSize)}

(* Page p of a collection; the page number is raised to 1. *)
Page(p) == Window(listed, ((IF p > 1 THEN p ELSE 1) - 1) * PageSize)

(* Mutant of HasNext: > for >=. *)
HasNextMore(p) == Cardinality(Page(p)) > PageSize

(* The link `next` is there when the page is full. *)
HasNext(p) == Cardinality(Page(p)) >= PageSize

(* Mutant of LastPage: an integer division that is not corrected. *)
LastPageShort == Cardinality(listed) \div PageSize

(* The link `last` of the outbox's summary: total / PAGE_SIZE + 1. *)
LastPage == Cardinality(listed) \div PageSize + 1

(* Mutants of Older: the cursor is inclusive; it is taken for a rank. *)
OlderOrSame(before) == {r \in listed : before = 0 \/ id[r] <= before}
OlderByDate(before) == {r \in listed : before = 0 \/ r < before}

(* ap_home_timeline's WHERE clause: id < before_id, or no cursor. *)
Older(before) == {r \in listed : before = 0 \/ id[r] < before}

-----------------------------------------------------------------------------
(* The reader. *)

Start ==
    /\ walk = "before"
    /\ walk' = "reading"
    /\ at'   = CASE reader = "next"   -> 1
                 [] reader = "prev"   -> LastPage
                 [] reader = "cursor" -> 0
    /\ kept' = listed
    /\ UNCHANGED <<reader, id, listed, shown, added, dropped>>

Give(S) ==
    shown' = [r \in Rows |->
                IF r \in S /\ shown[r] < ShownCap THEN shown[r] + 1 ELSE shown[r]]

(* The reader goes on at the place where, if there is one. *)
Follow(there, place) ==
    IF there THEN at' = place /\ UNCHANGED walk
             ELSE walk' = "done" /\ UNCHANGED at

FetchNext ==
    /\ reader = "next" /\ walk = "reading"
    /\ Give(Page(at))
    /\ Follow(HasNext(at), at + 1)
    /\ UNCHANGED <<reader, id, listed, kept, added, dropped>>

(* Mutant of FetchPrev: every page has a link `prev`. *)
FetchPrevAlways ==
    /\ reader = "prev" /\ walk = "reading"
    /\ Give(Page(at))
    /\ Follow(TRUE, at - 1)
    /\ UNCHANGED <<reader, id, listed, kept, added, dropped>>

FetchPrev ==
    /\ reader = "prev" /\ walk = "reading"
    /\ Give(Page(at))
    /\ Follow(at > 1, at - 1)
    /\ UNCHANGED <<reader, id, listed, kept, added, dropped>>

(* Mutant of FetchCursor: the cursor is the first row of the page. *)
FetchCursorFirst ==
    LET page == Window(Older(at), 0) IN
    /\ reader = "cursor" /\ walk = "reading"
    /\ Give(page)
    /\ Follow(page # {}, IF page = {} THEN 0 ELSE id[Max(page)])
    /\ UNCHANGED <<reader, id, listed, kept, added, dropped>>

(* The cursor of the next page is the id of the last row of this one. *)
FetchCursor ==
    LET page == Window(Older(at), 0) IN
    /\ reader = "cursor" /\ walk = "reading"
    /\ Give(page)
    /\ Follow(page # {}, IF page = {} THEN 0 ELSE id[Min(page)])
    /\ UNCHANGED <<reader, id, listed, kept, added, dropped>>

Fetch == FetchNext \/ FetchPrev \/ FetchCursor

-----------------------------------------------------------------------------
(* The list. *)

(* A row comes into the list. *)
Enter(r) ==
    /\ r \notin listed
    /\ walk # "done"
    /\ walk = "reading" => added < MaxChanges
    /\ listed' = listed \union {r}
    /\ added'  = IF walk = "reading" THEN added + 1 ELSE added
    /\ UNCHANGED <<reader, walk, at, shown, kept, dropped>>

(* A Create activity, a follow or an object is inserted. *)
Arrive(r) ==
    /\ id[r] = 0
    /\ Enter(r)
    /\ id' = [id EXCEPT ![r] = Cardinality({s \in Rows : id[s] # 0}) + 1]

(* The timeline's user follows the author again: the object has its old id. *)
Return(r) ==
    /\ reader = "cursor"
    /\ id[r] # 0
    /\ Enter(r)
    /\ UNCHANGED id

(* A follow is deleted, an object deleted or its author unfollowed; the    *)
(* activities of the outbox stay.                                          *)
Leave(r) ==
    /\ reader # "prev"
    /\ walk = "reading"
    /\ r \in listed
    /\ dropped < MaxChanges
    /\ listed'  = listed \ {r}
    /\ kept'    = kept \ {r}
    /\ dropped' = dropped + 1
    /\ UNCHANGED <<reader, id, walk, at, shown, added>>

Next ==
    \/ Start
    \/ FetchNext \/ FetchPrev \/ FetchCursor
    \/ \E r \in Rows : Arrive(r) \/ Return(r) \/ Leave(r)

(* A reader that has begun goes on; nothing obliges one to begin. *)
Spec == Init /\ [][Next]_vars /\ WF_vars(Fetch)

-----------------------------------------------------------------------------
(* Properties. *)

(* The lasting rows the reader was not given; one element for every time a *)
(* row was given that the reader had already.                              *)
Missed  == {r \in kept : shown[r] = 0}
Repeats == {x \in Rows \X (2..ShownCap) : shown[x[1]] >= x[2]}

(* A list read by page numbers slips by one row for each change: a reader  *)
(* that goes forward misses at most one lasting row for each row that left *)
(* and gets at most one twice for each that came; a reader that goes back  *)
(* the other way round.  A list at rest is read exactly.                   *)
SlipsAreAccounted ==
    /\ reader = "next" =>
        /\ Cardinality(Repeats) <= added
        /\ walk = "done" => Cardinality(Missed) <= dropped
    /\ reader = "prev" =>
        /\ Cardinality(Repeats) <= dropped
        /\ walk = "done" => Cardinality(Missed) <= added

(* The summary's `last` and the pages' `next` agree on where a list ends,  *)
(* also when it is empty or its last page is full, and when it grew while  *)
(* it was read.                                                            *)
NextEndsAtLast ==
    reader = "next" /\ walk = "done" /\ dropped = 0 => at = LastPage

(* The cursor is an id and the order is by date: a lasting row is missed   *)
(* only if it came after a row dated later that the reader was given.      *)
OnlyLateOnesAreMissed ==
    reader = "cursor" /\ walk = "done" =>
        \A x \in Missed : \E y \in Rows : shown[y] > 0 /\ y > x /\ id[y] < id[x]

(* And a row is given twice only if an older one came after it; rows that  *)
(* come in the order of their dates are given once, whatever changes.      *)
OnlyLateOnesRepeat ==
    reader = "cursor" =>
        \A x \in Rows : shown[x] > 1 =>
            \E y \in Rows : shown[y] > 0 /\ y < x /\ id[y] > id[x]

(* A walk ends: cursors descend, and page numbers end with the list. *)
WalkEnds == walk = "reading" ~> walk = "done"
=============================================================================
