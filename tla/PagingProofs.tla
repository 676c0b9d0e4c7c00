---------------------------- MODULE PagingProofs ----------------------------
(***************************************************************************)
(* Proofs about Paging for lists and pages of any length and any number of *)
(* changes: what a reader may miss or be given twice, and where it ends.   *)
(***************************************************************************)
EXTENDS Paging, FiniteSetTheorems, WellFoundedInduction, TLAPS

-----------------------------------------------------------------------------
(* Rows by their rank. *)

LEMMA RowsFinite ==
  ASSUME NEW S \in SUBSET Rows
  PROVE  IsFiniteSet(S) /\ Cardinality(S) \in Nat
<1>1. IsFiniteSet(Rows)
      BY PagingAssumption, FS_Interval DEF Rows
<1> QED
    BY <1>1, FS_Subset, FS_CardinalityType

LEMMA HasLeast ==
  ASSUME NEW S \in SUBSET Nat, S # {}
  PROVE  \E x \in S : \A y \in S : x <= y
<1> DEFINE R == {p \in Nat \X Nat : p[1] < p[2]}
<1>1. IsWellFoundedOn(R, Nat)
      BY NatLessThanWellFounded DEF OpToRel
<1>2. \A x, y \in Nat : <<y, x>> \in R <=> y < x
      OBVIOUS
<1> HIDE DEF R
<1>3. PICK x \in S : \A y \in S : ~ (<<y, x>> \in R)
      BY <1>1, WFMin
<1>4. \A y \in S : ~ (y < x)
      BY <1>2, <1>3
<1>5. \A y \in S : x <= y
      BY <1>4
<1> QED
    BY <1>5

LEMMA MinIsLeast ==
  ASSUME NEW S \in SUBSET Rows, S # {}
  PROVE  Min(S) \in S /\ \A y \in S : Min(S) <= y
<1>1. S \in SUBSET Nat
      BY PagingAssumption DEF Rows
<1> QED
    BY <1>1, HasLeast DEF Min

LEMMA HasGreatest ==
  ASSUME NEW S \in SUBSET Rows, S # {}
  PROVE  \E x \in S : \A y \in S : y <= x
<1> DEFINE T == {n \in Nat : N - n \in S}
<1>1. PICK r \in S : r \in 1..N
      BY DEF Rows
<1>2. N - r \in Nat /\ N - (N - r) = r
      BY <1>1, PagingAssumption
<1>3. T # {} /\ T \in SUBSET Nat
      BY <1>1, <1>2
<1>4. PICK n \in T : \A m \in T : n <= m
      BY <1>3, HasLeast
<1>5. \A y \in S : y \in 1..N /\ N - y \in Nat /\ N - (N - y) = y
      BY PagingAssumption DEF Rows
<1>6. \A y \in S : n <= N - y
      BY <1>4, <1>5
<1> QED
    BY <1>4, <1>5, <1>6, PagingAssumption

(* The place of a row in the order of a query, and the first j rows. *)
Above(S, r) == {s \in S : s >= r}
Pos(S, r)   == Cardinality(Above(S, r))
Top(S, j)   == {r \in S : Pos(S, r) <= j}

LEMMA PosType ==
  ASSUME NEW S \in SUBSET Rows, NEW r \in S
  PROVE  Pos(S, r) \in Nat /\ 1 <= Pos(S, r) /\ Pos(S, r) <= Cardinality(S)
<1>1. Above(S, r) \in SUBSET S /\ r \in Above(S, r)
      BY PagingAssumption DEF Above, Rows
<1>2. IsFiniteSet(S) /\ IsFiniteSet(Above(S, r)) /\ Pos(S, r) \in Nat
      BY <1>1, RowsFinite DEF Pos
<1>3. Pos(S, r) <= Cardinality(S)
      BY <1>1, <1>2, FS_Subset DEF Pos
<1>4. Pos(S, r) # 0
      BY <1>1, <1>2, FS_EmptySet DEF Pos
<1> QED
    BY <1>2, <1>3, <1>4

(* Earlier rows stand further down; no two have one place. *)
LEMMA PosFalls ==
  ASSUME NEW S \in SUBSET Rows, NEW r \in S, NEW s \in S, r < s
  PROVE  Pos(S, s) < Pos(S, r)
<1>1. \A y \in S : y \in Int /\ y \in Rows
      BY PagingAssumption DEF Rows
<1>2. /\ Above(S, s) \in SUBSET Above(S, r)
      /\ r \in Above(S, r) \ Above(S, s)
      /\ Above(S, r) \in SUBSET Rows
      BY <1>1 DEF Above
<1>3. IsFiniteSet(Above(S, r))
      BY <1>2, RowsFinite
<1>4. Cardinality(Above(S, s)) <= Cardinality(Above(S, r))
      BY <1>2, <1>3, FS_Subset
<1>5. Cardinality(Above(S, s)) # Cardinality(Above(S, r))
      BY <1>2, <1>3, FS_Subset
<1> QED
    BY <1>4, <1>5, PosType DEF Pos

LEMMA PosOrder ==
  ASSUME NEW S \in SUBSET Rows, NEW r \in S, NEW s \in S
  PROVE  /\ Pos(S, s) < Pos(S, r) <=> r < s
         /\ Pos(S, r) = Pos(S, s) <=> r = s
<1>1. r \in Int /\ s \in Int
      BY PagingAssumption DEF Rows
<1>2. Pos(S, s) \in Nat /\ Pos(S, r) \in Nat
      BY PosType
<1>3. CASE r < s
      BY <1>1, <1>2, <1>3, PosFalls
<1>4. CASE s < r
      BY <1>1, <1>2, <1>4, PosFalls
<1> QED
    BY <1>1, <1>2, <1>3, <1>4

(* The first j rows are j rows, or all. *)
LEMMA TopSize ==
  ASSUME NEW S \in SUBSET Rows, NEW j \in Nat
  PROVE  /\ Cardinality(Top(S, j)) <= j
         /\ Top(S, j) # S => Cardinality(Top(S, j)) = j
<1> DEFINE T == Top(S, j)
<1>1. T \in SUBSET S /\ T \in SUBSET Rows /\ S \ T \in SUBSET Rows
      BY DEF Top
<1>2. IsFiniteSet(T) /\ Cardinality(T) \in Nat
      BY <1>1, RowsFinite
<1>3. \A r \in S : Pos(S, r) \in Nat /\ r \in Int
      BY PosType, PagingAssumption DEF Rows
<1>4. ASSUME NEW r \in T, NEW s \in S, s >= r
      PROVE  s \in T
  <2>1. Pos(S, s) <= Pos(S, r)
        BY <1>1, <1>3, <1>4, PosOrder
  <2> QED
      BY <1>1, <1>3, <1>4, <2>1 DEF Top
<1>5. Cardinality(T) <= j
  <2>1. CASE T = {}
        BY <2>1, FS_EmptySet
  <2>2. CASE T # {}
    <3>1. PICK m \in T : \A y \in T : m <= y
          BY <1>1, <2>2, MinIsLeast
    <3>2. Above(S, m) = T
          BY <1>1, <1>3, <1>4, <3>1 DEF Above
    <3>3. Pos(S, m) <= j
          BY <3>1 DEF Top
    <3> QED
        BY <3>2, <3>3 DEF Pos
  <2> QED
      BY <2>1, <2>2
<1>6. ASSUME T # S
      PROVE  Cardinality(T) = j
  <2>1. PICK x \in S \ T : \A y \in S \ T : y <= x
        BY <1>1, <1>6, HasGreatest
  <2>2. Above(S, x) = T \union {x}
    <3>1. \A y \in T : y >= x
          BY <1>1, <1>3, <1>4, <2>1
    <3>2. \A y \in S \ T : y >= x => y = x
          BY <1>3, <2>1
    <3> QED
        BY <1>1, <1>3, <2>1, <3>1, <3>2 DEF Above
  <2>3. Pos(S, x) = Cardinality(T) + 1
        BY <1>2, <2>1, <2>2, FS_AddElement DEF Pos
  <2>4. Pos(S, x) > j
        BY <1>3, <2>1 DEF Top
  <2> QED
      BY <1>2, <1>5, <2>3, <2>4
<1> QED
    BY <1>5, <1>6

(* Page windows by places. *)
LEMMA WindowIs ==
  ASSUME NEW S \in SUBSET Rows, NEW k \in Nat
  PROVE  Window(S, k) = {r \in S : k < Pos(S, r) /\ Pos(S, r) <= k + PageSize}
<1>1. \A r \in S : Pos(S, r) \in Nat
      BY PosType
<1> QED
    BY <1>1, PagingAssumption DEF Window, Pos, Above

(* A page that is full ends in the list, one that is not ends it.          *)
LEMMA WindowSize ==
  ASSUME NEW S \in SUBSET Rows, NEW k \in Nat
  PROVE  /\ Cardinality(Window(S, k)) >= PageSize => k + PageSize <= Cardinality(S)
         /\ Cardinality(Window(S, k)) < PageSize => Cardinality(S) < k + PageSize
<1> DEFINE A == Top(S, k)
           B == Top(S, k + PageSize)
           W == Window(S, k)
<1>0. PageSize \in Nat \ {0} /\ k + PageSize \in Nat /\ Cardinality(S) \in Nat
      BY PagingAssumption, RowsFinite
<1>1. \A r \in S : Pos(S, r) \in Nat /\ Pos(S, r) <= Cardinality(S)
      BY PosType
<1>2. B = A \union W /\ A \intersect W = {}
      BY <1>0, <1>1, WindowIs DEF Top
<1>3. /\ A \in SUBSET Rows /\ B \in SUBSET Rows /\ W \in SUBSET Rows
      /\ A \in SUBSET S /\ B \in SUBSET S
      BY DEF Top, Window
<1>4. /\ IsFiniteSet(A) /\ Cardinality(A) \in Nat
      /\ IsFiniteSet(B) /\ Cardinality(B) \in Nat
      /\ IsFiniteSet(W) /\ Cardinality(W) \in Nat
      BY <1>3, RowsFinite
<1>5. Cardinality(B) = Cardinality(A) + Cardinality(W)
  <2>1. Cardinality(A \intersect W) = 0
        BY <1>2, FS_EmptySet
  <2>2. Cardinality(A \union W) = Cardinality(A) + Cardinality(W) - Cardinality(A \intersect W)
        BY <1>4, FS_Union
  <2> HIDE DEF A, B, W
  <2> QED
      BY <1>2, <1>4, <2>1, <2>2
<1>6. /\ Cardinality(A) <= k /\ (A # S => Cardinality(A) = k)
      /\ Cardinality(B) <= k + PageSize /\ (B # S => Cardinality(B) = k + PageSize)
      BY <1>0, TopSize
<1>7. Cardinality(B) <= Cardinality(S)
      BY <1>3, RowsFinite, FS_Subset
<1>8. A = S => W = {}
      BY <1>2, <1>3
<1>9. A = S => Cardinality(W) = 0
      BY <1>8, FS_EmptySet
<1> HIDE DEF A, B, W
<1> QED
    BY <1>0, <1>4, <1>5, <1>6, <1>7, <1>9 DEF W

(* A row that comes or goes moves every other by one place at most, down   *)
(* if it comes, and no two rows from one place.                            *)
LEMMA InsertShifts ==
  ASSUME NEW S \in SUBSET Rows, NEW x \in Rows \ S, NEW r \in S
  PROVE  Pos(S \union {x}, r) \in {Pos(S, r), Pos(S, r) + 1}
<1>1. IsFiniteSet(Above(S, r))
  <2>1. Above(S, r) \in SUBSET Rows
        BY DEF Above
  <2> QED
      BY <2>1, RowsFinite
<1>2. Above(S \union {x}, r) = Above(S, r) \/ Above(S \union {x}, r) = Above(S, r) \union {x}
      BY DEF Above
<1>3. x \notin Above(S, r)
      BY DEF Above
<1> QED
    BY <1>1, <1>2, <1>3, FS_AddElement DEF Pos

(* The rows of one place are one row at most. *)
LEMMA OneAtPlace ==
  ASSUME NEW S \in SUBSET Rows, NEW T, NEW U \in SUBSET Rows, NEW k,
         \A r \in U : r \in T \/ (r \in S /\ Pos(S, r) = k),
         T \in SUBSET Rows
  PROVE  Cardinality(U) <= Cardinality(T) + 1
<1>1. IsFiniteSet(T) /\ IsFiniteSet(U) /\ Cardinality(T) \in Nat /\ Cardinality(U) \in Nat
      BY RowsFinite
<1>2. CASE U \in SUBSET T
      BY <1>1, <1>2, FS_Subset
<1>3. CASE ~ (U \in SUBSET T)
  <2>1. PICK x \in U : x \notin T
        BY <1>3
  <2>2. U \in SUBSET (T \union {x})
        BY <2>1, PosOrder
  <2>3. IsFiniteSet(T \union {x}) /\ Cardinality(T \union {x}) = Cardinality(T) + 1
        BY <1>1, <2>1, FS_AddElement
  <2>4. Cardinality(U) <= Cardinality(T \union {x})
        BY <2>2, <2>3, FS_Subset
  <2> QED
      BY <2>3, <2>4
<1> QED
    BY <1>2, <1>3

-----------------------------------------------------------------------------
(* The inductive invariant.                                                *)

(* Ids are given once and in order; what the reader has is in the list or  *)
(* was; nothing is counted before the walk.                                *)
Arrived == {r \in Rows : id[r] # 0}
IdInv ==
    /\ \A r \in Rows : id[r] <= Cardinality(Arrived)
    /\ \A r, s \in Rows : id[r] # 0 /\ id[r] = id[s] => r = s
    /\ \A r \in Rows : shown[r] > 0 => id[r] # 0
WalkInv ==
    /\ walk = "before" => /\ shown = [r \in Rows |-> 0]
                          /\ kept = {} /\ added = 0 /\ dropped = 0
    /\ walk # "before" /\ reader # "cursor" => at >= 1
TInv == TypeOK /\ IdInv /\ WalkInv

(* Rows the reader has and will be given again; lasting rows that it has   *)
(* not and that lie on the side already read: beyond and up to place k.    *)
Beyond(L, sh, k)      == {r \in L : sh[r] > 0 /\ Pos(L, r) > k}
UpTo(L, sh, k)        == {r \in L : sh[r] > 0 /\ Pos(L, r) <= k}
LostUpTo(L, K, sh, k)   == {r \in K : sh[r] = 0 /\ Pos(L, r) <= k}
LostBeyond(L, K, sh, k) == {r \in K : sh[r] = 0 /\ Pos(L, r) > k}

(* The first row of page p is after this place. *)
Offset(p) == (p - 1) * PageSize

NextInv ==
    reader = "next" =>
        /\ walk = "reading" =>
            /\ Cardinality(Repeats) + Cardinality(Beyond(listed, shown, Offset(at))) <= added
            /\ Cardinality(LostUpTo(listed, kept, shown, Offset(at))) <= dropped
            /\ dropped = 0 => Offset(at) <= Cardinality(listed)
        /\ walk = "done" =>
            /\ Cardinality(Repeats) <= added
            /\ Cardinality(Missed) <= dropped
            /\ dropped = 0 => at = LastPage

(* A reader that goes back finds nothing gone (no row leaves the outbox),  *)
(* and what comes pushes rows that it has further away.                    *)
PrevInv ==
    reader = "prev" =>
        /\ dropped = 0
        /\ Repeats = {}
        /\ walk = "reading" =>
            /\ UpTo(listed, shown, Offset(at + 1)) = {}
            /\ Cardinality(LostBeyond(listed, kept, shown, Offset(at + 1))) <= added
        /\ walk = "done" => Cardinality(Missed) <= added

(* A row that came late, dated earlier than one that the reader has, and   *)
(* one that came early, dated later.                                       *)
Late(x)  == \E y \in Rows : shown[y] > 0 /\ y > x /\ id[y] < id[x]
Early(x) == \E y \in Rows : shown[y] > 0 /\ y < x /\ id[y] > id[x]
CursorInv ==
    reader = "cursor" =>
        /\ walk = "reading" =>
            /\ \A x \in kept : shown[x] = 0 => at = 0 \/ id[x] < at \/ Late(x)
            /\ \A x \in Rows : shown[x] > 0 => (at # 0 /\ id[x] >= at) \/ Early(x)
        /\ OnlyLateOnesAreMissed
        /\ OnlyLateOnesRepeat

PInv == TInv /\ NextInv /\ PrevInv /\ CursorInv

-----------------------------------------------------------------------------
(* Types and ids. *)

LEMMA OffsetIs ==
  ASSUME NEW p \in Nat, p >= 1
  PROVE  /\ Offset(p) \in Nat /\ Offset(p + 1) \in Nat
         /\ Offset(p + 1) = Offset(p) + PageSize
         /\ Page(p) = Window(listed, Offset(p))
<1>1. PageSize \in Nat /\ p - 1 \in Nat /\ (p + 1) - 1 = (p - 1) + 1
      BY PagingAssumption
<1>2. \A n \in Nat : n * PageSize \in Nat /\ (n + 1) * PageSize = n * PageSize + PageSize
      BY <1>1
<1>3. (IF p > 1 THEN p ELSE 1) = p
      BY <1>1
<1> QED
    BY <1>1, <1>2, <1>3 DEF Offset, Page

LEMMA GiveEffect ==
  ASSUME TypeOK, NEW S \in SUBSET Rows, Give(S)
  PROVE  /\ shown' \in [Rows -> 0..ShownCap]
         /\ \A r \in Rows : /\ r \in S => shown'[r] > 0
                            /\ r \notin S => shown'[r] = shown[r]
                            /\ shown[r] > 0 => shown'[r] > 0
                            /\ shown'[r] <= shown[r] + 1
<1>1. ShownCap \in Nat /\ ShownCap >= 2
      BY PagingAssumption DEF ShownCap
<1>2. \A r \in Rows : shown[r] \in 0..ShownCap /\ shown[r] \in Nat
      BY <1>1 DEF TypeOK
<1>3. \A r \in Rows :
        shown'[r] = IF r \in S /\ shown[r] < ShownCap THEN shown[r] + 1 ELSE shown[r]
      BY DEF Give
<1>4. shown' \in [Rows -> 0..ShownCap]
      BY <1>1, <1>2 DEF Give
<1>5. ASSUME NEW r \in Rows
      PROVE  /\ r \in S => shown'[r] > 0
             /\ r \notin S => shown'[r] = shown[r]
             /\ shown[r] > 0 => shown'[r] > 0
             /\ shown'[r] <= shown[r] + 1
      BY <1>1, <1>2, <1>3
<1> QED
    BY <1>4, <1>5

(* The timeline's cursor is the id of a row. *)
LEMMA CursorEffect ==
  ASSUME TypeOK, NEW page \in SUBSET listed, page # {}
  PROVE  /\ Min(page) \in page /\ \A r \in page : Min(page) <= r
         /\ id[Min(page)] \in Nat /\ id[Min(page)] # 0
<1>1. page \in SUBSET Rows
      BY DEF TypeOK
<1>2. Min(page) \in page /\ \A r \in page : Min(page) <= r
      BY <1>1, MinIsLeast
<1>3. N \in Nat
      BY PagingAssumption
<1> QED
    BY <1>2, <1>3 DEF TypeOK

LEMMA TInvFetch ==
  ASSUME TInv, Fetch
  PROVE  TInv'
<1>0. TypeOK /\ IdInv /\ WalkInv
      BY DEF TInv
<1>1. listed \in SUBSET Rows
      BY <1>0 DEF TypeOK
<1>2. PICK S \in SUBSET listed :
        /\ Give(S) /\ walk = "reading"
        /\ UNCHANGED <<reader, id, listed, kept, added, dropped>>
        /\ walk' \in {"reading", "done"}
        /\ at' \in Nat /\ (reader # "cursor" => at' >= 1)
  <2>1. at \in Nat /\ (walk = "reading" /\ reader # "cursor" => at >= 1)
        BY <1>0 DEF TypeOK, WalkInv
  <2>2. CASE FetchNext
    <3>1. Page(at) \in SUBSET listed
          BY DEF Page, Window
    <3> QED
        BY <2>1, <2>2, <3>1 DEF FetchNext, Follow
  <2>3. CASE FetchPrev
    <3>1. Page(at) \in SUBSET listed
          BY DEF Page, Window
    <3> QED
        BY <2>1, <2>3, <3>1 DEF FetchPrev, Follow
  <2>4. CASE FetchCursor
    <3>1. Window(Older(at), 0) \in SUBSET listed
          BY DEF Window, Older
    <3> QED
        BY <1>0, <2>1, <2>4, <3>1, CursorEffect DEF FetchCursor, Follow
  <2> QED
      BY <2>2, <2>3, <2>4 DEF Fetch
<1>3. S \in SUBSET Rows
      BY <1>1
<1>4. TypeOK'
      BY <1>0, <1>2, <1>3, GiveEffect DEF TypeOK, ShownCap
<1>5. IdInv'
  <2>1. \A r \in Rows : shown'[r] > 0 => id[r] # 0
    <3>1. \A r \in S : id[r] # 0
          BY <1>0 DEF TypeOK
    <3> QED
        BY <1>0, <1>2, <1>3, <3>1, GiveEffect DEF IdInv
  <2>2. Arrived' = Arrived
        BY <1>2 DEF Arrived
  <2> QED
      BY <1>0, <1>2, <2>1, <2>2 DEF IdInv
<1>6. WalkInv'
      BY <1>2 DEF WalkInv
<1> QED
    BY <1>4, <1>5, <1>6 DEF TInv

LEMMA LastPageType ==
  ASSUME TypeOK
  PROVE  /\ LastPage \in Nat /\ LastPage >= 1
         /\ Offset(LastPage) <= Cardinality(listed)
         /\ Cardinality(listed) < Offset(LastPage + 1)
         /\ \A p \in Nat : p >= 1 /\ Offset(p) <= Cardinality(listed)
                /\ Cardinality(listed) < Offset(p + 1) => p = LastPage
<1>1. Cardinality(listed) \in Nat
      BY RowsFinite DEF TypeOK
<1>2. PageSize \in Nat \ {0}
      BY PagingAssumption
<1> DEFINE n == Cardinality(listed)
           q == n \div PageSize
<1>3. q \in Nat /\ q * PageSize <= n /\ n < (q + 1) * PageSize
  <2> HIDE DEF n
  <2> QED
      BY <1>1, <1>2 DEF n
<1> HIDE DEF q, n
<1>4. LastPage = q + 1 /\ LastPage - 1 = q /\ (LastPage + 1) - 1 = q + 1
      BY <1>3 DEF LastPage, q, n
<1>5. \A a, b \in Nat : a <= b => a * PageSize <= b * PageSize
  <2>1. ASSUME NEW a \in Nat, NEW b \in Nat, a <= b
        PROVE  a * PageSize <= b * PageSize
    <3>1. PICK c \in Nat : b = a + c
          BY <2>1, b - a \in Nat
    <3>2. b * PageSize = a * PageSize + c * PageSize
          BY <1>2, <3>1
    <3>3. c * PageSize \in Nat /\ a * PageSize \in Nat
          BY <1>2
    <3> QED
        BY <3>2, <3>3
  <2> QED
      BY <2>1
<1>6. ASSUME NEW m \in Nat, m * PageSize <= n, n < (m + 1) * PageSize
      PROVE  m = q
  <2>1. m * PageSize \in Nat /\ q * PageSize \in Nat
        BY <1>2, <1>3
  <2>2. (m + 1) * PageSize \in Nat /\ (q + 1) * PageSize \in Nat
        BY <1>2, <1>3
  <2>3. ~ (m + 1 <= q)
        BY <1>1, <1>3, <1>5, <1>6, <2>1, <2>2 DEF n
  <2>4. ~ (q + 1 <= m)
        BY <1>1, <1>3, <1>5, <1>6, <2>1, <2>2 DEF n
  <2> QED
      BY <1>3, <2>3, <2>4
<1>7. ASSUME NEW p \in Nat, p >= 1, Offset(p) <= n, n < Offset(p + 1)
      PROVE  p = LastPage
  <2>1. p - 1 \in Nat /\ (p + 1) - 1 = (p - 1) + 1
        BY <1>7
  <2>2. p - 1 = q
        BY <1>6, <1>7, <2>1 DEF Offset
  <2> QED
      BY <1>3, <1>4, <2>2
<1> QED
    BY <1>3, <1>4, <1>7 DEF Offset, n

(* What a row that comes changes, new or back. *)
Comes(r) ==
    /\ r \notin listed /\ walk # "done"
    /\ listed' = listed \union {r}
    /\ walk = "reading" => added < MaxChanges /\ added' = added + 1
    /\ walk # "reading" => added' = added
    /\ UNCHANGED <<reader, walk, at, shown, kept, dropped>>
    /\ \A s \in Rows : id[s] # 0 => id'[s] = id[s]
    /\ reader # "cursor" => shown[r] = 0

LEMMA EnterComes ==
  ASSUME TInv, NEW r \in Rows, Arrive(r) \/ Return(r)
  PROVE  Comes(r)
<1>1. TypeOK /\ IdInv
      BY DEF TInv
<1>2. Enter(r)
      BY DEF Arrive, Return
<1>3. \A s \in Rows : id[s] # 0 => id'[s] = id[s]
      BY <1>1 DEF Arrive, Return, TypeOK
<1>4. reader # "cursor" => shown[r] = 0
  <2>1. reader # "cursor" => ~ (shown[r] > 0)
        BY <1>1 DEF Arrive, Return, IdInv
  <2>2. ShownCap \in Nat /\ shown[r] \in 0..ShownCap
        BY <1>1, PagingAssumption DEF TypeOK, ShownCap
  <2> QED
      BY <2>1, <2>2
<1> QED
    BY <1>2, <1>3, <1>4 DEF Enter, Comes

LEMMA TInvEnter ==
  ASSUME TInv, NEW r \in Rows, Arrive(r) \/ Return(r)
  PROVE  TInv'
<1>0. TypeOK /\ IdInv /\ WalkInv
      BY DEF TInv
<1>1. Comes(r)
      BY EnterComes
<1>2. N \in Nat /\ MaxChanges \in Nat
      BY PagingAssumption
<1>3. /\ id' \in [Rows -> 0..N] /\ id'[r] # 0
      /\ \A s \in Rows : id'[s] <= Cardinality(Arrived)'
      /\ \A s, t \in Rows : id'[s] # 0 /\ id'[s] = id'[t] => s = t
  <2>1. CASE Arrive(r)
    <3> DEFINE c == Cardinality(Arrived)
    <3>1. id' = [id EXCEPT ![r] = c + 1]
          BY <2>1 DEF Arrive, Arrived
    <3>2. r \notin Arrived
          BY <2>1 DEF Arrive, Arrived
    <3>3. Arrived \in SUBSET Rows /\ Arrived' \in SUBSET Rows
          BY DEF Arrived
    <3>4. IsFiniteSet(Arrived) /\ c \in Nat
          BY <3>3, RowsFinite
    <3>5. Arrived' = Arrived \union {r}
          BY <1>0, <3>1, <3>4 DEF Arrived, TypeOK
    <3>6. Cardinality(Arrived)' = c + 1
          BY <3>2, <3>4, <3>5, FS_AddElement
    <3>7. c + 1 <= N
      <4>1. IsFiniteSet(Rows) /\ Cardinality(Rows) = N
            BY <1>2, FS_Interval DEF Rows
      <4>2. Cardinality(Arrived') <= N
            BY <3>3, <4>1, FS_Subset
      <4> QED
          BY <3>6, <4>2
    <3>8. \A s \in Rows : id[s] \in Nat /\ id[s] <= c /\ id[s] \in 0..N
          BY <1>0, <1>2 DEF IdInv, TypeOK
    <3>9. id' \in [Rows -> 0..N]
      <4>1. c + 1 \in 0..N
            BY <1>2, <3>4, <3>7
      <4> QED
          BY <1>0, <3>1, <4>1 DEF TypeOK
    <3>10. \A s \in Rows : id'[s] = IF s = r THEN c + 1 ELSE id[s]
          BY <1>0, <3>1 DEF TypeOK
    <3> HIDE DEF c
    <3> QED
        BY <1>0, <3>4, <3>6, <3>8, <3>9, <3>10 DEF IdInv
  <2>2. CASE Return(r)
    <3>1. id' = id /\ Arrived' = Arrived /\ id[r] # 0
          BY <2>2 DEF Return, Arrived
    <3> QED
        BY <1>0, <3>1 DEF IdInv, TypeOK
  <2> QED
      BY <2>1, <2>2
<1>4. listed' \subseteq {s \in Rows : id'[s] # 0} /\ kept' \subseteq listed'
      BY <1>0, <1>1, <1>3 DEF TypeOK, Comes
<1>5. added' \in 0..MaxChanges
      BY <1>0, <1>1, <1>2 DEF TypeOK, Comes
<1>6. TypeOK'
      BY <1>0, <1>1, <1>3, <1>4, <1>5 DEF TypeOK, Comes, ShownCap
<1>7. IdInv'
      BY <1>0, <1>1, <1>3 DEF IdInv, Comes
<1>8. WalkInv'
      BY <1>0, <1>1 DEF WalkInv, Comes
<1> QED
    BY <1>6, <1>7, <1>8 DEF TInv

LEMMA TInvNext == TInv /\ [Next]_vars => TInv'
<1> SUFFICES ASSUME TInv, [Next]_vars
             PROVE  TInv'
    OBVIOUS
<1>0. TypeOK /\ IdInv /\ WalkInv
      BY DEF TInv
<1>1. CASE Start
  <2>1. at' \in Nat /\ (reader # "cursor" => at' >= 1)
    <3>1. LastPage \in Nat /\ LastPage >= 1
          BY <1>0, LastPageType
    <3> QED
        BY <1>0, <1>1, <3>1 DEF Start, TypeOK, Readers
  <2>2. TypeOK'
        BY <1>0, <1>1, <2>1 DEF Start, TypeOK, ShownCap
  <2>3. IdInv'
        BY <1>0, <1>1 DEF Start, IdInv, Arrived
  <2>4. WalkInv'
        BY <1>1, <2>1 DEF Start, WalkInv
  <2> QED
      BY <2>2, <2>3, <2>4 DEF TInv
<1>2. ASSUME NEW r \in Rows, Leave(r)
      PROVE  TInv'
  <2>1. dropped' \in 0..MaxChanges
        BY <1>0, <1>2, PagingAssumption DEF Leave, TypeOK
  <2>2. TypeOK'
        BY <1>0, <1>2, <2>1 DEF Leave, TypeOK, ShownCap
  <2>3. IdInv'
        BY <1>0, <1>2 DEF Leave, IdInv, Arrived
  <2>4. WalkInv'
        BY <1>0, <1>2 DEF Leave, WalkInv
  <2> QED
      BY <2>2, <2>3, <2>4 DEF TInv
<1>3. CASE UNCHANGED vars
      BY <1>0, <1>3 DEF vars, TInv, TypeOK, IdInv, WalkInv, Arrived, ShownCap
<1> QED
    BY <1>1, <1>2, <1>3, TInvFetch, TInvEnter DEF Next, Fetch

LEMMA TInvInit == Init => TInv
<1> SUFFICES ASSUME Init
             PROVE  TInv
    OBVIOUS
<1>1. N \in Nat /\ MaxChanges \in Nat /\ ShownCap \in Nat
      BY PagingAssumption DEF ShownCap
<1>2. TypeOK
      BY <1>1 DEF Init, TypeOK, Readers
<1>3. IdInv
  <2>1. Arrived \in SUBSET Rows
        BY DEF Arrived
  <2>2. Cardinality(Arrived) \in Nat
        BY <2>1, RowsFinite
  <2> QED
      BY <2>2 DEF Init, IdInv
<1>4. WalkInv
      BY DEF Init, WalkInv
<1> QED
    BY <1>2, <1>3, <1>4 DEF TInv

-----------------------------------------------------------------------------
(* Counting what was given twice. *)

LEMMA RepeatsFinite ==
  IsFiniteSet(Repeats) /\ Cardinality(Repeats) \in Nat
<1>1. IsFiniteSet(Rows) /\ IsFiniteSet(2..ShownCap)
      BY RowsFinite, FS_Interval, PagingAssumption DEF ShownCap
<1>2. IsFiniteSet(Rows \X (2..ShownCap))
      BY <1>1, FS_Product
<1>3. Repeats \in SUBSET (Rows \X (2..ShownCap))
      BY DEF Repeats
<1> QED
    BY <1>2, <1>3, FS_Subset, FS_CardinalityType

LEMMA RepeatsGrow ==
  ASSUME TypeOK, NEW S \in SUBSET Rows, Give(S)
  PROVE  Cardinality(Repeats') <= Cardinality(Repeats) + Cardinality({r \in S : shown[r] > 0})
<1> DEFINE D == {r \in S : shown[r] > 0}
           f == [r \in D |-> <<r, shown[r] + 1>>]
           T == {f[r] : r \in D}
<1>1. D \in SUBSET Rows
      OBVIOUS
<1>2. IsFiniteSet(D) /\ Cardinality(D) \in Nat
      BY <1>1, RowsFinite
<1>3. f \in Surjection(D, T)
      BY DEF Surjection
<1>4. IsFiniteSet(T) /\ Cardinality(T) <= Cardinality(D)
  <2> HIDE DEF D, f, T
  <2> QED
      BY <1>2, <1>3, FS_Surjection
<1>5. ASSUME NEW x \in Repeats', x \notin Repeats
      PROVE  x \in T
  <2>1. PICK r \in Rows, k \in 2..ShownCap : x = <<r, k>>
        BY <1>5 DEF Repeats, ShownCap
  <2>2. shown'[r] >= k /\ ~ (shown[r] >= k)
        BY <1>5, <2>1 DEF Repeats, ShownCap
  <2>3. shown[r] \in Nat /\ shown'[r] \in Nat /\ k \in Nat /\ k >= 2
        BY <2>1, GiveEffect, PagingAssumption DEF TypeOK, ShownCap
  <2>4. shown'[r] <= shown[r] + 1 /\ (r \notin S => shown'[r] = shown[r])
        BY GiveEffect
  <2>5. r \in D /\ k = shown[r] + 1
        BY <2>2, <2>3, <2>4
  <2> QED
      BY <2>1, <2>5
<1>6. Repeats' \in SUBSET (Repeats \union T)
      BY <1>5
<1>7. IsFiniteSet(Repeats) /\ Cardinality(Repeats) \in Nat
      BY RepeatsFinite
<1> HIDE DEF D, f, T
<1>8. /\ IsFiniteSet(Repeats \union T)
      /\ Cardinality(Repeats \union T)
            = Cardinality(Repeats) + Cardinality(T) - Cardinality(Repeats \intersect T)
      BY <1>4, <1>7, FS_Union
<1>9. /\ Cardinality(Repeats') <= Cardinality(Repeats \union T)
      /\ IsFiniteSet(Repeats')
      BY <1>6, <1>8, FS_Subset
<1>10. Cardinality(T) \in Nat /\ Cardinality(Repeats \intersect T) \in Nat
  <2>1. IsFiniteSet(Repeats \intersect T)
        BY <1>7, FS_Intersection
  <2> QED
      BY <1>4, <2>1, FS_CardinalityType
<1>11. Cardinality(Repeats') \in Nat
       BY <1>9, FS_CardinalityType
<1> QED
    BY <1>2, <1>4, <1>7, <1>8, <1>9, <1>10, <1>11 DEF D

(* Without a row given before, nothing is given twice. *)
LEMMA NoRepeats ==
  ASSUME TypeOK, Repeats = {}, NEW S \in SUBSET Rows, Give(S), \A r \in S : ~ (shown[r] > 0)
  PROVE  Repeats' = {}
<1>1. \A r \in Rows : shown[r] \in Nat /\ shown'[r] \in Nat
      BY GiveEffect, PagingAssumption DEF TypeOK, ShownCap
<1>2. \A r \in S : shown'[r] <= 1
      BY <1>1, GiveEffect
<1>3. \A x \in Rows \X (2..ShownCap) : ~ (shown'[x[1]] >= x[2])
  <2>1. SUFFICES ASSUME NEW r \in Rows, NEW k \in 2..ShownCap
                 PROVE  ~ (shown'[r] >= k)
        OBVIOUS
  <2>2. k \in Nat /\ k >= 2
        BY PagingAssumption DEF ShownCap
  <2>3. ~ (shown[r] >= k)
    <3>1. <<r, k>> \in Rows \X (2..ShownCap)
          OBVIOUS
    <3> QED
        BY <3>1 DEF Repeats
  <2> QED
      BY <1>1, <1>2, <2>2, <2>3, GiveEffect
<1> QED
    BY <1>3 DEF Repeats, ShownCap

(* Parts of a list are finite. *)
LEMMA PartsFinite ==
  ASSUME NEW L \in SUBSET Rows, NEW K \in SUBSET Rows, NEW sh, NEW k
  PROVE  /\ Beyond(L, sh, k) \in SUBSET Rows /\ LostUpTo(L, K, sh, k) \in SUBSET Rows
         /\ LostBeyond(L, K, sh, k) \in SUBSET Rows
         /\ IsFiniteSet(Beyond(L, sh, k)) /\ Cardinality(Beyond(L, sh, k)) \in Nat
         /\ IsFiniteSet(LostUpTo(L, K, sh, k)) /\ Cardinality(LostUpTo(L, K, sh, k)) \in Nat
         /\ IsFiniteSet(LostBeyond(L, K, sh, k)) /\ Cardinality(LostBeyond(L, K, sh, k)) \in Nat
<1>1. /\ Beyond(L, sh, k) \in SUBSET Rows /\ LostUpTo(L, K, sh, k) \in SUBSET Rows
      /\ LostBeyond(L, K, sh, k) \in SUBSET Rows
      BY DEF Beyond, LostUpTo, LostBeyond
<1> QED
    BY <1>1, RowsFinite

-----------------------------------------------------------------------------
(* The reader that goes forward. *)

LEMMA NextFetch ==
  ASSUME TInv, NextInv, FetchNext
  PROVE  NextInv'
<1> DEFINE k == Offset(at)
           W == Window(listed, k)
           D == {r \in W : shown[r] > 0}
           B == Beyond(listed, shown, k)
           C == Beyond(listed, shown', k + PageSize)
           M == LostUpTo(listed, kept, shown, k)
<1>0. TypeOK /\ at \in Nat /\ at >= 1 /\ PageSize \in Nat \ {0}
      BY PagingAssumption DEF TInv, WalkInv, TypeOK, FetchNext
<1>1. /\ k \in Nat /\ k + PageSize \in Nat
      /\ Page(at) = W /\ Offset(at + 1) = k + PageSize
      BY <1>0, OffsetIs
<1>2. /\ reader = "next" /\ walk = "reading"
      /\ Give(W)
      /\ UNCHANGED <<reader, id, listed, kept, added, dropped>>
      BY <1>1 DEF FetchNext
<1>3. listed \in SUBSET Rows /\ kept \in SUBSET listed /\ kept \in SUBSET Rows
      BY <1>0 DEF TypeOK
<1>4. \A r \in listed : Pos(listed, r) \in Nat
      BY <1>3, PosType
<1>5. W = {r \in listed : k < Pos(listed, r) /\ Pos(listed, r) <= k + PageSize}
      BY <1>1, <1>3, WindowIs
<1>6. W \in SUBSET Rows /\ W \in SUBSET listed
      BY <1>3, <1>5
<1>7. \A r \in Rows : /\ r \in W => shown'[r] > 0
                      /\ r \notin W => shown'[r] = shown[r]
                      /\ shown[r] > 0 => shown'[r] > 0
      BY <1>0, <1>2, <1>6, GiveEffect
<1>8. \A r \in Rows : shown'[r] \in Nat /\ (shown'[r] > 0 => shown'[r] # 0)
      BY <1>0, <1>2, <1>6, GiveEffect, PagingAssumption DEF ShownCap
<1>9. /\ Cardinality(Repeats) + Cardinality(B) <= added
      /\ Cardinality(M) <= dropped
      /\ dropped = 0 => k <= Cardinality(listed)
      BY <1>2 DEF NextInv
<1>10. Cardinality(Repeats') + Cardinality(C) <= added /\ Cardinality(Repeats') <= added
  <2>1. D \union C = B
    <3>1. \A r \in listed : r \in C <=> shown[r] > 0 /\ Pos(listed, r) > k + PageSize
      <4> TAKE r \in listed
      <4>1. r \in C <=> shown'[r] > 0 /\ Pos(listed, r) > k + PageSize
            BY DEF Beyond
      <4>2. r \in W => ~ (Pos(listed, r) > k + PageSize)
            BY <1>1, <1>4, <1>5
      <4>3. r \notin W => shown'[r] = shown[r]
            BY <1>3, <1>7
      <4> HIDE DEF C, W, k
      <4> QED
          BY <4>1, <4>2, <4>3
    <3>2. C \in SUBSET listed /\ D \in SUBSET listed /\ B \in SUBSET listed
          BY <1>6 DEF Beyond
    <3>3. \A r \in listed : r \in D <=> /\ shown[r] > 0
                                        /\ k < Pos(listed, r) /\ Pos(listed, r) <= k + PageSize
          BY <1>5
    <3>4. \A r \in listed : r \in B <=> shown[r] > 0 /\ Pos(listed, r) > k
          BY DEF Beyond
    <3> HIDE DEF B, C, D, k
    <3> QED
        BY <1>0, <1>1, <1>4, <3>1, <3>2, <3>3, <3>4
  <2>2. D \intersect C = {}
        BY <1>0, <1>1, <1>4, <1>5 DEF Beyond
  <2>3. D \in SUBSET Rows /\ C \in SUBSET Rows
        BY <1>3, <1>6 DEF Beyond
  <2>4. /\ IsFiniteSet(D) /\ Cardinality(D) \in Nat
        /\ IsFiniteSet(C) /\ Cardinality(C) \in Nat
        BY <2>3, RowsFinite
  <2>5. Cardinality(D \intersect C) = 0
        BY <2>2, FS_EmptySet
  <2>6. Cardinality(D \union C) = Cardinality(D) + Cardinality(C) - Cardinality(D \intersect C)
    <3> HIDE DEF D, C
    <3> QED
        BY <2>4, FS_Union
  <2>7. Cardinality(Repeats') <= Cardinality(Repeats) + Cardinality(D)
        BY <1>0, <1>2, <1>6, RepeatsGrow
  <2>8. Cardinality(Repeats) \in Nat /\ Cardinality(Repeats') \in Nat /\ added \in Nat
    <3>1. (IsFiniteSet(Repeats) /\ Cardinality(Repeats) \in Nat)'
          BY RepeatsFinite, PTL
    <3> QED
        BY <1>0, <3>1, RepeatsFinite, PagingAssumption DEF TypeOK
  <2> HIDE DEF D, C, B
  <2> QED
      BY <1>9, <2>1, <2>4, <2>5, <2>6, <2>7, <2>8
<1>11. ASSUME NEW K \in SUBSET kept, \A r \in K : shown'[r] = 0 /\ Pos(listed, r) <= k + PageSize
       PROVE  Cardinality(K) <= dropped
  <2>1. ASSUME NEW r \in K
        PROVE  r \in M
    <3>1. r \in kept /\ r \in listed /\ r \in Rows /\ Pos(listed, r) <= k + PageSize
          BY <1>3, <1>11
    <3>2. r \notin W
          BY <1>7, <1>8, <1>11, <3>1
    <3>3. shown[r] = 0
          BY <1>7, <1>11, <3>1, <3>2
    <3>4. Pos(listed, r) <= k
          BY <1>1, <1>4, <1>5, <3>1, <3>2
    <3> QED
        BY <3>1, <3>3, <3>4 DEF LostUpTo
  <2>2. IsFiniteSet(M) /\ Cardinality(M) \in Nat
        BY <1>3, PartsFinite
  <2>3. IsFiniteSet(K) /\ Cardinality(K) \in Nat
        BY <1>3, RowsFinite
  <2>4. Cardinality(K) <= Cardinality(M)
    <3> HIDE DEF M
    <3> QED
        BY <2>1, <2>2, FS_Subset
  <2>5. dropped \in Nat
        BY <1>0, PagingAssumption DEF TypeOK
  <2> HIDE DEF M
  <2> QED
      BY <1>9, <2>2, <2>3, <2>4, <2>5
<1>12. Cardinality(listed) \in Nat
       BY <1>3, RowsFinite
<1>13. CASE HasNext(at)
  <2>1. at' = at + 1 /\ walk' = "reading"
        BY <1>2, <1>13 DEF FetchNext, Follow
  <2>2. k + PageSize <= Cardinality(listed)
        BY <1>1, <1>3, <1>13, WindowSize DEF HasNext
  <2>3. Cardinality(LostUpTo(listed, kept, shown', k + PageSize)) <= dropped
        BY <1>11 DEF LostUpTo
  <2>4. Offset(at') = k + PageSize
        BY <1>1, <2>1
  <2> HIDE DEF k
  <2> QED
      BY <1>2, <1>10, <2>1, <2>2, <2>3, <2>4 DEF NextInv
<1>14. CASE ~ HasNext(at)
  <2>1. at' = at /\ walk' = "done"
        BY <1>2, <1>14 DEF FetchNext, Follow
  <2>2. Cardinality(listed) < k + PageSize
    <3>1. Cardinality(W) \in Nat
          BY <1>6, RowsFinite
    <3>2. Cardinality(W) < PageSize
          BY <1>0, <1>1, <1>14, <3>1 DEF HasNext
    <3> QED
        BY <1>1, <1>3, <3>2, WindowSize
  <2>3. \A r \in listed : Pos(listed, r) <= k + PageSize
        BY <1>1, <1>3, <1>4, <1>12, <2>2, PosType
  <2>4. Cardinality(Missed') <= dropped
        BY <1>2, <1>3, <1>11, <2>3 DEF Missed
  <2>5. dropped = 0 => at = LastPage
        BY <1>0, <1>1, <1>9, <2>2, LastPageType
  <2>6. LastPage' = LastPage
        BY <1>2 DEF LastPage
  <2> QED
      BY <1>2, <1>10, <2>1, <2>4, <2>5, <2>6 DEF NextInv
<1> QED
    BY <1>13, <1>14

LEMMA ShownType ==
  ASSUME TypeOK
  PROVE  /\ \A r \in Rows : shown[r] \in Nat
         /\ listed \in SUBSET Rows /\ kept \in SUBSET Rows /\ kept \in SUBSET listed
         /\ added \in Nat /\ dropped \in Nat /\ at \in Nat
         /\ Cardinality(listed) \in Nat
<1>1. listed \in SUBSET Rows /\ kept \in SUBSET listed
      BY DEF TypeOK
<1> QED
    BY <1>1, RowsFinite, PagingAssumption DEF TypeOK, ShownCap

(* What a row that comes does to the places of the others. *)
LEMMA ComesShifts ==
  ASSUME TInv, NEW r \in Rows, Comes(r), reader # "cursor", NEW k \in Nat
  PROVE  /\ Cardinality(Beyond(listed', shown, k)) <= Cardinality(Beyond(listed, shown, k)) + 1
         /\ UpTo(listed', shown, k) \in SUBSET UpTo(listed, shown, k)
         /\ LostUpTo(listed', kept, shown, k) \in SUBSET LostUpTo(listed, kept, shown, k)
         /\ Cardinality(LostBeyond(listed', kept, shown, k))
               <= Cardinality(LostBeyond(listed, kept, shown, k)) + 1
<1>0. TypeOK
      BY DEF TInv
<1>1. listed' = listed \union {r} /\ r \notin listed /\ ~ (shown[r] > 0)
  <2>1. ~ (0 > 0)
        OBVIOUS
  <2> QED
      BY <2>1 DEF Comes
<1>2. /\ listed \in SUBSET Rows /\ listed' \in SUBSET Rows
      /\ kept \in SUBSET listed /\ kept \in SUBSET Rows
      BY <1>0, <1>1, ShownType
<1>3. \A y \in listed : /\ Pos(listed', y) \in {Pos(listed, y), Pos(listed, y) + 1}
                        /\ Pos(listed, y) \in Nat /\ Pos(listed', y) \in Nat
      BY <1>1, <1>2, InsertShifts, PosType
<1>4. ASSUME NEW y \in listed
      PROVE  /\ Pos(listed', y) > k => Pos(listed, y) > k \/ Pos(listed, y) = k
             /\ Pos(listed', y) <= k => Pos(listed, y) <= k
      BY <1>3
<1>5. \A y \in Beyond(listed', shown, k) :
            y \in Beyond(listed, shown, k) \/ (y \in listed /\ Pos(listed, y) = k)
      BY <1>1, <1>4 DEF Beyond
<1>6. UpTo(listed', shown, k) \in SUBSET UpTo(listed, shown, k)
      BY <1>1, <1>4 DEF UpTo
<1>7. LostUpTo(listed', kept, shown, k) \in SUBSET LostUpTo(listed, kept, shown, k)
      BY <1>2, <1>4 DEF LostUpTo
<1>8. \A y \in LostBeyond(listed', kept, shown, k) :
            y \in LostBeyond(listed, kept, shown, k) \/ (y \in listed /\ Pos(listed, y) = k)
      BY <1>2, <1>4 DEF LostBeyond
<1>9. /\ Beyond(listed', shown, k) \in SUBSET Rows
      /\ Beyond(listed, shown, k) \in SUBSET Rows
      /\ LostBeyond(listed', kept, shown, k) \in SUBSET Rows
      /\ LostBeyond(listed, kept, shown, k) \in SUBSET Rows
      BY <1>2, PartsFinite
<1>10. Cardinality(Beyond(listed', shown, k)) <= Cardinality(Beyond(listed, shown, k)) + 1
       BY <1>2, <1>5, <1>9, OneAtPlace
<1>11. Cardinality(LostBeyond(listed', kept, shown, k))
            <= Cardinality(LostBeyond(listed, kept, shown, k)) + 1
       BY <1>2, <1>8, <1>9, OneAtPlace
<1> QED
    BY <1>6, <1>7, <1>10, <1>11

LEMMA NextComes ==
  ASSUME TInv, NextInv, NEW r \in Rows, Comes(r)
  PROVE  NextInv'
<1> SUFFICES ASSUME reader = "next", walk = "reading"
             PROVE  NextInv'
    BY DEF NextInv, Comes
<1> DEFINE k == Offset(at)
           B == Beyond(listed, shown, k)
           C == Beyond(listed', shown, k)
           M == LostUpTo(listed, kept, shown, k)
           K == LostUpTo(listed', kept, shown, k)
<1>0. TypeOK /\ at \in Nat /\ at >= 1
      BY DEF TInv, WalkInv, TypeOK
<1>1. k \in Nat /\ added \in Nat /\ dropped \in Nat
      BY <1>0, OffsetIs, ShownType
<1>2. /\ UNCHANGED <<reader, walk, at, shown, kept, dropped>> /\ added' = added + 1
      /\ listed' = listed \union {r} /\ r \notin listed
      BY DEF Comes
<1>3. listed \in SUBSET Rows /\ listed' \in SUBSET Rows /\ kept \in SUBSET Rows
      BY <1>0, <1>2, ShownType
<1>4. Cardinality(C) <= Cardinality(B) + 1 /\ K \in SUBSET M
      BY <1>1, ComesShifts
<1>5. /\ Cardinality(B) \in Nat /\ Cardinality(C) \in Nat /\ IsFiniteSet(M)
      /\ Cardinality(M) \in Nat /\ Cardinality(K) \in Nat
      BY <1>3, PartsFinite
<1>6. Cardinality(K) <= Cardinality(M)
  <2> HIDE DEF K, M
  <2> QED
      BY <1>4, <1>5, FS_Subset
<1>7. Cardinality(listed) \in Nat /\ Cardinality(listed') = Cardinality(listed) + 1
      BY <1>2, <1>3, RowsFinite, FS_AddElement
<1>8. Repeats' = Repeats /\ Cardinality(Repeats) \in Nat
      BY <1>2, RepeatsFinite DEF Repeats, ShownCap
<1>9. /\ Cardinality(Repeats) + Cardinality(B) <= added
      /\ Cardinality(M) <= dropped
      /\ dropped = 0 => k <= Cardinality(listed)
      BY DEF NextInv
<1>10. /\ Cardinality(Repeats) + Cardinality(C) <= added + 1
       /\ Cardinality(K) <= dropped
       /\ dropped = 0 => k <= Cardinality(listed')
  <2> HIDE DEF k, B, C, K, M
  <2> QED
      BY <1>1, <1>4, <1>5, <1>6, <1>7, <1>8, <1>9
<1> QED
    BY <1>2, <1>8, <1>10 DEF NextInv, Offset

LEMMA NextLeaves ==
  ASSUME TInv, NextInv, NEW r \in Rows, Leave(r)
  PROVE  NextInv'
<1> SUFFICES ASSUME reader = "next"
             PROVE  NextInv'
    BY DEF NextInv, Leave
<1> DEFINE k == Offset(at)
           L == listed \ {r}
           B == Beyond(listed, shown, k)
           C == Beyond(L, shown, k)
           M == LostUpTo(listed, kept, shown, k)
           K == LostUpTo(L, kept \ {r}, shown, k)
<1>0. TypeOK /\ at \in Nat /\ at >= 1
      BY DEF TInv, WalkInv, TypeOK, Leave
<1>1. k \in Nat /\ added \in Nat /\ dropped \in Nat
      BY <1>0, OffsetIs, ShownType
<1>2. /\ walk = "reading" /\ UNCHANGED <<reader, walk, at, shown, added>> /\ dropped' = dropped + 1
      /\ listed' = L /\ kept' = kept \ {r} /\ r \in listed
      BY DEF Leave
<1>3. /\ listed \in SUBSET Rows /\ L \in SUBSET Rows /\ L \union {r} = listed
      /\ kept \in SUBSET Rows /\ kept \ {r} \in SUBSET L /\ kept \ {r} \in SUBSET Rows
      BY <1>0, <1>2, ShownType
<1>4. ASSUME NEW y \in L
      PROVE  /\ Pos(listed, y) \in {Pos(L, y), Pos(L, y) + 1}
             /\ Pos(listed, y) \in Nat /\ Pos(L, y) \in Nat
  <2>1. y \in listed /\ r \in Rows \ L
        BY <1>4
  <2>2. Pos(L \union {r}, y) \in {Pos(L, y), Pos(L, y) + 1}
        BY <1>3, <1>4, <2>1, InsertShifts
  <2> QED
      BY <1>3, <1>4, <2>1, <2>2, PosType
<1>5. \A y \in L : /\ Pos(L, y) > k => Pos(listed, y) > k
                   /\ Pos(L, y) <= k => Pos(listed, y) <= k \/ Pos(listed, y) = k + 1
      BY <1>1, <1>4
<1>6. C \in SUBSET B
      BY <1>5 DEF Beyond
<1>7. \A y \in K : y \in M \/ (y \in listed /\ Pos(listed, y) = k + 1)
      BY <1>3, <1>5 DEF LostUpTo
<1>8. /\ IsFiniteSet(B) /\ Cardinality(B) \in Nat /\ Cardinality(C) \in Nat
      /\ K \in SUBSET Rows /\ M \in SUBSET Rows
      /\ Cardinality(M) \in Nat /\ Cardinality(K) \in Nat
      BY <1>3, PartsFinite
<1> HIDE DEF B, C, K, M, L, k
<1>9. Cardinality(C) <= Cardinality(B)
      BY <1>6, <1>8, FS_Subset
<1>10. Cardinality(K) <= Cardinality(M) + 1
       BY <1>3, <1>7, <1>8, OneAtPlace
<1>11. Repeats' = Repeats /\ Cardinality(Repeats) \in Nat
       BY <1>2, RepeatsFinite DEF Repeats, ShownCap
<1>12. /\ Cardinality(Repeats) + Cardinality(B) <= added
       /\ Cardinality(M) <= dropped
       BY <1>2 DEF NextInv, B, M, k
<1>13. /\ Cardinality(Repeats) + Cardinality(C) <= added
       /\ Cardinality(K) <= dropped + 1 /\ dropped + 1 # 0
       BY <1>1, <1>8, <1>9, <1>10, <1>11, <1>12
<1> QED
    BY <1>2, <1>11, <1>13 DEF NextInv, Offset, C, K, k

(* Before the walk nothing was given. *)
LEMMA NothingGiven ==
  ASSUME TInv, walk = "before"
  PROVE  /\ \A r \in Rows : shown[r] = 0 /\ ~ (shown[r] > 0)
         /\ Repeats = {} /\ Cardinality(Repeats) = 0
<1>1. \A r \in Rows : shown[r] = 0 /\ ~ (shown[r] > 0)
      BY DEF TInv, WalkInv
<1>2. Repeats = {}
  <2>1. \A n \in 2..ShownCap : ~ (0 >= n)
        BY PagingAssumption DEF ShownCap
  <2> QED
      BY <1>1, <2>1 DEF Repeats
<1> QED
    BY <1>1, <1>2, FS_EmptySet

LEMMA NextStarts ==
  ASSUME TInv, Start
  PROVE  NextInv'
<1> SUFFICES ASSUME reader = "next"
             PROVE  NextInv'
    BY DEF NextInv, Start
<1>0. /\ TypeOK /\ walk = "before" /\ walk' = "reading" /\ at' = 1 /\ kept' = listed
      /\ UNCHANGED <<reader, id, listed, shown, added, dropped>>
      BY DEF TInv, Start
<1>1. /\ \A r \in Rows : shown[r] = 0 /\ ~ (shown[r] > 0)
      /\ Repeats = {} /\ Cardinality(Repeats) = 0
      BY <1>0, NothingGiven
<1>2. listed \in SUBSET Rows /\ Cardinality(listed) \in Nat /\ added \in Nat /\ dropped \in Nat
      BY <1>0, ShownType
<1>3. Offset(1) = 0
      BY PagingAssumption DEF Offset
<1>4. Beyond(listed, shown, 0) = {}
      BY <1>1, <1>2 DEF Beyond
<1>5. LostUpTo(listed, listed, shown, 0) = {}
  <2>1. \A r \in listed : ~ (Pos(listed, r) <= 0)
        BY <1>2, PosType
  <2> QED
      BY <2>1 DEF LostUpTo
<1>6. Repeats' = Repeats
      BY <1>0 DEF Repeats, ShownCap
<1> QED
    BY <1>0, <1>1, <1>2, <1>3, <1>4, <1>5, <1>6, FS_EmptySet DEF NextInv

LEMMA NextStep == TInv /\ NextInv /\ [Next]_vars => NextInv'
<1> SUFFICES ASSUME TInv, NextInv, [Next]_vars
             PROVE  NextInv'
    OBVIOUS
<1>1. CASE FetchPrev \/ FetchCursor
      BY <1>1 DEF FetchPrev, FetchCursor, NextInv
<1>2. CASE UNCHANGED vars
      BY <1>2 DEF vars, NextInv, Repeats, Missed, LastPage, ShownCap
<1>3. ASSUME NEW r \in Rows, Arrive(r) \/ Return(r)
      PROVE  NextInv'
      BY <1>3, EnterComes, NextComes
<1> QED
    BY <1>1, <1>2, <1>3, NextFetch, NextLeaves, NextStarts DEF Next
-----------------------------------------------------------------------------
(* The reader that goes back. *)

LEMMA PrevFetch ==
  ASSUME TInv, PrevInv, FetchPrev
  PROVE  PrevInv'
<1> DEFINE k == Offset(at)
           W == Window(listed, k)
           M == LostBeyond(listed, kept, shown, k + PageSize)
<1>0. TypeOK /\ at \in Nat /\ at >= 1 /\ PageSize \in Nat \ {0}
      BY PagingAssumption DEF TInv, WalkInv, TypeOK, FetchPrev
<1>1. /\ k \in Nat /\ k + PageSize \in Nat
      /\ Page(at) = W /\ Offset(at + 1) = k + PageSize
      BY <1>0, OffsetIs
<1>2. /\ reader = "prev" /\ walk = "reading"
      /\ Give(W)
      /\ UNCHANGED <<reader, id, listed, kept, added, dropped>>
      BY <1>1 DEF FetchPrev
<1>3. listed \in SUBSET Rows /\ kept \in SUBSET listed /\ kept \in SUBSET Rows
      BY <1>0 DEF TypeOK
<1>4. \A r \in listed : Pos(listed, r) \in Nat /\ Pos(listed, r) >= 1
      BY <1>3, PosType
<1>5. W = {r \in listed : k < Pos(listed, r) /\ Pos(listed, r) <= k + PageSize}
      BY <1>1, <1>3, WindowIs
<1>6. W \in SUBSET Rows /\ W \in SUBSET listed
      BY <1>3, <1>5
<1>7. \A r \in Rows : /\ r \in W => shown'[r] > 0
                      /\ r \notin W => shown'[r] = shown[r]
                      /\ shown'[r] \in Nat /\ shown[r] \in Nat
  <2>1. ShownCap \in Nat
        BY PagingAssumption DEF ShownCap
  <2> QED
      BY <1>0, <1>2, <1>6, <2>1, GiveEffect DEF TypeOK
<1>8. /\ dropped = 0 /\ Repeats = {}
      /\ UpTo(listed, shown, k + PageSize) = {}
      /\ Cardinality(M) <= added
      BY <1>1, <1>2 DEF PrevInv
<1>9. Repeats' = {}
  <2>1. \A r \in W : ~ (shown[r] > 0)
        BY <1>5, <1>8 DEF UpTo
  <2> QED
      BY <1>0, <1>2, <1>6, <1>8, <2>1, NoRepeats
<1>10. ASSUME NEW r \in listed, Pos(listed, r) <= k
       PROVE  ~ (shown'[r] > 0)
  <2>1. r \notin W /\ Pos(listed, r) <= k + PageSize
        BY <1>0, <1>1, <1>4, <1>5, <1>10
  <2>2. ~ (shown[r] > 0)
        BY <1>8, <2>1 DEF UpTo
  <2> QED
      BY <1>3, <1>7, <2>1, <2>2
<1>11. ASSUME NEW K \in SUBSET kept, \A r \in K : shown'[r] = 0 /\ Pos(listed, r) > k
       PROVE  Cardinality(K) <= added
  <2>1. ASSUME NEW r \in K
        PROVE  r \in M
    <3>1. r \in kept /\ r \in listed /\ r \in Rows /\ Pos(listed, r) > k
          BY <1>3, <1>11
    <3>2. r \notin W
          BY <1>7, <1>11, <3>1
    <3>3. shown[r] = 0
          BY <1>7, <1>11, <3>1, <3>2
    <3>4. Pos(listed, r) > k + PageSize
          BY <1>1, <1>4, <1>5, <3>1, <3>2
    <3> QED
        BY <3>1, <3>3, <3>4 DEF LostBeyond
  <2>2. IsFiniteSet(M) /\ Cardinality(M) \in Nat
        BY <1>3, PartsFinite
  <2>3. IsFiniteSet(K) /\ Cardinality(K) \in Nat
        BY <1>3, RowsFinite
  <2>4. Cardinality(K) <= Cardinality(M)
    <3> HIDE DEF M
    <3> QED
        BY <2>1, <2>2, FS_Subset
  <2>5. added \in Nat
        BY <1>0, ShownType
  <2> HIDE DEF M
  <2> QED
      BY <1>8, <2>2, <2>3, <2>4, <2>5
<1>12. CASE at > 1
  <2>1. at' = at - 1 /\ walk' = "reading" /\ at' + 1 = at
        BY <1>0, <1>2, <1>12 DEF FetchPrev, Follow
  <2>2. Offset(at' + 1) = k
        BY <2>1
  <2>3. UpTo(listed, shown', k) = {}
        BY <1>10 DEF UpTo
  <2>4. Cardinality(LostBeyond(listed, kept, shown', k)) <= added
        BY <1>11 DEF LostBeyond
  <2>5. Offset(at + 1)' = k
        BY <2>1 DEF Offset
  <2> HIDE DEF k
  <2> QED
      BY <1>2, <1>8, <1>9, <2>1, <2>3, <2>4, <2>5 DEF PrevInv
<1>13. CASE ~ (at > 1)
  <2>1. walk' = "done"
        BY <1>2, <1>13 DEF FetchPrev, Follow
  <2>2. k = 0
        BY <1>0, <1>13, at = 1 DEF Offset
  <2>3. \A r \in kept : Pos(listed, r) > k
        BY <1>3, <1>4, <2>2
  <2>4. Cardinality(Missed') <= added
        BY <1>2, <1>11, <2>3 DEF Missed
  <2> QED
      BY <1>2, <1>8, <1>9, <2>1, <2>4 DEF PrevInv
<1> QED
    BY <1>12, <1>13

LEMMA PrevComes ==
  ASSUME TInv, PrevInv, NEW r \in Rows, Comes(r)
  PROVE  PrevInv'
<1> SUFFICES ASSUME reader = "prev"
             PROVE  PrevInv'
    BY DEF PrevInv, Comes
<1>0. TypeOK /\ at \in Nat
      BY DEF TInv, TypeOK
<1>1. UNCHANGED <<reader, walk, at, shown, kept, dropped>> /\ walk # "done"
      BY DEF Comes
<1>2. dropped' = 0 /\ Repeats' = {}
      BY <1>1 DEF PrevInv, Repeats, ShownCap
<1>3. CASE walk # "reading"
      BY <1>1, <1>2, <1>3 DEF PrevInv
<1>4. CASE walk = "reading"
  <2> DEFINE k == Offset(at + 1)
             M == LostBeyond(listed, kept, shown, k)
             K == LostBeyond(listed', kept, shown, k)
  <2>1. k \in Nat /\ added \in Nat /\ added' = added + 1
    <3>1. at >= 1
          BY <1>4 DEF TInv, WalkInv
    <3> QED
        BY <1>0, <1>4, <3>1, OffsetIs, ShownType DEF Comes
  <2>2. /\ UpTo(listed', shown, k) \in SUBSET UpTo(listed, shown, k)
        /\ Cardinality(K) <= Cardinality(M) + 1
        BY <2>1, ComesShifts
  <2>3. UpTo(listed, shown, k) = {} /\ Cardinality(M) <= added
        BY <1>4 DEF PrevInv
  <2>4. Cardinality(K) \in Nat /\ Cardinality(M) \in Nat
    <3>1. listed \in SUBSET Rows /\ listed' \in SUBSET Rows /\ kept \in SUBSET Rows
          BY <1>0, ShownType DEF Comes
    <3> QED
        BY <3>1, PartsFinite
  <2>5. Cardinality(K) <= added + 1 /\ UpTo(listed', shown, k) = {}
    <3> HIDE DEF K, M, k
    <3> QED
        BY <2>1, <2>2, <2>3, <2>4
  <2> QED
      BY <1>1, <1>2, <1>4, <2>1, <2>5 DEF PrevInv, Offset
<1> QED
    BY <1>3, <1>4

LEMMA PrevStarts ==
  ASSUME TInv, PrevInv, Start
  PROVE  PrevInv'
<1> SUFFICES ASSUME reader = "prev"
             PROVE  PrevInv'
    BY DEF PrevInv, Start
<1>0. /\ TypeOK /\ walk = "before" /\ walk' = "reading" /\ at' = LastPage /\ kept' = listed
      /\ UNCHANGED <<reader, id, listed, shown, added, dropped>>
      BY DEF TInv, Start
<1>1. \A r \in Rows : shown[r] = 0 /\ ~ (shown[r] > 0)
      BY <1>0, NothingGiven
<1>2. listed \in SUBSET Rows /\ Cardinality(listed) \in Nat /\ added \in Nat
      BY <1>0, ShownType
<1> DEFINE k == Offset(LastPage + 1)
<1>3. k \in Nat /\ Cardinality(listed) < k
      BY <1>0, LastPageType, OffsetIs
<1>4. UpTo(listed, shown, k) = {}
      BY <1>1, <1>2 DEF UpTo
<1>5. LostBeyond(listed, listed, shown, k) = {}
  <2>1. \A r \in listed : ~ (Pos(listed, r) > k)
        BY <1>2, <1>3, PosType
  <2> QED
      BY <2>1 DEF LostBeyond
<1>6. Repeats' = Repeats
      BY <1>0 DEF Repeats, ShownCap
<1>7. Offset(at + 1)' = k
      BY <1>0 DEF Offset
<1>8. Cardinality(LostBeyond(listed, listed, shown, k)) <= added
  <2>1. Cardinality(LostBeyond(listed, listed, shown, k)) = 0
        BY <1>5, FS_EmptySet
  <2> HIDE DEF k
  <2> QED
      BY <1>2, <2>1
<1> HIDE DEF k
<1> QED
    BY <1>0, <1>4, <1>6, <1>7, <1>8 DEF PrevInv

LEMMA PrevStep == TInv /\ PrevInv /\ [Next]_vars => PrevInv'
<1> SUFFICES ASSUME TInv, PrevInv, [Next]_vars
             PROVE  PrevInv'
    OBVIOUS
<1>1. CASE FetchNext \/ FetchCursor
      BY <1>1 DEF FetchNext, FetchCursor, PrevInv
<1>2. CASE UNCHANGED vars
      BY <1>2 DEF vars, PrevInv, Repeats, Missed, ShownCap, Offset
<1>3. ASSUME NEW r \in Rows, Arrive(r) \/ Return(r)
      PROVE  PrevInv'
      BY <1>3, EnterComes, PrevComes
<1>4. ASSUME NEW r \in Rows, Leave(r)
      PROVE  PrevInv'
      BY <1>4 DEF Leave, PrevInv
<1> QED
    BY <1>1, <1>2, <1>3, <1>4, PrevFetch, PrevStarts DEF Next
-----------------------------------------------------------------------------
(* The reader of the timeline. *)

LEMMA CursorTypes ==
  ASSUME TInv
  PROVE  /\ \A r \in Rows : r \in Nat /\ id[r] \in Nat /\ shown[r] \in Nat
         /\ \A r \in Rows : shown[r] > 0 => id[r] # 0
         /\ \A r, s \in Rows : id[r] # 0 /\ id[r] = id[s] => r = s
         /\ \A r \in listed : r \in Rows /\ id[r] # 0
         /\ \A r \in kept : r \in listed
         /\ at \in Nat /\ \A r \in Rows : (shown[r] > 0) <=> (shown[r] # 0)
<1>1. N \in Nat /\ ShownCap \in Nat
      BY PagingAssumption DEF ShownCap
<1>2. \A r \in Rows : r \in Nat /\ id[r] \in Nat /\ shown[r] \in Nat
      BY <1>1 DEF TInv, TypeOK, Rows
<1> QED
    BY <1>2 DEF TInv, TypeOK, IdInv

(* The rows of a first page stand before the others. *)
LEMMA FirstPage ==
  ASSUME NEW S \in SUBSET Rows
  PROVE  /\ \A r \in Window(S, 0), s \in S : s \notin Window(S, 0) => s < r
         /\ Window(S, 0) = {} => S = {}
<1>1. PageSize \in Nat \ {0}
      BY PagingAssumption
<1>2. Window(S, 0) = {r \in S : 0 < Pos(S, r) /\ Pos(S, r) <= 0 + PageSize}
      BY WindowIs
<1>3. \A r \in S : Pos(S, r) \in Nat /\ 1 <= Pos(S, r) /\ Pos(S, r) <= Cardinality(S)
      BY PosType
<1>4. ASSUME NEW r \in Window(S, 0), NEW s \in S, s \notin Window(S, 0)
      PROVE  s < r
  <2>1. r \in S /\ Pos(S, r) < Pos(S, s)
        BY <1>1, <1>2, <1>3, <1>4
  <2> QED
      BY <2>1, PosOrder
<1>5. ASSUME Window(S, 0) = {}, S # {}
      PROVE  FALSE
  <2>1. \A r \in S : Pos(S, r) > PageSize
        BY <1>1, <1>2, <1>3, <1>5
  <2>2. Cardinality(S) \in Nat
        BY RowsFinite
  <2>3. Top(S, PageSize) = {}
        BY <1>1, <1>3, <2>1 DEF Top
  <2>4. Cardinality(Top(S, PageSize)) = PageSize
        BY <1>1, <1>5, <2>3, TopSize
  <2> QED
      BY <1>1, <2>3, <2>4, FS_EmptySet
<1> QED
    BY <1>4, <1>5

LEMMA CursorFetch ==
  ASSUME TInv, CursorInv, FetchCursor
  PROVE  CursorInv'
<1> DEFINE O == Older(at)
           W == Window(O, 0)
           low == Min(W)
<1>0. TypeOK
      BY DEF TInv
<1>1. /\ reader = "cursor" /\ walk = "reading" /\ Give(W)
      /\ UNCHANGED <<reader, id, listed, kept, added, dropped>>
      BY DEF FetchCursor
<1>2. /\ \A r \in Rows : r \in Nat /\ id[r] \in Nat /\ shown[r] \in Nat
      /\ \A r \in Rows : shown[r] > 0 => id[r] # 0
      /\ \A r, s \in Rows : id[r] # 0 /\ id[r] = id[s] => r = s
      /\ \A r \in listed : r \in Rows /\ id[r] # 0
      /\ \A r \in kept : r \in listed
      /\ at \in Nat /\ \A r \in Rows : (shown[r] > 0) <=> (shown[r] # 0)
      BY CursorTypes
<1>3. O \in SUBSET Rows /\ O \in SUBSET listed /\ W \in SUBSET O /\ W \in SUBSET Rows
      BY <1>2 DEF Older, Window
<1>4. \A r \in listed : r \in O <=> (at = 0 \/ id[r] < at)
      BY DEF Older
<1>5. /\ \A r \in W, s \in O : s \notin W => s < r
      /\ W = {} => O = {}
      BY <1>3, FirstPage
<1>6. \A r \in Rows : /\ r \in W => shown'[r] > 0
                      /\ r \notin W => shown'[r] = shown[r]
                      /\ shown[r] > 0 => shown'[r] > 0
                      /\ shown'[r] <= shown[r] + 1
                      /\ shown'[r] \in Nat
  <2>1. ShownCap \in Nat
        BY PagingAssumption DEF ShownCap
  <2> QED
      BY <1>0, <1>1, <1>3, <2>1, GiveEffect
<1>7. /\ \A x \in kept : shown[x] = 0 => at = 0 \/ id[x] < at \/ Late(x)
      /\ \A x \in Rows : shown[x] > 0 => (at # 0 /\ id[x] >= at) \/ Early(x)
      /\ \A x \in Rows : shown[x] > 1 => Early(x)
      BY <1>1 DEF CursorInv, OnlyLateOnesRepeat, Early
<1>8. (\A x \in Rows : Late(x) => Late(x)') /\ (\A x \in Rows : Early(x) => Early(x)')
      BY <1>1, <1>6 DEF Late, Early
<1> HIDE DEF O, W, low
<1>9. \A x \in Rows : shown'[x] > 1 => Early(x)'
  <2>1. ASSUME NEW x \in Rows, shown'[x] > 1
        PROVE  Early(x)
    <3>1. CASE x \in W
      <4>1. shown[x] > 0
            BY <1>2, <1>6, <2>1
      <4>2. ~ (at # 0 /\ id[x] >= at)
            BY <1>2, <1>3, <1>4, <3>1
      <4> QED
          BY <1>7, <4>1, <4>2
    <3>2. CASE x \notin W
          BY <1>6, <1>7, <2>1, <3>2
    <3> QED
        BY <3>1, <3>2
  <2> QED
      BY <1>8, <2>1
<1>10. (OnlyLateOnesRepeat)'
       BY <1>9 DEF OnlyLateOnesRepeat, Early
<1>11. CASE W = {}
  <2>1. walk' = "done" /\ at' = at
        BY <1>11 DEF FetchCursor, Follow, W, O
  <2>2. ASSUME NEW x \in kept, shown'[x] = 0
        PROVE  Late(x)'
    <3>1. x \in Rows /\ x \in listed /\ x \notin O /\ shown[x] = 0
          BY <1>2, <1>5, <1>6, <1>11, <2>2
    <3>2. Late(x)
          BY <1>4, <1>7, <3>1, <2>2
    <3> QED
        BY <1>8, <3>1, <3>2
  <2>3. (OnlyLateOnesAreMissed)'
        BY <1>1, <2>2 DEF OnlyLateOnesAreMissed, Missed, Late
  <2> QED
      BY <1>10, <2>1, <2>3 DEF CursorInv
<1>12. CASE W # {}
  <2>1. low \in W /\ \A r \in W : low <= r
        BY <1>3, <1>12, MinIsLeast DEF low
  <2>2. walk' = "reading" /\ at' = id[low]
        BY <1>1, <1>12 DEF FetchCursor, Follow, W, O, low
  <2>3. low \in Rows /\ low \in listed /\ low \in O /\ id[low] # 0 /\ id[low] \in Nat /\ low \in Nat
        BY <1>2, <1>3, <2>1
  <2>4. shown'[low] > 0 /\ (at = 0 \/ id[low] < at)
        BY <1>4, <1>6, <2>1, <2>3
  <2>5. ASSUME NEW x \in kept, shown'[x] = 0
        PROVE  id[x] < id[low] \/ Late(x)'
    <3>1. x \in Rows /\ x \in listed /\ id[x] \in Nat /\ shown[x] = 0 /\ x \notin W
      <4>1. x \in Rows /\ x \in listed /\ id[x] \in Nat
            BY <1>2
      <4>2. x \notin W
            BY <1>6, <2>5, <4>1
      <4> QED
          BY <1>6, <2>5, <4>1, <4>2
    <3>2. CASE x \in O
      <4>1. x < low
            BY <1>5, <2>1, <3>1, <3>2
      <4>2. id[x] # id[low]
            BY <1>2, <2>3, <3>1, <4>1
      <4>3. id[low] < id[x] => Late(x)'
            BY <1>1, <2>3, <2>4, <4>1 DEF Late
      <4> QED
          BY <2>3, <3>1, <4>2, <4>3
    <3>3. CASE x \notin O
      <4>1. Late(x)
            BY <1>4, <1>7, <3>1, <3>3
      <4> QED
          BY <1>8, <3>1, <4>1
    <3> QED
        BY <3>2, <3>3
  <2>6. ASSUME NEW x \in Rows, shown'[x] > 0
        PROVE  id[x] >= id[low] \/ Early(x)'
    <3>1. CASE x \in W
      <4>1. low <= x /\ id[x] \in Nat /\ x \in Nat
            BY <1>2, <2>1, <3>1
      <4>2. CASE x = low
            BY <2>3, <4>2
      <4>3. CASE low < x
        <5>1. id[low] > id[x] => Early(x)'
              BY <1>1, <2>3, <2>4, <4>3 DEF Early
        <5> QED
            BY <2>3, <4>1, <5>1
      <4> QED
          BY <2>3, <4>1, <4>2, <4>3
    <3>2. CASE x \notin W
      <4>1. shown[x] > 0
            BY <1>6, <2>6, <3>2
      <4>2. CASE Early(x)
            BY <1>8, <4>2
      <4>3. CASE at # 0 /\ id[x] >= at
            BY <1>2, <2>3, <2>4, <4>3
      <4> QED
          BY <1>7, <4>1, <4>2, <4>3
    <3> QED
        BY <3>1, <3>2
  <2>7. (OnlyLateOnesAreMissed)'
        BY <2>2 DEF OnlyLateOnesAreMissed
  <2>8. \A x \in kept' : shown'[x] = 0 => at' = 0 \/ id'[x] < at' \/ Late(x)'
        BY <1>1, <2>2, <2>5
  <2>9. \A x \in Rows : shown'[x] > 0 => (at' # 0 /\ id'[x] >= at') \/ Early(x)'
        BY <1>1, <2>2, <2>3, <2>6
  <2> QED
      BY <1>10, <2>2, <2>7, <2>8, <2>9 DEF CursorInv
<1> QED
    BY <1>11, <1>12

(* Rows that come or leave have an id of their own, and the others keep    *)
(* theirs.                                                                 *)
LEMMA CursorKeeps ==
  ASSUME TInv, CursorInv, UNCHANGED <<reader, walk, at, shown>>,
         kept' \in SUBSET kept, \A s \in Rows : id[s] # 0 => id'[s] = id[s]
  PROVE  CursorInv'
<1> SUFFICES ASSUME reader = "cursor"
             PROVE  CursorInv'
    BY DEF CursorInv
<1>1. /\ \A r \in Rows : shown[r] > 0 => id'[r] = id[r]
      /\ \A r \in kept : r \in Rows /\ id'[r] = id[r]
      BY CursorTypes
<1>2. ASSUME NEW x \in kept, Late(x)
      PROVE  Late(x)'
      BY <1>1, <1>2 DEF Late
<1>3. ASSUME NEW x \in Rows, shown[x] > 0, Early(x)
      PROVE  Early(x)'
      BY <1>1, <1>3 DEF Early
<1>4. walk = "reading" =>
        /\ \A x \in kept : shown[x] = 0 => at = 0 \/ id[x] < at \/ Late(x)
        /\ \A x \in Rows : shown[x] > 0 => (at # 0 /\ id[x] >= at) \/ Early(x)
      BY DEF CursorInv
<1>5. walk' = "reading" =>
        /\ \A x \in kept' : shown'[x] = 0 => at' = 0 \/ id'[x] < at' \/ Late(x)'
        /\ \A x \in Rows : shown'[x] > 0 => (at' # 0 /\ id'[x] >= at') \/ Early(x)'
      BY <1>1, <1>2, <1>3, <1>4
<1>6. (OnlyLateOnesAreMissed)'
  <2>1. walk = "done" => \A x \in kept : shown[x] = 0 => Late(x)
        BY DEF CursorInv, OnlyLateOnesAreMissed, Missed, Late
  <2>2. walk = "done" => \A x \in kept' : shown[x] = 0 => Late(x)'
        BY <1>2, <2>1
  <2> QED
      BY <2>2 DEF OnlyLateOnesAreMissed, Missed, Late
<1>7. (OnlyLateOnesRepeat)'
  <2>1. \A x \in Rows : shown[x] > 1 => Early(x) /\ shown[x] > 0
    <3>1. \A x \in Rows : shown[x] \in Nat
          BY CursorTypes
    <3> QED
        BY <3>1 DEF CursorInv, OnlyLateOnesRepeat, Early
  <2>2. \A x \in Rows : shown[x] > 1 => Early(x)'
        BY <1>3, <2>1
  <2> QED
      BY <2>2 DEF OnlyLateOnesRepeat, Early
<1> QED
    BY <1>5, <1>6, <1>7 DEF CursorInv

LEMMA CursorStarts ==
  ASSUME TInv, Start
  PROVE  CursorInv'
<1> SUFFICES ASSUME reader = "cursor"
             PROVE  CursorInv'
    BY DEF CursorInv, Start
<1>1. /\ walk = "before" /\ walk' = "reading" /\ at' = 0 /\ UNCHANGED <<reader, id, shown>>
      BY DEF Start
<1>2. \A r \in Rows : shown[r] = 0 /\ ~ (shown[r] > 0) /\ ~ (shown[r] > 1)
  <2>1. ~ (0 > 1)
        OBVIOUS
  <2> QED
      BY <1>1, <2>1, NothingGiven
<1> QED
    BY <1>1, <1>2 DEF CursorInv, OnlyLateOnesAreMissed, OnlyLateOnesRepeat

LEMMA CursorStep == TInv /\ CursorInv /\ [Next]_vars => CursorInv'
<1> SUFFICES ASSUME TInv, CursorInv, [Next]_vars
             PROVE  CursorInv'
    OBVIOUS
<1>1. CASE FetchNext \/ FetchPrev
      BY <1>1 DEF FetchNext, FetchPrev, CursorInv, OnlyLateOnesAreMissed, OnlyLateOnesRepeat
<1>2. CASE UNCHANGED vars
      BY <1>2, CursorKeeps DEF vars
<1>3. ASSUME NEW r \in Rows, Arrive(r) \/ Return(r)
      PROVE  CursorInv'
  <2>1. Comes(r)
        BY <1>3, EnterComes
  <2> QED
      BY <2>1, CursorKeeps DEF Comes
<1>4. ASSUME NEW r \in Rows, Leave(r)
      PROVE  CursorInv'
      BY <1>4, CursorKeeps DEF Leave
<1> QED
    BY <1>1, <1>2, <1>3, <1>4, CursorFetch, CursorStarts DEF Next

-----------------------------------------------------------------------------
(* The theorems. *)

LEMMA PInvInit == Init => PInv
<1> SUFFICES ASSUME Init
             PROVE  PInv
    OBVIOUS
<1>1. TInv /\ walk = "before"
      BY TInvInit DEF Init
<1>2. /\ \A r \in Rows : shown[r] = 0 /\ ~ (shown[r] > 0) /\ ~ (shown[r] > 1)
      /\ Repeats = {} /\ Cardinality(Repeats) = 0
  <2>1. ~ (0 > 1)
        OBVIOUS
  <2> QED
      BY <1>1, <2>1, NothingGiven
<1>3. NextInv
      BY <1>1 DEF NextInv
<1>4. PrevInv
      BY <1>1, <1>2 DEF PrevInv, Init
<1>5. CursorInv
      BY <1>1, <1>2 DEF CursorInv, OnlyLateOnesAreMissed, OnlyLateOnesRepeat
<1> QED
    BY <1>1, <1>3, <1>4, <1>5 DEF PInv

LEMMA PInvHolds == Spec => []PInv
<1>1. PInv /\ [Next]_vars => PInv'
      BY TInvNext, NextStep, PrevStep, CursorStep DEF PInv
<1> QED
    BY PInvInit, <1>1, PTL DEF Spec

(* A cursor is NULL or a number, a page number is a number, a lasting row  *)
(* is listed, and the counts of changes keep their bounds.                 *)
THEOREM TypeCorrect == Spec => []TypeOK
<1>1. PInv => TypeOK
      BY DEF PInv, TInv
<1> QED
    BY PInvHolds, <1>1, PTL

(* However long the list and the page are: whoever pages forward misses    *)
(* at most one lasting row per row that left and gets at most one again    *)
(* per row that came; whoever pages backward the other way round.          *)
THEOREM SlipsSafe == Spec => []SlipsAreAccounted
<1>1. PInv => SlipsAreAccounted
  <2> SUFFICES ASSUME PInv
               PROVE  SlipsAreAccounted
      OBVIOUS
  <2>1. TypeOK /\ NextInv /\ PrevInv
        BY DEF PInv, TInv
  <2>2. added \in Nat /\ dropped \in Nat /\ Cardinality(Repeats) \in Nat
        BY <2>1, ShownType, RepeatsFinite
  <2>3. reader = "next" => Cardinality(Repeats) <= added
    <3> SUFFICES ASSUME reader = "next"
                 PROVE  Cardinality(Repeats) <= added
        OBVIOUS
    <3>1. CASE walk = "before"
      <4>1. Cardinality(Repeats) = 0
            BY <3>1, NothingGiven DEF PInv
      <4> QED
          BY <2>2, <4>1
    <3>2. CASE walk = "reading"
      <4>1. Cardinality(Beyond(listed, shown, Offset(at))) \in Nat
            BY <2>1, ShownType, PartsFinite
      <4> QED
          BY <2>1, <2>2, <3>2, <4>1 DEF NextInv
    <3>3. CASE walk = "done"
          BY <2>1, <3>3 DEF NextInv
    <3> QED
        BY <2>1, <3>1, <3>2, <3>3 DEF TypeOK
  <2>4. reader = "next" => (walk = "done" => Cardinality(Missed) <= dropped)
        BY <2>1 DEF NextInv
  <2>5. reader = "prev" => Cardinality(Repeats) <= dropped
    <3>1. reader = "prev" => Repeats = {} /\ dropped = 0
          BY <2>1 DEF PrevInv
    <3>2. reader = "prev" => Cardinality(Repeats) = 0
          BY <3>1, FS_EmptySet
    <3> QED
        BY <3>1, <3>2
  <2>6. reader = "prev" => (walk = "done" => Cardinality(Missed) <= added)
        BY <2>1 DEF PrevInv
  <2> QED
      BY <2>3, <2>4, <2>5, <2>6 DEF SlipsAreAccounted
<1> QED
    BY PInvHolds, <1>1, PTL

(* The reader that follows the links `next` ends at the page the summary   *)
(* calls `last`, whatever the division leaves and whatever came meanwhile. *)
THEOREM LastSafe == Spec => []NextEndsAtLast
<1>1. PInv => NextEndsAtLast
      BY DEF PInv, NextInv, NextEndsAtLast
<1> QED
    BY PInvHolds, <1>1, PTL

(* A walk of the timeline misses a lasting row only if it came after one   *)
(* that is dated later and that the reader was given.                      *)
THEOREM LateMissedSafe == Spec => []OnlyLateOnesAreMissed
<1>1. PInv => OnlyLateOnesAreMissed
      BY DEF PInv, CursorInv, OnlyLateOnesAreMissed
<1> QED
    BY PInvHolds, <1>1, PTL

(* And gives one twice only if one dated earlier came after it.            *)
THEOREM LateRepeatSafe == Spec => []OnlyLateOnesRepeat
<1>1. PInv => OnlyLateOnesRepeat
      BY DEF PInv, CursorInv, OnlyLateOnesRepeat
<1> QED
    BY PInvHolds, <1>1, PTL
=============================================================================
