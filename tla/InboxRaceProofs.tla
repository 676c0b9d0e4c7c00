--------------------------- MODULE InboxRaceProofs ---------------------------
(***************************************************************************)
(* Proofs about InboxRace for any number of backends, any finite set of    *)
(* senders and any Follow, Undo and Accept activities.                     *)
(***************************************************************************)
EXTENDS InboxRace, FiniteSetTheorems, TLAPS

LEMMA ReturnType ==
  ASSUME TypeOK, NEW c \in Calls, Return(c)
  PROVE  /\ pc'     \in [Calls -> Statements]
         /\ msg'    \in [Calls -> Messages \union {NoMessage}]
         /\ change' \in [Calls -> Changes]
  BY DEF TypeOK, Return, Statements, Changes

LEMMA GotoType ==
  ASSUME TypeOK, NEW c \in Calls, NEW s \in Statements, Goto(c, s)
  PROVE  /\ pc'     \in [Calls -> Statements]
         /\ msg'    \in [Calls -> Messages \union {NoMessage}]
         /\ change' \in [Calls -> Changes]
  BY DEF TypeOK, Goto

LEMMA HandleType ==
  ASSUME TypeOK, NEW c \in Calls, NEW x \in Changes, Handle(c, x)
  PROVE  TypeOK'
  BY DEF TypeOK, Handle, Statements, committed, admin, refresh

(* A call that has begun works on an activity. *)
LEMMA Working ==
  ASSUME TypeOK, WritersCommit, NEW c \in Calls, pc[c] # "idle"
  PROVE  msg[c] \in Messages
  BY DEF WritersCommit

(* An activity is about a row, and its two counters are rows as well. *)
LEMMA RowType ==
  ASSUME NEW m \in Messages
  PROVE  /\ Sender[m] \in Senders
         /\ Row(m) \in Rows
         /\ Row(m)[1] \in Directions
  BY RaceAssumption DEF Row, Rows, Directions

LEMMA CommitType ==
  ASSUME TypeOK, WritersCommit, NEW c \in Calls, Commit(c)
  PROVE  TypeOK'
<1>1. msg[c] \in Messages /\ Row(msg[c]) \in Rows
      BY Working, RowType DEF Commit
<1>2. log' \subseteq Messages
      BY <1>1 DEF Commit, TypeOK
<1>3. rows' \subseteq Rows
  <2>1. rows' \subseteq rows \union {Row(msg[c])}
        BY DEF Commit
  <2> QED
      BY <1>1, <2>1 DEF TypeOK
<1>4. count' \in [Directions -> Nat]
  <2> DEFINE d == Row(msg[c])[1]
  <2>1. d \in Directions
        BY <1>1, RowType
  <2>2. count[d] \in Nat
        BY <2>1 DEF TypeOK
  <2> DEFINE n == CASE change[c] = "add" -> count[d] + 1
                    [] change[c] = "delete" -> IF count[d] > 0 THEN count[d] - 1 ELSE 0
                    [] OTHER -> count[d]
  <2>3. n \in Nat
        BY <2>2
  <2>4. count' = [count EXCEPT ![d] = n]
        BY Zenon DEF Commit
  <2> QED
      BY <2>1, <2>3, <2>4 DEF TypeOK
<1>5. accepts' \in [Follows -> Nat]
      BY DEF Commit, TypeOK
<1>6. Return(c)
      BY DEF Commit
<1>7. grace' \in [Senders -> Int]
  <2>1. Sender[msg[c]] \in Senders
        BY <1>1, RowType
  <2> QED
      BY <2>1 DEF Commit, Spent, TypeOK
<1> QED
    BY <1>2, <1>3, <1>4, <1>5, <1>6, <1>7, ReturnType DEF Commit, TypeOK, refresh

LEMMA RowsAreFinite ==
  ASSUME TypeOK
  PROVE  \A d \in Directions : IsFiniteSet(RowsOf(d)) /\ Cardinality(RowsOf(d)) \in Nat
<1>1. IsFiniteSet({"in"})
      BY FS_EmptySet, FS_AddElement, {"in"} = {} \union {"in"}
<1>2. IsFiniteSet(Directions)
      BY <1>1, FS_AddElement, Directions = {"in"} \union {"out"} DEF Directions
<1>3. IsFiniteSet(Rows)
      BY <1>2, RaceAssumption, FS_Product DEF Rows
<1> TAKE d \in Directions
<1>4. RowsOf(d) \in SUBSET Rows
      BY DEF TypeOK, RowsOf
<1> QED
    BY <1>3, <1>4, FS_Subset, FS_CardinalityType

-----------------------------------------------------------------------------
(* Types, and that a call writes its row right before it commits. *)
WInv == TypeOK /\ WritersCommit

LEMMA WInvInit == Init => WInv
<1> SUFFICES ASSUME Init
             PROVE  WInv
    OBVIOUS
<1>1. TypeOK
  <2>1. /\ log \subseteq Messages /\ rows \subseteq Rows /\ blocked \subseteq Senders
        /\ locked \subseteq Counters
        BY DEF Init
  <2>2. /\ accepts \in [Follows -> Nat]
        /\ pc \in [Calls -> Statements]
        /\ msg \in [Calls -> Messages \union {NoMessage}]
        BY DEF Init, Statements
  <2>3. /\ change \in [Calls -> Changes]
        /\ grace \in [Senders -> Int]
        BY DEF Init, Changes
  <2>4. /\ count \in [Directions -> Nat] /\ counted \in [Directions -> Nat]
        /\ {begun, refreshes, blocks} \subseteq Nat
        BY DEF Init
  <2>5. counting \in BOOLEAN
        BY DEF Init
  <2> QED
      BY <2>1, <2>2, <2>3, <2>4, <2>5 DEF TypeOK
<1>2. WritersCommit
      BY DEF Init, WritersCommit
<1> QED
    BY <1>1, <1>2 DEF WInv

(* The database breaks a deadlock by a rollback that could happen anyway. *)
LEMMA BreaksAreRollbacks ==
  BreakDeadlock => RefreshAborts \/ \E c \in Calls : Abort(c)
  BY DEF BreakDeadlock, Rollback, Agents

LEMMA WInvNext == WInv /\ [Next]_vars => WInv'
<1> SUFFICES ASSUME WInv, [Next]_vars
             PROVE  WInv'
    OBVIOUS
<1>0. TypeOK /\ WritersCommit
      BY DEF WInv
<1>1. ASSUME NEW c \in Calls, NEW m \in Messages, Begin(c, m)
      PROVE  WInv'
      BY <1>0, <1>1 DEF Begin, WInv, WritersCommit, TypeOK, Statements, committed, admin, refresh
<1>2. ASSUME NEW c \in Calls, CheckBlock(c)
      PROVE  WInv'
  <2>1. CASE Return(c)
        BY <1>0, <1>2, <2>1, ReturnType
        DEF CheckBlock, WInv, WritersCommit, TypeOK, Return, committed, admin, refresh
  <2>2. CASE Goto(c, "duplicate")
    <3>1. "duplicate" \in Statements
          BY DEF Statements
    <3> QED
        BY <1>0, <1>2, <2>2, <3>1, GotoType
        DEF CheckBlock, WInv, WritersCommit, TypeOK, Goto, committed, admin, refresh
  <2> QED
      BY <1>2, <2>1, <2>2 DEF CheckBlock
<1>3. ASSUME NEW c \in Calls, CheckDuplicate(c)
      PROVE  WInv'
  <2>1. CASE Return(c)
        BY <1>0, <1>3, <2>1, ReturnType
        DEF CheckDuplicate, WInv, WritersCommit, TypeOK, Return, committed, admin, refresh
  <2>2. CASE Goto(c, "store")
    <3>1. "store" \in Statements
          BY DEF Statements
    <3> QED
        BY <1>0, <1>3, <2>2, <3>1, GotoType
        DEF CheckDuplicate, WInv, WritersCommit, TypeOK, Goto, committed, admin, refresh
  <2> QED
      BY <1>3, <2>1, <2>2 DEF CheckDuplicate
<1>4. ASSUME NEW c \in Calls, Store(c)
      PROVE  WInv'
  <2>1. "handle" \in Statements
        BY DEF Statements
  <2> QED
      BY <1>0, <1>4, <2>1, GotoType
      DEF Store, WInv, WritersCommit, TypeOK, Goto, committed, admin, refresh
<1>5. ASSUME NEW c \in Calls, HandleFollow(c) \/ HandleUndo(c)
      PROVE  WInv'
  <2>1. PICK x \in Changes : Handle(c, x) /\ pc[c] = "handle"
        BY <1>5 DEF HandleFollow, HandleUndo, Changes
  <2>2. TypeOK'
        BY <1>0, <2>1, HandleType
  <2>3. WritersCommit'
        BY <1>0, <2>1 DEF Handle, WritersCommit, TypeOK
  <2> QED
      BY <2>2, <2>3 DEF WInv
<1>12. ASSUME NEW c \in Calls, CountFirst(c) \/ CountSecond(c)
       PROVE  WInv'
  <2>1. PICK s \in {"second", "commit"} : Goto(c, s) /\ pc[c] # "idle"
        BY <1>12 DEF CountFirst, CountSecond
  <2>2. s \in Statements
        BY DEF Statements
  <2> QED
      BY <1>0, <1>12, <2>1, <2>2, GotoType
      DEF CountFirst, CountSecond, WInv, WritersCommit, TypeOK, Goto, committed, admin, refresh
<1>6. ASSUME NEW c \in Calls, Commit(c)
      PROVE  WInv'
  <2>1. TypeOK'
        BY <1>0, <1>6, CommitType
  <2>2. WritersCommit'
        BY <1>0, <1>6 DEF Commit, Return, WritersCommit, TypeOK
  <2> QED
      BY <2>1, <2>2 DEF WInv
<1>7. ASSUME NEW c \in Calls, Abort(c)
      PROVE  WInv'
      BY <1>0, <1>7, ReturnType
      DEF Abort, WInv, WritersCommit, TypeOK, Return, committed, admin, refresh
<1>8. ASSUME NEW s \in Senders, Block(s) \/ Unblock(s)
      PROVE  WInv'
  <2>1. CASE Block(s)
    <3>1. grace' \in [Senders -> Int]
      <4>1. IsFiniteSet(Through(s))
            BY RaceAssumption, FS_Subset DEF Through
      <4>2. Cardinality(Through(s)) \in Int
            BY <4>1, FS_CardinalityType
      <4> QED
          BY <1>0, <2>1, <4>2 DEF Block, TypeOK
    <3> QED
        BY <1>0, <2>1, <3>1 DEF Block, WInv, WritersCommit, TypeOK, committed, call, refresh
  <2>2. CASE Unblock(s)
        BY <1>0, <2>2 DEF Unblock, WInv, WritersCommit, TypeOK, committed, call, refresh
  <2> QED
      BY <1>8, <2>1, <2>2
<1>9. CASE RefreshCounts
      BY <1>0, <1>9, RowsAreFinite
      DEF RefreshCounts, WInv, WritersCommit, TypeOK, committed, call, admin
<1>10. CASE RefreshWrites \/ RefreshAborts
  <2>1. count' \in [Directions -> Nat] /\ counted' \in [Directions -> Nat]
        BY <1>0, <1>10 DEF RefreshWrites, RefreshAborts, RefreshEnds, TypeOK
  <2> QED
      BY <1>0, <1>10, <2>1
      DEF RefreshWrites, RefreshAborts, RefreshEnds, WInv, WritersCommit, TypeOK, call, admin
<1>13. ASSUME NEW k \in Counters, RefreshLocks(k)
       PROVE  WInv'
       BY <1>0, <1>13 DEF RefreshLocks, WInv, WritersCommit, TypeOK, committed, call, admin
<1>11. CASE UNCHANGED vars
      BY <1>0, <1>11 DEF WInv, WritersCommit, TypeOK, vars
<1> QED
    BY <1>1, <1>2, <1>3, <1>4, <1>5, <1>6, <1>7, <1>8, <1>9, <1>10, <1>11, <1>12, <1>13,
       BreaksAreRollbacks
    DEF Next, Step

THEOREM WInvHolds == Spec => []WInv
<1> QED
    BY WInvInit, WInvNext, PTL DEF Spec

(* The variables keep their types: in particular the counts, and what      *)
(* ap_refresh_actor_stats counts, are natural numbers.                     *)
THEOREM TypeCorrect == Spec => []TypeOK
<1>1. WInv => TypeOK
      BY DEF WInv
<1> QED
    BY <1>1, WInvHolds, PTL

-----------------------------------------------------------------------------
(* No lock has two holders: no two open transactions have written the same *)
(* row of ap_follows or of ap_actor_stats or have the same log entry.      *)
OneWriter == \A a, b \in Agents : a # b => Holds(a) \intersect Holds(b) = {}
SInv == WInv /\ OneWriter

LEMMA SInvInit == Init => SInv
<1>1. Init => \A a \in Agents : Holds(a) = {}
      BY DEF Init, Holds, Stored, Changed, Counts, Agents
<1>2. Init => OneWriter
      BY <1>1 DEF OneWriter
<1> QED
    BY <1>2, WInvInit DEF SInv

(* A step that touches one call leaves the locks of all others alone. *)
LEMMA OthersHold ==
  ASSUME NEW c \in Calls, locked' = locked,
         \A e \in Calls \ {c} : pc'[e] = pc[e] /\ msg'[e] = msg[e] /\ change'[e] = change[e]
  PROVE  \A b \in Agents \ {c} : Holds(b)' = Holds(b)
<1> SUFFICES ASSUME NEW b \in Agents \ {c}
             PROVE  Holds(b)' = Holds(b)
    OBVIOUS
<1>1. CASE b = Refresher
      BY <1>1 DEF Holds
<1>2. CASE b # Refresher
  <2>1. pc'[b] = pc[b] /\ msg'[b] = msg[b] /\ change'[b] = change[b]
        BY <1>2 DEF Agents
  <2> QED
      BY <1>2, <2>1 DEF Holds, Stored, Changed, Counts
<1> QED
    BY <1>1, <1>2

(* An agent that only takes what the others do not hold. *)
LEMMA OneTakes ==
  ASSUME OneWriter, NEW a \in Agents,
         \A b \in Agents \ {a} : Holds(b)' = Holds(b),
         \A b \in Agents \ {a} : Holds(a)' \intersect Holds(b) = {}
  PROVE  OneWriter'
<1> SUFFICES ASSUME NEW b \in Agents, NEW d \in Agents, b # d
             PROVE  Holds(b)' \intersect Holds(d)' = {}
    BY DEF OneWriter
<1>1. CASE b = a
      BY <1>1
<1>2. CASE d = a
      BY <1>2
<1>3. CASE b # a /\ d # a
      BY <1>3 DEF OneWriter
<1> QED
    BY <1>1, <1>2, <1>3

LEMMA CallTakes ==
  ASSUME SInv, NEW c \in Calls, locked' = locked,
         \A e \in Calls \ {c} : pc'[e] = pc[e] /\ msg'[e] = msg[e] /\ change'[e] = change[e],
         \/ Holds(c)' \subseteq Holds(c)
         \/ CanGo(c) /\ Holds(c)' \subseteq Holds(c) \union Needs(c)
  PROVE  OneWriter'
<1>1. c \in Agents /\ OneWriter
      BY DEF Agents, SInv
<1>2. \A b \in Agents \ {c} : Holds(c) \intersect Holds(b) = {}
      BY <1>1 DEF OneWriter
<1>3. CanGo(c) => \A b \in Agents \ {c} : Needs(c) \intersect Holds(b) = {}
      BY DEF CanGo, WaitsFor
<1>4. \A b \in Agents \ {c} : Holds(c)' \intersect Holds(b) = {}
      BY <1>2, <1>3
<1> QED
    BY <1>1, <1>4, OthersHold, OneTakes

(* A call that returns leaves nothing that another could collide with. *)
LEMMA ReturnAlone ==
  ASSUME SInv, NEW c \in Calls, Return(c), locked' = locked
  PROVE  OneWriter'
<1>1. Holds(c)' = {}
  <2>1. pc'[c] = "idle" /\ change'[c] = "none" /\ c # Refresher
        BY RaceAssumption DEF Return, SInv, WInv, TypeOK
  <2> QED
      BY <2>1 DEF Holds, Stored, Changed, Counts
<1>2. \A e \in Calls \ {c} : pc'[e] = pc[e] /\ msg'[e] = msg[e] /\ change'[e] = change[e]
      BY DEF Return, SInv, WInv, TypeOK
<1> QED
    BY <1>1, <1>2, CallTakes

LEMMA HandleAlone ==
  ASSUME SInv, NEW c \in Calls, HandleFollow(c) \/ HandleUndo(c)
  PROVE  OneWriter'
<1>1. PICK x \in Changes : /\ Handle(c, x)
                           /\ pc[c] = "handle"
                           /\ CanGo(c)
                           /\ msg[c] \in Undos => (x # "none" => Row(msg[c]) \in rows)
      BY RaceAssumption DEF HandleFollow, HandleUndo, Changes
<1>2. c # Refresher /\ change[c] = "none"
      BY <1>1, RaceAssumption DEF SInv, WInv, WritersCommit
<1>3. /\ msg'[c] = msg[c] /\ change'[c] = x
      /\ pc'[c] = IF x \in {"add", "delete"} THEN "first" ELSE "commit"
      BY <1>1 DEF Handle, SInv, WInv, TypeOK
<1>4. \A e \in Calls \ {c} : pc'[e] = pc[e] /\ msg'[e] = msg[e] /\ change'[e] = change[e]
      BY <1>1 DEF Handle, SInv, WInv, TypeOK
<1>5. Entry(msg[c]) \in Holds(c)
      BY <1>1, <1>2 DEF Holds, Stored
<1>6. x # "none" => RowOf(msg[c]) \in Needs(c)
      BY <1>1, <1>2 DEF Needs
<1>7. Holds(c)' \subseteq {Entry(msg[c])} \union (IF x # "none" THEN {RowOf(msg[c])} ELSE {})
      BY <1>2, <1>3 DEF Holds, Stored, Changed, Counts, Entry, RowOf, Row
<1>8. Holds(c)' \subseteq Holds(c) \union Needs(c)
      BY <1>5, <1>6, <1>7
<1>9. locked' = locked
      BY <1>1 DEF Handle, refresh
<1> QED
    BY <1>1, <1>4, <1>8, <1>9, CallTakes

LEMMA SInvNext == SInv /\ [Next]_vars => SInv'
<1> SUFFICES ASSUME SInv, [Next]_vars
             PROVE  OneWriter'
    BY WInvNext DEF SInv
<1>1. ASSUME NEW c \in Calls, NEW m \in Messages, Begin(c, m)
      PROVE  OneWriter'
  <2>1. /\ c # Refresher /\ pc'[c] = "block" /\ change'[c] = "none" /\ locked' = locked
        BY <1>1, RaceAssumption DEF Begin, SInv, WInv, WritersCommit, TypeOK, refresh
  <2>2. \A e \in Calls \ {c} : pc'[e] = pc[e] /\ msg'[e] = msg[e] /\ change'[e] = change[e]
        BY <1>1 DEF Begin, SInv, WInv, TypeOK
  <2>3. Holds(c)' = {}
        BY <2>1 DEF Holds, Stored, Changed, Counts
  <2> QED
      BY <2>1, <2>2, <2>3, CallTakes
<1>2. ASSUME NEW c \in Calls, NEW s \in Statements, Goto(c, s), locked' = locked, CanGo(c) \/ ~Stored(c),
             \/ pc[c] \in {"block", "duplicate"} /\ s \in {"duplicate", "store"}
             \/ pc[c] = "store"  /\ s = "handle" /\ CanGo(c)
             \/ pc[c] = "first"  /\ s = "second" /\ CanGo(c)
             \/ pc[c] = "second" /\ s = "commit" /\ CanGo(c)
      PROVE  OneWriter'
  <2>1. c # Refresher /\ pc'[c] = s /\ msg'[c] = msg[c] /\ change'[c] = change[c]
        BY <1>2, RaceAssumption DEF Goto, SInv, WInv, TypeOK
  <2>2. \A e \in Calls \ {c} : pc'[e] = pc[e] /\ msg'[e] = msg[e] /\ change'[e] = change[e]
        BY <1>2 DEF Goto, SInv, WInv, TypeOK
  <2>3. CASE pc[c] \in {"block", "duplicate"} /\ s \in {"duplicate", "store"}
    <3>1. Holds(c)' \subseteq Holds(c)
          BY <2>1, <2>3 DEF Holds, Stored, Changed, Counts, RowOf, Row
    <3> QED
        BY <1>2, <2>2, <3>1, CallTakes
  <2>4. CASE pc[c] = "store" /\ s = "handle" /\ CanGo(c)
    <3>1. Holds(c)' \subseteq Holds(c) \union Needs(c)
          BY <2>1, <2>4 DEF Holds, Needs, Stored, Changed, Counts, RowOf, Row, Entry
    <3> QED
        BY <1>2, <2>2, <2>4, <3>1, CallTakes
  <2>5. CASE pc[c] = "first" /\ s = "second" /\ CanGo(c)
    <3>1. Holds(c)' \subseteq Holds(c) \union Needs(c)
          BY <2>1, <2>5 DEF Holds, Needs, Stored, Changed, Counts, RowOf, Row, Entry, Counter, First
    <3> QED
        BY <1>2, <2>2, <2>5, <3>1, CallTakes
  <2>6. CASE pc[c] = "second" /\ s = "commit" /\ CanGo(c)
    <3>1. Holds(c)' \subseteq Holds(c) \union Needs(c)
          BY <2>1, <2>6
          DEF Holds, Needs, Stored, Changed, Counts, RowOf, Row, Entry, Counter, First, Second
    <3> QED
        BY <1>2, <2>2, <2>6, <3>1, CallTakes
  <2> QED
      BY <1>2, <2>3, <2>4, <2>5, <2>6
<1>3. ASSUME NEW c \in Calls, CheckBlock(c) \/ CheckDuplicate(c) \/ Store(c)
                              \/ CountFirst(c) \/ CountSecond(c)
      PROVE  OneWriter'
  <2>1. locked' = locked
        BY <1>3 DEF CheckBlock, CheckDuplicate, Store, CountFirst, CountSecond, refresh
  <2>2. CASE Return(c)
        BY <2>1, <2>2, ReturnAlone
  <2>3. CASE ~Return(c)
    <3>1. PICK s \in Statements :
            /\ Goto(c, s)
            /\ CanGo(c) \/ ~Stored(c)
            /\ \/ pc[c] \in {"block", "duplicate"} /\ s \in {"duplicate", "store"}
               \/ pc[c] = "store"  /\ s = "handle" /\ CanGo(c)
               \/ pc[c] = "first"  /\ s = "second" /\ CanGo(c)
               \/ pc[c] = "second" /\ s = "commit" /\ CanGo(c)
          BY <1>3, <2>3
          DEF CheckBlock, CheckDuplicate, Store, CountFirst, CountSecond, Stored, Statements
    <3> QED
        BY <1>2, <2>1, <3>1
  <2> QED
      BY <2>2, <2>3
<1>4. ASSUME NEW c \in Calls, HandleFollow(c) \/ HandleUndo(c)
      PROVE  OneWriter'
      BY <1>4, HandleAlone
<1>5. ASSUME NEW c \in Calls, Commit(c) \/ Abort(c)
      PROVE  OneWriter'
      BY <1>5, ReturnAlone DEF Commit, Abort, refresh
<1>6. ASSUME UNCHANGED <<pc, msg, change, locked>>
      PROVE  OneWriter'
  <2>1. \A a \in Agents : Holds(a)' = Holds(a)
        BY <1>6 DEF Holds, Stored, Changed, Counts
  <2> QED
      BY <2>1 DEF SInv, OneWriter
<1>7. ASSUME NEW s \in Senders, Block(s) \/ Unblock(s)
      PROVE  UNCHANGED <<pc, msg, change, locked>>
      BY <1>7 DEF Block, Unblock, call, refresh
<1>8. CASE RefreshCounts \/ UNCHANGED vars
      BY <1>6, <1>8 DEF RefreshCounts, vars, call
<1>9. ASSUME UNCHANGED <<pc, msg, change>>,
             \A b \in Calls : Holds(Refresher)' \intersect Holds(b) = {}
      PROVE  OneWriter'
  <2>1. \A b \in Agents \ {Refresher} : Holds(b)' = Holds(b)
        BY <1>9 DEF Holds, Stored, Changed, Counts
  <2> QED
      BY <1>9, <2>1, OneTakes DEF SInv, Agents
<1>10. CASE RefreshWrites \/ RefreshAborts
  <2>1. Holds(Refresher)' = {}
        BY <1>10 DEF RefreshWrites, RefreshAborts, RefreshEnds, Holds
  <2> QED
      BY <1>9, <1>10, <2>1 DEF RefreshWrites, RefreshAborts, RefreshEnds, call
<1>11. ASSUME NEW k \in Counters, RefreshLocks(k)
       PROVE  OneWriter'
  <2>1. Holds(Refresher)' = Holds(Refresher) \union {Counter(k)}
        BY <1>11 DEF RefreshLocks, Holds
  <2>2. \A b \in Calls : Holds(Refresher) \intersect Holds(b) = {}
        BY RaceAssumption DEF SInv, OneWriter, Agents
  <2>3. \A b \in Calls : Holds(Refresher)' \intersect Holds(b) = {}
        BY <1>11, <2>1, <2>2 DEF RefreshLocks
  <2> QED
      BY <1>9, <1>11, <2>3 DEF RefreshLocks, call
<1> QED
    BY <1>1, <1>3, <1>4, <1>5, <1>6, <1>7, <1>8, <1>10, <1>11, BreaksAreRollbacks DEF Next, Step

THEOREM SInvHolds == Spec => []SInv
<1> QED
    BY SInvInit, SInvNext, PTL DEF Spec

-----------------------------------------------------------------------------
(* The counts, before ap_refresh_actor_stats is used. *)
CInv ==
    /\ SInv
    /\ ChangesFit
    /\ CountMatchesRows
    /\ refreshes = 0 => ~counting

LEMMA CInvInit == Init => CInv
<1>1. Init => ChangesFit /\ ~counting
      BY DEF Init, ChangesFit
<1>2. Init => CountMatchesRows
  <2>1. Init => \A d \in Directions : RowsOf(d) = {}
        BY DEF Init, RowsOf
  <2> QED
      BY <2>1, FS_EmptySet DEF Init, CountMatchesRows
<1> QED
    BY <1>1, <1>2, SInvInit DEF CInv

(* Two open transactions that have written rows have written two.          *)
LEMMA RowsDiffer ==
  ASSUME SInv
  PROVE  \A c, e \in Calls : c # e /\ Changed(c) /\ Changed(e) => Row(msg[c]) # Row(msg[e])
<1> TAKE c, e \in Calls
<1> HAVE c # e /\ Changed(c) /\ Changed(e)
<1>1. RowOf(msg[c]) \in Holds(c) /\ RowOf(msg[e]) \in Holds(e)
      BY RaceAssumption DEF Holds
<1>2. RowOf(msg[c]) # RowOf(msg[e])
      BY <1>1 DEF SInv, OneWriter, Agents
<1> QED
    BY <1>2 DEF RowOf

LEMMA HandleFits ==
  ASSUME CInv, NEW c \in Calls, NEW x \in Changes, Handle(c, x),
         x = "add" => Row(msg[c]) \notin rows,
         x \in {"keep", "delete"} => Row(msg[c]) \in rows
  PROVE  ChangesFit'
<1>1. rows' = rows /\ msg' = msg
      BY DEF Handle, committed
<1>2. \A e \in Calls : Row(msg[e])' = Row(msg[e])
      BY <1>1 DEF Row
<1>3. \A e \in Calls : change'[e] = IF e = c THEN x ELSE change[e]
      BY DEF Handle, CInv, SInv, WInv, TypeOK
<1> QED
    BY <1>1, <1>2, <1>3 DEF CInv, ChangesFit

LEMMA CommitCounts ==
  ASSUME CInv, NEW c \in Calls, Commit(c)
  PROVE  CountMatchesRows'
<1>0. refreshes' = refreshes
      BY DEF Commit, refresh
<1>1. TypeOK /\ WritersCommit /\ ChangesFit
      BY DEF CInv, SInv, WInv
<1> DEFINE r == Row(msg[c])
<1>2. msg[c] \in Messages /\ r[1] \in Directions
      BY <1>1, Working, RowType DEF Commit
<1> SUFFICES ASSUME NEW d \in Directions, count[d] = Cardinality(RowsOf(d))
             PROVE  count'[d] = Cardinality(RowsOf(d)')
    BY <1>0 DEF CInv, CountMatchesRows
<1>3. IsFiniteSet(RowsOf(d)) /\ Cardinality(RowsOf(d)) \in Nat
      BY <1>1, RowsAreFinite
<1>4. CASE d # r[1]
  <2>1. count'[d] = count[d]
        BY <1>1, <1>4 DEF Commit, TypeOK
  <2>2. RowsOf(d)' = RowsOf(d)
        BY <1>4 DEF Commit, RowsOf
  <2> QED
      BY <2>1, <2>2
<1>5. CASE d = r[1] /\ change[c] = "add"
  <2>1. r \notin RowsOf(d) /\ count'[d] = count[d] + 1
        BY <1>1, <1>5 DEF Commit, ChangesFit, TypeOK, RowsOf
  <2>2. RowsOf(d)' = RowsOf(d) \union {r}
        BY <1>5 DEF Commit, RowsOf
  <2> QED
      BY <1>3, <2>1, <2>2, FS_AddElement
<1>6. CASE d = r[1] /\ change[c] = "delete"
  <2>1. r \in RowsOf(d)
        BY <1>1, <1>6 DEF ChangesFit, RowsOf
  <2>2. RowsOf(d)' = RowsOf(d) \ {r}
        BY <1>6 DEF Commit, RowsOf
  <2>3. /\ Cardinality(RowsOf(d) \ {r}) = Cardinality(RowsOf(d)) - 1
        /\ Cardinality(RowsOf(d) \ {r}) \in Nat
        BY <1>3, <2>1, FS_RemoveElement, FS_CardinalityType
  <2>4. count'[d] = IF count[d] > 0 THEN count[d] - 1 ELSE 0
        BY <1>1, <1>6 DEF Commit, TypeOK
  <2> QED
      BY <1>3, <2>2, <2>3, <2>4
<1>7. CASE d = r[1] /\ change[c] \in {"keep", "none"}
  <2>1. count'[d] = count[d]
        BY <1>1, <1>7 DEF Commit, TypeOK
  <2>2. rows' = rows
        BY <1>1, <1>7 DEF Commit, ChangesFit
  <2>3. RowsOf(d)' = RowsOf(d)
        BY <2>2 DEF RowsOf
  <2> QED
      BY <2>1, <2>3
<1> QED
    BY <1>1, <1>4, <1>5, <1>6, <1>7 DEF TypeOK, Changes

(* The change of a call to another row than the committed one still fits. *)
LEMMA CommitFits ==
  ASSUME CInv, NEW c \in Calls, Commit(c)
  PROVE  ChangesFit'
<1> SUFFICES ASSUME NEW e \in Calls
             PROVE  /\ change'[e] = "add" => Row(msg'[e]) \notin rows'
                    /\ change'[e] \in {"keep", "delete"} => Row(msg'[e]) \in rows'
    BY DEF ChangesFit, Row
<1>1. CASE e = c
      BY <1>1 DEF Commit, Return, CInv, SInv, WInv, TypeOK
<1>2. CASE e # c
  <2>1. change'[e] = change[e] /\ msg'[e] = msg[e]
        BY <1>2 DEF Commit, Return, CInv, SInv, WInv, TypeOK
  <2>2. change[c] # "none" /\ change[e] # "none" => Row(msg[e]) # Row(msg[c])
        BY <1>2, RowsDiffer DEF CInv, Changed
  <2>3. change[c] = "none" => rows' = rows
        BY DEF Commit
  <2>4. \A r : r # Row(msg[c]) => (r \in rows' <=> r \in rows)
        BY DEF Commit
  <2>5. Row(msg'[e]) = Row(msg[e])
        BY <2>1
  <2> QED
      BY <2>1, <2>2, <2>3, <2>4, <2>5 DEF CInv, ChangesFit
<1> QED
    BY <1>1, <1>2

LEMMA CInvNext == CInv /\ [Next]_vars => CInv'
<1> SUFFICES ASSUME CInv, [Next]_vars
             PROVE  ChangesFit' /\ CountMatchesRows' /\ (refreshes = 0 => ~counting)'
    BY SInvNext DEF CInv
<1> DEFINE Goal == ChangesFit' /\ CountMatchesRows' /\ (refreshes = 0 => ~counting)'
<1>0. ASSUME UNCHANGED <<rows, count, counting, refreshes>>, ChangesFit'
      PROVE  Goal
  <2>1. \A d \in Directions : RowsOf(d)' = RowsOf(d)
        BY <1>0 DEF RowsOf
  <2> QED
      BY <1>0, <2>1 DEF CInv, CountMatchesRows
<1>8. ASSUME UNCHANGED <<rows, msg, change>>
      PROVE  ChangesFit'
      BY <1>8 DEF CInv, ChangesFit, Row
<1>1. ASSUME NEW c \in Calls, NEW m \in Messages, Begin(c, m)
      PROVE  Goal
  <2>1. rows' = rows /\ change'[c] = "none"
        BY <1>1 DEF Begin, committed, CInv, SInv, WInv, WritersCommit, TypeOK
  <2>2. \A e \in Calls \ {c} : msg'[e] = msg[e] /\ change'[e] = change[e]
        BY <1>1 DEF Begin, CInv, SInv, WInv, TypeOK
  <2>3. ChangesFit'
        BY <2>1, <2>2 DEF CInv, ChangesFit, Row
  <2> QED
      BY <1>0, <1>1, <2>3 DEF Begin, committed, refresh
<1>9. ASSUME NEW c \in Calls, Return(c), UNCHANGED rows
      PROVE  ChangesFit'
  <2>1. change'[c] = "none"
        BY <1>9 DEF Return, CInv, SInv, WInv, TypeOK
  <2>2. \A e \in Calls \ {c} : msg'[e] = msg[e] /\ change'[e] = change[e]
        BY <1>9 DEF Return, CInv, SInv, WInv, TypeOK
  <2> QED
      BY <1>9, <2>1, <2>2 DEF CInv, ChangesFit, Row
<1>2. ASSUME NEW c \in Calls, CheckBlock(c) \/ CheckDuplicate(c) \/ Store(c) \/ CountFirst(c)
                              \/ CountSecond(c) \/ Abort(c)
      PROVE  Goal
  <2>1. UNCHANGED <<rows, count, counting, refreshes>>
        BY <1>2 DEF CheckBlock, CheckDuplicate, Store, CountFirst, CountSecond, Abort, committed, refresh
  <2>2. \/ Return(c)
        \/ UNCHANGED <<msg, change>>
        BY <1>2 DEF CheckBlock, CheckDuplicate, Store, CountFirst, CountSecond, Abort, Goto
  <2>3. ChangesFit'
        BY <1>8, <1>9, <2>1, <2>2
  <2> QED
      BY <1>0, <2>1, <2>3
<1>3. ASSUME NEW c \in Calls, HandleFollow(c) \/ HandleUndo(c)
      PROVE  Goal
  <2>1. PICK x \in Changes : /\ Handle(c, x)
                             /\ x = "add" => Row(msg[c]) \notin rows
                             /\ x \in {"keep", "delete"} => Row(msg[c]) \in rows
        BY <1>3 DEF HandleFollow, HandleUndo, Changes
  <2>2. ChangesFit'
        BY <2>1, HandleFits
  <2> QED
      BY <1>0, <2>1, <2>2 DEF Handle, committed, refresh
<1>4. ASSUME NEW c \in Calls, Commit(c)
      PROVE  Goal
      BY <1>4, CommitCounts, CommitFits DEF Commit, CInv, refresh
<1>5. ASSUME NEW s \in Senders, Block(s) \/ Unblock(s)
      PROVE  Goal
  <2>1. UNCHANGED <<rows, count, counting, refreshes, msg, change>>
        BY <1>5 DEF Block, Unblock, committed, call, refresh
  <2> QED
      BY <1>0, <1>8, <2>1
<1>6. CASE RefreshCounts \/ (counting /\ UNCHANGED <<rows, msg, change, refreshes>>)
  <2>1. ChangesFit'
        BY <1>6, <1>8 DEF RefreshCounts, committed, call
  <2>2. refreshes' # 0
        BY <1>6 DEF RefreshCounts, CInv, SInv, WInv, TypeOK
  <2> QED
      BY <2>1, <2>2 DEF CountMatchesRows
<1>10. ASSUME RefreshWrites \/ RefreshAborts \/ \E k \in Counters : RefreshLocks(k)
       PROVE  counting /\ UNCHANGED <<rows, msg, change, refreshes>>
       BY <1>10 DEF RefreshWrites, RefreshAborts, RefreshEnds, RefreshLocks, call, committed
<1>7. CASE UNCHANGED vars
      BY <1>0, <1>7, <1>8 DEF vars
<1> QED
    BY <1>1, <1>2, <1>3, <1>4, <1>5, <1>6, <1>7, <1>10, BreaksAreRollbacks DEF Next, Step

(* Until the counts are recalculated, the counts that the trigger keeps    *)
(* are the numbers of accepted rows after every commit, even when an       *)
(* overlap has an activity processed twice.                                *)
THEOREM CountSafe == Spec => []CountMatchesRows
<1>1. CInv => CountMatchesRows
      BY DEF CInv
<1> QED
    BY <1>1, CInvInit, CInvNext, PTL DEF Spec

-----------------------------------------------------------------------------
(* Blocks, and Follows delivered again. *)

(* A call goes on with its own activity, past the check for blocks if its  *)
(* sender is not blocked, past the one for duplicates if that is not in    *)
(* the log.                                                                *)
Advances(c) ==
    pc'[c] \notin {"idle", "block"} =>
        /\ msg'[c] = msg[c]
        /\ pc[c] # "idle"
        /\ pc[c] = "block" => pc'[c] = "duplicate" /\ Sender[msg[c]] \notin blocked
        /\ pc[c] = "duplicate" /\ pc'[c] # "duplicate" => msg[c] \notin log

LEMMA CallsAdvance ==
  ASSUME WInv, [Next]_vars
  PROVE  /\ \A c \in Calls : Advances(c)
         /\ UNCHANGED <<log, accepts>> \/ \E c \in Calls : Commit(c)
         /\ \/ UNCHANGED <<blocked, grace>>
            \/ \E c \in Calls : Commit(c)
            \/ \E s \in Senders : Block(s) \/ Unblock(s)
<1> DEFINE Goal == /\ \A c \in Calls : Advances(c)
                   /\ UNCHANGED <<log, accepts>> \/ \E c \in Calls : Commit(c)
                   /\ \/ UNCHANGED <<blocked, grace>>
                      \/ \E c \in Calls : Commit(c)
                      \/ \E s \in Senders : Block(s) \/ Unblock(s)
<1>0. TypeOK
      BY DEF WInv
<1>1. ASSUME NEW c \in Calls, pc' = [pc EXCEPT ![c] = pc'[c]],
             \A e \in Calls \ {c} : msg'[e] = msg[e], Advances(c)
      PROVE  \A e \in Calls : Advances(e)
      BY <1>0, <1>1 DEF TypeOK, Advances
<1>2. ASSUME NEW c \in Calls, NEW m \in Messages, Begin(c, m)
      PROVE  Goal
  <2>1. pc' = [pc EXCEPT ![c] = pc'[c]] /\ Advances(c)
        BY <1>0, <1>2 DEF Begin, TypeOK, Advances
  <2>2. \A e \in Calls \ {c} : msg'[e] = msg[e]
        BY <1>0, <1>2 DEF Begin, TypeOK
  <2> QED
      BY <1>1, <1>2, <2>1, <2>2 DEF Begin, committed, admin
<1>3. ASSUME NEW c \in Calls, Return(c)
      PROVE  \A e \in Calls : Advances(e)
  <2>1. pc' = [pc EXCEPT ![c] = pc'[c]] /\ Advances(c)
        BY <1>0, <1>3 DEF Return, TypeOK, Advances
  <2>2. \A e \in Calls \ {c} : msg'[e] = msg[e]
        BY <1>0, <1>3 DEF Return, TypeOK
  <2> QED
      BY <1>1, <2>1, <2>2
<1>4. ASSUME NEW c \in Calls, NEW t, Goto(c, t), pc[c] # "idle",
             pc[c] = "block" => t = "duplicate" /\ Sender[msg[c]] \notin blocked,
             pc[c] = "duplicate" => msg[c] \notin log
      PROVE  \A e \in Calls : Advances(e)
  <2>1. pc' = [pc EXCEPT ![c] = pc'[c]] /\ Advances(c)
        BY <1>0, <1>4 DEF Goto, TypeOK, Advances
  <2> QED
      BY <1>1, <1>4, <2>1 DEF Goto
<1>5. ASSUME NEW c \in Calls, CheckBlock(c) \/ CheckDuplicate(c)
      PROVE  Goal
  <2>1. Return(c) \/ \A e \in Calls : Advances(e)
        BY <1>4, <1>5 DEF CheckBlock, CheckDuplicate
  <2> QED
      BY <1>3, <1>5, <2>1 DEF CheckBlock, CheckDuplicate, committed, admin
<1>6. ASSUME NEW c \in Calls, Store(c) \/ CountFirst(c) \/ CountSecond(c)
      PROVE  Goal
      BY <1>4, <1>6 DEF Store, CountFirst, CountSecond, committed, admin
<1>7. ASSUME NEW c \in Calls, HandleFollow(c) \/ HandleUndo(c)
      PROVE  Goal
  <2>1. PICK x : Handle(c, x) /\ pc[c] = "handle"
        BY <1>7 DEF HandleFollow, HandleUndo
  <2>2. pc' = [pc EXCEPT ![c] = pc'[c]] /\ Advances(c)
        BY <1>0, <2>1 DEF Handle, TypeOK, Advances
  <2> QED
      BY <1>1, <2>1, <2>2 DEF Handle, committed, admin
<1>8. ASSUME NEW c \in Calls, Commit(c) \/ Abort(c)
      PROVE  Goal
      BY <1>3, <1>8 DEF Commit, Abort, committed, admin
<1>9. ASSUME UNCHANGED <<pc, msg>>
      PROVE  \A c \in Calls : Advances(c)
      BY <1>9 DEF Advances
<1>10. ASSUME NEW s \in Senders, Block(s) \/ Unblock(s)
       PROVE  Goal
       BY <1>9, <1>10 DEF Block, Unblock, committed, call
<1>11. CASE \/ RefreshCounts \/ RefreshWrites \/ RefreshAborts \/ UNCHANGED vars
            \/ \E k \in Counters : RefreshLocks(k)
  <2>1. UNCHANGED <<pc, msg, log, accepts, blocked, grace>>
        BY <1>11
        DEF RefreshCounts, RefreshWrites, RefreshAborts, RefreshEnds, RefreshLocks, vars, call,
            admin, committed
  <2> QED
      BY <1>9, <2>1
<1> QED
    BY <1>2, <1>5, <1>6, <1>7, <1>8, <1>10, <1>11, BreaksAreRollbacks DEF Next, Step

(* A call that commits leaves the calls under way; another set of calls    *)
(* that only loses some is not larger.                                     *)
LEMMA CallsCount ==
  ASSUME NEW S \in SUBSET Calls
  PROVE  /\ Cardinality(S) \in Nat
         /\ Cardinality(S) <= Cardinality(Calls)
         /\ \A R \in SUBSET S : Cardinality(R) <= Cardinality(S)
         /\ \A c \in S : Cardinality(S \ {c}) = Cardinality(S) - 1
<1>1. IsFiniteSet(S) /\ Cardinality(S) <= Cardinality(Calls)
      BY RaceAssumption, FS_Subset
<1>2. Cardinality(S) \in Nat
      BY <1>1, FS_CardinalityType
<1>3. \A R \in SUBSET S : Cardinality(R) <= Cardinality(S)
      BY <1>1, FS_Subset
<1>4. \A c \in S : Cardinality(S \ {c}) = Cardinality(S) - 1
      BY <1>1, FS_RemoveElement
<1> QED
    BY <1>1, <1>2, <1>3, <1>4

(* The grace of a blocked sender covers the calls that are past the check, *)
(* each of which may commit.                                               *)
GraceCovers == \A s \in blocked : grace[s] >= Cardinality(Through(s))
BInv == WInv /\ GraceCovers

LEMMA ThroughType ==
  ASSUME NEW s
  PROVE  Through(s) \in SUBSET Calls
  BY DEF Through

LEMMA BInvInit == Init => BInv
<1>1. Init => GraceCovers
      BY DEF Init, GraceCovers
<1> QED
    BY <1>1, WInvInit DEF BInv

LEMMA BInvNext == BInv /\ [Next]_vars => BInv'
<1> SUFFICES ASSUME BInv, [Next]_vars
             PROVE  GraceCovers'
    BY WInvNext DEF BInv
<1>0. WInv /\ TypeOK /\ GraceCovers
      BY DEF BInv, WInv
<1>1. \A s \in blocked : Through(s)' \subseteq Through(s)
      BY <1>0, CallsAdvance DEF Advances, Through, From
<1>2. \A s \in blocked : Cardinality(Through(s)') <= Cardinality(Through(s))
      BY <1>1, ThroughType, CallsCount
<1>3. \A s \in blocked : /\ grace[s] \in Int
                         /\ Cardinality(Through(s)) \in Nat
                         /\ Cardinality(Through(s)') \in Nat
  <2>1. \A s \in blocked : Through(s)' \in SUBSET Calls
        BY <1>1, ThroughType
  <2> QED
      BY <1>0, <2>1, ThroughType, CallsCount DEF TypeOK
<1>4. CASE UNCHANGED <<blocked, grace>>
      BY <1>0, <1>2, <1>3, <1>4 DEF GraceCovers
<1>5. ASSUME NEW c \in Calls, Commit(c)
      PROVE  GraceCovers'
  <2>0. PICK s : s = Sender[msg[c]]
        OBVIOUS
  <2>1. blocked' = blocked /\ grace' = Spent(s)
        BY <1>5, <2>0 DEF Commit
  <2>2. s \in Senders
        BY <1>0, <1>5, <2>0, Working, RowType DEF WInv, Commit
  <2>3. CASE s \in blocked
    <3>1. c \in Through(s)
          BY <1>5, <2>0 DEF Commit, Through, From
    <3>2. c \notin Through(s)'
          BY <1>0, <1>5 DEF Commit, Return, Through, TypeOK
    <3>3. Through(s)' \in SUBSET (Through(s) \ {c}) /\ Through(s) \ {c} \in SUBSET Calls
          BY <1>1, <2>3, <3>2, ThroughType
    <3>4. /\ Cardinality(Through(s)') <= Cardinality(Through(s) \ {c})
          /\ Cardinality(Through(s) \ {c}) = Cardinality(Through(s)) - 1
          BY <3>1, <3>3, ThroughType, CallsCount
    <3>5. \A t \in blocked : grace'[t] = IF t = s THEN grace[t] - 1 ELSE grace[t]
          BY <1>0, <2>1, <2>2, <2>3 DEF Spent, TypeOK
    <3>6. Cardinality(Through(s)') <= Cardinality(Through(s)) - 1
          BY <3>4
    <3>7. grace[s] >= Cardinality(Through(s))
          BY <1>0, <2>3 DEF GraceCovers
    <3>8. grace[s] - 1 >= Cardinality(Through(s)')
          BY <1>3, <2>3, <3>6, <3>7
    <3>9. \A t \in blocked : t # s => grace'[t] >= Cardinality(Through(t)')
          BY <1>0, <1>2, <1>3, <3>5 DEF GraceCovers
    <3>10. \A t \in blocked : grace'[t] >= Cardinality(Through(t)')
           BY <2>3, <3>5, <3>8, <3>9
    <3> QED
        BY <2>1, <3>10 DEF GraceCovers
  <2>4. CASE s \notin blocked
        BY <1>4, <2>1, <2>4 DEF Spent
  <2> QED
      BY <2>3, <2>4
<1>6. ASSUME NEW s \in Senders, Block(s) \/ Unblock(s)
      PROVE  GraceCovers'
  <2>1. \A t : Through(t)' = Through(t)
        BY <1>6 DEF Block, Unblock, call, Through, From
  <2>2. \A t \in blocked' \ {s} : t \in blocked /\ grace'[t] = grace[t]
        BY <1>0, <1>6 DEF Block, Unblock, TypeOK
  <2>3. s \in blocked' => grace'[s] = Cardinality(Through(s))
        BY <1>0, <1>6 DEF Block, Unblock, TypeOK
  <2>4. Cardinality(Through(s)) \in Nat
        BY ThroughType, CallsCount
  <2> QED
      BY <1>0, <2>1, <2>2, <2>3, <2>4 DEF GraceCovers
<1> QED
    BY <1>4, <1>5, <1>6, CallsAdvance, <1>0

(* While a sender is blocked, no more of its calls commit than had passed  *)
(* the check for blocks when the block was committed.                      *)
THEOREM BlockSafe == Spec => []BlockLetsFewThrough
<1>1. BInv => BlockLetsFewThrough
  <2> SUFFICES ASSUME BInv, NEW s \in blocked
               PROVE  grace[s] >= 0
      BY DEF BlockLetsFewThrough
  <2>1. Cardinality(Through(s)) \in Nat /\ grace[s] \in Int
        BY ThroughType, CallsCount DEF BInv, WInv, TypeOK
  <2> QED
      BY <2>1 DEF BInv, GraceCovers
<1> QED
    BY <1>1, BInvInit, BInvNext, PTL DEF Spec

(* The calls that may still answer a Follow, as the check for duplicates   *)
(* has let them through: with those that did, no more than there are       *)
(* backends.                                                               *)
Past(f) == {c \in Calls : msg[c] = f /\ pc[c] \notin {"idle", "block", "duplicate"}}

AnswersAccounted ==
    \A f \in Follows :
        /\ f \notin log => accepts[f] = 0
        /\ accepts[f] + Cardinality(Past(f)) <= Cardinality(Calls)
AInv == WInv /\ AnswersAccounted

LEMMA PastType ==
  ASSUME NEW f
  PROVE  Past(f) \in SUBSET Calls /\ Past(f)' \in SUBSET Calls
  BY DEF Past

LEMMA AInvInit == Init => AInv
<1> SUFFICES ASSUME Init
             PROVE  AnswersAccounted
    BY WInvInit DEF AInv
<1> SUFFICES ASSUME NEW f \in Follows
             PROVE  /\ f \notin log => accepts[f] = 0
                    /\ accepts[f] + Cardinality(Past(f)) <= Cardinality(Calls)
    BY DEF AnswersAccounted
<1>1. accepts[f] = 0
      BY DEF Init
<1>2. Cardinality(Past(f)) \in Nat /\ Cardinality(Past(f)) <= Cardinality(Calls)
      BY PastType, CallsCount
<1> QED
    BY <1>1, <1>2

LEMMA AInvNext == AInv /\ [Next]_vars => AInv'
<1> SUFFICES ASSUME AInv, [Next]_vars
             PROVE  AnswersAccounted'
    BY WInvNext DEF AInv
<1>0. WInv /\ TypeOK
      BY DEF AInv, WInv
<1> SUFFICES ASSUME NEW f \in Follows
             PROVE  /\ f \notin log' => accepts'[f] = 0
                    /\ accepts'[f] + Cardinality(Past(f)') <= Cardinality(Calls)
    BY DEF AnswersAccounted
<1>1. /\ f \notin log => accepts[f] = 0
      /\ accepts[f] + Cardinality(Past(f)) <= Cardinality(Calls)
      /\ accepts[f] \in Nat
      BY <1>0 DEF AInv, AnswersAccounted, TypeOK
<1>2. /\ Cardinality(Past(f)) \in Nat
      /\ Cardinality(Past(f)') \in Nat
      /\ Cardinality(Past(f)') <= Cardinality(Calls)
      /\ Cardinality(Calls) \in Nat
      BY PastType, CallsCount
<1>3. f \in log => Past(f)' \subseteq Past(f)
  <2>1. \A c \in Calls : Advances(c)
        BY <1>0, CallsAdvance
  <2> QED
      BY <2>1 DEF Advances, Past
<1>4. f \in log => Cardinality(Past(f)') <= Cardinality(Past(f))
      BY <1>3, PastType, CallsCount
<1>5. CASE f \in log' <=> f \in log
  <2>1. CASE accepts'[f] = accepts[f]
        BY <1>1, <1>2, <1>4, <1>5, <2>1
  <2>2. CASE accepts'[f] # accepts[f]
    <3>1. PICK c \in Calls : Commit(c)
          BY <1>0, <2>2, CallsAdvance
    <3>2. msg[c] = f /\ accepts'[f] = accepts[f] + 1 /\ f \in log
          BY <1>5, <2>2, <3>1 DEF Commit
    <3>3. c \in Past(f) /\ c \notin Past(f)'
          BY <1>0, <3>1, <3>2 DEF Commit, Return, Past, TypeOK
    <3>4. Past(f)' \in SUBSET (Past(f) \ {c}) /\ Past(f) \ {c} \in SUBSET Calls
          BY <1>3, <3>2, <3>3, PastType
    <3>5. /\ Cardinality(Past(f)') <= Cardinality(Past(f) \ {c})
          /\ Cardinality(Past(f) \ {c}) = Cardinality(Past(f)) - 1
          BY <3>3, <3>4, PastType, CallsCount
    <3> QED
        BY <1>1, <1>2, <1>5, <3>2, <3>5
  <2> QED
      BY <2>1, <2>2
<1>6. CASE ~(f \in log' <=> f \in log)
  <2>1. PICK c \in Calls : Commit(c)
        BY <1>0, <1>6, CallsAdvance
  <2>2. f \notin log /\ f \in log' /\ msg[c] = f /\ accepts'[f] = accepts[f] + 1
        BY <1>6, <2>1 DEF Commit
  <2>3. c \notin Past(f)'
        BY <1>0, <2>1 DEF Commit, Return, Past, TypeOK
  <2>4. Past(f)' \in SUBSET (Calls \ {c}) /\ Calls \ {c} \in SUBSET Calls
        BY <2>3, PastType
  <2>5. /\ Cardinality(Past(f)') <= Cardinality(Calls \ {c})
        /\ Cardinality(Calls \ {c}) = Cardinality(Calls) - 1
        BY <2>4, CallsCount
  <2> QED
      BY <1>1, <1>2, <2>2, <2>5
<1> QED
    BY <1>5, <1>6

(* However often a Follow is delivered, and however its deliveries overlap,*)
(* abort and are repeated, it is answered at most once per backend.        *)
THEOREM AnswersBoundedSafe == Spec => []AnswersAreBounded
<1>1. AInv => AnswersAreBounded
  <2> SUFFICES ASSUME AInv, NEW f \in Follows
               PROVE  accepts[f] <= Cardinality(Calls)
      BY DEF AnswersAreBounded
  <2>1. Cardinality(Past(f)) \in Nat /\ Cardinality(Calls) \in Nat /\ accepts[f] \in Nat
        BY PastType, CallsCount DEF AInv, WInv, TypeOK
  <2> QED
      BY <2>1 DEF AInv, AnswersAccounted
<1> QED
    BY <1>1, AInvInit, AInvNext, PTL DEF Spec

-----------------------------------------------------------------------------
(* Deadlocks. *)

(* A call waits for others at four statements. *)
LEMMA CallWaits ==
  ASSUME NEW a \in Calls, WaitsFor(a) # {}
  PROVE  pc[a] \in {"store", "handle", "first", "second"}
  BY RaceAssumption DEF WaitsFor, Needs

(* Two calls, the one at its second counter for the first of the other,    *)
(* are about the two directions of one pair or about two pairs.            *)
LEMMA CountersMeet ==
  ASSUME NEW m \in Messages, NEW n \in Messages, First(n) = Second(m)
  PROVE  \/ m \in Answers /\ n \notin Answers
         \/ m \notin Answers /\ n \in Answers /\ Sender[m] = Sender[n]
<1>1. Sender[m] # Local /\ Sender[n] # Local
      BY RaceAssumption
<1> QED
    BY <1>1 DEF First, Second

(* In a circle everyone is waited for. *)
LEMMA AwaitedInCircle ==
  ASSUME NEW S, Deadlocked(S), NEW e \in S
  PROVE  \E a \in S : e \in WaitsFor(a)
<1> SUFFICES ASSUME \A a \in S : e \notin WaitsFor(a)
             PROVE  FALSE
    OBVIOUS
<1>1. \A a \in S : WaitsFor(a) \intersect S # {}
      BY DEF Deadlocked, WaitsWithin
<1>2. \A a \in S : WaitsFor(a) \intersect (S \ {e}) # {}
      BY <1>1
<1>3. WaitsWithin(S \ {e})
      BY <1>2 DEF WaitsWithin
<1> QED
    BY <1>3 DEF Deadlocked

(* What a call holds before its second counter is not waited for at a      *)
(* counter: with nobody at "store" there is nobody at "handle", and so on. *)
LEMMA CirclesAtCounters ==
  ASSUME SInv, NEW S \in SUBSET Waiting, Deadlocked(S)
  PROVE  \A c \in S \ {Refresher} : pc[c] = "second"
<1>0. TypeOK /\ WritersCommit
      BY DEF SInv, WInv
<1>1. \A c \in S \ {Refresher} : c \in Calls /\ WaitsFor(c) # {}
      BY DEF Waiting, Agents
<1>2. \A c \in S \ {Refresher} : pc[c] \in {"store", "handle", "first", "second"}
      BY <1>1, CallWaits
<1>3. ASSUME NEW a \in S, NEW c \in S \ {Refresher}, c \in WaitsFor(a), pc[c] # "second"
      PROVE  /\ a # Refresher
             /\ \/ pc[a] = "store" /\ pc[c] \in {"handle", "first"}
                \/ pc[a] = "handle" /\ pc[c] = "first"
  <2>1. PICK l \in Needs(a) : l \in Holds(c)
        BY <1>3 DEF WaitsFor
  <2>2. pc[c] \in {"store", "handle", "first"} /\ c \in Calls
        BY <1>1, <1>2, <1>3
  <2>3. \/ l = Entry(msg[c]) /\ pc[c] \in {"handle", "first"}
        \/ l = RowOf(msg[c]) /\ pc[c] = "first"
        BY <1>0, <2>1, <2>2 DEF Holds, Stored, Changed, WritersCommit
  <2>4. a # Refresher
        BY <2>1, <2>3 DEF Needs, Entry, RowOf, Counter
  <2>5. pc[a] \in {"store", "handle", "first", "second"}
        BY <1>2, <2>4
  <2>6. /\ pc[a] = "store"  => l = Entry(msg[a])
        /\ pc[a] = "handle" => l = RowOf(msg[a])
        /\ pc[a] = "first"  => l = Counter(First(msg[a]))
        /\ pc[a] = "second" => l = Counter(Second(msg[a]))
        BY <2>1, <2>4 DEF Needs
  <2> QED
      BY <2>3, <2>4, <2>5, <2>6 DEF Entry, RowOf, Counter
<1>4. \A c \in S \ {Refresher} : pc[c] # "store"
      BY <1>3, AwaitedInCircle
<1>5. \A c \in S \ {Refresher} : pc[c] # "handle"
      BY <1>3, <1>4, AwaitedInCircle
<1>6. \A c \in S \ {Refresher} : pc[c] # "first"
      BY <1>3, <1>4, <1>5, AwaitedInCircle
<1> QED
    BY <1>2, <1>4, <1>5, <1>6

(* Without the recalculation: of a call, one that it waits for and one that*)
(* this one waits for, two are about the two directions of one pair.       *)
LEMMA DeadlocksCross ==
  ASSUME SInv, NEW S \in SUBSET Waiting, Deadlocked(S), Refresher \notin S
  PROVE  \E c, e \in S :
            /\ Sender[msg[c]] = Sender[msg[e]]
            /\ msg[c] \in Answers /\ msg[e] \notin Answers
<1>1. \A a \in S : a \in Calls /\ pc[a] = "second"
      BY CirclesAtCounters DEF Waiting, Agents
<1>2. \A a \in S : msg[a] \in Messages
      BY <1>1 DEF SInv, WInv, WritersCommit
<1>3. ASSUME NEW a \in S
      PROVE  \E e \in S : First(msg[e]) = Second(msg[a])
  <2>1. PICK e \in S : e \in WaitsFor(a)
        BY DEF Deadlocked, WaitsWithin
  <2>2. PICK l \in Needs(a) : l \in Holds(e)
        BY <2>1 DEF WaitsFor
  <2>3. a # Refresher /\ e # Refresher
        OBVIOUS
  <2>4. l = Counter(Second(msg[a]))
        BY <1>1, <2>2, <2>3 DEF Needs
  <2>5. l \in {Entry(msg[e]), RowOf(msg[e]), Counter(First(msg[e]))}
        BY <1>1, <2>2, <2>3 DEF Holds
  <2> QED
      BY <2>4, <2>5 DEF Entry, RowOf, Counter
<1>4. PICK a \in S : TRUE
      BY DEF Deadlocked, WaitsWithin
<1>5. PICK e \in S : First(msg[e]) = Second(msg[a])
      BY <1>3
<1>6. PICK g \in S : First(msg[g]) = Second(msg[e])
      BY <1>3
<1>7. CASE msg[a] \in Answers
  <2>1. msg[e] \notin Answers
        BY <1>2, <1>5, <1>7, CountersMeet
  <2>2. msg[g] \in Answers /\ Sender[msg[g]] = Sender[msg[e]]
        BY <1>2, <1>6, <2>1, CountersMeet
  <2> QED
      BY <2>1, <2>2
<1>8. CASE msg[a] \notin Answers
  <2>1. msg[e] \in Answers /\ Sender[msg[a]] = Sender[msg[e]]
        BY <1>2, <1>5, <1>8, CountersMeet
  <2> QED
      BY <1>8, <2>1
<1> QED
    BY <1>7, <1>8

(* However many calls, undoes and recalculations overlap, log entries and  *)
(* follow rows are never waited for in a circle; calls alone deadlock only *)
(* where a sender's Follow or Undo meets its Accept of the follow in the   *)
(* other direction.                                                        *)
THEOREM DeadlocksSafe == Spec => []OnlyCrossingsDeadlock
<1>1. SInv => OnlyCrossingsDeadlock
      BY CirclesAtCounters, DeadlocksCross DEF OnlyCrossingsDeadlock
<1> QED
    BY <1>1, SInvHolds, PTL
=============================================================================
