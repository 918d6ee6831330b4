---------------------------- MODULE ClaimsProofs ----------------------------
(***************************************************************************)
(* What holds of the claims for any sessions, keys, values and bounds.     *)
(***************************************************************************)
EXTENDS Claims, FiniteSetTheorems, TLAPS

LEMMA QuietType ==
  /\ Quiet \in Ops
  /\ Quiet.pc = "idle" /\ Quiet.kind = "none"
  /\ Quiet.shut = {} /\ Quiet.id = 0
  BY DEF Quiet, Ops, Labels, NoClaim

LEMMA QuietOK == \A n \in Nat : CallOK(Quiet, n)
  BY QuietType DEF CallOK

LEMMA InitTypeOK == Init => TypeOK
<1> SUFFICES ASSUME Init PROVE TypeOK
  OBVIOUS
<1>1. scene.claims \in Nat /\ scene.faults \in Nat
  BY ClaimsAssumption DEF Init
<1>2. rows \in Seq(Row) /\ points \in [Id -> {"none", "open", "closed"}]
  BY DEF Init
<1>3. op \in [Session -> Ops]
  BY QuietType DEF Init
<1>4. \A s \in Session : op[s] = Quiet /\ CallOK(op[s], Len(rows))
  BY QuietType DEF Init, CallOK
<1>5. claims \in 0 .. scene.claims /\ faults \in 0 .. scene.faults
  BY <1>1 DEF Init
<1> QED
  BY <1>2, <1>3, <1>4, <1>5, QuietType, ClaimsAssumption DEF Init, TypeOK

LEMMA RowUpdate ==
  ASSUME NEW r \in Row, NEW time \in Nat \cup {None}
  PROVE  /\ [r EXCEPT !.to = time] \in Row
         /\ [r EXCEPT !.to = time].to = time
         /\ [r EXCEPT !.to = time].key = r.key
         /\ [r EXCEPT !.to = time].val = r.val
         /\ [r EXCEPT !.to = time].from = r.from
  BY DEF Row

LEMMA ClosedType ==
  ASSUME TypeOK, NEW c, NEW time \in Nat
  PROVE  /\ Closed(c, time) \in Seq(Row)
         /\ Len(Closed(c, time)) = Len(rows)
<1>1. \A i \in DOMAIN rows : rows[i] \in Row
  BY DEF TypeOK
<1>2. \A i \in 1 .. Len(rows) : Closed(c, time)[i] \in Row
  <2> TAKE i \in 1 .. Len(rows)
  <2>1. /\ rows[i] \in Row
        /\ Closed(c, time)[i] \in {rows[i], [rows[i] EXCEPT !.to = time]}
    BY <1>1 DEF Closed, TypeOK
  <2> QED
    BY <2>1, RowUpdate
<1>3. /\ Closed(c, time) = [i \in 1 .. Len(rows) |-> Closed(c, time)[i]]
      /\ Len(rows) \in Nat
  BY DEF Closed, TypeOK
<1> QED
  BY <1>2, <1>3

(* The call of s becomes r. *)
Moves(s, r) == op' = [op EXCEPT ![s] = r]

PointsOK == points \in [Id -> {"none", "open", "closed"}]

(* A step of one session keeps the types if what it does to its own call   *)
(* and to the stores has them.                                             *)
LEMMA StepType ==
  ASSUME TypeOK, NEW s \in Session, NEW r,
         Moves(s, r),
         CallOK(r, Len(rows')),
         writer' = s => r.pc \in {"find", "write"},
         writer' \in {writer, s, None},
         rows' \in Seq(Row), Len(rows) <= Len(rows'),
         scene' = scene,
         PointsOK',
         claims' \in 0 .. scene.claims, faults' \in 0 .. scene.faults
  PROVE  TypeOK'
<1>1. op' \in [Session -> Ops]
  BY DEF TypeOK, CallOK, Moves
<1>2. 1 .. Len(rows) \subseteq 1 .. Len(rows')
  BY DEF TypeOK
<1>3. ASSUME NEW t \in Session
      PROVE  /\ CallOK(op'[t], Len(rows'))
             /\ writer' = t => op'[t].pc \in {"find", "write"}
  <2>1. CASE t = s
    BY <2>1 DEF TypeOK, Moves
  <2>2. CASE t # s
    <3>1. op'[t] = op[t] /\ CallOK(op[t], Len(rows))
      BY <2>2 DEF TypeOK, Moves
    <3>2. writer' = t => writer = t
      BY <2>2, ClaimsAssumption
    <3>3. CallOK(op[t], Len(rows'))
      BY <1>2, <3>1 DEF CallOK, Ops, TypeOK
    <3> QED
      BY <3>1, <3>2, <3>3 DEF TypeOK
  <2> QED
    BY <2>1, <2>2
<1> QED
  BY <1>1, <1>3, ClaimsAssumption DEF TypeOK, Id, PointsOK

LEMMA NextTypeOK == TypeOK /\ [Next]_vars => TypeOK'
<1> SUFFICES ASSUME TypeOK, [Next]_vars PROVE TypeOK'
  OBVIOUS
<1>0. /\ scene.claims \in Nat /\ scene.faults \in Nat
      /\ Len(rows) \in Nat /\ rows \in Seq(Row)
      /\ PointsOK
      /\ writer \in Session \cup {None}
      /\ claims \in 0 .. scene.claims /\ faults \in 0 .. scene.faults
      /\ \A s \in Session : /\ CallOK(op[s], Len(rows))
                            /\ op[s] \in Ops
                            /\ writer = s => op[s].pc \in {"find", "write"}
  BY ClaimsAssumption DEF TypeOK, PointsOK
<1>1. ASSUME NEW s \in Session, NEW kind \in {"assert", "index"},
             NEW k \in Key, NEW v \in Value, NEW t \in 1 .. claims + 1,
             Assert(s, kind, k, v, t)
      PROVE  TypeOK'
  <2> DEFINE c == [key |-> k, val |-> v, from |-> t]
             label == IF kind = "index" THEN "count" ELSE "select"
             r == [Quiet EXCEPT !.pc = label, !.kind = kind, !.claim = c]
  <2>1. Moves(s, r)
    BY <1>1 DEF Assert, Moves
  <2>2. c \in Claim /\ label \in {"count", "select"}
    BY <1>0 DEF Claim
  <2>3. CallOK(r, Len(rows))
    <3> HIDE DEF c, label
    <3>1. r \in Ops
      BY <1>1, <2>2, QuietType DEF Ops, Labels
    <3>2. /\ r.pc = label /\ r.kind = kind /\ r.claim = c
          /\ r.shut = {} /\ r.id = 0
      BY QuietType DEF Ops
    <3> HIDE DEF r
    <3> QED
      BY <1>0, <1>1, <2>2, <3>1, <3>2 DEF CallOK
  <2>4. writer # s
    BY <1>0, <1>1 DEF Assert, MayBegin
  <2> HIDE DEF r
  <2>5. /\ claims' \in 0 .. scene.claims /\ PointsOK'
        /\ UNCHANGED <<scene, rows, writer, faults>>
    BY <1>0, <1>1 DEF Assert, PointsOK, Id
  <2> QED
    BY <1>0, <2>1, <2>3, <2>4, <2>5, StepType
<1>2. ASSUME NEW s \in Session, Retrieve(s) PROVE TypeOK'
  <2> DEFINE r == [Quiet EXCEPT !.pc = "count", !.kind = "retrieve"]
  <2>1. Moves(s, r)
    BY <1>2 DEF Retrieve, Moves
  <2>2. CallOK(r, Len(rows))
    <3>1. r \in Ops
      BY QuietType DEF Ops, Labels
    <3>2. r.pc = "count" /\ r.kind = "retrieve" /\ r.shut = {} /\ r.id = 0
      BY QuietType DEF Ops
    <3> HIDE DEF r
    <3> QED
      BY <1>0, <3>1, <3>2 DEF CallOK
  <2>3. writer # s
    BY <1>0, <1>2 DEF Retrieve, MayBegin
  <2> HIDE DEF r
  <2>4. PointsOK' /\ UNCHANGED <<scene, rows, writer, claims, faults>>
    BY <1>0, <1>2 DEF Retrieve, PointsOK, Id
  <2> QED
    BY <1>0, <2>1, <2>2, <2>3, <2>4, StepType
<1>3. ASSUME NEW s \in Session, Count(s) PROVE TypeOK'
  <2>1. PICK label \in {AfterBackfill(s), "read"} :
          Moves(s, [op[s] EXCEPT !.pc = label])
    BY <1>3 DEF Count, Goto, Moves
  <2> DEFINE r == [op[s] EXCEPT !.pc = label]
  <2>2. CallOK(r, Len(rows))
    BY <1>0, <2>1 DEF CallOK, Ops, Labels, AfterBackfill
  <2>3. writer # s
    BY <1>0, <1>3 DEF Count
  <2> HIDE DEF r
  <2>4. PointsOK' /\ UNCHANGED <<scene, rows, writer, claims, faults>>
    BY <1>0, <1>3 DEF Count, PointsOK, Id
  <2> QED
    BY <1>0, <2>1, <2>2, <2>3, <2>4, StepType DEF r
<1>4. ASSUME NEW s \in Session, ReadRows(s) PROVE TypeOK'
  <2> DEFINE r == [op[s] EXCEPT !.pc = "put", !.copy = rows]
  <2>1. Moves(s, r)
    BY <1>4 DEF ReadRows, Moves
  <2>2. CallOK(r, Len(rows))
    BY <1>0 DEF CallOK, Ops, Labels
  <2>3. writer # s
    BY <1>0, <1>4 DEF ReadRows
  <2> HIDE DEF r
  <2>4. PointsOK' /\ UNCHANGED <<scene, rows, writer, claims, faults>>
    BY <1>0, <1>4 DEF ReadRows, PointsOK, Id
  <2> QED
    BY <1>0, <2>1, <2>2, <2>3, <2>4, StepType
<1>5. ASSUME NEW s \in Session, PutPoints(s) PROVE TypeOK'
  <2> DEFINE label == AfterBackfill(s)
             r == [op[s] EXCEPT !.pc = label, !.copy = <<>>]
  <2>1. Moves(s, r)
    BY <1>5 DEF PutPoints, Moves
  <2>2. /\ label \in {"near", "search"}
        /\ label = "near" => op[s].kind = "index"
    BY DEF AfterBackfill
  <2>3. CallOK(r, Len(rows))
    <3> HIDE DEF label
    <3>1. op[s] \in Ops /\ CallOK(op[s], Len(rows))
      BY <1>0
    <3>2. r \in Ops
      <4>1. <<>> \in Seq(Row) /\ label \in Labels
        BY <2>2 DEF Labels
      <4> QED
        BY <3>1, <4>1 DEF Ops
    <3>3. /\ r.pc = label /\ r.kind = op[s].kind /\ r.claim = op[s].claim
          /\ r.shut = op[s].shut /\ r.id = op[s].id
      BY <3>1 DEF Ops
    <3> HIDE DEF r
    <3> QED
      BY <3>1, <3>2, <3>3, <2>2 DEF CallOK
  <2>4. writer # s
    BY <1>0, <1>5 DEF PutPoints
  <2> HIDE DEF r
  <2>5. PointsOK' /\ UNCHANGED <<scene, rows, writer, claims, faults>>
    BY <1>0, <1>5 DEF PutPoints, PointsOK, Id
  <2> QED
    BY <1>0, <2>1, <2>3, <2>4, <2>5, StepType
<1>6. ASSUME NEW s \in Session, Search(s) PROVE TypeOK'
  <2>1. Moves(s, Quiet)
    BY <1>6 DEF Search, Return, Moves
  <2>2. writer # s
    BY <1>0, <1>6 DEF Search
  <2>3. PointsOK' /\ UNCHANGED <<scene, rows, writer, claims, faults>>
    BY <1>0, <1>6 DEF Search, PointsOK, Id
  <2> QED
    BY <1>0, <2>1, <2>2, <2>3, QuietOK, StepType
<1>7. ASSUME NEW s \in Session, NEW i \in DOMAIN rows, Near(s, i)
      PROVE  TypeOK'
  <2> DEFINE r == [op[s] EXCEPT !.pc = "nearSet", !.id = i]
  <2>1. Moves(s, r)
    BY <1>7 DEF Near, Moves
  <2>2. i \in 1 .. Len(rows) /\ op[s].kind = "index"
    BY <1>0, <1>7 DEF CallOK, Near
  <2>3. CallOK(r, Len(rows))
    <3>1. op[s] \in Ops /\ CallOK(op[s], Len(rows))
      BY <1>0
    <3>2. r \in Ops
      <4>1. i \in Nat /\ "nearSet" \in Labels
        BY <1>0, <2>2 DEF Labels
      <4> QED
        BY <3>1, <4>1 DEF Ops
    <3>3. /\ r.pc = "nearSet" /\ r.kind = op[s].kind
          /\ r.claim = op[s].claim /\ r.shut = op[s].shut /\ r.id = i
      BY <3>1 DEF Ops
    <3> HIDE DEF r
    <3> QED
      BY <3>1, <3>2, <3>3, <1>0, <2>2 DEF CallOK
  <2>4. writer # s
    BY <1>0, <1>7 DEF Near
  <2> HIDE DEF r
  <2>5. PointsOK' /\ UNCHANGED <<scene, rows, writer, claims, faults>>
    BY <1>0, <1>7 DEF Near, PointsOK, Id
  <2> QED
    BY <1>0, <2>1, <2>3, <2>4, <2>5, StepType
<1>8. ASSUME NEW s \in Session, NearSet(s) PROVE TypeOK'
  <2>1. Moves(s, Quiet)
    BY <1>8 DEF NearSet, Return, Moves
  <2>2. writer # s
    BY <1>0, <1>8 DEF NearSet
  <2>3. PointsOK' /\ UNCHANGED <<scene, rows, writer, claims, faults>>
    BY <1>0, <1>8 DEF NearSet, PointsOK, Id
  <2> QED
    BY <1>0, <2>1, <2>2, <2>3, QuietOK, StepType
<1>9. ASSUME NEW s \in Session, NotNear(s) PROVE TypeOK'
  <2> DEFINE r == [op[s] EXCEPT !.pc = "select"]
  <2>1. Moves(s, r)
    BY <1>9 DEF NotNear, Goto, Moves
  <2>2. CallOK(r, Len(rows))
    BY <1>0, <1>9 DEF NotNear, CallOK, Ops, Labels
  <2>3. writer # s
    BY <1>0, <1>9 DEF NotNear
  <2> HIDE DEF r
  <2>4. PointsOK' /\ UNCHANGED <<scene, rows, writer, claims, faults>>
    BY <1>0, <1>9 DEF NotNear, PointsOK, Id
  <2> QED
    BY <1>0, <2>1, <2>2, <2>3, <2>4, StepType
<1>10. ASSUME NEW s \in Session, Select(s) PROVE TypeOK'
  <2> DEFINE shut == Conflicting(op[s].claim)
             label == IF shut = {} THEN "find" ELSE "close"
             r == [op[s] EXCEPT !.pc = label, !.shut = shut]
  <2>1. Moves(s, r)
    BY <1>10 DEF Select, Moves
  <2>2. shut \subseteq 1 .. Len(rows) /\ label \in {"find", "close"}
    BY <1>0 DEF Conflicting, Open
  <2>3. op[s].kind \in {"assert", "index"}
    BY <1>0, <1>10 DEF CallOK, Select
  <2>4. CallOK(r, Len(rows))
    <3> HIDE DEF shut, label
    <3>1. op[s] \in Ops /\ CallOK(op[s], Len(rows))
      BY <1>0
    <3>2. r \in Ops
      <4>1. shut \in SUBSET Nat /\ label \in Labels
        BY <1>0, <2>2 DEF Labels
      <4> QED
        BY <3>1, <4>1 DEF Ops
    <3>3. /\ r.pc = label /\ r.kind = op[s].kind /\ r.claim = op[s].claim
          /\ r.shut = shut /\ r.id = op[s].id
      BY <3>1 DEF Ops
    <3> HIDE DEF r
    <3> QED
      BY <3>1, <3>2, <3>3, <2>2, <2>3 DEF CallOK
  <2>5. writer # s
    BY <1>0, <1>10 DEF Select
  <2> HIDE DEF r
  <2>6. PointsOK' /\ UNCHANGED <<scene, rows, writer, claims, faults>>
    BY <1>0, <1>10 DEF Select, PointsOK, Id
  <2> QED
    BY <1>0, <2>1, <2>4, <2>5, <2>6, StepType
<1>11. ASSUME NEW s \in Session, Close(s) PROVE TypeOK'
  <2> DEFINE r == [op[s] EXCEPT !.pc = "find"]
  <2>1. Moves(s, r)
    BY <1>11 DEF Close, Goto, Moves
  <2>2. CallOK(r, Len(rows)) /\ r.pc = "find"
    BY <1>0, <1>11 DEF Close, CallOK, Ops, Labels
  <2> HIDE DEF r
  <2>3. PointsOK' /\ UNCHANGED <<scene, rows, claims, faults>> /\ writer' = s
    BY <1>0, <1>11 DEF Close, PointsOK, Id
  <2> QED
    BY <1>0, <2>1, <2>2, <2>3, StepType
<1>12. ASSUME NEW s \in Session, Find(s) PROVE TypeOK'
  <2>1. PICK i \in 0 .. Len(rows) :
          op' = [op EXCEPT ![s].pc = "write", ![s].id = i]
    <3>1. ASSUME NEW i, i = 0 \/ i \in Open PROVE i \in 0 .. Len(rows)
      BY <1>0, <3>1 DEF Open
    <3> QED
      BY <1>12, <3>1 DEF Find
  <2> DEFINE r == [op[s] EXCEPT !.pc = "write", !.id = i]
  <2>2. Moves(s, r)
    BY <2>1 DEF Moves
  <2>3. CallOK(r, Len(rows)) /\ r.pc = "write"
    <3>1. op[s] \in Ops /\ CallOK(op[s], Len(rows))
      BY <1>0
    <3>2. r \in Ops
      <4>1. i \in Nat /\ "write" \in Labels
        BY <1>0 DEF Labels
      <4> QED
        BY <3>1, <4>1 DEF Ops
    <3>3. /\ r.pc = "write" /\ r.kind = op[s].kind
          /\ r.claim = op[s].claim /\ r.shut = op[s].shut /\ r.id = i
      BY <3>1 DEF Ops
    <3> HIDE DEF r
    <3> QED
      BY <3>1, <3>2, <3>3, <1>0, <1>12 DEF CallOK, Find
  <2> HIDE DEF r
  <2>4. PointsOK' /\ UNCHANGED <<scene, rows, writer, claims, faults>>
    BY <1>0, <1>12 DEF Find, PointsOK, Id
  <2> QED
    BY <1>0, <2>2, <2>3, <2>4, StepType
<1>13. ASSUME NEW s \in Session, Write(s) PROVE TypeOK'
  <2> DEFINE c == op[s].claim
             new == op[s].id = 0
             kept == IF writer = s THEN Closed(c, c.from) ELSE rows
             n == IF new THEN Len(rows) + 1 ELSE Len(rows)
             next == [op[s] EXCEPT !.pc = "flag", !.new = new,
                                   !.id = IF new THEN Len(rows) + 1 ELSE @]
             r == IF op[s].kind = "assert" THEN Quiet ELSE next
  <2>1. /\ c \in Claim /\ op[s].id \in 0 .. Len(rows)
        /\ op[s].kind \in {"assert", "index"}
    BY <1>0, <1>13 DEF Write, CallOK, Ops
  <2>2. kept \in Seq(Row) /\ Len(kept) = Len(rows)
    BY <1>0, <2>1, ClosedType DEF Claim
  <2>3. AsRow(c) \in Row
    BY <2>1 DEF Claim, AsRow, Row
  <2>4. rows' = IF new THEN Append(kept, AsRow(c)) ELSE kept
    BY <1>13 DEF Write
  <2>5. rows' \in Seq(Row) /\ Len(rows') = n /\ Len(rows) <= Len(rows')
    <3> HIDE DEF kept, c, new
    <3> QED
      BY <1>0, <2>2, <2>3, <2>4
  <2>6. Moves(s, r)
    BY <1>13 DEF Write, Moves
  <2>7. ASSUME op[s].kind # "assert" PROVE CallOK(next, n)
    <3> DEFINE id == IF new THEN Len(rows) + 1 ELSE op[s].id
    <3>1. op[s] \in Ops /\ CallOK(op[s], Len(rows)) /\ new \in BOOLEAN
      BY <1>0
    <3>2. id \in 0 .. n /\ n \in Nat /\ Len(rows) <= n
      BY <1>0, <2>1
    <3>3. next = [op[s] EXCEPT !.pc = "flag", !.new = new, !.id = id]
      BY <3>1 DEF Ops
    <3> HIDE DEF id, new, n, next
    <3>4. next \in Ops
      <4>1. id \in Nat /\ "flag" \in Labels
        BY <3>2 DEF Labels
      <4> QED
        BY <3>1, <3>3, <4>1 DEF Ops
    <3>5. /\ next.pc = "flag" /\ next.kind = op[s].kind
          /\ next.claim = op[s].claim /\ next.shut = op[s].shut
          /\ next.id = id
      BY <3>1, <3>3 DEF Ops
    <3> QED
      BY <1>0, <2>1, <2>7, <3>1, <3>2, <3>4, <3>5 DEF CallOK
  <2>8. CallOK(r, Len(rows'))
    BY <1>0, <2>5, <2>7, QuietOK
  <2> HIDE DEF r
  <2>9. PointsOK' /\ UNCHANGED <<scene, claims, faults>> /\ writer' = None
    BY <1>0, <1>13 DEF Write, PointsOK, Id
  <2> QED
    BY <1>0, <2>5, <2>6, <2>8, <2>9, StepType, ClaimsAssumption
<1>14. ASSUME NEW s \in Session, Flag(s) PROVE TypeOK'
  <2> DEFINE r == [op[s] EXCEPT !.pc = "point"]
  <2>1. Moves(s, r)
    BY <1>14 DEF Flag, Goto, Moves
  <2>2. CallOK(r, Len(rows))
    BY <1>0, <1>14 DEF Flag, CallOK, Ops, Labels
  <2>3. writer # s
    BY <1>0, <1>14 DEF Flag
  <2> HIDE DEF r
  <2>4. PointsOK' /\ UNCHANGED <<scene, rows, writer, claims, faults>>
    BY <1>0, <1>14 DEF Flag, PointsOK, Id
  <2> QED
    BY <1>0, <2>1, <2>2, <2>3, <2>4, StepType
<1>15. ASSUME NEW s \in Session, Point(s) PROVE TypeOK'
  <2>1. Moves(s, Quiet)
    BY <1>15 DEF Point, Return, Moves
  <2>2. writer # s
    BY <1>0, <1>15 DEF Point
  <2>3. PointsOK' /\ UNCHANGED <<scene, rows, writer, claims, faults>>
    BY <1>0, <1>15 DEF Point, PointsOK, Id
  <2> QED
    BY <1>0, <2>1, <2>2, <2>3, QuietOK, StepType
<1>16. ASSUME NEW s \in Session, Fail(s) PROVE TypeOK'
  <2>1. Moves(s, Quiet)
    BY <1>16 DEF Fail, Return, Moves
  <2>2. /\ PointsOK' /\ UNCHANGED <<scene, rows, claims>>
        /\ faults' \in 0 .. scene.faults
        /\ writer' \in {writer, None} /\ writer' # s
    BY <1>0, <1>16, ClaimsAssumption DEF Fail, PointsOK, Id
  <2> QED
    BY <1>0, <2>1, <2>2, QuietOK, StepType
<1>17. CASE UNCHANGED vars
  BY <1>17 DEF vars, TypeOK, Id
<1> QED
  BY <1>1, <1>2, <1>3, <1>4, <1>5, <1>6, <1>7, <1>8, <1>9, <1>10, <1>11,
     <1>12, <1>13, <1>14, <1>15, <1>16, <1>17 DEF Next, Step

(* Table, mirror, transaction and calls keep their types; a session that   *)
(* holds the write lock is past its first UPDATE and before its commit.    *)
THEOREM ClaimsTypeCorrect == Spec => []TypeOK
  BY InitTypeOK, NextTypeOK, PTL DEF Spec

-----------------------------------------------------------------------------
(***************************************************************************)
(* One value per key, when calls do not overlap.  OneOpen alone is not     *)
(* inductive: it says nothing of the call about to insert.  What that call *)
(* has read is still true: if it holds no transaction, no open row         *)
(* conflicts with its claim; and the duplicate it found is still there, or *)
(* still missing.                                                          *)
(***************************************************************************)
(* Row i says what claim c says. *)
Same(i, c) == rows[i].key = c.key /\ rows[i].val = c.val

Informed(s) ==
  /\ op[s].pc \in {"find", "write"} /\ writer # s =>
       Conflicting(op[s].claim) = {}
  /\ op[s].pc = "write" =>
       IF op[s].id = 0 THEN \A i \in Open : ~Same(i, op[s].claim)
       ELSE op[s].id \in Open /\ Same(op[s].id, op[s].claim)

Alone ==
  \A s, t \in Session : op[s].pc # "idle" /\ op[t].pc # "idle" => s = t

SerialInv ==
  /\ TypeOK
  /\ OneOpen
  /\ Serial => Alone /\ \A s \in Session : Informed(s)

(* What the commit of s does to each row.                                  *)
LEMMA WriteRows ==
  ASSUME TypeOK, NEW s \in Session, Write(s)
  PROVE  /\ op[s].claim \in Claim
         /\ DOMAIN rows = 1 .. Len(rows) /\ Len(rows) \in Nat
         /\ DOMAIN rows' = IF op[s].id = 0 THEN 1 .. Len(rows) + 1
                           ELSE 1 .. Len(rows)
         /\ op[s].id = 0 => rows'[Len(rows) + 1] = AsRow(op[s].claim)
         /\ \A i \in DOMAIN rows :
              /\ rows'[i].key = rows[i].key
              /\ rows'[i].val = rows[i].val
              /\ rows'[i].from = rows[i].from
              /\ rows'[i].to = IF writer = s /\ i \in Conflicting(op[s].claim)
                               THEN op[s].claim.from ELSE rows[i].to
<1> DEFINE c == op[s].claim
           kept == IF writer = s THEN Closed(c, c.from) ELSE rows
<1>1. c \in Claim
  BY DEF TypeOK, CallOK, Write
<1>2. /\ DOMAIN rows = 1 .. Len(rows) /\ Len(rows) \in Nat
      /\ rows \in Seq(Row) /\ \A i \in DOMAIN rows : rows[i] \in Row
  BY DEF TypeOK
<1>3. c.from \in Nat
  BY <1>1 DEF Claim
<1>4. kept \in Seq(Row) /\ Len(kept) = Len(rows)
  BY <1>2, <1>3, ClosedType
<1>5. ASSUME NEW i \in DOMAIN rows
      PROVE  /\ kept[i].key = rows[i].key
             /\ kept[i].val = rows[i].val
             /\ kept[i].from = rows[i].from
             /\ kept[i].to = IF writer = s /\ i \in Conflicting(c)
                             THEN c.from ELSE rows[i].to
  <2>1. CASE writer = s /\ i \in Conflicting(c)
    <3>1. kept[i] = [rows[i] EXCEPT !.to = c.from]
      BY <2>1, <1>5 DEF Closed
    <3> QED
      BY <3>1, <2>1, <1>2, <1>3, <1>5 DEF Row
  <2>2. CASE ~(writer = s /\ i \in Conflicting(c))
    BY <2>2, <1>5 DEF Closed
  <2> QED
    BY <2>1, <2>2
<1>6. rows' = IF op[s].id = 0 THEN Append(kept, AsRow(c)) ELSE kept
  BY DEF Write
<1>7. AsRow(c) \in Row
  BY <1>1 DEF Claim, AsRow, Row
<1> HIDE DEF kept
<1>8. /\ DOMAIN rows' = IF op[s].id = 0 THEN 1 .. Len(rows) + 1
                        ELSE 1 .. Len(rows)
      /\ op[s].id = 0 => rows'[Len(rows) + 1] = AsRow(c)
      /\ \A i \in DOMAIN rows : rows'[i] = kept[i]
  BY <1>2, <1>4, <1>6, <1>7
<1> QED
  BY <1>1, <1>2, <1>5, <1>8

LEMMA SerialInit == Init => SerialInv
<1> SUFFICES ASSUME Init PROVE SerialInv
  OBVIOUS
<1>1. Open = {}
  BY DEF Init, Open
<1>2. \A s \in Session : op[s] = Quiet
  BY DEF Init
<1> QED
  BY <1>1, <1>2, InitTypeOK, QuietType
     DEF SerialInv, OneOpen, Alone, Informed

(* A step that leaves the table alone.                                     *)
LEMMA SerialStep ==
  ASSUME SerialInv, [Next]_vars, NEW s \in Session, NEW r,
         Moves(s, r), scene' = scene, rows' = rows,
         Serial => (op[s].pc # "idle" \/ \A t \in Session : op[t].pc = "idle"),
         Serial => Informed(s)'
  PROVE  SerialInv'
<1>1. TypeOK' /\ TypeOK
  BY NextTypeOK DEF SerialInv
<1>2. OneOpen'
  BY DEF SerialInv, OneOpen, Serial, Open
<1>3. \A t \in Session \ {s} : op'[t] = op[t]
  BY <1>1 DEF Moves, TypeOK
<1>4. ASSUME Serial'
      PROVE  Alone' /\ \A t \in Session : Informed(t)'
  <2>1. Serial /\ Alone
    BY <1>4 DEF Serial, SerialInv
  <2>2. \A t \in Session \ {s} : op'[t].pc = "idle"
    BY <1>3, <2>1 DEF Alone
  <2>3. Alone'
    BY <2>2 DEF Alone
  <2>4. \A t \in Session \ {s} : Informed(t)'
    BY <2>2 DEF Informed
  <2> QED
    BY <2>1, <2>3, <2>4
<1> QED
  BY <1>1, <1>2, <1>4 DEF SerialInv

LEMMA SerialNext == SerialInv /\ [Next]_vars => SerialInv'
<1> SUFFICES ASSUME SerialInv, [Next]_vars PROVE SerialInv'
  OBVIOUS
<1>0. /\ TypeOK /\ TypeOK'
      /\ op \in [Session -> Ops]
  BY NextTypeOK DEF SerialInv, TypeOK
<1>1. ASSUME NEW s \in Session, NEW r, Moves(s, r), scene' = scene,
             rows' = rows, r.pc \notin {"find", "write"},
             Serial => (op[s].pc # "idle"
                         \/ \A t \in Session : op[t].pc = "idle")
      PROVE  SerialInv'
  <2>1. op'[s] = r
    BY <1>0, <1>1 DEF Moves
  <2>2. Informed(s)'
    BY <1>1, <2>1 DEF Informed
  <2> QED
    BY <1>1, <2>2, SerialStep
<1>2. ASSUME NEW s \in Session, NEW kind \in {"assert", "index"},
             NEW k \in Key, NEW v \in Value, NEW t \in 1 .. claims + 1,
             Assert(s, kind, k, v, t)
      PROVE  SerialInv'
  <2> DEFINE r == [Quiet EXCEPT
               !.pc = IF kind = "index" THEN "count" ELSE "select",
               !.kind = kind, !.claim = [key |-> k, val |-> v, from |-> t]]
  <2>1. Moves(s, r)
    BY <1>2 DEF Assert, Moves
  <2>2. r.pc \in {"count", "select"}
    BY QuietType DEF Ops
  <2> HIDE DEF r
  <2>3. /\ scene' = scene /\ rows' = rows
        /\ Serial => \A u \in Session : op[u].pc = "idle"
    BY <1>2 DEF Assert, MayBegin, Serial
  <2> QED
    BY <1>1, <2>1, <2>2, <2>3
<1>3. ASSUME NEW s \in Session, Retrieve(s) PROVE SerialInv'
  <2> DEFINE r == [Quiet EXCEPT !.pc = "count", !.kind = "retrieve"]
  <2>1. Moves(s, r)
    BY <1>3 DEF Retrieve, Moves
  <2>2. r.pc \in {"count"}
    BY <1>0, QuietType DEF Ops
  <2> HIDE DEF r
  <2>3. /\ scene' = scene /\ rows' = rows
        /\ Serial => \A u \in Session : op[u].pc = "idle"
    BY <1>3 DEF Retrieve, MayBegin, Serial
  <2> QED
    BY <1>1, <2>1, <2>2, <2>3
<1>4. ASSUME NEW s \in Session, Count(s) PROVE SerialInv'
  <2>1. PICK label \in {AfterBackfill(s), "read"} :
          Moves(s, [op[s] EXCEPT !.pc = label])
    BY <1>4 DEF Count, Goto, Moves
  <2> DEFINE r == [op[s] EXCEPT !.pc = label]
  <2>2. r.pc \in {"near", "search", "read"}
    BY <1>0, <2>1 DEF Ops, AfterBackfill
  <2>3. Moves(s, r)
    BY <2>1
  <2> HIDE DEF r
  <2>4. /\ scene' = scene /\ rows' = rows
        /\ op[s].pc # "idle"
    BY <1>4 DEF Count
  <2> QED
    BY <1>1, <2>2, <2>3, <2>4
<1>5. ASSUME NEW s \in Session, ReadRows(s) PROVE SerialInv'
  <2> DEFINE r == [op[s] EXCEPT !.pc = "put", !.copy = rows]
  <2>1. Moves(s, r)
    BY <1>5 DEF ReadRows, Moves
  <2>2. r.pc \in {"put"}
    BY <1>0, QuietType DEF Ops
  <2> HIDE DEF r
  <2>3. /\ scene' = scene /\ rows' = rows
        /\ op[s].pc # "idle"
    BY <1>5 DEF ReadRows
  <2> QED
    BY <1>1, <2>1, <2>2, <2>3
<1>6. ASSUME NEW s \in Session, PutPoints(s) PROVE SerialInv'
  <2> DEFINE r == [op[s] EXCEPT !.pc = AfterBackfill(s), !.copy = <<>>]
  <2>1. Moves(s, r)
    BY <1>6 DEF PutPoints, Moves
  <2>2. r.pc \in {"near", "search"}
    BY <1>0, QuietType DEF Ops, AfterBackfill
  <2> HIDE DEF r
  <2>3. /\ scene' = scene /\ rows' = rows
        /\ op[s].pc # "idle"
    BY <1>6 DEF PutPoints
  <2> QED
    BY <1>1, <2>1, <2>2, <2>3
<1>7. ASSUME NEW s \in Session, Search(s) PROVE SerialInv'
  <2>1. Moves(s, Quiet)
    BY <1>7 DEF Search, Return, Moves
  <2>2. /\ scene' = scene /\ rows' = rows
        /\ op[s].pc # "idle"
    BY <1>7 DEF Search
  <2> QED
    BY <1>1, <2>1, <2>2, QuietType
<1>8. ASSUME NEW s \in Session, NEW i \in DOMAIN rows, Near(s, i)
      PROVE  SerialInv'
  <2> DEFINE r == [op[s] EXCEPT !.pc = "nearSet", !.id = i]
  <2>1. Moves(s, r)
    BY <1>8 DEF Near, Moves
  <2>2. r.pc \in {"nearSet"}
    BY <1>0, QuietType DEF Ops
  <2> HIDE DEF r
  <2>3. /\ scene' = scene /\ rows' = rows
        /\ op[s].pc # "idle"
    BY <1>8 DEF Near
  <2> QED
    BY <1>1, <2>1, <2>2, <2>3
<1>9. ASSUME NEW s \in Session, NearSet(s) PROVE SerialInv'
  <2>1. Moves(s, Quiet)
    BY <1>9 DEF NearSet, Return, Moves
  <2>2. /\ scene' = scene /\ rows' = rows
        /\ op[s].pc # "idle"
    BY <1>9 DEF NearSet
  <2> QED
    BY <1>1, <2>1, <2>2, QuietType
<1>10. ASSUME NEW s \in Session, NotNear(s) PROVE SerialInv'
  <2> DEFINE r == [op[s] EXCEPT !.pc = "select"]
  <2>1. Moves(s, r)
    BY <1>10 DEF NotNear, Goto, Moves
  <2>2. r.pc \in {"select"}
    BY <1>0, QuietType DEF Ops
  <2> HIDE DEF r
  <2>3. /\ scene' = scene /\ rows' = rows
        /\ op[s].pc # "idle"
    BY <1>10 DEF NotNear
  <2> QED
    BY <1>1, <2>1, <2>2, <2>3
<1>11. ASSUME NEW s \in Session, Select(s) PROVE SerialInv'
  <2> DEFINE shut == Conflicting(op[s].claim)
             label == IF shut = {} THEN "find" ELSE "close"
             r == [op[s] EXCEPT !.pc = label, !.shut = shut]
  <2>1. Moves(s, r)
    BY <1>11 DEF Select, Moves
  <2>2. op'[s] = r
    BY <1>0, <2>1 DEF Moves
  <2>3. r.pc = label /\ r.claim = op[s].claim
    BY <1>0 DEF Ops
  <2>4. /\ scene' = scene /\ rows' = rows
        /\ op[s].pc # "idle"
    BY <1>11 DEF Select
  <2>5. Conflicting(op[s].claim)' = shut
    BY <2>2, <2>3, <2>4 DEF Conflicting, Open
  <2>6. Informed(s)'
    BY <2>2, <2>3, <2>5 DEF Informed
  <2> HIDE DEF r
  <2> QED
    BY <2>1, <2>4, <2>6, SerialStep
<1>12. ASSUME NEW s \in Session, Close(s) PROVE SerialInv'
  <2> DEFINE r == [op[s] EXCEPT !.pc = "find"]
  <2>1. Moves(s, r)
    BY <1>12 DEF Close, Goto, Moves
  <2>2. op'[s] = r
    BY <1>0, <2>1 DEF Moves
  <2>3. r.pc = "find"
    BY <1>0 DEF Ops
  <2>4. /\ scene' = scene /\ rows' = rows /\ writer' = s
        /\ op[s].pc # "idle"
    BY <1>12 DEF Close
  <2>5. Informed(s)'
    BY <2>2, <2>3, <2>4 DEF Informed
  <2> HIDE DEF r
  <2> QED
    BY <2>1, <2>4, <2>5, SerialStep
<1>13. ASSUME NEW s \in Session, Find(s) PROVE SerialInv'
  <2> DEFINE same == {i \in Open : Same(i, op[s].claim)}
  <2>1. PICK i \in IF same = {} THEN {0} ELSE same :
          op' = [op EXCEPT ![s].pc = "write", ![s].id = i]
    BY <1>13 DEF Find, Same
  <2> DEFINE r == [op[s] EXCEPT !.pc = "write", !.id = i]
  <2>2. Moves(s, r)
    BY <2>1 DEF Moves
  <2>3. op'[s] = r
    BY <1>0, <2>2 DEF Moves
  <2>4. r.pc = "write" /\ r.claim = op[s].claim /\ r.id = i
    BY <1>0 DEF Ops
  <2> HIDE DEF r
  <2>5. /\ scene' = scene /\ rows' = rows /\ writer' = writer
        /\ op[s].pc = "find"
    BY <1>13 DEF Find
  <2>6. Serial => Informed(s)'
    <3>1. Open' = Open /\ 0 \notin Open
      BY <1>0, <2>5 DEF Open, TypeOK
    <3>2. Conflicting(op[s].claim)' = Conflicting(op[s].claim)
      BY <2>3, <2>4, <2>5, <3>1 DEF Conflicting
    <3>3. Serial /\ writer # s => Conflicting(op[s].claim) = {}
      BY <2>5 DEF SerialInv, Informed
    <3>4. IF i = 0 THEN same = {} ELSE i \in same
      BY <3>1
    <3> QED
      BY <2>3, <2>4, <2>5, <3>1, <3>2, <3>3, <3>4 DEF Informed, Same
  <2> QED
    BY <2>2, <2>5, <2>6, SerialStep
<1>14. ASSUME NEW s \in Session, Write(s) PROVE SerialInv'
  <2>1. op[s].pc = "write" /\ scene' = scene
    BY <1>14 DEF Write
  <2>2. op'[s].pc \in {"idle", "flag"}
    BY <1>0, <1>14, QuietType DEF Write, Ops
  <2>3. \A t \in Session \ {s} : op'[t] = op[t]
    BY <1>0, <1>14 DEF Write
  <2>4. ASSUME Serial
        PROVE  Alone' /\ \A t \in Session : Informed(t)'
    <3>1. \A t \in Session \ {s} : op'[t].pc = "idle"
      BY <2>1, <2>3, <2>4 DEF SerialInv, Alone
    <3> QED
      BY <2>2, <3>1 DEF Alone, Informed
  <2>5. OneOpen'
    <3> SUFFICES ASSUME Serial, NEW i \in Open', NEW j \in Open', i # j,
                        rows'[i].key = rows'[j].key
                 PROVE  /\ rows'[i].key \notin Single
                        /\ rows'[i].val # rows'[j].val
      BY <2>1 DEF OneOpen, Serial
    <3> DEFINE c == op[s].claim
               n == Len(rows) + 1
    <3>1. Informed(s)
      BY DEF SerialInv
    <3>2. ASSUME NEW k \in Open', k # n \/ op[s].id # 0
          PROVE  k \in Open \ Conflicting(c)
      <4>1. k \in DOMAIN rows
        BY <1>0, <1>14, <3>2, WriteRows DEF Open
      <4>2. c.from # None
        BY <1>0, <1>14, WriteRows, ClaimsAssumption DEF Claim
      <4>3. rows'[k].to = None
        BY DEF Open
      <4> QED
        BY <1>0, <1>14, <2>1, <3>1, <4>1, <4>2, <4>3, WriteRows
           DEF Open, Informed
    <3>3. ASSUME NEW k \in Open', k # n, op[s].id = 0, rows'[k].key = c.key
          PROVE  c.key \notin Single /\ rows'[k].val # c.val
      <4>1. k \in Open \ Conflicting(c) /\ ~Same(k, c)
        BY <2>1, <3>1, <3>2, <3>3 DEF Informed
      <4>2. rows'[k].key = rows[k].key /\ rows'[k].val = rows[k].val
        BY <1>0, <1>14, <4>1, WriteRows DEF Open
      <4> QED
        BY <3>3, <4>1, <4>2 DEF Conflicting, Same
    <3>4. op[s].id = 0 => rows'[n].key = c.key /\ rows'[n].val = c.val
      <4>1. op[s].id = 0 => rows'[n] = AsRow(c)
        BY <1>0, <1>14, WriteRows
      <4> QED
        BY <4>1 DEF AsRow
    <3>5. CASE op[s].id = 0 /\ (i = n \/ j = n)
      BY <3>3, <3>4, <3>5
    <3>6. CASE op[s].id # 0 \/ (i # n /\ j # n)
      <4>1. i \in Open /\ j \in Open
        BY <3>2, <3>6
      <4>2. /\ rows'[i].key = rows[i].key /\ rows'[i].val = rows[i].val
            /\ rows'[j].key = rows[j].key /\ rows'[j].val = rows[j].val
        BY <1>0, <1>14, <4>1, WriteRows DEF Open
      <4> QED
        BY <4>1, <4>2 DEF SerialInv, OneOpen
    <3> QED
      BY <3>5, <3>6
  <2> QED
    BY <1>0, <2>1, <2>4, <2>5 DEF SerialInv, Serial
<1>15. ASSUME NEW s \in Session, Flag(s) PROVE SerialInv'
  <2> DEFINE r == [op[s] EXCEPT !.pc = "point"]
  <2>1. Moves(s, r)
    BY <1>15 DEF Flag, Goto, Moves
  <2>2. r.pc \in {"point"}
    BY <1>0 DEF Ops
  <2> HIDE DEF r
  <2>3. /\ scene' = scene /\ rows' = rows
        /\ op[s].pc # "idle"
    BY <1>15 DEF Flag
  <2> QED
    BY <1>1, <2>1, <2>2, <2>3
<1>16. ASSUME NEW s \in Session, Point(s) PROVE SerialInv'
  <2>1. Moves(s, Quiet)
    BY <1>16 DEF Point, Return, Moves
  <2>2. /\ scene' = scene /\ rows' = rows
        /\ op[s].pc # "idle"
    BY <1>16 DEF Point
  <2> QED
    BY <1>1, <2>1, <2>2, QuietType
<1>17. ASSUME NEW s \in Session, Fail(s) PROVE SerialInv'
  <2>1. Moves(s, Quiet)
    BY <1>17 DEF Fail, Return, Moves
  <2>2. /\ scene' = scene /\ rows' = rows
        /\ op[s].pc # "idle"
    BY <1>17 DEF Fail
  <2> QED
    BY <1>1, <2>1, <2>2, QuietType
<1>18. CASE UNCHANGED vars
  BY <1>0, <1>18
     DEF vars, SerialInv, OneOpen, Serial, Alone, Informed, Open,
         Conflicting, Same
<1> QED
  BY <1>2, <1>3, <1>4, <1>5, <1>6, <1>7, <1>8, <1>9, <1>10, <1>11, <1>12,
     <1>13, <1>14, <1>15, <1>16, <1>17, <1>18 DEF Next, Step

(* If calls do not overlap, a single-valued key has at most one open claim *)
(* and no claim is open twice, with failures between any two statements.   *)
THEOREM SerialOneOpen == Spec => []OneOpen
<1>1. SerialInv => OneOpen
  BY DEF SerialInv
<1> QED
  BY <1>1, SerialInit, SerialNext, PTL DEF Spec

(* If calls do not overlap, a key that has an open claim keeps having one: *)
(* the row that closes it and the one that supersedes it are one commit.   *)
THEOREM SerialAnswered == Spec => NeverUnanswered
<1>1. SerialInv /\ [Next]_vars =>
        [Serial => \A i \in Open : \E j \in Open' :
                     rows'[j].key = rows[i].key]_vars
  <2> SUFFICES ASSUME SerialInv, [Next]_vars, Serial, NEW i \in Open
               PROVE  \E j \in Open' : rows'[j].key = rows[i].key
    OBVIOUS
  <2>1. CASE rows' = rows
    BY <2>1 DEF Open
  <2>2. CASE rows' # rows
    <3>1. PICK s \in Session : Write(s)
      BY <2>2 DEF Next, Step, vars, Assert, Retrieve, Count, ReadRows,
         PutPoints, Search, Near, NearSet, NotNear, Select, Close, Find,
         Flag, Point, Fail
    <3> DEFINE c == op[s].claim
               n == Len(rows) + 1
    <3>2. TypeOK /\ Informed(s) /\ op[s].pc = "write"
      BY <3>1 DEF SerialInv, Write
    <3>3. ASSUME NEW k \in Open \ Conflicting(c)
          PROVE  k \in Open' /\ rows'[k].key = rows[k].key
      BY <3>1, <3>2, WriteRows DEF Open
    <3>4. CASE i \notin Conflicting(c)
      BY <3>3, <3>4
    <3>5. CASE i \in Conflicting(c) /\ op[s].id = 0
      <4>1. n \in Open' /\ rows'[n].key = c.key
        <5>1. rows'[n] = AsRow(c) /\ n \in DOMAIN rows'
          BY <3>1, <3>2, <3>5, WriteRows
        <5>2. AsRow(c).to = None /\ AsRow(c).key = c.key
          BY DEF AsRow
        <5> QED
          BY <5>1, <5>2 DEF Open
      <4> QED
        BY <3>5, <4>1 DEF Conflicting
    <3>6. CASE i \in Conflicting(c) /\ op[s].id # 0
      <4>1. op[s].id \in Open \ Conflicting(c) /\ rows[op[s].id].key = c.key
        BY <3>2, <3>6 DEF Informed, Same, Conflicting
      <4> QED
        BY <3>3, <3>6, <4>1 DEF Conflicting
    <3> QED
      BY <3>4, <3>5, <3>6
  <2> QED
    BY <2>1, <2>2
<1> QED
  BY <1>1, SerialInit, SerialNext, PTL DEF Spec, NeverUnanswered

(* Times before the valid_at of a claim are not touched by its call: what  *)
(* as_of answers about them stays, whichever calls overlap and whatever    *)
(* fails.                                                                  *)
THEOREM HistoryStays == Spec => PastStays
<1>1. TypeOK /\ [Next]_vars =>
        [\A t \in 0 .. claims :
           (\A s \in Session : op[s].kind \in {"assert", "index"} =>
                                 t < op[s].claim.from)
             => AsOf(t)' = AsOf(t)]_vars
  <2> SUFFICES ASSUME TypeOK, [Next]_vars, NEW t \in 0 .. claims,
                      \A s \in Session : op[s].kind \in {"assert", "index"} =>
                                           t < op[s].claim.from
               PROVE  AsOf(t)' = AsOf(t)
    OBVIOUS
  <2>1. CASE rows' = rows
    BY <2>1 DEF AsOf
  <2>2. CASE rows' # rows
    <3>1. PICK s \in Session : Write(s)
      BY <2>2 DEF Next, Step, vars, Assert, Retrieve, Count, ReadRows,
         PutPoints, Search, Near, NearSet, NotNear, Select, Close, Find,
         Flag, Point, Fail
    <3> DEFINE c == op[s].claim
               n == Len(rows) + 1
    <3>2. t < c.from
      BY <3>1 DEF Write, TypeOK, CallOK
    <3>3. c.from \in Nat /\ t \in Nat
      BY <3>1, WriteRows DEF Claim, TypeOK
    <3>4. \A i \in DOMAIN rows : rows[i] \in Row
      BY DEF TypeOK
    <3>5. ASSUME NEW i \in DOMAIN rows PROVE i \in AsOf(t)' <=> i \in AsOf(t)
      <4>1. i \in DOMAIN rows' /\ rows'[i].from = rows[i].from
        BY <3>1, <3>5, WriteRows
      <4>2. CASE writer = s /\ i \in Conflicting(c)
        <5>1. rows'[i].to = c.from /\ rows[i].to = None
          BY <3>1, <3>5, <4>2, WriteRows DEF Conflicting, Open
        <5> QED
          BY <3>2, <4>1, <5>1 DEF AsOf
      <4>3. CASE ~(writer = s /\ i \in Conflicting(c))
        <5>1. rows'[i].to = rows[i].to
          BY <3>1, <3>5, <4>3, WriteRows
        <5> QED
          BY <3>5, <4>1, <5>1 DEF AsOf
      <4> QED
        BY <4>2, <4>3
    <3>6. n \notin AsOf(t)'
      <4>1. n \in DOMAIN rows' => rows'[n] = AsRow(c)
        BY <3>1, WriteRows
      <4>2. AsRow(c).from = c.from
        BY DEF AsRow
      <4> QED
        BY <3>2, <3>3, <4>1, <4>2 DEF AsOf
    <3>7. DOMAIN rows' \subseteq DOMAIN rows \cup {n}
      BY <3>1, WriteRows
    <3> QED
      BY <3>5, <3>6, <3>7 DEF AsOf
  <2> QED
    BY <2>1, <2>2
<1> QED
  BY <1>1, InitTypeOK, NextTypeOK, PTL DEF Spec, PastStays

-----------------------------------------------------------------------------
(***************************************************************************)
(* One value at every time, when moreover no claim is about the past.  The *)
(* periods of two rows of a single-valued key are apart; every row begins  *)
(* before the call in progress, whose claim begins now.                    *)
(***************************************************************************)
(* Calls neither overlap nor speak of the past. *)
Timely == Serial /\ "backdate" \notin scene.env

Before(i, j) == rows[i].to # None /\ rows[i].to <= rows[j].from

Pending(o) ==
  o.kind \in {"assert", "index"} /\ o.pc \notin {"flag", "point"}

Apart ==
  \A i, j \in DOMAIN rows :
    i # j /\ rows[i].key = rows[j].key /\ rows[i].key \in Single =>
      Before(i, j) \/ Before(j, i)

Past ==
  \A i \in DOMAIN rows :
    rows[i].from <= claims /\ (rows[i].to # None => rows[i].to <= claims)

Now(o) ==
  Pending(o) => /\ o.pc # "idle"
                /\ o.claim.from = claims
                /\ \A i \in DOMAIN rows : rows[i].from < claims

TimeInv ==
  /\ SerialInv
  /\ Timely => Apart /\ Past /\ \A s \in Session : Now(op[s])

LEMMA TimeInit == Init => TimeInv
<1> SUFFICES ASSUME Init PROVE TimeInv
  OBVIOUS
<1>1. DOMAIN rows = {} /\ \A s \in Session : op[s] = Quiet
  BY DEF Init
<1> QED
  BY <1>1, SerialInit, QuietType
     DEF TimeInv, Apart, Past, Now, Pending

(* A step that leaves the table and the clock alone.                       *)
LEMMA TimeStep ==
  ASSUME TimeInv, SerialInv', NEW s \in Session, NEW r, Moves(s, r),
         scene' = scene, rows' = rows, claims' = claims,
         Pending(r) => /\ r.pc # "idle"
                       /\ Pending(op[s])
                       /\ r.claim = op[s].claim
  PROVE  TimeInv'
<1>1. op'[s] = r /\ \A t \in Session \ {s} : op'[t] = op[t]
  BY DEF Moves, TimeInv, SerialInv, TypeOK
<1>2. ASSUME Timely, NEW t \in Session PROVE Now(op[t])'
  <2>1. Now(op[t]) /\ Now(op[s])
    BY <1>2 DEF TimeInv
  <2>2. CASE t = s
    BY <1>1, <2>1, <2>2 DEF Now
  <2>3. CASE t # s
    BY <1>1, <2>1, <2>3 DEF Now, Pending
  <2> QED
    BY <2>2, <2>3
<1>3. Timely => Apart' /\ Past'
  BY DEF TimeInv, Apart, Past, Before
<1> QED
  BY <1>2, <1>3 DEF TimeInv, Timely, Serial

LEMMA TimeNext == TimeInv /\ [Next]_vars => TimeInv'
<1> SUFFICES ASSUME TimeInv, [Next]_vars PROVE TimeInv'
  OBVIOUS
<1>0. /\ SerialInv' /\ SerialInv /\ TypeOK
      /\ op \in [Session -> Ops] /\ claims \in Nat
      /\ \A i \in DOMAIN rows : rows[i] \in Row
  BY SerialNext, ClaimsAssumption DEF TimeInv, SerialInv, TypeOK
<1>1. ASSUME NEW s \in Session, Moves(s, Quiet), scene' = scene,
             rows' = rows, claims' = claims
      PROVE  TimeInv'
  <2>1. ~Pending(Quiet)
    BY QuietType DEF Pending
  <2> QED
    BY <1>0, <1>1, <2>1, TimeStep
<1>2. ASSUME NEW s \in Session, NEW kind \in {"assert", "index"},
             NEW k \in Key, NEW v \in Value, NEW t \in 1 .. claims + 1,
             Assert(s, kind, k, v, t)
      PROVE  TimeInv'
  <2> DEFINE r == [Quiet EXCEPT
               !.pc = IF kind = "index" THEN "count" ELSE "select",
               !.kind = kind, !.claim = [key |-> k, val |-> v, from |-> t]]
  <2>1. Moves(s, r)
    BY <1>2 DEF Assert, Moves
  <2>2. r.pc # "idle" /\ r.claim.from = t
    BY QuietType DEF Ops
  <2> HIDE DEF r
  <2>3. /\ op'[s] = r /\ \A u \in Session \ {s} : op'[u] = op[u]
        /\ scene' = scene /\ rows' = rows /\ claims' = claims + 1
    BY <1>0, <1>2, <2>1 DEF Assert, Moves
  <2>4. ASSUME Timely PROVE Apart' /\ Past' /\ \A u \in Session : Now(op[u])'
    <3>1. t = claims + 1 /\ \A u \in Session : op[u].pc = "idle"
      BY <1>2, <2>4 DEF Timely, Assert, MayBegin, Serial
    <3>2. Apart /\ Past /\ \A u \in Session : ~Pending(op[u])
      BY <2>4, <3>1 DEF TimeInv, Now
    <3>3. Apart'
      BY <2>3, <3>2 DEF Apart, Before
    <3>4. Past' /\ \A i \in DOMAIN rows' : rows'[i].from < claims'
      BY <1>0, <2>3, <3>2 DEF Past, Row
    <3>5. ASSUME NEW u \in Session PROVE Now(op[u])'
      <4>1. CASE u = s
        BY <2>2, <2>3, <3>1, <3>4, <4>1 DEF Now
      <4>2. CASE u # s
        BY <2>3, <3>2, <4>2 DEF Now, Pending
      <4> QED
        BY <4>1, <4>2
    <3> QED
      BY <3>3, <3>4, <3>5
  <2> QED
    BY <1>0, <2>3, <2>4 DEF TimeInv, Timely, Serial
<1>3. ASSUME NEW s \in Session, Retrieve(s) PROVE TimeInv'
  <2> DEFINE r == [Quiet EXCEPT !.pc = "count", !.kind = "retrieve"]
  <2>1. Moves(s, r) /\ scene' = scene /\ rows' = rows /\ claims' = claims
    BY <1>3 DEF Retrieve, Moves
  <2>2. ~Pending(r)
    BY QuietType DEF Ops, Pending
  <2> HIDE DEF r
  <2> QED
    BY <1>0, <2>1, <2>2, TimeStep
<1>4. ASSUME NEW s \in Session, Count(s) PROVE TimeInv'
  <2>1. PICK label \in {AfterBackfill(s), "read"} :
          Moves(s, [op[s] EXCEPT !.pc = label])
    BY <1>4 DEF Count, Goto, Moves
  <2> DEFINE r == [op[s] EXCEPT !.pc = label]
  <2>2. Moves(s, r) /\ scene' = scene /\ rows' = rows /\ claims' = claims
    BY <1>4, <2>1 DEF Count
  <2>3. /\ r.pc # "idle" /\ r.kind = op[s].kind /\ r.claim = op[s].claim
        /\ op[s].pc \notin {"flag", "point"}
    BY <1>0, <1>4, <2>1 DEF Ops, AfterBackfill, Count
  <2> HIDE DEF r
  <2> QED
    BY <1>0, <2>2, <2>3, TimeStep DEF Pending
<1>5. ASSUME NEW s \in Session, ReadRows(s) PROVE TimeInv'
  <2> DEFINE r == [op[s] EXCEPT !.pc = "put", !.copy = rows]
  <2>1. Moves(s, r) /\ scene' = scene /\ rows' = rows /\ claims' = claims
    BY <1>5 DEF ReadRows, Moves
  <2>2. /\ r.pc # "idle" /\ r.kind = op[s].kind /\ r.claim = op[s].claim
        /\ op[s].pc = "read"
    BY <1>0, <1>5 DEF Ops, ReadRows
  <2> HIDE DEF r
  <2> QED
    BY <1>0, <2>1, <2>2, TimeStep DEF Pending
<1>6. ASSUME NEW s \in Session, PutPoints(s) PROVE TimeInv'
  <2> DEFINE r == [op[s] EXCEPT !.pc = AfterBackfill(s), !.copy = <<>>]
  <2>1. Moves(s, r) /\ scene' = scene /\ rows' = rows /\ claims' = claims
    BY <1>6 DEF PutPoints, Moves
  <2>2. /\ r.pc # "idle" /\ r.kind = op[s].kind /\ r.claim = op[s].claim
        /\ op[s].pc = "put"
    BY <1>0, <1>6 DEF Ops, PutPoints, AfterBackfill
  <2> HIDE DEF r
  <2> QED
    BY <1>0, <2>1, <2>2, TimeStep DEF Pending
<1>7. ASSUME NEW s \in Session, Search(s) PROVE TimeInv'
  BY <1>1, <1>7 DEF Search, Return, Moves
<1>8. ASSUME NEW s \in Session, NEW i \in DOMAIN rows, Near(s, i)
      PROVE  TimeInv'
  <2> DEFINE r == [op[s] EXCEPT !.pc = "nearSet", !.id = i]
  <2>1. Moves(s, r) /\ scene' = scene /\ rows' = rows /\ claims' = claims
    BY <1>8 DEF Near, Moves
  <2>2. /\ r.pc # "idle" /\ r.kind = op[s].kind /\ r.claim = op[s].claim
        /\ op[s].pc = "near"
    BY <1>0, <1>8 DEF Ops, Near
  <2> HIDE DEF r
  <2> QED
    BY <1>0, <2>1, <2>2, TimeStep DEF Pending
<1>9. ASSUME NEW s \in Session, NearSet(s) PROVE TimeInv'
  BY <1>1, <1>9 DEF NearSet, Return, Moves
<1>10. ASSUME NEW s \in Session, NotNear(s) PROVE TimeInv'
  <2> DEFINE r == [op[s] EXCEPT !.pc = "select"]
  <2>1. Moves(s, r) /\ scene' = scene /\ rows' = rows /\ claims' = claims
    BY <1>10 DEF NotNear, Goto, Moves
  <2>2. /\ r.pc # "idle" /\ r.kind = op[s].kind /\ r.claim = op[s].claim
        /\ op[s].pc = "near"
    BY <1>0, <1>10 DEF Ops, NotNear
  <2> HIDE DEF r
  <2> QED
    BY <1>0, <2>1, <2>2, TimeStep DEF Pending
<1>11. ASSUME NEW s \in Session, Select(s) PROVE TimeInv'
  <2> DEFINE shut == Conflicting(op[s].claim)
             label == IF shut = {} THEN "find" ELSE "close"
             r == [op[s] EXCEPT !.pc = label, !.shut = shut]
  <2>1. Moves(s, r) /\ scene' = scene /\ rows' = rows /\ claims' = claims
    BY <1>11 DEF Select, Moves
  <2>2. /\ r.pc # "idle" /\ r.kind = op[s].kind /\ r.claim = op[s].claim
        /\ op[s].pc = "select"
    BY <1>0, <1>11 DEF Ops, Select
  <2> HIDE DEF r
  <2> QED
    BY <1>0, <2>1, <2>2, TimeStep DEF Pending
<1>12. ASSUME NEW s \in Session, Close(s) PROVE TimeInv'
  <2> DEFINE r == [op[s] EXCEPT !.pc = "find"]
  <2>1. Moves(s, r) /\ scene' = scene /\ rows' = rows /\ claims' = claims
    BY <1>12 DEF Close, Goto, Moves
  <2>2. /\ r.pc # "idle" /\ r.kind = op[s].kind /\ r.claim = op[s].claim
        /\ op[s].pc = "close"
    BY <1>0, <1>12 DEF Ops, Close
  <2> HIDE DEF r
  <2> QED
    BY <1>0, <2>1, <2>2, TimeStep DEF Pending
<1>13. ASSUME NEW s \in Session, Find(s) PROVE TimeInv'
  <2>1. PICK i : op' = [op EXCEPT ![s].pc = "write", ![s].id = i]
    BY <1>13 DEF Find
  <2> DEFINE r == [op[s] EXCEPT !.pc = "write", !.id = i]
  <2>2. Moves(s, r) /\ scene' = scene /\ rows' = rows /\ claims' = claims
    BY <1>13, <2>1 DEF Find, Moves
  <2>3. /\ r.pc # "idle" /\ r.kind = op[s].kind /\ r.claim = op[s].claim
        /\ op[s].pc = "find"
    BY <1>0, <1>13 DEF Ops, Find
  <2> HIDE DEF r
  <2> QED
    BY <1>0, <2>2, <2>3, TimeStep DEF Pending
<1>14. ASSUME NEW s \in Session, Write(s) PROVE TimeInv'
  <2> DEFINE c == op[s].claim
  <2>0. PICK n \in Nat : n = Len(rows) + 1
    BY <1>0, <1>14, WriteRows
  <2>1. /\ scene' = scene /\ claims' = claims
        /\ op[s].pc = "write" /\ op[s].kind \in {"assert", "index"}
        /\ c.from \in Nat /\ c.from # None
    BY <1>0, <1>14, WriteRows, ClaimsAssumption
       DEF Write, TypeOK, CallOK, Claim
  <2>2. ASSUME NEW u \in Session, Timely PROVE ~Pending(op'[u])
    <3>1. CASE u = s
      BY <1>0, <1>14, <3>1, QuietType DEF Write, Ops, Pending
    <3>2. CASE u # s
      <4>1. op'[u] = op[u] /\ op[u].pc = "idle"
        BY <1>0, <1>14, <2>1, <2>2, <3>2 DEF Write, Timely, SerialInv, Alone
      <4>2. Now(op[u])
        BY <2>2 DEF TimeInv
      <4> QED
        BY <4>1, <4>2 DEF Now
    <3> QED
      BY <3>1, <3>2
  <2>3. ASSUME Timely PROVE Apart' /\ Past'
    <3>1. /\ Apart /\ Past /\ Informed(s)
          /\ c.from = claims /\ \A i \in DOMAIN rows : rows[i].from < claims
      BY <2>1, <2>3 DEF TimeInv, SerialInv, Timely, Now, Pending
    <3>2. ASSUME NEW i \in DOMAIN rows
          PROVE  /\ rows'[i].key = rows[i].key
                 /\ rows'[i].from = rows[i].from
                 /\ \/ rows'[i].to = rows[i].to
                    \/ rows[i].to = None /\ rows'[i].to = claims
                 /\ rows[i].from \in Nat /\ rows[i].to \in Nat \cup {None}
      <4>1. /\ rows'[i].key = rows[i].key /\ rows'[i].from = rows[i].from
            /\ rows'[i].to = IF writer = s /\ i \in Conflicting(c)
                             THEN c.from ELSE rows[i].to
        BY <1>0, <1>14, <3>2, WriteRows
      <4>2. i \in Conflicting(c) => rows[i].to = None
        BY DEF Conflicting, Open
      <4> QED
        BY <1>0, <3>1, <3>2, <4>1, <4>2 DEF Row
    <3>3. /\ DOMAIN rows' \subseteq DOMAIN rows \cup {n}
          /\ n \notin DOMAIN rows
          /\ n \in DOMAIN rows' => op[s].id = 0 /\ rows'[n] = AsRow(c)
      BY <1>0, <1>14, <2>0, WriteRows
    <3>4. /\ AsRow(c).from = claims /\ AsRow(c).to = None
          /\ AsRow(c).key = c.key
      BY <3>1 DEF AsRow
    <3>5. Past'
      <4> SUFFICES ASSUME NEW i \in DOMAIN rows'
                   PROVE  /\ rows'[i].from <= claims
                          /\ rows'[i].to # None => rows'[i].to <= claims
        BY <2>1 DEF Past
      <4>1. CASE i \in DOMAIN rows
        BY <1>0, <3>1, <3>2, <4>1 DEF Past
      <4>2. CASE i = n
        BY <1>0, <3>3, <3>4, <4>2
      <4> QED
        BY <3>3, <4>1, <4>2
    <3>6. ASSUME NEW i \in DOMAIN rows, NEW j \in DOMAIN rows, Before(i, j)
          PROVE  Before(i, j)'
      BY <3>2, <3>6, ClaimsAssumption DEF Before
    <3>7. ASSUME NEW i \in DOMAIN rows, n \in DOMAIN rows',
                 rows[i].key = c.key, c.key \in Single
          PROVE  Before(i, n)'
      <4>1. rows'[i].to # None
        <5>1. CASE i \in Open
          <6>1. ~Same(i, c)
            BY <2>1, <3>1, <3>3, <3>7, <5>1 DEF Informed
          <6>2. i \in Conflicting(c) /\ writer = s
            BY <2>1, <3>1, <3>7, <5>1, <6>1 DEF Informed, Conflicting, Same
          <6> QED
            BY <1>0, <1>14, <2>1, <3>7, <6>2, WriteRows
        <5>2. CASE i \notin Open
          <6>1. rows[i].to # None
            BY <3>7, <5>2 DEF Open
          <6> QED
            BY <1>0, <1>14, <3>7, <5>2, <6>1, WriteRows DEF Conflicting
        <5> QED
          BY <5>1, <5>2
      <4>2. rows'[i].to <= claims
        <5>1. rows'[i].to = rows[i].to \/ rows'[i].to = claims
          BY <3>2
        <5> QED
          BY <1>0, <3>1, <3>7, <4>1, <5>1 DEF Past
      <4>3. rows'[n].from = claims
        BY <3>3, <3>4, <3>7
      <4> QED
        BY <4>1, <4>2, <4>3 DEF Before
    <3>8. Apart'
      <4> SUFFICES ASSUME NEW i \in DOMAIN rows', NEW j \in DOMAIN rows',
                          i # j,
                          rows'[i].key = rows'[j].key, rows'[i].key \in Single
                   PROVE  Before(i, j)' \/ Before(j, i)'
        BY DEF Apart
      <4>1. CASE i \in DOMAIN rows /\ j \in DOMAIN rows
        <5>1. rows[i].key = rows[j].key /\ rows[i].key \in Single
          BY <3>2, <4>1
        <5> QED
          BY <3>1, <3>6, <4>1, <5>1 DEF Apart
      <4>2. CASE i = n
        <5>1. j \in DOMAIN rows /\ rows'[j].key = rows[j].key
          BY <3>2, <3>3, <4>2
        <5>2. rows'[n].key = c.key /\ n \in DOMAIN rows'
          BY <3>3, <3>4, <4>2
        <5> QED
          BY <3>7, <4>2, <5>1, <5>2
      <4>3. CASE j = n
        <5>1. i \in DOMAIN rows /\ rows'[i].key = rows[i].key
          BY <3>2, <3>3, <4>3
        <5>2. rows'[n].key = c.key /\ n \in DOMAIN rows'
          BY <3>3, <3>4, <4>3
        <5> QED
          BY <3>7, <4>3, <5>1, <5>2
      <4> QED
        BY <3>3, <4>1, <4>2, <4>3
    <3> QED
      BY <3>5, <3>8
  <2> QED
    BY <1>0, <2>1, <2>2, <2>3 DEF TimeInv, Timely, Serial, Now
<1>15. ASSUME NEW s \in Session, Flag(s) PROVE TimeInv'
  <2> DEFINE r == [op[s] EXCEPT !.pc = "point"]
  <2>1. Moves(s, r) /\ scene' = scene /\ rows' = rows /\ claims' = claims
    BY <1>15 DEF Flag, Goto, Moves
  <2>2. /\ r.pc # "idle" /\ r.kind = op[s].kind /\ r.claim = op[s].claim
        /\ r.pc = "point"
    BY <1>0, <1>15 DEF Ops, Flag
  <2> HIDE DEF r
  <2> QED
    BY <1>0, <2>1, <2>2, TimeStep DEF Pending
<1>16. ASSUME NEW s \in Session, Point(s) PROVE TimeInv'
  BY <1>1, <1>16 DEF Point, Return, Moves
<1>17. ASSUME NEW s \in Session, Fail(s) PROVE TimeInv'
  BY <1>1, <1>17 DEF Fail, Return, Moves
<1>18. CASE UNCHANGED vars
  BY <1>0, <1>18
     DEF vars, TimeInv, Timely, Serial, Apart, Past, Now, Pending, Before
<1> QED
  BY <1>2, <1>3, <1>4, <1>5, <1>6, <1>7, <1>8, <1>9, <1>10, <1>11, <1>12,
     <1>13, <1>14, <1>15, <1>16, <1>17, <1>18 DEF Next, Step

(* If calls do not overlap and no claim is about the past, a single-valued *)
(* key has at most one value at every time, now or in the past.            *)
THEOREM SerialOneValue == Spec => []OneValueAsOf
<1>1. TimeInv => OneValueAsOf
  <2> SUFFICES ASSUME TimeInv, Timely, NEW t \in 0 .. claims,
                      NEW i \in AsOf(t), NEW j \in AsOf(t), i # j,
                      rows[i].key = rows[j].key, rows[i].key \in Single
               PROVE  FALSE
    BY DEF OneValueAsOf, Timely
  <2>1. /\ i \in DOMAIN rows /\ j \in DOMAIN rows
        /\ rows[i].from <= t /\ (rows[i].to = None \/ rows[i].to > t)
        /\ rows[j].from <= t /\ (rows[j].to = None \/ rows[j].to > t)
    BY DEF AsOf
  <2>2. /\ rows[i] \in Row /\ rows[j] \in Row /\ t \in Nat
    BY <2>1 DEF TimeInv, SerialInv, TypeOK
  <2>3. Before(i, j) \/ Before(j, i)
    BY <2>1 DEF TimeInv, Apart
  <2> QED
    BY <2>1, <2>2, <2>3 DEF Before, Row
<1> QED
  BY <1>1, TimeInit, TimeNext, PTL DEF Spec

-----------------------------------------------------------------------------
(***************************************************************************)
(* What is retrieved.  Between two calls the mirror may be behind, but     *)
(* then a row has no point and the counts tell: a point is never wrong     *)
(* while all rows have one.  A call that has compared the counts, or       *)
(* embedded all rows again, works on a mirror that is right; between the   *)
(* commit and its last step, the mirror is wrong about the rows it still   *)
(* has to flag, and lacks the row it inserted.                             *)
(***************************************************************************)
Agree == \A i \in DOMAIN rows : points[i] = "open" <=> i \in Open

Missing == \E i \in DOMAIN rows : points[i] = "none"

Mirrored ==
  /\ \A i \in Id : points[i] # "none" => i \in DOMAIN rows
  /\ Missing \/ Agree
  /\ Len(rows) <= claims

(* There is an id left for the row of the call in progress. *)
Room(o) == o.pc # "idle" /\ Pending(o) => Len(rows) < claims

(* The calls that rely on the mirror. *)
Relies(o) ==
  \/ o.pc \in {"search", "near", "nearSet"}
  \/ o.kind = "index" /\ o.pc \in {"select", "close", "find", "write"}

(* What is left to do between the commit and the return. *)
Finishing(o) ==
  /\ o.id \in Open
  /\ IF o.new THEN points[o.id] = "none" ELSE o.shut = {}
  /\ o.shut \cap Open = {}
  /\ \A i \in DOMAIN rows :
       \/ o.new /\ i = o.id
       \/ points[i] = "open" <=> (i \in Open \/ (/\ o.pc = "flag"
                                                 /\ i \in o.shut))

Working(o) ==
  /\ o.pc = "put" => o.copy = rows
  /\ Relies(o) => Agree
  /\ o.pc = "nearSet" => o.id \in DOMAIN rows /\ points[o.id] = "open"
  /\ o.pc \in {"close", "find", "write"} => o.shut = Conflicting(o.claim)
  /\ o.pc \in {"flag", "point"} => Finishing(o)

MirrorInv ==
  /\ SerialInv
  /\ Serial => Mirrored /\ \A s \in Session : Room(op[s]) /\ Working(op[s])

LEMMA MirrorInit == Init => MirrorInv
<1> SUFFICES ASSUME Init PROVE MirrorInv
  OBVIOUS
<1>1. DOMAIN rows = {} /\ Len(rows) = 0 /\ claims = 0
  BY DEF Init
<1>2. \A i \in Id : points[i] = "none"
  BY DEF Init
<1>3. \A s \in Session : op[s].pc = "idle"
  BY QuietType DEF Init
<1>4. Mirrored
  BY <1>1, <1>2 DEF Mirrored, Agree
<1> QED
  BY <1>3, <1>4, SerialInit DEF MirrorInv, Room, Working, Relies

(* While calls do not overlap, only one is in progress.                    *)
LEMMA OnlyOne ==
  ASSUME SerialInv, Serial, NEW s \in Session, op[s].pc # "idle"
  PROVE  \A t \in Session \ {s} : op[t].pc = "idle"
  BY DEF SerialInv, Alone

(* A step of s keeps the invariant if it does so for the stores and for    *)
(* its own call, the only one in progress.                                 *)
LEMMA MirrorStep ==
  ASSUME MirrorInv, SerialInv', NEW s \in Session, NEW r, Moves(s, r),
         scene' = scene,
         Serial => \A t \in Session \ {s} : op[t].pc = "idle",
         Serial => Mirrored' /\ Room(op[s])' /\ Working(op[s])'
  PROVE  MirrorInv'
<1>1. \A t \in Session \ {s} : op'[t] = op[t]
  BY DEF Moves, MirrorInv, SerialInv, TypeOK
<1>2. ASSUME Serial, NEW t \in Session
      PROVE  Room(op[t])' /\ Working(op[t])'
  <2>1. CASE t = s
    BY <1>2, <2>1
  <2>2. CASE t # s
    <3>1. op'[t].pc = "idle"
      BY <1>1, <1>2, <2>2
    <3> QED
      BY <3>1 DEF Room, Working, Relies
  <2> QED
    BY <2>1, <2>2
<1> QED
  BY <1>2 DEF MirrorInv, Serial

(* The same for a step that leaves the stores and the clock alone.         *)
LEMMA MirrorStill ==
  ASSUME MirrorInv, SerialInv', NEW s \in Session, NEW r, Moves(s, r),
         scene' = scene, rows' = rows, points' = points, claims' = claims,
         Serial => \A t \in Session \ {s} : op[t].pc = "idle",
         Pending(op[s])' => op[s].pc # "idle" /\ Pending(op[s]),
         Serial => Working(op[s])'
  PROVE  MirrorInv'
<1>1. Open' = Open /\ Id' = Id
  BY DEF Open, Id
<1>2. ASSUME Serial PROVE Mirrored' /\ Room(op[s])'
  <2>1. Mirrored /\ Room(op[s])
    BY <1>2 DEF MirrorInv
  <2>2. Mirrored'
    BY <1>1, <2>1 DEF Mirrored, Missing, Agree
  <2>3. Room(op[s])'
    BY <2>1 DEF Room
  <2> QED
    BY <2>2, <2>3
<1> QED
  BY <1>2, MirrorStep

(* Counts that are equal: every row has a point.                           *)
LEMMA CountsTell ==
  ASSUME TypeOK, Mirrored,
         Cardinality({i \in Id : points[i] # "none"}) >= Len(rows)
  PROVE  ~Missing /\ Agree
<1> DEFINE have == {i \in Id : points[i] # "none"}
<1>1. /\ Len(rows) \in Nat /\ DOMAIN rows = 1 .. Len(rows)
  BY DEF TypeOK
<1>2. have \subseteq 1 .. Len(rows)
  BY <1>1 DEF Mirrored
<1>3. IsFiniteSet(1 .. Len(rows)) /\ Cardinality(1 .. Len(rows)) = Len(rows)
  <2>1. PICK n \in Nat : n = Len(rows)
    BY <1>1
  <2>2. /\ IsFiniteSet(1 .. n)
        /\ Cardinality(1 .. n) = IF 1 > n THEN 0 ELSE n - 1 + 1
    BY FS_Interval
  <2>3. Cardinality(1 .. n) = n
    BY <2>2
  <2> QED
    BY <2>1, <2>2, <2>3
<1>4. /\ Cardinality(have) \in Nat
      /\ Cardinality(have) <= Len(rows)
      /\ Cardinality(have) = Len(rows) => have = 1 .. Len(rows)
  BY <1>2, <1>3, FS_Subset, FS_CardinalityType
<1>5. have = 1 .. Len(rows)
  BY <1>1, <1>4
<1> QED
  BY <1>1, <1>5 DEF Missing, Mirrored

LEMMA MirrorNext == MirrorInv /\ [Next]_vars => MirrorInv'
<1> SUFFICES ASSUME MirrorInv, [Next]_vars PROVE MirrorInv'
  OBVIOUS
<1>0. /\ SerialInv' /\ SerialInv /\ TypeOK
      /\ op \in [Session -> Ops] /\ claims \in Nat
      /\ Len(rows) \in Nat /\ DOMAIN rows = 1 .. Len(rows)
      /\ points \in [Id -> {"none", "open", "closed"}]
      /\ scene.claims \in Nat /\ claims <= scene.claims
      /\ \A s \in Session : CallOK(op[s], Len(rows))
  BY SerialNext, ClaimsAssumption DEF MirrorInv, SerialInv, TypeOK
<1> USE DEF Serial
<1>a. ASSUME Serial PROVE Mirrored /\ DOMAIN rows \subseteq Id
  BY <1>0, <1>a DEF MirrorInv, Mirrored, Id
<1>b. ASSUME NEW s \in Session, NEW r, Moves(s, r)
      PROVE  op'[s] = r
  BY <1>0, <1>b DEF Moves
<1>c. ASSUME NEW s \in Session, Serial
      PROVE  Room(op[s]) /\ Working(op[s])
  BY <1>c DEF MirrorInv
(* A call that ends, leaving the table alone.                              *)
<1>1. ASSUME NEW s \in Session, Moves(s, Quiet), op[s].pc # "idle",
             scene' = scene, rows' = rows, claims' = claims,
             Serial => Mirrored'
      PROVE  MirrorInv'
  <2>1. op'[s] = Quiet
    BY <1>b, <1>1
  <2>2. Room(op[s])' /\ Working(op[s])'
    BY <2>1, QuietType DEF Room, Working, Relies
  <2> QED
    BY <1>0, <1>1, <2>2, OnlyOne, MirrorStep
(* A step that leaves the stores alone.                                    *)
<1>2. ASSUME NEW s \in Session, NEW r, Moves(s, r), op[s].pc # "idle",
             scene' = scene, rows' = rows, points' = points,
             claims' = claims,
             Pending(r) => Pending(op[s]),
             Serial => Working(op[s])'
      PROVE  MirrorInv'
  <2>1. Pending(op[s])' => op[s].pc # "idle" /\ Pending(op[s])
    BY <1>b, <1>2 DEF Pending
  <2> QED
    BY <1>0, <1>2, <2>1, OnlyOne, MirrorStill
<1>3. ASSUME NEW s \in Session, NEW kind \in {"assert", "index"},
             NEW k \in Key, NEW v \in Value, NEW t \in 1 .. claims + 1,
             Assert(s, kind, k, v, t)
      PROVE  MirrorInv'
  <2> DEFINE r == [Quiet EXCEPT
               !.pc = IF kind = "index" THEN "count" ELSE "select",
               !.kind = kind, !.claim = [key |-> k, val |-> v, from |-> t]]
  <2>1. Moves(s, r)
    BY <1>3 DEF Assert, Moves
  <2>2. /\ r.pc \in {"count", "select"} /\ r.kind = kind
        /\ kind = "index" => r.pc = "count"
    BY QuietType DEF Ops
  <2> HIDE DEF r
  <2>3. op'[s] = r
    BY <1>b, <2>1
  <2>4. /\ scene' = scene /\ rows' = rows /\ points' = points
        /\ claims' = claims + 1 /\ Open' = Open /\ Id' = Id
        /\ Serial => \A u \in Session \ {s} : op[u].pc = "idle"
    BY <1>3 DEF Assert, MayBegin, Open, Id
  <2>5. ASSUME Serial PROVE Mirrored' /\ Room(op[s])' /\ Working(op[s])'
    <3>1. Mirrored
      BY <1>a, <2>5
    <3>2. Mirrored'
      BY <1>0, <2>4, <3>1 DEF Mirrored, Missing, Agree
    <3>3. Room(op[s])'
      BY <1>0, <2>4, <3>1 DEF Room, Mirrored
    <3>4. Working(op[s])'
      BY <2>2, <2>3 DEF Working, Relies
    <3> QED
      BY <3>2, <3>3, <3>4
  <2> QED
    BY <1>0, <2>1, <2>4, <2>5, MirrorStep
<1>4. ASSUME NEW s \in Session, Retrieve(s) PROVE MirrorInv'
  <2> DEFINE r == [Quiet EXCEPT !.pc = "count", !.kind = "retrieve"]
  <2>1. Moves(s, r)
    BY <1>4 DEF Retrieve, Moves
  <2>2. r.pc = "count" /\ r.kind = "retrieve"
    BY QuietType DEF Ops
  <2> HIDE DEF r
  <2>3. op'[s] = r
    BY <1>b, <2>1
  <2>4. /\ scene' = scene /\ rows' = rows /\ points' = points
        /\ claims' = claims
        /\ Serial => \A u \in Session \ {s} : op[u].pc = "idle"
    BY <1>4 DEF Retrieve, MayBegin
  <2>5. ~Pending(op[s])' /\ Working(op[s])'
    BY <2>2, <2>3 DEF Working, Relies, Pending
  <2> QED
    BY <1>0, <2>1, <2>4, <2>5, MirrorStill
<1>5. ASSUME NEW s \in Session, Count(s) PROVE MirrorInv'
  <2> DEFINE inSync ==
               Cardinality({i \in Id : points[i] # "none"}) >= Len(rows)
             label == IF inSync THEN AfterBackfill(s) ELSE "read"
             r == [op[s] EXCEPT !.pc = label]
  <2>1. Moves(s, r)
    BY <1>5 DEF Count, Goto, Moves
  <2>2. r.pc = label /\ r.kind = op[s].kind /\ label # "idle"
    BY <1>0 DEF Ops, AfterBackfill
  <2>3. op'[s] = r
    BY <1>b, <2>1
  <2>4. /\ scene' = scene /\ rows' = rows /\ points' = points
        /\ claims' = claims /\ Open' = Open
        /\ op[s].pc = "count"
    BY <1>5 DEF Count, Open
  <2>5. Serial /\ inSync => Agree
    BY <1>0, <1>a, CountsTell
  <2>6. label \in {"read", "near", "search"} /\ (label = "read" \/ inSync)
    BY DEF AfterBackfill
  <2> HIDE DEF r, label, inSync
  <2>7. Serial => Working(op[s])'
    <3>1. Serial /\ op'[s].pc # "read" => Agree'
      BY <2>2, <2>3, <2>4, <2>5, <2>6 DEF Agree
    <3> QED
      BY <2>2, <2>3, <2>6, <3>1 DEF Working, Relies
  <2> QED
    BY <1>2, <2>1, <2>2, <2>4, <2>7 DEF Pending
<1>6. ASSUME NEW s \in Session, ReadRows(s) PROVE MirrorInv'
  <2> DEFINE r == [op[s] EXCEPT !.pc = "put", !.copy = rows]
  <2>1. Moves(s, r)
    BY <1>6 DEF ReadRows, Moves
  <2>2. r.pc = "put" /\ r.kind = op[s].kind /\ r.copy = rows
    BY <1>0 DEF Ops
  <2> HIDE DEF r
  <2>3. op'[s] = r
    BY <1>b, <2>1
  <2>4. /\ scene' = scene /\ rows' = rows /\ points' = points
        /\ claims' = claims /\ op[s].pc = "read"
    BY <1>6 DEF ReadRows
  <2>5. Working(op[s])'
    BY <2>2, <2>3, <2>4 DEF Working, Relies
  <2> QED
    BY <1>2, <2>1, <2>2, <2>4, <2>5 DEF Pending
<1>7. ASSUME NEW s \in Session, PutPoints(s) PROVE MirrorInv'
  <2> DEFINE r == [op[s] EXCEPT !.pc = AfterBackfill(s), !.copy = <<>>]
  <2>1. Moves(s, r)
    BY <1>7 DEF PutPoints, Moves
  <2>2. r.pc \in {"near", "search"} /\ r.kind = op[s].kind
    BY <1>0 DEF Ops, AfterBackfill
  <2> HIDE DEF r
  <2>3. op'[s] = r
    BY <1>b, <2>1
  <2>4. /\ scene' = scene /\ rows' = rows /\ claims' = claims
        /\ Open' = Open /\ Id' = Id /\ op[s].pc = "put"
        /\ points' = [i \in Id |->
             IF i \notin DOMAIN op[s].copy THEN points[i]
             ELSE IF op[s].copy[i].to = None THEN "open" ELSE "closed"]
    BY <1>7 DEF PutPoints, Open, Id
  <2>5. ASSUME Serial PROVE Mirrored' /\ Room(op[s])' /\ Working(op[s])'
    <3>1. /\ Mirrored /\ DOMAIN rows \subseteq Id /\ op[s].copy = rows
          /\ Room(op[s])
      BY <1>a, <1>c, <2>4, <2>5 DEF Working
    <3>2. Agree'
      BY <2>4, <3>1 DEF Agree, Open
    <3>3. \A i \in Id : points'[i] # "none" => i \in DOMAIN rows
      BY <2>4, <3>1 DEF Mirrored
    <3>4. Mirrored'
      BY <2>4, <3>1, <3>2, <3>3 DEF Mirrored
    <3>5. Room(op[s])'
      BY <2>2, <2>3, <2>4, <3>1 DEF Room, Pending
    <3>6. Working(op[s])'
      BY <2>2, <2>3, <2>4, <3>2 DEF Working, Relies
    <3> QED
      BY <3>4, <3>5, <3>6
  <2> QED
    BY <1>0, <2>1, <2>4, <2>5, OnlyOne, MirrorStep
<1>8. ASSUME NEW s \in Session, Search(s) PROVE MirrorInv'
  <2>1. /\ Moves(s, Quiet) /\ op[s].pc # "idle"
        /\ scene' = scene /\ rows' = rows /\ points' = points
        /\ claims' = claims /\ Open' = Open /\ Id' = Id
    BY <1>8 DEF Search, Return, Moves, Open, Id
  <2>2. Serial => Mirrored'
    BY <1>a, <2>1 DEF Mirrored, Missing, Agree
  <2> QED
    BY <1>1, <2>1, <2>2
<1>9. ASSUME NEW s \in Session, NEW i \in DOMAIN rows, Near(s, i)
      PROVE  MirrorInv'
  <2> DEFINE r == [op[s] EXCEPT !.pc = "nearSet", !.id = i]
  <2>1. Moves(s, r)
    BY <1>9 DEF Near, Moves
  <2>2. r.pc = "nearSet" /\ r.kind = op[s].kind /\ r.id = i
    BY <1>0 DEF Ops
  <2> HIDE DEF r
  <2>3. op'[s] = r
    BY <1>b, <2>1
  <2>4. /\ scene' = scene /\ rows' = rows /\ points' = points
        /\ claims' = claims /\ Open' = Open
        /\ op[s].pc = "near" /\ points[i] = "open"
    BY <1>9 DEF Near, Open
  <2>5. Serial => Agree'
    BY <1>c, <2>4 DEF Working, Relies, Agree
  <2>6. Serial => Working(op[s])'
    BY <2>2, <2>3, <2>4, <2>5 DEF Working, Relies
  <2> QED
    BY <1>2, <2>1, <2>2, <2>4, <2>6 DEF Pending
<1>10. ASSUME NEW s \in Session, NearSet(s) PROVE MirrorInv'
  <2>1. /\ Moves(s, Quiet) /\ op[s].pc = "nearSet"
        /\ scene' = scene /\ rows' = rows /\ claims' = claims
        /\ points' = [points EXCEPT ![op[s].id] = "open"]
        /\ Open' = Open /\ Id' = Id
    BY <1>10 DEF NearSet, Return, Moves, Open, Id
  <2>2. ASSUME Serial PROVE Mirrored'
    <3>1. points[op[s].id] = "open"
      BY <1>c, <2>1, <2>2 DEF Working
    <3>2. points' = points
      BY <1>0, <2>1, <3>1
    <3> QED
      BY <1>a, <2>1, <2>2, <3>2 DEF Mirrored, Missing, Agree
  <2> QED
    BY <1>1, <2>1, <2>2
<1>11. ASSUME NEW s \in Session, NotNear(s) PROVE MirrorInv'
  <2> DEFINE r == [op[s] EXCEPT !.pc = "select"]
  <2>1. Moves(s, r)
    BY <1>11 DEF NotNear, Goto, Moves
  <2>2. r.pc = "select" /\ r.kind = op[s].kind
    BY <1>0 DEF Ops
  <2> HIDE DEF r
  <2>3. op'[s] = r
    BY <1>b, <2>1
  <2>4. /\ scene' = scene /\ rows' = rows /\ points' = points
        /\ claims' = claims /\ Open' = Open /\ op[s].pc = "near"
    BY <1>11 DEF NotNear, Open
  <2>5. Serial => Agree'
    BY <1>c, <2>4 DEF Working, Relies, Agree
  <2>6. Serial => Working(op[s])'
    BY <2>2, <2>3, <2>5 DEF Working, Relies
  <2> QED
    BY <1>2, <2>1, <2>2, <2>4, <2>6 DEF Pending
<1>12. ASSUME NEW s \in Session, Select(s) PROVE MirrorInv'
  <2> DEFINE shut == Conflicting(op[s].claim)
             label == IF shut = {} THEN "find" ELSE "close"
             r == [op[s] EXCEPT !.pc = label, !.shut = shut]
  <2>1. Moves(s, r)
    BY <1>12 DEF Select, Moves
  <2>2. /\ r.pc = label /\ r.kind = op[s].kind /\ r.shut = shut
        /\ r.claim = op[s].claim
    BY <1>0 DEF Ops
  <2>3. op'[s] = r
    BY <1>b, <2>1
  <2>4. /\ scene' = scene /\ rows' = rows /\ points' = points
        /\ claims' = claims /\ Open' = Open /\ op[s].pc = "select"
    BY <1>12 DEF Select, Open
  <2>5. Conflicting(op[s].claim)' = shut
    BY <2>2, <2>3, <2>4 DEF Conflicting
  <2>6. label \in {"find", "close"}
    OBVIOUS
  <2> HIDE DEF r, shut, label
  <2>7. Serial /\ op[s].kind = "index" => Agree'
    BY <1>c, <2>4 DEF Working, Relies, Agree
  <2>8. Serial => Working(op[s])'
    BY <2>2, <2>3, <2>5, <2>6, <2>7 DEF Working, Relies
  <2> QED
    BY <1>2, <2>1, <2>2, <2>4, <2>8 DEF Pending
<1>13. ASSUME NEW s \in Session, Close(s) PROVE MirrorInv'
  <2> DEFINE r == [op[s] EXCEPT !.pc = "find"]
  <2>1. Moves(s, r)
    BY <1>13 DEF Close, Goto, Moves
  <2>2. /\ r.pc = "find" /\ r.kind = op[s].kind /\ r.shut = op[s].shut
        /\ r.claim = op[s].claim
    BY <1>0 DEF Ops
  <2> HIDE DEF r
  <2>3. op'[s] = r
    BY <1>b, <2>1
  <2>4. /\ scene' = scene /\ rows' = rows /\ points' = points
        /\ claims' = claims /\ Open' = Open /\ op[s].pc = "close"
    BY <1>13 DEF Close, Open
  <2>5. Conflicting(op[s].claim)' = Conflicting(op[s].claim)
    BY <2>2, <2>3, <2>4 DEF Conflicting
  <2>6. Serial /\ op[s].kind = "index" => Agree'
    BY <1>c, <2>4 DEF Working, Relies, Agree
  <2>7. Serial => op[s].shut = Conflicting(op[s].claim)
    BY <1>c, <2>4 DEF Working
  <2>8. Serial => Working(op[s])'
    BY <2>2, <2>3, <2>5, <2>6, <2>7 DEF Working, Relies
  <2> QED
    BY <1>2, <2>1, <2>2, <2>4, <2>8 DEF Pending
<1>14. ASSUME NEW s \in Session, Find(s) PROVE MirrorInv'
  <2>1. PICK i : op' = [op EXCEPT ![s].pc = "write", ![s].id = i]
    BY <1>14 DEF Find
  <2> DEFINE r == [op[s] EXCEPT !.pc = "write", !.id = i]
  <2>2. Moves(s, r)
    BY <2>1 DEF Moves
  <2>3. /\ r.pc = "write" /\ r.kind = op[s].kind /\ r.shut = op[s].shut
        /\ r.claim = op[s].claim
    BY <1>0 DEF Ops
  <2> HIDE DEF r
  <2>4. op'[s] = r
    BY <1>b, <2>2
  <2>5. /\ scene' = scene /\ rows' = rows /\ points' = points
        /\ claims' = claims /\ Open' = Open /\ op[s].pc = "find"
    BY <1>14 DEF Find, Open
  <2>6. Conflicting(op[s].claim)' = Conflicting(op[s].claim)
    BY <2>3, <2>4, <2>5 DEF Conflicting
  <2>7. Serial /\ op[s].kind = "index" => Agree'
    BY <1>c, <2>5 DEF Working, Relies, Agree
  <2>8. Serial => op[s].shut = Conflicting(op[s].claim)
    BY <1>c, <2>5 DEF Working
  <2>9. Serial => Working(op[s])'
    BY <2>3, <2>4, <2>6, <2>7, <2>8 DEF Working, Relies
  <2> QED
    BY <1>2, <2>2, <2>3, <2>5, <2>9 DEF Pending
<1>15. ASSUME NEW s \in Session, Write(s) PROVE MirrorInv'
  <2> DEFINE c == op[s].claim
             new == op[s].id = 0
             shut == Conflicting(c)
  <2>0. PICK n \in Nat : n = Len(rows) + 1
    BY <1>0
  <2>1. /\ op[s].pc = "write" /\ op[s].kind \in {"assert", "index"}
        /\ scene' = scene /\ points' = points /\ claims' = claims
        /\ Id' = Id /\ c \in Claim
    BY <1>0, <1>15, WriteRows DEF Write, CallOK, Id
  <2>2. /\ op'[s] \in Ops
        /\ op[s].kind = "assert" => op'[s] = Quiet
        /\ op[s].kind = "index" =>
             /\ op'[s].pc = "flag" /\ op'[s].kind = "index"
             /\ op'[s].new = new /\ op'[s].shut = op[s].shut
             /\ op'[s].id = IF new THEN n ELSE op[s].id
    <3>1. TypeOK'
      BY <1>0 DEF SerialInv
    <3> QED
      BY <1>0, <1>15, <2>0, <2>1, <3>1 DEF Write, Ops, TypeOK
  <2>3. Moves(s, op'[s])
    BY <1>0, <1>15 DEF Write, Moves
  <2>4. ASSUME Serial PROVE Mirrored' /\ Room(op[s])' /\ Working(op[s])'
    <3>1. /\ Mirrored /\ DOMAIN rows \subseteq Id
          /\ op[s].shut = shut /\ Informed(s) /\ OneOpen
          /\ Len(rows) < claims
          /\ op[s].kind = "index" => Agree
      <4>1. Pending(op[s])
        BY <2>1 DEF Pending
      <4> QED
        BY <1>a, <1>c, <2>1, <2>4, <4>1
           DEF Working, Relies, Room, MirrorInv, SerialInv
    <3>2. /\ n \in Id /\ n \notin DOMAIN rows /\ points[n] = "none"
          /\ n <= claims
      BY <1>0, <2>0, <3>1 DEF Mirrored, Id
    <3>3. /\ DOMAIN rows' = IF new THEN DOMAIN rows \cup {n}
                            ELSE DOMAIN rows
          /\ Len(rows') = IF new THEN n ELSE Len(rows)
      <4>1. rows' \in Seq(Row)
        BY <1>0 DEF SerialInv, TypeOK
      <4>2. DOMAIN rows' = IF new THEN 1 .. Len(rows) + 1
                           ELSE 1 .. Len(rows)
        BY <1>0, <1>15, WriteRows
      <4>3. Len(rows') = IF new THEN Len(rows) + 1 ELSE Len(rows)
        BY <1>0, <4>1, <4>2
      <4>4. 1 .. n = (1 .. Len(rows)) \cup {n}
        BY <1>0, <2>0
      <4> HIDE DEF new
      <4> QED
        BY <1>0, <2>0, <4>2, <4>3, <4>4
    <3>4. \A i \in DOMAIN rows :
            rows'[i].to = IF writer = s /\ i \in shut
                          THEN c.from ELSE rows[i].to
      BY <1>0, <1>15, WriteRows
    <3>5. new => rows'[n].to = None
      <4>1. new => rows'[n] = AsRow(c)
        BY <1>0, <1>15, <2>0, WriteRows
      <4> QED
        BY <4>1 DEF AsRow
    <3>6. c.from # None /\ shut \subseteq Open
      BY <2>1, ClaimsAssumption DEF Claim, Conflicting
    <3>7. writer # s => shut = {}
      BY <2>1, <3>1 DEF Informed
    <3>8. ~new => shut = {} /\ op[s].id \in Open
      <4> SUFFICES ASSUME ~new, NEW i \in shut PROVE FALSE
        BY <2>1, <3>1 DEF Informed
      <4>1. op[s].id \in Open /\ Same(op[s].id, c)
        BY <2>1, <3>1 DEF Informed
      <4>2. /\ i \in Open /\ rows[i].key = c.key /\ c.key \in Single
            /\ rows[i].val # c.val
        BY DEF Conflicting
      <4> QED
        BY <2>4, <3>1, <4>1, <4>2 DEF OneOpen, Same
    <3>9. Open' = (Open \ shut) \cup (IF new THEN {n} ELSE {})
      <4> HIDE DEF shut, new
      <4> QED
        BY <3>2, <3>3, <3>4, <3>5, <3>6, <3>7 DEF Open
    <3> HIDE DEF shut, new, c
    <3>10. Mirrored'
      <4>1. /\ \A i \in Id : points'[i] # "none" => i \in DOMAIN rows'
            /\ Len(rows') <= claims'
        BY <1>0, <2>1, <3>1, <3>2, <3>3 DEF Mirrored
      <4>2. new => Missing'
        BY <2>1, <3>2, <3>3 DEF Missing
      <4>3. ~new => Open' = Open /\ DOMAIN rows' = DOMAIN rows
        BY <3>3, <3>8, <3>9
      <4>4. ~new => Missing' \/ Agree'
        BY <2>1, <3>1, <4>3 DEF Mirrored, Missing, Agree
      <4> QED
        BY <2>1, <4>1, <4>2, <4>4 DEF Mirrored
    <3>11. Room(op[s])'
      BY <2>1, <2>2, QuietType DEF Room, Pending
    <3>12. ASSUME op[s].kind = "index" PROVE Finishing(op[s])'
      <4>1. Agree
        BY <3>1, <3>12
      <4>2. CASE new
        <5>1. op'[s].id = n /\ op'[s].new /\ op'[s].shut = shut
          BY <2>2, <3>1, <3>12, <4>2
        <5>2. ASSUME NEW i \in DOMAIN rows', i # n
              PROVE  points'[i] = "open" <=> (i \in Open' \/ i \in shut)
          BY <2>1, <3>3, <3>6, <3>9, <4>1, <4>2, <5>2 DEF Agree
        <5>3. n \in Open' /\ points'[n] = "none" /\ shut \cap Open' = {}
          BY <2>1, <3>2, <3>6, <3>9, <4>2 DEF Open
        <5> QED
          BY <2>2, <3>12, <5>1, <5>2, <5>3 DEF Finishing
      <4>3. CASE ~new
        <5>1. /\ op'[s].id = op[s].id /\ op'[s].new = FALSE
              /\ op'[s].shut = {}
          BY <2>2, <3>1, <3>8, <3>12, <4>3
        <5>2. Open' = Open /\ DOMAIN rows' = DOMAIN rows
          BY <3>3, <3>8, <3>9, <4>3
        <5> QED
          BY <2>1, <3>8, <4>1, <4>3, <5>1, <5>2 DEF Finishing, Agree
      <4> QED
        BY <4>2, <4>3
    <3>13. Working(op[s])'
      BY <2>1, <2>2, <3>12, QuietType DEF Working, Relies
    <3> QED
      BY <3>10, <3>11, <3>13
  <2> QED
    BY <1>0, <2>1, <2>3, <2>4, OnlyOne, MirrorStep
<1>16. ASSUME NEW s \in Session, Flag(s) PROVE MirrorInv'
  <2> DEFINE r == [op[s] EXCEPT !.pc = "point"]
  <2>1. Moves(s, r)
    BY <1>16 DEF Flag, Goto, Moves
  <2>2. /\ r.pc = "point" /\ r.kind = op[s].kind /\ r.shut = op[s].shut
        /\ r.id = op[s].id /\ r.new = op[s].new
    BY <1>0 DEF Ops
  <2> HIDE DEF r
  <2>3. op'[s] = r
    BY <1>b, <2>1
  <2>4. /\ scene' = scene /\ rows' = rows /\ claims' = claims
        /\ Open' = Open /\ Id' = Id /\ op[s].pc = "flag"
        /\ points' = [i \in Id |-> IF i \in op[s].shut /\ points[i] # "none"
                                   THEN "closed" ELSE points[i]]
    BY <1>16 DEF Flag, Open, Id
  <2>5. ASSUME Serial PROVE Mirrored' /\ Room(op[s])' /\ Working(op[s])'
    <3>1. /\ Mirrored /\ DOMAIN rows \subseteq Id
          /\ Finishing(op[s])
      BY <1>a, <1>c, <2>4, <2>5 DEF Working
    <3>2. /\ op[s].id \in Open /\ op[s].shut \cap Open = {}
          /\ op[s].id \in DOMAIN rows
          /\ IF op[s].new THEN points[op[s].id] = "none"
             ELSE op[s].shut = {}
      BY <3>1 DEF Finishing, Open
    <3>3. ASSUME NEW i \in DOMAIN rows, ~(op[s].new /\ i = op[s].id)
          PROVE  points'[i] = "open" <=> i \in Open
      <4>1. points[i] = "open" <=> (i \in Open \/ i \in op[s].shut)
        BY <2>4, <3>1, <3>3 DEF Finishing
      <4> QED
        BY <2>4, <3>1, <3>2, <4>1
    <3>4. Finishing(op[s])'
      <4>1. op[s].new => points'[op[s].id] = "none"
        BY <2>4, <3>1, <3>2
      <4> QED
        BY <2>2, <2>3, <2>4, <3>2, <3>3, <4>1 DEF Finishing
    <3>5. Mirrored'
      <4>1. op[s].new => Missing'
        BY <2>4, <3>1, <3>2 DEF Missing
      <4>2. ~op[s].new => Agree'
        BY <2>4, <3>3 DEF Agree
      <4>3. \A i \in Id : points'[i] # "none" => i \in DOMAIN rows
        BY <2>4, <3>1 DEF Mirrored
      <4> QED
        BY <2>4, <3>1, <4>1, <4>2, <4>3 DEF Mirrored
    <3>6. Room(op[s])' /\ Working(op[s])'
      BY <2>2, <2>3, <3>4 DEF Room, Pending, Working, Relies
    <3> QED
      BY <3>5, <3>6
  <2> QED
    BY <1>0, <2>1, <2>4, <2>5, OnlyOne, MirrorStep
<1>17. ASSUME NEW s \in Session, Point(s) PROVE MirrorInv'
  <2> DEFINE id == op[s].id
  <2>1. /\ Moves(s, Quiet) /\ op[s].pc = "point"
        /\ scene' = scene /\ rows' = rows /\ claims' = claims
        /\ points' = [points EXCEPT ![id] =
             IF op[s].new \/ @ # "none" THEN "open" ELSE "none"]
        /\ Open' = Open /\ Id' = Id
    BY <1>17 DEF Point, Return, Moves, Open, Id
  <2>2. ASSUME Serial PROVE Mirrored'
    <3>1. /\ Mirrored /\ DOMAIN rows \subseteq Id
          /\ Finishing(op[s])
      BY <1>a, <1>c, <2>1, <2>2 DEF Working
    <3>2. id \in Open /\ id \in DOMAIN rows /\ id \in Id
      BY <3>1 DEF Finishing, Open
    <3>3. ASSUME NEW i \in DOMAIN rows, ~(op[s].new /\ i = id)
          PROVE  points[i] = "open" <=> i \in Open
      BY <2>1, <3>1, <3>3 DEF Finishing
    <3>4. points'[id] = "open"
      <4>1. ~op[s].new => points[id] = "open"
        BY <3>2, <3>3
      <4> QED
        BY <1>0, <2>1, <3>2, <4>1
    <3>5. \A i \in Id \ {id} : points'[i] = points[i]
      BY <1>0, <2>1
    <3>6. Agree'
      BY <2>1, <3>1, <3>2, <3>3, <3>4, <3>5 DEF Agree
    <3> QED
      BY <2>1, <3>1, <3>2, <3>5, <3>6 DEF Mirrored
  <2> QED
    BY <1>1, <2>1, <2>2
<1>18. ASSUME NEW s \in Session, Fail(s) PROVE MirrorInv'
  <2>1. /\ Moves(s, Quiet) /\ op[s].pc # "idle"
        /\ scene' = scene /\ rows' = rows /\ points' = points
        /\ claims' = claims /\ Open' = Open /\ Id' = Id
    BY <1>18 DEF Fail, Return, Moves, Open, Id
  <2>2. Serial => Mirrored'
    BY <1>a, <2>1 DEF Mirrored, Missing, Agree
  <2> QED
    BY <1>1, <2>1, <2>2
<1>19. CASE UNCHANGED vars
  <2>1. /\ op' = op /\ rows' = rows /\ points' = points /\ scene' = scene
        /\ claims' = claims /\ Open' = Open /\ Id' = Id
    BY <1>19 DEF vars, Open, Id
  <2>2. Serial => Mirrored'
    BY <1>a, <2>1 DEF Mirrored, Missing, Agree
  <2>3. ASSUME NEW s \in Session, Serial
        PROVE  Room(op[s])' /\ Working(op[s])'
    <3>1. Room(op[s]) /\ Working(op[s])
      BY <1>c, <2>3
    <3>2. Agree' <=> Agree
      BY <2>1 DEF Agree
    <3>3. Conflicting(op[s].claim)' = Conflicting(op[s].claim)
      BY <2>1 DEF Conflicting
    <3>4. Finishing(op[s])' <=> Finishing(op[s])
      BY <2>1 DEF Finishing
    <3>5. Relies(op[s])' <=> Relies(op[s])
      BY <2>1, <3>3 DEF Relies
    <3>6. Room(op[s])'
      BY <2>1, <3>1 DEF Room
    <3>7. Working(op[s])'
      BY <2>1, <3>1, <3>2, <3>3, <3>4, <3>5 DEF Working
    <3> QED
      BY <3>6, <3>7
  <2> QED
    BY <1>0, <2>1, <2>2, <2>3 DEF MirrorInv
<1> QED
  BY <1>3, <1>4, <1>5, <1>6, <1>7, <1>8, <1>9, <1>10, <1>11, <1>12,
     <1>13, <1>14, <1>15, <1>16, <1>17, <1>18, <1>19 DEF Next, Step

(* If calls do not overlap, what a search of the mirror returns is what    *)
(* the table holds open: superseded claims do not leak into an answer and  *)
(* current ones are not missing, although the two stores are written one   *)
(* after the other and a failure may come between any two steps.           *)
THEOREM SerialRetrieval == Spec => []RetrievesCurrent
<1>1. MirrorInv => RetrievesCurrent
  <2> SUFFICES ASSUME MirrorInv, Serial,
                      NEW s \in Session, op[s].pc = "search", NEW i \in Id
               PROVE  points[i] = "open" <=> i \in Open
    BY DEF RetrievesCurrent
  <2>1. Agree /\ Mirrored
    BY DEF MirrorInv, Working, Relies
  <2> QED
    BY <2>1 DEF Agree, Mirrored, Open
<1> QED
  BY <1>1, MirrorInit, MirrorNext, PTL DEF Spec
=============================================================================
