------------------------------- MODULE Claims -------------------------------
(***************************************************************************)
(* claims/store.py and claims/indexer.py: what the user asserted, kept in  *)
(* a SQLite table by validity period, and mirrored in a Qdrant collection  *)
(* whose points carry an `open' flag.                                      *)
(*                                                                         *)
(* Sessions are processes with connections of their own.  A call asserts a *)
(* claim (the MCP tool: SQLite only), upserts it (ClaimsIndexer: both), or *)
(* retrieves.  Every SQL statement outside a transaction is a step: Python *)
(* begins the transaction with the first UPDATE or INSERT, so a SELECT     *)
(* before it is not protected.                                             *)
(*                                                                         *)
(* A claim has a key, its subject and predicate, and a value, its object   *)
(* and polarity.  Confidence, evidence and provenance are left out.        *)
(***************************************************************************)
EXTENDS Naturals, Sequences, FiniteSets

CONSTANTS
  Session,     \* the processes
  Key,         \* (subject, predicate)
  Single,      \* keys with a predicate of SINGLE_VALUED_PREDICATES
  Value,       \* (object, polarity)
  None,        \* not closed (NULL)
  Scenarios    \* the Freedoms taken, and bounds on claims and faults

Freedoms ==
  {"overlap",    \* calls of different sessions overlap
   "backdate",   \* claims are asserted with a valid_at in the past
   "index"}      \* some claims go through ClaimsIndexer.upsert

ASSUME ClaimsAssumption ==
  /\ Single \subseteq Key
  /\ None \notin Nat
  /\ None \notin Session
  /\ Scenarios \subseteq [env : SUBSET Freedoms, claims : Nat, faults : Nat]

VARIABLES
  scene,     \* the scenario; it never changes
  rows,      \* the table, in the order of insertion; the index is the id
  points,    \* points[i]: the mirror's point of row i: none, open, closed
  writer,    \* the session whose transaction holds the write lock
  op,        \* op[s]: the call session s executes
  claims, faults

vars == <<scene, rows, points, writer, op, claims, faults>>

Id == 1 .. scene.claims

Claim == [key : Key, val : Value, from : Nat]

Row == [key : Key, val : Value, from : Nat, to : Nat \cup {None}]

Open == {i \in DOMAIN rows : rows[i].to = None}

NoClaim == [from |-> 0]

Quiet == [pc |-> "idle", kind |-> "none", claim |-> NoClaim, shut |-> {},
          id |-> 0, new |-> FALSE, copy |-> <<>>]

Labels == {"idle", "count", "read", "put", "search", "near", "nearSet",
           "select", "close", "find", "write", "flag", "point"}

Ops == [pc : Labels, kind : {"none", "assert", "index", "retrieve"},
        claim : Claim \cup {NoClaim}, shut : SUBSET Nat, id : Nat,
        new : BOOLEAN, copy : Seq(Row)]

(* A call that may refer to the first n rows. *)
CallOK(o, n) ==
  /\ o \in Ops
  /\ o.shut \subseteq 1 .. n /\ o.id <= n
  /\ o.kind \in {"assert", "index"} => o.claim \in Claim
  /\ o.pc \in {"select", "close", "find", "write"} =>
       o.kind \in {"assert", "index"}
  /\ o.pc \in {"near", "nearSet", "flag", "point"} => o.kind = "index"

TypeOK ==
  /\ scene \in Scenarios
  /\ rows \in Seq(Row)
  /\ points \in [Id -> {"none", "open", "closed"}]
  /\ writer \in Session \cup {None}
  /\ op \in [Session -> Ops]
  /\ \A s \in Session : CallOK(op[s], Len(rows))
  /\ \A s \in Session : writer = s => op[s].pc \in {"find", "write"}
  /\ claims \in 0 .. scene.claims
  /\ faults \in 0 .. scene.faults

Init ==
  /\ scene \in Scenarios
  /\ rows = <<>>
  /\ points = [i \in Id |-> "none"]
  /\ writer = None
  /\ op = [s \in Session |-> Quiet]
  /\ claims = 0
  /\ faults = 0

-----------------------------------------------------------------------------
MayBegin(s) ==
  /\ op[s].pc = "idle"
  /\ (\A t \in Session : op[t].pc = "idle") \/ "overlap" \in scene.env

Goto(s, label) == op' = [op EXCEPT ![s].pc = label]

Return(s) == op' = [op EXCEPT ![s] = Quiet]

(* The clock is the number of claims so far; valid_at is the time of the   *)
(* call unless the caller gives another.                                   *)
Assert(s, kind, k, v, t) ==
  /\ MayBegin(s)
  /\ claims < scene.claims
  /\ kind = "assert" \/ (kind = "index" /\ "index" \in scene.env)
  /\ t = claims + 1 \/ "backdate" \in scene.env
  /\ claims' = claims + 1
  /\ op' = [op EXCEPT ![s] =
       [Quiet EXCEPT !.pc = IF kind = "index" THEN "count" ELSE "select",
                     !.kind = kind,
                     !.claim = [key |-> k, val |-> v, from |-> t]]]
  /\ UNCHANGED <<scene, rows, points, writer, faults>>

Retrieve(s) ==
  /\ MayBegin(s)
  /\ op' = [op EXCEPT ![s] = [Quiet EXCEPT !.pc = "count",
                                           !.kind = "retrieve"]]
  /\ UNCHANGED <<scene, rows, points, writer, claims, faults>>

-----------------------------------------------------------------------------
(* ensure_backfilled, of an indexer made for this call. *)

AfterBackfill(s) == IF op[s].kind = "index" THEN "near" ELSE "search"

(* Equal counts are taken for equal contents. *)
Count(s) ==
  /\ op[s].pc = "count"
  /\ LET inSync == Cardinality({i \in Id : points[i] # "none"}) >= Len(rows)
     IN  Goto(s, IF inSync THEN AfterBackfill(s) ELSE "read")
  /\ UNCHANGED <<scene, rows, points, writer, claims, faults>>

ReadRows(s) ==
  /\ op[s].pc = "read"
  /\ op' = [op EXCEPT ![s].pc = "put", ![s].copy = rows]
  /\ UNCHANGED <<scene, rows, points, writer, claims, faults>>

(* Mutant: only the open rows are embedded. *)
PutPoints_OpenOnly(s) ==
  /\ op[s].pc = "put"
  /\ points' = [i \in Id |->
       IF i \in DOMAIN op[s].copy /\ op[s].copy[i].to = None THEN "open"
       ELSE points[i]]
  /\ op' = [op EXCEPT ![s].pc = AfterBackfill(s), ![s].copy = <<>>]
  /\ UNCHANGED <<scene, rows, writer, claims, faults>>

(* All rows, open and closed, are embedded again and upserted. *)
PutPoints(s) ==
  /\ op[s].pc = "put"
  /\ points' = [i \in Id |->
       IF i \notin DOMAIN op[s].copy THEN points[i]
       ELSE IF op[s].copy[i].to = None THEN "open" ELSE "closed"]
  /\ op' = [op EXCEPT ![s].pc = AfterBackfill(s), ![s].copy = <<>>]
  /\ UNCHANGED <<scene, rows, writer, claims, faults>>

(* The points flagged open are what the user gets to see. *)
Search(s) ==
  /\ op[s].pc = "search"
  /\ Return(s)
  /\ UNCHANGED <<scene, rows, points, writer, claims, faults>>

-----------------------------------------------------------------------------
(* ClaimsIndexer.upsert before the store: a near duplicate of another      *)
(* triple absorbs the claim; how near they are is left open.               *)
Near(s, i) ==
  /\ op[s].pc = "near"
  /\ points[i] = "open"
  /\ <<rows[i].key, rows[i].val>> # <<op[s].claim.key, op[s].claim.val>>
  /\ op' = [op EXCEPT ![s].pc = "nearSet", ![s].id = i]
  /\ UNCHANGED <<scene, rows, points, writer, claims, faults>>

NearSet(s) ==
  /\ op[s].pc = "nearSet"
  /\ points' = [points EXCEPT ![op[s].id] = "open"]
  /\ Return(s)
  /\ UNCHANGED <<scene, rows, writer, claims, faults>>

NotNear(s) ==
  /\ op[s].pc = "near"
  /\ Goto(s, "select")
  /\ UNCHANGED <<scene, rows, points, writer, claims, faults>>

-----------------------------------------------------------------------------
(* ClaimsStore.upsert *)

Conflicting(c) ==
  IF c.key \in Single
  THEN {i \in Open : rows[i].key = c.key /\ rows[i].val # c.val} ELSE {}

(* Mutant: no predicate is single-valued. *)
Select_None(s) ==
  /\ op[s].pc = "select"
  /\ op' = [op EXCEPT ![s].pc = "find", ![s].shut = {}]
  /\ UNCHANGED <<scene, rows, points, writer, claims, faults>>

(* _close_conflicting: the SELECT ... *)
Select(s) ==
  /\ op[s].pc = "select"
  /\ LET shut == Conflicting(op[s].claim)
     IN  op' = [op EXCEPT ![s].pc = IF shut = {} THEN "find" ELSE "close",
                          ![s].shut = shut]
  /\ UNCHANGED <<scene, rows, points, writer, claims, faults>>

(* ... and the UPDATE, which begins the transaction. *)
Close(s) ==
  /\ op[s].pc = "close"
  /\ writer = None
  /\ writer' = s
  /\ Goto(s, "find")
  /\ UNCHANGED <<scene, rows, points, claims, faults>>

(* _find_open_duplicate *)
Find(s) ==
  /\ op[s].pc = "find"
  /\ LET same == {i \in Open : /\ rows[i].key = op[s].claim.key
                               /\ rows[i].val = op[s].claim.val}
     IN  \E i \in IF same = {} THEN {0} ELSE same :
           op' = [op EXCEPT ![s].pc = "write", ![s].id = i]
  /\ UNCHANGED <<scene, rows, points, writer, claims, faults>>

Closed(c, time) ==
  [i \in DOMAIN rows |->
     IF i \in Conflicting(c) THEN [rows[i] EXCEPT !.to = time] ELSE rows[i]]

AsRow(c) == [key |-> c.key, val |-> c.val, from |-> c.from, to |-> None]

(* Mutant: valid_to is set to the closed row's own valid_at. *)
Write_CloseAtStart(s) ==
  /\ op[s].pc = "write"
  /\ writer \in {None, s}
  /\ writer' = None
  /\ LET c == op[s].claim
         kept == IF writer = s
                 THEN [i \in DOMAIN rows |->
                         IF i \in Conflicting(c)
                         THEN [rows[i] EXCEPT !.to = rows[i].from]
                         ELSE rows[i]]
                 ELSE rows
     IN  rows' = IF op[s].id = 0 THEN Append(kept, AsRow(c)) ELSE kept
  /\ op' = [op EXCEPT ![s] = Quiet]
  /\ UNCHANGED <<scene, points, claims, faults>>

(* Mutant: valid_to is the time of recording. *)
Write_CloseNow(s) ==
  /\ op[s].pc = "write"
  /\ writer \in {None, s}
  /\ writer' = None
  /\ LET c == op[s].claim
         kept == IF writer = s THEN Closed(c, claims + 1) ELSE rows
     IN  rows' = IF op[s].id = 0 THEN Append(kept, AsRow(c)) ELSE kept
  /\ op' = [op EXCEPT ![s] = Quiet]
  /\ UNCHANGED <<scene, points, claims, faults>>

(* Mutant: a claim that closes another is not inserted. *)
Write_CloseOnly(s) ==
  /\ op[s].pc = "write"
  /\ writer \in {None, s}
  /\ writer' = None
  /\ rows' = IF writer = s THEN Closed(op[s].claim, op[s].claim.from)
             ELSE IF op[s].id = 0 THEN Append(rows, AsRow(op[s].claim))
             ELSE rows
  /\ op' = [op EXCEPT ![s] = Quiet]
  /\ UNCHANGED <<scene, points, claims, faults>>

(* The INSERT, or the UPDATE that refreshes the duplicate, and the commit. *)
(* The rows closed are those that conflict when the lock is held.          *)
Write(s) ==
  /\ op[s].pc = "write"
  /\ writer \in {None, s}
  /\ writer' = None
  /\ LET c == op[s].claim
         kept == IF writer = s THEN Closed(c, c.from) ELSE rows
         new == op[s].id = 0
     IN  /\ rows' = IF new THEN Append(kept, AsRow(c)) ELSE kept
         /\ op' = [op EXCEPT ![s] =
              IF op[s].kind = "assert" THEN Quiet
              ELSE [op[s] EXCEPT !.pc = "flag",
                                 !.new = new,
                                 !.id = IF new THEN Len(rows) + 1 ELSE @]]
  /\ UNCHANGED <<scene, points, claims, faults>>

-----------------------------------------------------------------------------
(* ClaimsIndexer.upsert after the store: set_payload for the rows that     *)
(* were selected for closing ...                                           *)
Flag(s) ==
  /\ op[s].pc = "flag"
  /\ points' = [i \in Id |-> IF i \in op[s].shut /\ points[i] # "none"
                             THEN "closed" ELSE points[i]]
  /\ Goto(s, "point")
  /\ UNCHANGED <<scene, rows, writer, claims, faults>>

(* ... and the point of the new row, or the payload of the refreshed one.  *)
Point(s) ==
  /\ op[s].pc = "point"
  /\ points' = [points EXCEPT ![op[s].id] =
       IF op[s].new \/ @ # "none" THEN "open" ELSE "none"]
  /\ Return(s)
  /\ UNCHANGED <<scene, rows, writer, claims, faults>>

-----------------------------------------------------------------------------
(* A store raises, a lock times out, or the process dies: a transaction    *)
(* that was begun is rolled back.                                          *)
Fail(s) ==
  /\ op[s].pc # "idle"
  /\ faults < scene.faults
  /\ faults' = faults + 1
  /\ writer' = IF writer = s THEN None ELSE writer
  /\ Return(s)
  /\ UNCHANGED <<scene, rows, points, claims>>

Step(s) ==
  \/ Count(s) \/ ReadRows(s) \/ PutPoints(s) \/ Search(s)
  \/ \E i \in DOMAIN rows : Near(s, i)
  \/ NearSet(s) \/ NotNear(s)
  \/ Select(s) \/ Close(s) \/ Find(s) \/ Write(s) \/ Flag(s) \/ Point(s)

Next ==
  \E s \in Session :
    \/ \E kind \in {"assert", "index"}, k \in Key, v \in Value,
         t \in 1 .. claims + 1 : Assert(s, kind, k, v, t)
    \/ Retrieve(s) \/ Step(s) \/ Fail(s)

Spec == Init /\ [][Next]_vars

-----------------------------------------------------------------------------
Serial == "overlap" \notin scene.env

(* "At most one open (subject, predicate)", crashes included, as long as   *)
(* calls do not overlap: two that do can both find nothing to close.       *)
OneOpen ==
  Serial =>
    \A i, j \in Open : rows[i].key = rows[j].key /\ i # j =>
      rows[i].key \notin Single /\ rows[i].val # rows[j].val

(* as_of: the rows valid at time t *)
AsOf(t) ==
  {i \in DOMAIN rows : /\ rows[i].from <= t
                       /\ rows[i].to = None \/ rows[i].to > t}

(* A single-valued predicate had one value at every time: periods of one   *)
(* key neither overlap nor, once begun, vanish.  With claims about the     *)
(* past it may have two.                                                   *)
OneValueAsOf ==
  Serial /\ "backdate" \notin scene.env =>
    \A t \in 0 .. claims : \A i, j \in AsOf(t) :
      rows[i].key = rows[j].key /\ rows[i].key \in Single => i = j

(* History: a call changes nothing about the times before the valid_at of  *)
(* its claim, whichever calls overlap and whatever fails.                  *)
PastStays ==
  [][\A t \in 0 .. claims :
       (\A s \in Session : op[s].kind \in {"assert", "index"} =>
                             t < op[s].claim.from)
         => AsOf(t)' = AsOf(t)]_vars

(* A key that was answered stays answered: whatever is asserted, closing a *)
(* claim comes with the one that supersedes it, in one transaction.        *)
NeverUnanswered ==
  [][Serial => \A i \in Open : \E j \in Open' :
                 rows'[j].key = rows[i].key]_vars

(* Superseded claims do not leak into an answer and current ones are not   *)
(* missing: counts are a good enough test of the mirror, after failures of *)
(* either store between any two steps, if calls do not overlap.            *)
RetrievesCurrent ==
  Serial =>
    \A s \in Session : op[s].pc = "search" =>
      \A i \in Id : points[i] = "open" <=> i \in Open
=============================================================================
