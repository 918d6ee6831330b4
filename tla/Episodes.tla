------------------------------ MODULE Episodes ------------------------------
(***************************************************************************)
(* Episodic memory: episodic/sqlite_store.py (the rows), the episodes      *)
(* collection in Qdrant (one point per row, for recall), and the pipeline, *)
(* CLI and MCP operations over both: record, dedupe, retrieve, reset.      *)
(*                                                                         *)
(* A row is its prompt, its time stamp, its verdict and whether its        *)
(* content_hash is set (rows of an older release have none).  plan, patch, *)
(* tags and meta follow the row and are left out.  A process is a CLI      *)
(* command or a tool call of a server, each on its own connection.         *)
(***************************************************************************)
EXTENDS Integers, FiniteSets, Sequences, SequencesExt, FiniteSetsExt

CONSTANTS
  Proc,
  Prompt,      \* texts that differ once stripped
  KeyOf,       \* _normalize_prompt: lower case, spaces as one, 160 characters
  Id,          \* the uuids new episodes draw
  NoRow,
  Limit,       \* top_k_eps
  EpisodeScenes

(* NULL, idle (all that the plugin of opencode ever records), any other.   *)
Verdict == {"none", "idle", "pass"}

EpisodeScene ==
  [legacy : SUBSET [id : Id, prompt : Prompt, ts : Nat, verdict : Verdict],
                            \* rows found at first
   serial : BOOLEAN,        \* is there one operation at a time?
   dedupes : SUBSET Proc,   \* who runs dedupe, at the same time
   retrieves : BOOLEAN,
   prompts : SUBSET Prompt, verdicts : SUBSET Verdict,   \* what is recorded
   calls : Nat, faults : Nat]

Row == [prompt : Prompt, ts : Nat, hashed : BOOLEAN, verdict : Verdict]

EpisodesAssumption ==
  /\ NoRow \notin Id \cup Prompt /\ NoRow \notin Row
  /\ Limit \in Nat \ {0} /\ DOMAIN KeyOf = Prompt
  /\ EpisodeScenes \subseteq EpisodeScene
  /\ \A w \in EpisodeScenes :     \* the clock is past the rows found
       /\ IsFiniteSet(w.legacy)
       /\ \A r \in w.legacy : r.ts <= Cardinality(w.legacy)
       /\ \A r, s \in w.legacy : r.id = s.id => r = s

VARIABLES
  world,     \* the scene
  rows,      \* rows[i]: the row of table episodes with this id, or NoRow
  points,    \* the ids with a point in the collection
  op,        \* op[p]: the operation of a process
  acked,     \* history: prompts whose record returned an id
  latest,    \* history: the time stamp of the last record of a prompt
  clock, ops,
  failures   \* their number, and whether a row was left without its point

evars == <<world, rows, points, op, acked, latest, clock, ops, failures>>

Free ==
  [pc |-> "idle", prompt |-> NoRow, ts |-> 0, id |-> NoRow, groups |-> {},
   seen |-> {}, del |-> {}, hits |-> <<>>, shown |-> <<>>,
   verdict |-> "none", all |-> FALSE]

Live == {i \in Id : rows[i] # NoRow}
RowsOf(x) == {i \in Live : rows[i].prompt = x}
Hashed(x) == {i \in RowsOf(x) : rows[i].hashed}
Now(p, pc) == op[p].pc = pc
Idle == \A p \in Proc : Now(p, "idle")
Goto(p, o) == op' = [op EXCEPT ![p] = o]
(* An error or the death of p; it may leave rows without their points.     *)
Fails(p) ==
  /\ failures.n < world.faults
  /\ failures' = [n |-> failures.n + 1,
                  bare |-> failures.bare \/ op[p].pc \in {"embed", "unlink"}]
Abort(p) == Fails(p) /\ Goto(p, Free)

EpisodesTypeOK ==
  /\ world \in EpisodeScenes
  /\ rows \in [Id -> Row \cup {NoRow}]
  /\ points \subseteq Id /\ acked \subseteq Prompt
  /\ latest \in [Prompt -> Nat]

Init ==
  /\ world \in EpisodeScenes
  /\ LET Old(i) == {r \in world.legacy : r.id = i}
     IN  rows = [i \in Id |->
                   IF Old(i) = {} THEN NoRow
                   ELSE LET r == CHOOSE r \in Old(i) : TRUE
                        IN  [prompt |-> r.prompt, ts |-> r.ts,
                             hashed |-> FALSE, verdict |-> r.verdict]]
  /\ points = {r.id : r \in world.legacy}
  /\ op = [p \in Proc |-> Free]
  /\ acked = {r.prompt : r \in world.legacy}
  /\ latest = [x \in Prompt |->
                 Max({0} \cup {r.ts : r \in {s \in world.legacy :
                                               s.prompt = x}})]
  /\ clock = Cardinality(world.legacy) /\ ops = 0
  /\ failures = [n |-> 0, bare |-> FALSE]

Begin(p) ==
  /\ Now(p, "idle") /\ ops < world.calls /\ ops' = ops + 1
  /\ world.serial => Idle

-----------------------------------------------------------------------------
(* record: Episode() takes the time, EpisodicStore.add looks for the hash, *)
(* then inserts or refreshes and commits; another process may come in      *)
(* between, for the SELECT is not in the transaction.                      *)
Record(p, x, v) ==
  /\ x \in world.prompts /\ v \in world.verdicts /\ Begin(p)
  /\ clock' = clock + 1
  /\ Goto(p, [Free EXCEPT !.pc = "select", !.prompt = x, !.ts = clock + 1,
                           !.verdict = v])
  /\ UNCHANGED <<world, rows, points, acked, latest, failures>>

Select(p) ==
  /\ Now(p, "select")
  /\ \/ \E i \in Hashed(op[p].prompt) :
          Goto(p, [op[p] EXCEPT !.id = i, !.pc = "refresh"])
     \/ /\ Hashed(op[p].prompt) = {}
        /\ \E i \in Id :
             /\ rows[i] = NoRow /\ i \notin points
             /\ \A q \in Proc : op[q].id # i
             /\ Goto(p, [op[p] EXCEPT !.id = i, !.pc = "insert"])
  /\ UNCHANGED <<world, rows, points, acked, latest, clock, ops, failures>>

Insert(p) ==
  /\ Now(p, "insert")
  /\ rows' = [rows EXCEPT ![op[p].id] =
                [prompt |-> op[p].prompt, ts |-> op[p].ts, hashed |-> TRUE,
                 verdict |-> op[p].verdict]]
  /\ latest' = [latest EXCEPT ![op[p].prompt] = op[p].ts]
  /\ Goto(p, [op[p] EXCEPT !.pc = "embed"])
  /\ UNCHANGED <<world, points, acked, clock, ops, failures>>

(* _refresh_existing: UPDATE by id; a row deleted since the SELECT is not  *)
(* brought back, and its id is returned all the same.  A verdict there is  *)
(* stays: COALESCE(verdict, ?).                                            *)
Refresh(p) ==
  /\ Now(p, "refresh")
  /\ rows' = [i \in Id |-> IF i = op[p].id /\ rows[i] # NoRow
                           THEN [rows[i] EXCEPT !.ts = op[p].ts,
                                   !.verdict = IF rows[i].verdict = "none"
                                               THEN op[p].verdict
                                               ELSE rows[i].verdict]
                           ELSE rows[i]]
  /\ latest' = [latest EXCEPT ![op[p].prompt] = op[p].ts]
  /\ Goto(p, [op[p] EXCEPT !.pc = "embed"])
  /\ UNCHANGED <<world, points, acked, clock, ops, failures>>

(* record_episode: the row is committed; the embedder or Qdrant may fail.  *)
Upsert(p) ==
  /\ Now(p, "embed")
  /\ \/ /\ points' = points \cup {op[p].id}
        /\ acked' = acked \cup {op[p].prompt}
        /\ Goto(p, Free)
        /\ UNCHANGED failures
     \/ Abort(p) /\ UNCHANGED <<points, acked>>
  /\ UNCHANGED <<world, rows, latest, clock, ops>>

-----------------------------------------------------------------------------
(* dedupe.  Hashes of old rows are filled in and committed.                *)
Dedupe(p) ==
  /\ p \in world.dedupes /\ Begin(p)
  /\ rows' = [i \in Id |-> IF rows[i] = NoRow THEN NoRow
                           ELSE [rows[i] EXCEPT !.hashed = TRUE]]
  /\ Goto(p, [Free EXCEPT !.pc = "groups"])
  /\ UNCHANGED <<world, points, acked, latest, clock, failures>>

Groups(p) ==
  /\ Now(p, "groups")
  /\ LET g == {x \in Prompt : Cardinality(Hashed(x)) > 1}
     IN  Goto(p, IF g = {} THEN Free
                 ELSE [op[p] EXCEPT !.pc = "first", !.groups = g])
  /\ UNCHANGED <<world, rows, points, acked, latest, clock, ops, failures>>

(* The rows of the first group are read before the first UPDATE begins the *)
(* write transaction.                                                      *)
First(p) ==
  /\ Now(p, "first")
  /\ \E x \in op[p].groups :
       Goto(p, [op[p] EXCEPT !.pc = "compact", !.prompt = x,
                  !.seen = {[id |-> i, ts |-> rows[i].ts] : i \in Hashed(x)}])
  /\ UNCHANGED <<world, rows, points, acked, latest, clock, ops, failures>>

Oldest(g) == CHOOSE r \in g : \A s \in g : r.ts <= s.ts
Newest(g) == Max({r.ts : r \in g})
Rest(g) == {r.id : r \in g \ {Oldest(g)}}

(* The groups of the transaction: the first as it was read, the others as  *)
(* they are inside it.                                                     *)
GroupRows(p) ==
  {op[p].seen} \cup
  {{[id |-> i, ts |-> rows[i].ts] : i \in Hashed(x)} :
     x \in op[p].groups \ {op[p].prompt}}

Compact(p) ==
  /\ Now(p, "compact")
  /\ \/ /\ LET gs == {g \in GroupRows(p) : g # {}}
               del == UNION {Rest(g) : g \in gs}
               Kept(i) == {g \in gs : Oldest(g).id = i}
           IN  /\ rows' = [i \in Id |->
                     IF i \in del \/ rows[i] = NoRow THEN NoRow
                     ELSE IF Kept(i) = {} THEN rows[i]
                     ELSE [rows[i] EXCEPT !.ts = Newest(UNION Kept(i))]]
               /\ Goto(p, [op[p] EXCEPT !.pc = "prune", !.del = del])
        /\ UNCHANGED failures
     \/ Abort(p) /\ UNCHANGED rows
  /\ UNCHANGED <<world, points, acked, latest, clock, ops>>

(* Mutant: the keys of the answer are pruned, which are the rows kept.      *)
Prune_Keys(p) ==
  /\ Now(p, "prune")
  /\ points' = points \ ({r.id : r \in op[p].seen} \ op[p].del)
  /\ Goto(p, Free)
  /\ UNCHANGED <<world, rows, acked, latest, clock, ops, failures>>

(* dedupe_episodes prunes the points after the commit.                     *)
Prune(p) ==
  /\ Now(p, "prune")
  /\ \/ points' = points \ op[p].del /\ Goto(p, Free) /\ UNCHANGED failures
     \/ Abort(p) /\ UNCHANGED points
  /\ UNCHANGED <<world, rows, acked, latest, clock, ops>>

-----------------------------------------------------------------------------
(* retrieve: search for three times as many points as asked, load their    *)
(* rows, drop what has none, idle ones unless asked for, the query's own   *)
(* prompt and repeated ones.                                               *)
Window_NoSlack == Limit   \* Mutant: top_k=top_k_eps
Window == 3 * Limit

Search(p, x, all) ==
  /\ world.retrieves /\ Begin(p)
  /\ \E s \in SetToSeqs(points) :
       Goto(p, [Free EXCEPT !.pc = "by_ids", !.prompt = x, !.all = all,
                  !.hits = SubSeq(s, 1, Min({Window, Len(s)}))])
  /\ UNCHANGED <<world, rows, points, acked, latest, clock, failures>>

(* May the episode i be shown to one who asked x?                          *)
Usable(i, x, all) ==
  /\ rows[i] # NoRow /\ (all \/ rows[i].verdict # "idle")
  /\ KeyOf[rows[i].prompt] # KeyOf[x]

(* The places of those in hits whose prompt was not seen at a place before.*)
NewPrompts(x, all, hits) ==
  {j \in DOMAIN hits :
     /\ Usable(hits[j], x, all)
     /\ \A i \in 1 .. j - 1 : Usable(hits[i], x, all) =>
          KeyOf[rows[hits[i]].prompt] # KeyOf[rows[hits[j]].prompt]}

(* The first Limit of them. *)
filter_episodes(x, all, hits) ==
  LET kept == NewPrompts(x, all, hits)
      Rank(j) == Cardinality({i \in kept : i <= j})
  IN  [n \in 1 .. Min({Limit, Cardinality(kept)}) |->
         hits[CHOOSE j \in kept : Rank(j) = n]]

ById(p) ==
  /\ Now(p, "by_ids")
  /\ Goto(p, [Free EXCEPT !.prompt = op[p].prompt,
                !.shown = filter_episodes(op[p].prompt, op[p].all,
                                          op[p].hits)])
  /\ UNCHANGED <<world, rows, points, acked, latest, clock, ops, failures>>

(* reset --include-episodes, while nobody else has the file open: the       *)
(* collection, then the file; a failure of Qdrant is swallowed.            *)
Reset(p) ==
  /\ world.serial /\ Begin(p)
  /\ \/ points' = {} /\ UNCHANGED failures
     \/ Fails(p) /\ UNCHANGED points
  /\ Goto(p, [Free EXCEPT !.pc = "unlink"])
  /\ acked' = {}
  /\ UNCHANGED <<world, rows, latest, clock>>

Unlink(p) ==
  /\ Now(p, "unlink")
  /\ rows' = [i \in Id |-> NoRow]
  /\ latest' = [x \in Prompt |-> 0]
  /\ Goto(p, Free)
  /\ UNCHANGED <<world, points, acked, clock, ops, failures>>

(* A process is killed between two steps.                                  *)
Die(p) ==
  /\ ~Now(p, "idle") /\ Abort(p)
  /\ UNCHANGED <<world, rows, points, acked, latest, clock, ops>>

Next ==
  \E p \in Proc :
    \/ \E x \in Prompt : \/ \E v \in Verdict : Record(p, x, v)
                         \/ \E all \in BOOLEAN : Search(p, x, all)
    \/ Select(p) \/ Insert(p) \/ Refresh(p) \/ Upsert(p)
    \/ Dedupe(p) \/ Groups(p) \/ First(p) \/ Compact(p) \/ Prune(p)
    \/ ById(p) \/ Reset(p) \/ Unlink(p) \/ Die(p)

Spec == Init /\ [][Next]_evars

-----------------------------------------------------------------------------
OneDedupe == \A p, q \in world.dedupes : p = q

(* Once record returned an id, the prompt can be recalled: one of its rows *)
(* has its point.  Failed records, races of two inserts and one dedupe do  *)
(* not undo it, nor does a crash in any of them, as long as dedupe never   *)
(* meets a row that has no point: it keeps the oldest, whichever that is.  *)
RecallableOnceAcked ==
  Idle /\ (world.dedupes = {} \/ (OneDedupe /\ ~failures.bare)) =>
    \A x \in acked : RowsOf(x) \cap points # {}

(* Collapsing "to one row whose ts is the most-recent observation" leaves  *)
(* one: no prompt that was ever committed is forgotten.                    *)
NothingForgotten == \A x \in Prompt : latest[x] > 0 => RowsOf(x) # {}

(* The same while no two processes run dedupe.                             *)
OneDedupeForgetsNothing == OneDedupe => NothingForgotten

(* Where operations do not overlap, between them the newest row of a       *)
(* prompt has the time of its last observation, after refreshes, a dedupe  *)
(* and crashes in the middle; and as long as nothing failed, the           *)
(* collection has the points of exactly the rows of the table.             *)
StoresInStep ==
  world.serial /\ Idle =>
    /\ \A x \in Prompt : RowsOf(x) # {} =>
         Max({rows[i].ts : i \in RowsOf(x)}) = latest[x]
    /\ failures.n = 0 => points = Live

(* The different prompts a query could be shown.                           *)
Keys(x, all) ==
  {KeyOf[rows[i].prompt] : i \in {k \in points : Usable(k, x, all)}}

(* An answer of retrieve has Limit different prompts or all there are, of  *)
(* rows that may be shown to who asked, unless more than 2 * Limit points  *)
(* are of no use to it: of rows deleted, idle or repeating a prompt.  Such *)
(* points may fill the search and leave the answer short, or empty.        *)
Fills(p) ==
  LET x == op[p].prompt
      all == op[p].all
      n == Cardinality(Keys(x, all))
      shown == op'[p].shown
  IN  /\ Now(p, "by_ids") /\ op'[p].pc = "idle" /\ failures' = failures
      /\ world.serial
      => /\ \A j \in DOMAIN shown :
              shown[j] \in points /\ Usable(shown[j], x, all)
         /\ \A j, k \in DOMAIN shown :
              KeyOf[rows[shown[j]].prompt] = KeyOf[rows[shown[k]].prompt]
                => j = k
         /\ Len(shown) <= Limit /\ Len(shown) <= n
         /\ Cardinality(points) - n <= 2 * Limit =>
              Len(shown) = Min({Limit, n})
RecallComplete == [][\A p \in Proc : Fills(p)]_evars
=============================================================================
