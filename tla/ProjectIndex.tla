---------------------------- MODULE ProjectIndex ----------------------------
(***************************************************************************)
(* The stores of one project as the commands share them: the Qdrant code   *)
(* collection (vector/qdrant_store.py), the graph, the ingest_state row    *)
(* (orchestrator/ingest_state.py), the ingest that trusts it               *)
(* (Pipeline.ingest_repo with its health check), every other command that  *)
(* opens a Pipeline, and reset (orchestrator/reset.py).                    *)
(*                                                                         *)
(* Commit h of the repository has the files 1 .. Size[h]; a file has one   *)
(* symbol.  How a full ingest swaps the stores is module FullRebuild, how  *)
(* a sync picks the files of a delta is SyncRepo.                          *)
(***************************************************************************)
EXTENDS Integers, FiniteSets

CONSTANTS
  Command,      \* processes that run one command after another
  LastHead,     \* bound: the commits are 0 .. LastHead, in order
  Size,         \* Size[h]: ingestable files of commit h
  None,
  IndexScenes

Head == 0 .. LastHead

IndexScene ==
  [collection : {"missing", "legacy"},   \* what is found at first
   overlap : BOOLEAN,    \* may a reset, or a tool, run beside an ingest?
   resets : Nat, tools : Nat, losses : Nat, faults : Nat]   \* bounds

ProjectIndexAssumption ==
  /\ LastHead \in Nat
  /\ Size \in [Head -> Nat]
  /\ \A g, h \in Head : g <= h => Size[g] <= Size[h]
  /\ None \notin Head
  /\ IndexScenes \subseteq IndexScene

VARIABLES
  env,
  head,      \* HEAD of the repository
  coll,      \* the collection: "missing", "legacy" or "hybrid"
  vecs,      \* the files with points in it
  graph,     \* the files with symbols in the graph
  state,     \* the ingest_state row, or None
  cmd,       \* cmd[c]: the command a process runs
  spoilt,    \* history: a reset or an upgrade hit an index with a recorded
             \* state, or the graph lost data, and no full ingest since
  used       \* resets, tools, losses and faults so far

ivars == <<env, head, coll, vecs, graph, state, cmd, spoilt, used>>

FilesAt(h) == 1 .. Size[h]
AllFiles == UNION {FilesAt(h) : h \in Head}
State == [sha : Head, counts : [files : Nat, symbols : Nat] \cup {None}]
Quiet == [pc |-> "idle", kind |-> "none", base |-> None, head |-> None]

Does(c, pc) == cmd[c].pc = pc
Run(c, r) == cmd' = [cmd EXCEPT ![c] = r]
To(c, pc) == Run(c, [cmd[c] EXCEPT !.pc = pc])
NobodyElse(c) == \A d \in Command \ {c} : Does(d, "idle")
Use(k) == used[k] < env[k] /\ used' = [used EXCEPT ![k] = @ + 1]

IndexTypeOK ==
  /\ head \in Head
  /\ coll \in {"missing", "legacy", "hybrid"}
  /\ vecs \subseteq AllFiles /\ graph \subseteq AllFiles
  /\ state \in State \cup {None}

(* Either nothing is indexed, or a release before the hybrid layout did.   *)
Init ==
  /\ env \in IndexScenes
  /\ head = 0
  /\ coll = env.collection
  /\ LET old == IF coll = "legacy" THEN FilesAt(0) ELSE {}
     IN  vecs = old /\ graph = old
  /\ state = IF coll = "legacy" THEN [sha |-> 0, counts |-> None] ELSE None
  /\ cmd = [c \in Command |-> Quiet]
  /\ spoilt = FALSE
  /\ used = [resets |-> 0, tools |-> 0, losses |-> 0, faults |-> 0]

-----------------------------------------------------------------------------
(* Every command that touches the index opens a Pipeline, whose            *)
(* constructor calls ensure_collection.  An ingest holds the rebuild slot. *)
Open(c, kind) ==
  /\ Does(c, "idle") /\ (env.overlap \/ NobodyElse(c))
  /\ kind = "ingest" => \A d \in Command : cmd[d].kind # "ingest"
  /\ IF kind = "tool" THEN Use("tools") ELSE UNCHANGED used
  /\ Run(c, [Quiet EXCEPT !.kind = kind, !.pc =
               CASE coll = "hybrid" -> "opened"
                 [] coll = "legacy" -> "drop"
                 [] coll = "missing" -> "create"])
  /\ UNCHANGED <<env, head, coll, vecs, graph, state, spoilt>>

(* Mutant: the old layout is refused, as search does.                      *)
DropLegacy_Refuse(c) ==
  /\ Does(c, "drop") /\ cmd[c].kind # "reset"
  /\ Run(c, Quiet)
  /\ UNCHANGED <<env, head, coll, vecs, graph, state, spoilt, used>>

(* The old layout is dropped without a look at ingest_state; an error of   *)
(* delete_collection is swallowed.                                         *)
DropLegacy(c) ==
  /\ Does(c, "drop") /\ cmd[c].kind # "reset"
  /\ coll' = "missing" /\ vecs' = {}
  /\ spoilt' = (spoilt \/ state # None \/ ~NobodyElse(c))
  /\ To(c, "create")
  /\ UNCHANGED <<env, head, graph, state, used>>

(* create_collection fails if another process came first, and the command  *)
(* with it.                                                                *)
CreateHybrid(c) ==
  /\ Does(c, "create") /\ cmd[c].kind # "reset"
  /\ IF coll = "missing"
     THEN coll' = "hybrid" /\ To(c, "opened")
     ELSE Run(c, Quiet) /\ UNCHANGED coll
  /\ UNCHANGED <<env, head, vecs, graph, state, spoilt, used>>

(* A tool call or `record` does nothing more to the index.                 *)
Tool(c) ==
  /\ Does(c, "opened") /\ cmd[c].kind = "tool"
  /\ Run(c, Quiet)
  /\ UNCHANGED <<env, head, coll, vecs, graph, state, spoilt, used>>

-----------------------------------------------------------------------------
(* _health_check_ok: more than 20 % more files than the last full ingest   *)
(* saw, but fewer symbols than half of them; no symbols at all are taken   *)
(* for a graph that is down.                                               *)
Healthy(s) ==
  \/ s.counts = None
  \/ 10 * Size[head] <= 12 * s.counts.files
  \/ graph = {} /\ s.counts.symbols > 0
  \/ Cardinality(graph) >= Size[head] \div 2

Base == IF state = None THEN None ELSE
        IF Healthy(state) THEN state.sha ELSE None

(* ingest_repo: HEAD and the base of the delta; no base, and the row is    *)
(* cleared, means a full walk.                                             *)
Decide(c) ==
  /\ Does(c, "opened") /\ cmd[c].kind = "ingest"
  /\ Run(c, [cmd[c] EXCEPT !.head = head, !.base = Base,
               !.pc = IF Base = None THEN "fullVecs" ELSE "vecs"])
  /\ state' = IF Base = None THEN None ELSE state
  /\ UNCHANGED <<env, head, coll, vecs, graph, spoilt, used>>

(* A full ingest replaces the collection, then the graph.                  *)
FullVecs(c) ==
  /\ Does(c, "fullVecs")
  /\ coll' = "hybrid" /\ vecs' = FilesAt(cmd[c].head)
  /\ spoilt' = FALSE
  /\ To(c, "fullGraph")
  /\ UNCHANGED <<env, head, graph, state, used>>

FullGraph(c) ==
  /\ Does(c, "fullGraph")
  /\ graph' = FilesAt(cmd[c].head)
  /\ To(c, "record")
  /\ UNCHANGED <<env, head, coll, vecs, state, spoilt, used>>

(* A delta adds the files that came since the base.  Points cannot be      *)
(* upserted into a collection that a reset has just dropped.               *)
New(c) == FilesAt(cmd[c].head) \ FilesAt(cmd[c].base)

DeltaVecs(c) ==
  /\ Does(c, "vecs")
  /\ IF coll = "missing" /\ New(c) # {}
     THEN Run(c, Quiet) /\ UNCHANGED vecs
     ELSE vecs' = vecs \cup New(c) /\ To(c, "graph")
  /\ UNCHANGED <<env, head, coll, graph, state, spoilt, used>>

DeltaGraph(c) ==
  /\ Does(c, "graph")
  /\ graph' = graph \cup New(c)
  /\ To(c, "record")
  /\ UNCHANGED <<env, head, coll, vecs, state, spoilt, used>>

(* _record_state upserts the row; a delta has no counts and passes NULL.   *)
Record(c) ==
  /\ Does(c, "record")
  /\ state' = [sha |-> cmd[c].head,
               counts |-> IF cmd[c].base # None THEN None
                          ELSE [files |-> Size[cmd[c].head],
                                symbols |-> Size[cmd[c].head]]]
  /\ Run(c, Quiet)
  /\ UNCHANGED <<env, head, coll, vecs, graph, spoilt, used>>

-----------------------------------------------------------------------------
(* reset_project: drop, create, clear the graph, delete the row.  Errors   *)
(* of the stores are swallowed one by one; the row goes last.              *)
Reset(c) ==
  /\ Does(c, "idle") /\ (env.overlap \/ NobodyElse(c))
  /\ Use("resets")
  /\ Run(c, [Quiet EXCEPT !.kind = "reset", !.pc = "drop"])
  /\ UNCHANGED <<env, head, coll, vecs, graph, state, spoilt>>

ResetDrop(c) ==
  /\ Does(c, "drop") /\ cmd[c].kind = "reset"
  /\ \/ coll' = "missing" /\ vecs' = {} /\ UNCHANGED used
     \/ Use("faults") /\ UNCHANGED <<coll, vecs>>
  /\ spoilt' = TRUE
  /\ To(c, "create")
  /\ UNCHANGED <<env, head, graph, state>>

ResetCreate(c) ==
  /\ Does(c, "create") /\ cmd[c].kind = "reset"
  /\ \/ coll' = (IF coll = "missing" THEN "hybrid" ELSE coll)
        /\ UNCHANGED used
     \/ Use("faults") /\ UNCHANGED coll
  /\ To(c, "clear")
  /\ UNCHANGED <<env, head, vecs, graph, state, spoilt>>

ResetClear(c) ==
  /\ Does(c, "clear")
  /\ \/ graph' = {} /\ UNCHANGED used
     \/ Use("faults") /\ UNCHANGED graph
  /\ spoilt' = TRUE
  /\ To(c, "delete")
  /\ UNCHANGED <<env, head, coll, vecs, state>>

(* Mutant: the row is kept when a store could not be cleared.              *)
ResetDelete_OnSuccess(c) ==
  /\ Does(c, "delete")
  /\ state' = IF graph = {} THEN state ELSE None
  /\ spoilt' = (spoilt /\ ~NobodyElse(c))
  /\ Run(c, Quiet)
  /\ UNCHANGED <<env, head, coll, vecs, graph, used>>

ResetDelete(c) ==
  /\ Does(c, "delete")
  /\ state' = None
  /\ spoilt' = (spoilt /\ ~NobodyElse(c))
  /\ Run(c, Quiet)
  /\ UNCHANGED <<env, head, coll, vecs, graph, used>>

(* A command dies or gets an error from a store.                           *)
Fail(c) ==
  /\ ~Does(c, "idle") /\ Use("faults")
  /\ Run(c, Quiet)
  /\ UNCHANGED <<env, head, coll, vecs, graph, state, spoilt>>

-----------------------------------------------------------------------------
(* A commit adds files; FalkorDB comes back from an older dump.            *)
Commit ==
  /\ head + 1 \in Head /\ head' = head + 1
  /\ \A c \in Command : Does(c, "idle")
  /\ UNCHANGED <<env, coll, vecs, graph, state, cmd, spoilt, used>>

LoseGraph ==
  /\ Use("losses")
  /\ graph' \in SUBSET graph /\ graph' # graph
  /\ spoilt' = TRUE
  /\ UNCHANGED <<env, head, coll, vecs, state, cmd>>

Step(c) ==
  \/ DropLegacy(c) \/ CreateHybrid(c) \/ Tool(c) \/ Decide(c)
  \/ FullVecs(c) \/ FullGraph(c) \/ DeltaVecs(c) \/ DeltaGraph(c) \/ Record(c)
  \/ ResetDrop(c) \/ ResetCreate(c) \/ ResetClear(c) \/ ResetDelete(c)

Next ==
  \/ \E c \in Command : \/ Open(c, "tool") \/ Open(c, "ingest") \/ Reset(c)
                        \/ Step(c) \/ Fail(c)
  \/ Commit \/ LoseGraph

(* Commands run to their end, and the repository is ingested again and     *)
(* again: hooks, the watcher and the start of every session do it.         *)
Fairness ==
  \A c \in Command : /\ WF_ivars(Step(c))
                     /\ SF_ivars(Open(c, "ingest"))

Spec == Init /\ [][Next]_ivars /\ Fairness

-----------------------------------------------------------------------------
(* The recorded commit is what decides that nothing has to be done: unless *)
(* a reset, an upgrade or a loss hit an index whose state stayed recorded, *)
(* the vectors and the graph have every file of the recorded commit,       *)
(* whatever failed in any ingest or reset.                                 *)
RecordedMeansIndexed ==
  (\A c \in Command : Does(c, "idle")) /\ ~spoilt /\ state # None =>
    FilesAt(state.sha) \subseteq vecs \cap graph

(* As long as ingests keep coming, the index gets complete for HEAD and    *)
(* stays so, after resets and failures, unless it is spoilt: then only a   *)
(* full ingest helps, and nobody asks for one.                             *)
Complete == /\ coll = "hybrid" /\ state # None
            /\ vecs = FilesAt(head) /\ graph = FilesAt(head)
IndexCatchesUp == <>[](spoilt \/ Complete)

(* config.py on the health check: file_count is "stored from a prior full  *)
(* ingest" and compared by the incremental path: as long as a state is     *)
(* recorded by this release, the counts are there.                         *)
HealthCheckHasCounts == state # None => state.counts # None
=============================================================================
