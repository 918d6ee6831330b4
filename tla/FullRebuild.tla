---------------------------- MODULE FullRebuild ----------------------------
(***************************************************************************)
(* Pipeline._ingest_full and what runs beside it: the rebuild of one       *)
(* project's vectors (a Qdrant collection) and graph (a FalkorDB graph) in *)
(* shadow stores that then replace the live ones, step by step.            *)
(*                                                                         *)
(* Module SyncRepo sees this as WalkFile, SwapShadow and RecordState.      *)
(* Here every call to a store is a step, so that a failure, a crash or a   *)
(* save hook (`code-memory reingest`, which takes no rebuild slot) can     *)
(* come between any two.  A store maps a path to the content it was built  *)
(* from, or is Missing when the collection or graph does not exist.        *)
(***************************************************************************)
EXTENDS Naturals, Sequences

CONSTANTS
  Path,        \* ingestable files
  Content,     \* contents a file can have
  Absent,      \* "no such file", "not indexed"
  Missing,     \* the store does not exist
  None,        \* no recorded state, no path
  Tree,        \* Tree["old"] was indexed before; Tree["head"] is HEAD
  Worker,      \* the callers of ingest_repo(mode="full")
  Hook,        \* the callers of reingest_file outside a sync
  Slotted,     \* do all workers take the rebuild slot?
  CleanSaves,  \* is a file re-ingested that equals its committed version?
  PoolSize,    \* UPSERT_POOL_SIZE
  QueueMax,    \* UPSERT_QUEUE_MAX
  MaxFaults,   \* bound: failed calls and crashes
  MaxSaves,    \* bound: edits with their save hooks
  MaxForced    \* bound: full rebuilds nobody needs (`ingest --full`)

Files == [Path -> Content \cup {Absent}]

ASSUME FullRebuildAssumption ==
  /\ Tree \in [{"old", "head"} -> Files]
  /\ Absent \notin Content
  /\ Missing \notin Files
  /\ None \notin Path \cup {"old", "head"}
  /\ {Slotted, CleanSaves} \subseteq BOOLEAN
  /\ {PoolSize, QueueMax} \subseteq Nat \ {0}
  /\ {MaxFaults, MaxSaves, MaxForced} \subseteq Nat

VARIABLES
  work,        \* the files
  vec,         \* the live collection
  vecShadow,   \* <live>__shadow
  graph,       \* the live graph
  graphShadow, \* <live>__shadow
  state,       \* the recorded commit: None, "old" or "head"
  job,         \* job[w]: the rebuild of w
  hook,        \* hook[h]: the re-ingest of one file
  faults, saves, forced

stores == <<vec, vecShadow, graph, graphShadow>>
bounds == <<faults, saves, forced>>
vars == <<work, stores, state, job, hook, bounds>>

Empty == [p \in Path |-> Absent]

IdleJob == [pc |-> "idle", todo |-> {}, queue |-> <<>>, points |-> Empty]

IdleHook == [pc |-> "idle", path |-> None, read |-> Absent]

Store == Files \cup {Missing}

Batch == [path : Path, read : Content,
          status : {"waiting", "done", "failed"}]

Labels == {"idle", "shadows", "clear", "walk", "scroll", "delete", "create",
           "upsert", "dropVec", "deleteGraph", "copyGraph", "dropGraph",
           "record"}

Job == [pc : Labels, todo : SUBSET Path, queue : Seq(Batch), points : Files]

TypeOK ==
  /\ work \in Files
  /\ {vec, vecShadow, graph, graphShadow} \subseteq Store
  /\ state \in {None, "old", "head"}
  /\ job \in [Worker -> Job]
  /\ \A w \in Worker : Len(job[w].queue) <= QueueMax
  /\ hook \in [Hook -> [pc : {"idle", "gdrop", "vdrop", "gput", "vput"},
                        path : Path \cup {None},
                        read : Content \cup {Absent}]]
  /\ faults \in 0 .. MaxFaults
  /\ saves \in 0 .. MaxSaves
  /\ forced \in 0 .. MaxForced

(* Either the clone was never indexed, or its history was rewritten, or    *)
(* its index is good (and somebody may rebuild it all the same).           *)
Init ==
  /\ work = Tree["head"]
  /\ \/ state = None /\ vec = Missing /\ graph = Missing
     \/ state \in {"old", "head"} /\ vec = Tree[state] /\ graph = Tree[state]
  /\ vecShadow = Missing
  /\ graphShadow = Missing
  /\ job = [w \in Worker |-> IdleJob]
  /\ hook = [h \in Hook |-> IdleHook]
  /\ faults = 0 /\ saves = 0 /\ forced = 0

-----------------------------------------------------------------------------
Put(store, p, c) == [store EXCEPT ![p] = c]

(* Pipeline.__init__ creates the live stores when they are missing. *)
Ensured(store) == IF store = Missing THEN Empty ELSE store

At(w, label) == job[w].pc = label

Goto(w, label) == job' = [job EXCEPT ![w].pc = label]

(* An exception leaves ingest_repo, or the process dies: the job is gone,  *)
(* the stores keep what they have.  The uploads still in the pool only     *)
(* reach the shadow, which nobody reads before it is dropped.              *)
GiveUp(w) == job' = [job EXCEPT ![w] = IdleJob]

(* ingest_repo(mode="full"), because nothing usable is recorded or because *)
(* somebody asks for it.                                                   *)
Begin(w) ==
  /\ At(w, "idle")
  /\ Slotted => \A u \in Worker : At(u, "idle")
  /\ \/ state # "head" /\ UNCHANGED forced
     \/ /\ state = "head" /\ forced < MaxForced
        /\ forced' = forced + 1
  /\ vec' = Ensured(vec)
  /\ graph' = Ensured(graph)
  /\ job' = [job EXCEPT ![w] = [IdleJob EXCEPT !.pc = "shadows"]]
  /\ UNCHANGED <<work, vecShadow, graphShadow, state, hook, faults, saves>>

(* Mutant: a shadow left behind by an interrupted rebuild is not dropped,  *)
(* so that creating it again fails.                                        *)
MakeShadows_KeepLeftover(w) ==
  /\ At(w, "shadows")
  /\ \/ /\ graphShadow = Missing
        /\ graphShadow' = Empty
        /\ vecShadow' = Empty
        /\ Goto(w, "clear")
     \/ /\ graphShadow # Missing
        /\ GiveUp(w)
        /\ UNCHANGED <<vecShadow, graphShadow>>
  /\ UNCHANGED <<work, vec, graph, state, hook, bounds>>

(* Leftover shadows are dropped and empty ones created. *)
MakeShadows(w) ==
  /\ At(w, "shadows")
  /\ vecShadow' = Empty
  /\ graphShadow' = Empty
  /\ Goto(w, "clear")
  /\ UNCHANGED <<work, vec, graph, state, hook, bounds>>

(* Mutant: the recorded commit is kept during the rebuild. *)
ClearState_Keep(w) ==
  /\ At(w, "clear")
  /\ job' = [job EXCEPT ![w].pc = "walk", ![w].todo = Path]
  /\ UNCHANGED <<work, stores, state, hook, bounds>>

(* self.state.clear(root) *)
ClearState(w) ==
  /\ At(w, "clear")
  /\ state' = None
  /\ job' = [job EXCEPT ![w].pc = "walk", ![w].todo = Path]
  /\ UNCHANGED <<work, stores, hook, bounds>>

(* One file of extractor.walk: its symbols go to the shadow graph at once, *)
(* its chunks to the upload pool, which takes them while it has room.      *)
Walk(w, p) ==
  /\ At(w, "walk")
  /\ p \in job[w].todo
  /\ \/ /\ work[p] = Absent
        /\ job' = [job EXCEPT ![w].todo = @ \ {p}]
        /\ UNCHANGED graphShadow
     \/ /\ work[p] # Absent
        /\ Len(job[w].queue) < QueueMax
        /\ graphShadow' = Put(Ensured(graphShadow), p, work[p])
        /\ job' = [job EXCEPT
             ![w].todo = @ \ {p},
             ![w].queue = Append(@, [path |-> p, read |-> work[p],
                                     status |-> "waiting"])]
  /\ UNCHANGED <<work, vec, vecShadow, graph, state, hook, bounds>>

(* The batches a pool thread has taken: the first PoolSize unfinished.     *)
Uploading(w) ==
  {i \in 1 .. Len(job[w].queue) :
     /\ job[w].queue[i].status = "waiting"
     /\ Len(SelectSeq(SubSeq(job[w].queue, 1, i),
                      LAMBDA b : b.status = "waiting")) <= PoolSize}

(* _embed_and_upsert in a pool thread: batches may finish out of order.    *)
Upload(w, i) ==
  /\ i \in Uploading(w)
  /\ vecShadow # Missing
  /\ vecShadow' = Put(vecShadow, job[w].queue[i].path, job[w].queue[i].read)
  /\ job' = [job EXCEPT ![w].queue[i].status = "done"]
  /\ UNCHANGED <<work, vec, graph, graphShadow, state, hook, bounds>>

(* The embedder or Qdrant fails; the future keeps the exception. *)
UploadFails(w, i) ==
  /\ i \in Uploading(w)
  /\ \/ vecShadow = Missing /\ UNCHANGED faults
     \/ faults < MaxFaults /\ faults' = faults + 1
  /\ job' = [job EXCEPT ![w].queue[i].status = "failed"]
  /\ UNCHANGED <<work, stores, state, hook, saves, forced>>

(* Mutant: the result of the future is not asked for. *)
AwaitOne_NoResult(w) ==
  /\ job[w].queue # <<>>
  /\ Len(job[w].queue) >= QueueMax \/ job[w].todo = {}
  /\ Head(job[w].queue).status # "waiting"
  /\ job' = [job EXCEPT ![w].queue = Tail(@)]
  /\ UNCHANGED <<work, stores, state, hook, bounds>>

(* _await_one, when the queue is full and at the end of the walk: the      *)
(* oldest batch is waited for and its exception raised.                    *)
AwaitOne(w) ==
  /\ job[w].queue # <<>>
  /\ Len(job[w].queue) >= QueueMax \/ job[w].todo = {}
  /\ \/ /\ Head(job[w].queue).status = "done"
        /\ job' = [job EXCEPT ![w].queue = Tail(@)]
     \/ /\ Head(job[w].queue).status = "failed"
        /\ GiveUp(w)
  /\ UNCHANGED <<work, stores, state, hook, bounds>>

(* The walk is over once every batch has been waited for. *)
Walked(w) ==
  /\ At(w, "walk")
  /\ job[w].todo = {}
  /\ job[w].queue = <<>>
  /\ Goto(w, "scroll")
  /\ UNCHANGED <<work, stores, state, hook, bounds>>

-----------------------------------------------------------------------------
(* _commit_shadow_collection *)

Scroll(w) ==
  /\ At(w, "scroll")
  /\ \/ /\ vecShadow = Missing
        /\ GiveUp(w)
     \/ /\ vecShadow # Missing
        /\ job' = [job EXCEPT ![w].pc = "delete", ![w].points = vecShadow]
  /\ UNCHANGED <<work, stores, state, hook, bounds>>

DeleteLive(w) ==
  /\ At(w, "delete")
  /\ vec' = Missing
  /\ Goto(w, "create")
  /\ UNCHANGED <<work, vecShadow, graph, graphShadow, state, hook, bounds>>

(* Creating the collection fails when a hook has just created it. *)
CreateLive(w) ==
  /\ At(w, "create")
  /\ \/ /\ vec = Missing
        /\ vec' = Empty
        /\ job' = [job EXCEPT ![w].pc = "upsert", ![w].todo = Path]
     \/ /\ vec # Missing
        /\ GiveUp(w)
        /\ UNCHANGED vec
  /\ UNCHANGED <<work, vecShadow, graph, graphShadow, state, hook, bounds>>

(* The scrolled points are upserted in batches; a batch never removes any. *)
UpsertLive(w, p) ==
  /\ At(w, "upsert")
  /\ p \in job[w].todo
  /\ \/ /\ vec = Missing
        /\ GiveUp(w)
        /\ UNCHANGED vec
     \/ /\ vec # Missing
        /\ vec' = IF job[w].points[p] = Absent THEN vec
                  ELSE Put(vec, p, job[w].points[p])
        /\ job' = [job EXCEPT
             ![w].todo = @ \ {p},
             ![w].pc = IF job[w].todo = {p} THEN "dropVec" ELSE @]
  /\ UNCHANGED <<work, vecShadow, graph, graphShadow, state, hook, bounds>>

DropVecShadow(w) ==
  /\ At(w, "dropVec")
  /\ vecShadow' = Missing
  /\ Goto(w, "deleteGraph")
  /\ UNCHANGED <<work, vec, graph, graphShadow, state, hook, bounds>>

-----------------------------------------------------------------------------
(* promote_shadow *)

(* GRAPH.DELETE of a graph that does not exist is an error. *)
DeleteGraph(w) ==
  /\ At(w, "deleteGraph")
  /\ \/ /\ graph # Missing
        /\ graph' = Missing
        /\ Goto(w, "copyGraph")
     \/ /\ graph = Missing
        /\ GiveUp(w)
        /\ UNCHANGED graph
  /\ UNCHANGED <<work, vec, vecShadow, graphShadow, state, hook, bounds>>

(* GRAPH.COPY needs a source and refuses an existing destination. *)
CopyGraph(w) ==
  /\ At(w, "copyGraph")
  /\ \/ /\ graph = Missing /\ graphShadow # Missing
        /\ graph' = graphShadow
        /\ Goto(w, "dropGraph")
     \/ /\ ~(graph = Missing /\ graphShadow # Missing)
        /\ GiveUp(w)
        /\ UNCHANGED graph
  /\ UNCHANGED <<work, vec, vecShadow, graphShadow, state, hook, bounds>>

DropGraphShadow(w) ==
  /\ At(w, "dropGraph")
  /\ graphShadow' = Missing
  /\ Goto(w, "record")
  /\ UNCHANGED <<work, vec, vecShadow, graph, state, hook, bounds>>

(* _record_state *)
Record(w) ==
  /\ At(w, "record")
  /\ state' = "head"
  /\ GiveUp(w)
  /\ UNCHANGED <<work, stores, hook, bounds>>

(* A call to a store fails, or the process dies. *)
Abort(w) ==
  /\ ~At(w, "idle")
  /\ faults < MaxFaults
  /\ faults' = faults + 1
  /\ GiveUp(w)
  /\ UNCHANGED <<work, stores, state, hook, saves, forced>>

-----------------------------------------------------------------------------
(* The save hook: a file is written and `code-memory reingest` started,    *)
(* in a process of its own.                                                *)

Tell(h, label) == hook' = [hook EXCEPT ![h].pc = label]

HookDies(h) == hook' = [hook EXCEPT ![h] = IdleHook]

(* The file gets content c; Pipeline.__init__ ensures the live stores; the *)
(* file is parsed.                                                         *)
Save(h, p, c) ==
  /\ hook[h].pc = "idle"
  /\ saves < MaxSaves
  /\ saves' = saves + 1
  /\ c # Tree["head"][p] \/ (CleanSaves /\ work[p] = c)
  /\ work' = Put(work, p, c)
  /\ vec' = Ensured(vec)
  /\ graph' = Ensured(graph)
  /\ hook' = [hook EXCEPT ![h] = [pc |-> "gdrop", path |-> p, read |-> c]]
  /\ UNCHANGED <<vecShadow, graphShadow, state, job, faults, forced>>

(* graph.delete_file; any query creates a graph that does not exist. *)
HookGraphDrop(h) ==
  /\ hook[h].pc = "gdrop"
  /\ graph' = Put(Ensured(graph), hook[h].path, Absent)
  /\ Tell(h, "vdrop")
  /\ UNCHANGED <<work, vec, vecShadow, graphShadow, state, job, bounds>>

(* vector.delete_by_path; a missing collection is an error. *)
HookVecDrop(h) ==
  /\ hook[h].pc = "vdrop"
  /\ \/ /\ vec # Missing
        /\ vec' = Put(vec, hook[h].path, Absent)
        /\ Tell(h, "gput")
     \/ /\ vec = Missing
        /\ HookDies(h)
        /\ UNCHANGED vec
  /\ UNCHANGED <<work, vecShadow, graph, graphShadow, state, job, bounds>>

(* ingest_file: first the graph ... *)
HookGraphPut(h) ==
  /\ hook[h].pc = "gput"
  /\ graph' = Put(Ensured(graph), hook[h].path, hook[h].read)
  /\ Tell(h, "vput")
  /\ UNCHANGED <<work, vec, vecShadow, graphShadow, state, job, bounds>>

(* ... then the chunks are embedded and upserted. *)
HookVecPut(h) ==
  /\ hook[h].pc = "vput"
  /\ vec' = IF vec = Missing THEN vec ELSE Put(vec, hook[h].path, hook[h].read)
  /\ HookDies(h)
  /\ UNCHANGED <<work, vecShadow, graph, graphShadow, state, job, bounds>>

(* The embedder or a store fails, or the process dies. *)
HookFails(h) ==
  /\ hook[h].pc # "idle"
  /\ faults < MaxFaults
  /\ faults' = faults + 1
  /\ HookDies(h)
  /\ UNCHANGED <<work, stores, state, job, saves, forced>>

-----------------------------------------------------------------------------
JobStep(w) ==
  \/ MakeShadows(w) \/ ClearState(w)
  \/ \E p \in Path : Walk(w, p) \/ UpsertLive(w, p)
  \/ \E i \in 1 .. QueueMax : Upload(w, i)
  \/ AwaitOne(w) \/ Walked(w)
  \/ Scroll(w) \/ DeleteLive(w) \/ CreateLive(w) \/ DropVecShadow(w)
  \/ DeleteGraph(w) \/ CopyGraph(w) \/ DropGraphShadow(w) \/ Record(w)

HookStep(h) ==
  HookGraphDrop(h) \/ HookVecDrop(h) \/ HookGraphPut(h) \/ HookVecPut(h)

Next ==
  \/ \E w \in Worker :
       \/ Begin(w) \/ JobStep(w) \/ Abort(w)
       \/ \E i \in 1 .. QueueMax : UploadFails(w, i)
  \/ \E h \in Hook :
       \/ HookStep(h) \/ HookFails(h)
       \/ \E p \in Path, c \in Content : Save(h, p, c)

Spec == Init /\ [][Next]_vars

(* Started calls return, and an index that is not recorded for HEAD is     *)
(* rebuilt sooner or later: the guard, the watcher and every boot ask.     *)
FairSpec ==
  /\ Spec
  /\ \A w \in Worker : WF_vars(JobStep(w))
  /\ \A w \in Worker : WF_vars(Begin(w) /\ state # "head")
  /\ \A h \in Hook : WF_vars(HookStep(h))

-----------------------------------------------------------------------------
(* What the next sync leaves alone: everything when HEAD is recorded,      *)
(* except files that differ from their committed version.                  *)
Trusted(p) == state = "head" /\ work[p] = Tree["head"][p]

Right(store, p) == store # Missing /\ store[p] = work[p]

(* "An interrupted rebuild" is never mistaken for a finished one: while no *)
(* rebuild or hook is under way, a file the next sync would not read again *)
(* is right in the vectors and in the graph.                               *)
Recoverable ==
  (\A w \in Worker : At(w, "idle")) /\ (\A h \in Hook : hook[h].pc = "idle")
    => \A p \in Path : Trusted(p) => Right(vec, p) /\ Right(graph, p)

(* The pool loses nothing: when the shadow is about to be copied, it holds *)
(* the chunks of exactly the files whose symbols are in the shadow graph.  *)
ShadowComplete ==
  \A w \in Worker : At(w, "scroll") => vecShadow = graphShadow

(* Failed and interrupted rebuilds are repeated until one succeeds, hooks  *)
(* that get in the way of the swap included.                               *)
RebuildSucceeds ==
  <>[](state = "head" /\ \A p \in Path :
         Trusted(p) => Right(vec, p) /\ Right(graph, p))
=============================================================================
