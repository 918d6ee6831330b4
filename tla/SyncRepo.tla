------------------------------ MODULE SyncRepo ------------------------------
(***************************************************************************)
(* sync/sync.py: sync_repo, with the parts of orchestrator/pipeline.py and *)
(* orchestrator/git_delta.py it runs, for one repository.                  *)
(*                                                                         *)
(* The developer's git commands and edits, the watcher's triggers, crashes *)
(* and the publications of other contributors interleave with the steps of *)
(* one sync, and any step of it may raise an exception, which is logged    *)
(* and dropped.  Only one sync body runs at a time: that is the slot,      *)
(* whose own protocol is module SingleFlight; here the slot is taken while *)
(* run.pc is not "idle".                                                   *)
(*                                                                         *)
(* A file is a path and its content a value; the index (vectors and graph  *)
(* together) maps a path to the content it was built from.  How the two    *)
(* stores are swapped by a full ingest is module FullRebuild.              *)
(***************************************************************************)
EXTENDS Naturals, Sequences, FiniteSets

CONSTANTS
  Path,        \* ingestable files
  Content,     \* contents a file can have
  Absent,      \* "no such file", "not indexed"
  None,        \* no commit, no snapshot
  Commit,      \* commits of the repository
  Tree,        \* Tree[c][p]: content of p in commit c, or Absent
  History,     \* History[c]: first-parent chain of c, starting with c
  Initial,     \* the commit that is checked out at first
  Alien,       \* a snapshot that verify_snapshot rejects (other model)
  Scenarios    \* environments to consider: the Freedoms taken, and the
               \* bounds on developer commands (ops) and faults

Freedoms ==
  {"overlap",   \* the developer works while a sync runs
   "rush",      \* HEAD moves again before a sync has handled the last change
   "discard",   \* the developer throws uncommitted changes away
   "carry",     \* ... or keeps some when HEAD moves
   "remote",    \* other contributors publish snapshots
   "alien",     \* ... some made with another embedding model
   "publish",   \* sync --publish from a clean worktree
   "shareDirty",\* ... or from a dirty one
   "prune",     \* git gc removes commits that history rewrites left behind
   "watch",     \* a watcher turns changes into syncs
   "guard"}     \* MCP queries run the pre-query guard

Worktree == [Path -> Content \cup {Absent}]

ASSUME SyncRepoAssumption ==
  /\ Tree \in [Commit -> Worktree]
  /\ History \in [Commit -> Seq(Commit)]
  /\ \A c \in Commit : History[c] # <<>> /\ History[c][1] = c
  /\ Initial \in Commit
  /\ None \notin Commit
  /\ Absent \notin Content
  /\ None \notin Worktree \cup {Alien}
  /\ Alien \notin Worktree
  /\ Scenarios \subseteq [env : SUBSET Freedoms, ops : Nat, faults : Nat]

VARIABLES
  scene,     \* the scenario; it never changes
  head,      \* the commit HEAD names
  work,      \* the worktree
  objects,   \* commits `git cat-file -e` finds
  index,     \* what the stores hold for each path
  state,     \* ingest_state.last_sha, or None
  snaps,     \* snaps[c]: the published snapshot of c, or None
  event,     \* a trigger (watcher flush, session boot) is due
  run,       \* the sync in progress
  hurt,      \* a fault happened and no sync has completed since
  ops,       \* developer commands so far
  faults     \* faults so far

repo == <<head, work, objects>>
vars == <<scene, repo, index, state, snaps, event, run, hurt, ops, faults>>

NoFiles == [p \in Path |-> Absent]

IdleRun == [pc |-> "idle", kind |-> "none", head |-> None, base |-> None,
            ihead |-> None, gone |-> {}, todo |-> {}, file |-> None,
            read |-> Absent, shadow |-> NoFiles, publish |-> FALSE]

Labels == {"idle", "down", "guard", "head", "decide", "verify", "load",
           "set", "ihead", "diff", "files", "insert", "walk", "swap",
           "record", "publish"}

Kinds == {"none", "dirty", "pull", "pullThen", "incremental", "full"}

Run == [pc : Labels, kind : Kinds, head : Commit \cup {None},
        base : Commit \cup {None}, ihead : Commit \cup {None},
        gone : SUBSET Path, todo : SUBSET Path,
        file : Path \cup {None}, read : Content \cup {Absent},
        shadow : Worktree, publish : BOOLEAN]

TypeOK ==
  /\ scene \in Scenarios
  /\ head \in Commit
  /\ work \in Worktree
  /\ objects \in SUBSET Commit
  /\ index \in Worktree
  /\ state \in Commit \cup {None}
  /\ snaps \in [Commit -> Worktree \cup {None, Alien}]
  /\ event \in BOOLEAN
  /\ run \in Run
  /\ hurt \in BOOLEAN
  /\ ops \in 0 .. scene.ops
  /\ faults \in 0 .. scene.faults

(* A clone that was never indexed; the first session syncs it at boot. *)
Init ==
  /\ scene \in Scenarios
  /\ head = Initial
  /\ work = Tree[Initial]
  /\ objects = Commit
  /\ index = NoFiles
  /\ state = None
  /\ snaps = [c \in Commit |-> None]
  /\ event = TRUE
  /\ run = IdleRun
  /\ hurt = FALSE
  /\ ops = 0
  /\ faults = 0

-----------------------------------------------------------------------------
(* git_delta: all sets are computed from HEAD and the worktree of now. *)

Clean == work = Tree[head]

dirty_files == {p \in Path : work[p] \notin {Tree[head][p], Absent}}

dirty_deleted_files ==
  {p \in Path : work[p] = Absent /\ Tree[head][p] # Absent}

Diff(a, b) == {p \in Path : Tree[a][p] # Tree[b][p]}

DiffChanged(a, b) == {p \in Diff(a, b) : Tree[b][p] # Absent}

DiffDeleted(a, b) == {p \in Diff(a, b) : Tree[b][p] = Absent}

is_reachable(c) == c \in objects

has(c) == snaps[c] # None

AncestorHits(c) == {i \in 1 .. Len(History[c]) : has(History[c][i])}

NearestAncestor(c) ==
  LET i == CHOOSE j \in AncestorHits(c) : \A k \in AncestorHits(c) : j <= k
  IN  History[c][i]

-----------------------------------------------------------------------------
(* The developer.  Commands are bounded by the scenario; each one raises a *)
(* trigger when a watcher runs.  Files may be edited at any time outside a *)
(* sync, but, short of "rush", HEAD moves only when everything before it   *)
(* has been synced, and the next edit waits for that move's sync.          *)

MayWork ==
  /\ ops < scene.ops
  /\ run.pc \in {"idle", "down"} \/ "overlap" \in scene.env

MayEdit ==
  /\ MayWork
  /\ \/ state = head
     \/ state = None /\ "carry" \in scene.env
     \/ "rush" \in scene.env

MayMove ==
  /\ MayWork
  /\ (~event /\ ~hurt) \/ "rush" \in scene.env

Worked ==
  /\ ops' = ops + 1
  /\ event' = (event \/ ("watch" \in scene.env /\ run.pc # "down"))
  /\ UNCHANGED <<scene, index, state, snaps, run, hurt, faults>>

(* Save, create or remove one file. *)
Edit(p, v) ==
  /\ MayEdit
  /\ work[p] # v
  /\ v # Tree[head][p] \/ "discard" \in scene.env
  /\ work' = [work EXCEPT ![p] = v]
  /\ UNCHANGED <<head, objects>>
  /\ Worked

(* Commit the uncommitted changes, or some of them. *)
GitCommit(c) ==
  /\ MayMove
  /\ Len(History[c]) > 1
  /\ History[c][2] = head
  /\ \A p \in Path : Tree[c][p] \in {Tree[head][p], work[p]}
  /\ Tree[c] = work \/ "carry" \in scene.env
  /\ head' = c
  /\ objects' = objects \cup {c}
  /\ UNCHANGED work
  /\ Worked

(* Checkout, pull, rebase or reset to another commit: git refuses when it  *)
(* would overwrite an uncommitted change and keeps the others.             *)
Checkout(c) ==
  /\ MayMove
  /\ c # head
  /\ c \in objects
  /\ Clean \/ "carry" \in scene.env
  /\ \A p \in Path : work[p] # Tree[head][p] => Tree[c][p] = Tree[head][p]
  /\ head' = c
  /\ work' = [p \in Path |-> IF work[p] = Tree[head][p]
                             THEN Tree[c][p] ELSE work[p]]
  /\ UNCHANGED objects
  /\ Worked

(* git gc after a history rewrite: a commit no branch needs disappears. *)
Prune(c) ==
  /\ "prune" \in scene.env
  /\ MayWork
  /\ c \in objects
  /\ \A i \in 1 .. Len(History[head]) : History[head][i] # c
  /\ objects' = objects \ {c}
  /\ ops' = ops + 1
  /\ UNCHANGED <<scene, head, work, index, state, snaps, event, run, hurt,
                faults>>

(* The developer opens a session, whose server boots with a sync. *)
OpenSession ==
  /\ MayWork
  /\ run.pc # "down"
  /\ event' = TRUE
  /\ ops' = ops + 1
  /\ UNCHANGED <<scene, repo, index, state, snaps, run, hurt, faults>>

(* Another contributor publishes a snapshot of c (of a clean checkout). *)
RemotePublish(c) ==
  /\ "remote" \in scene.env
  /\ ops < scene.ops
  /\ ~has(c)
  /\ \E s \in {Tree[c]} \cup (IF "alien" \in scene.env THEN {Alien} ELSE {}) :
       snaps' = [snaps EXCEPT ![c] = s]
  /\ ops' = ops + 1
  /\ UNCHANGED <<scene, repo, index, state, event, run, hurt, faults>>

-----------------------------------------------------------------------------
(* sync_repo. *)

Goto(label) == run' = [run EXCEPT !.pc = label]

(* The run ends: single_flight.release in the finally clause. *)
Finish ==
  /\ run' = IdleRun
  /\ hurt' = FALSE

(* A trigger calls sync_repo, which takes the slot. *)
Start ==
  /\ event
  /\ run.pc = "idle"
  /\ event' = FALSE
  /\ \E b \in BOOLEAN :
       /\ b => \/ "publish" \in scene.env /\ Clean
               \/ "shareDirty" \in scene.env
       /\ run' = [IdleRun EXCEPT !.pc = "head", !.publish = b]
  /\ UNCHANGED <<scene, repo, index, state, snaps, hurt, ops, faults>>

(* A trigger that finds the slot taken returns noop; nobody retries it. *)
SkipBusy ==
  /\ event
  /\ run.pc \notin {"idle", "down"}
  /\ event' = FALSE
  /\ UNCHANGED <<scene, repo, index, state, snaps, run, hurt, ops, faults>>

ReadHead ==
  /\ run.pc = "head"
  /\ run' = [run EXCEPT !.pc = "decide", !.head = head]
  /\ UNCHANGED <<scene, repo, index, state, snaps, event, hurt, ops, faults>>

(* Case 1: HEAD is the recorded commit and the worktree is clean. *)
DecideNoop ==
  /\ state = run.head
  /\ dirty_files = {} /\ dirty_deleted_files = {}
  /\ Finish

(* Mutant: files that vanished are not torn down while HEAD stands still. *)
DecideDirtyOnly_NoDeletes ==
  /\ state = run.head
  /\ dirty_files # {} \/ dirty_deleted_files # {}
  /\ run' = [run EXCEPT !.pc = "files", !.kind = "dirty",
                        !.todo = dirty_files]
  /\ UNCHANGED hurt

(* Case 1: HEAD is the recorded commit; only uncommitted changes. *)
DecideDirtyOnly ==
  /\ state = run.head
  /\ dirty_files # {} \/ dirty_deleted_files # {}
  /\ run' = [run EXCEPT !.pc = "files", !.kind = "dirty",
                        !.todo = dirty_files, !.gone = dirty_deleted_files]
  /\ UNCHANGED hurt

(* Cases 2a and 3b: a snapshot of HEAD is in the store. *)
DecidePull ==
  /\ state # run.head
  /\ has(run.head)
  /\ run' = [run EXCEPT !.pc = "verify", !.kind = "pull", !.base = run.head]
  /\ UNCHANGED hurt

Unbased == state = None \/ ~is_reachable(state)

(* Case 2b, and 3 with a rewritten base: start from an ancestor snapshot. *)
DecidePullThen ==
  /\ state # run.head /\ ~has(run.head) /\ Unbased
  /\ AncestorHits(run.head) # {}
  /\ run' = [run EXCEPT !.pc = "verify", !.kind = "pullThen",
                        !.base = NearestAncestor(run.head)]
  /\ UNCHANGED hurt

(* Case 2c, and 3 with a rewritten base and no snapshot: full ingest. *)
DecideFull ==
  /\ state # run.head /\ ~has(run.head) /\ Unbased
  /\ AncestorHits(run.head) = {}
  /\ run' = [run EXCEPT !.pc = "ihead", !.kind = "full"]
  /\ UNCHANGED hurt

(* Case 3c: incremental from the recorded commit. *)
DecideIncremental ==
  /\ state # run.head /\ ~has(run.head) /\ ~Unbased
  /\ run' = [run EXCEPT !.pc = "ihead", !.kind = "incremental",
                        !.base = state]
  /\ UNCHANGED hurt

Decide ==
  /\ run.pc = "decide"
  /\ \/ DecideNoop \/ DecideDirtyOnly \/ DecidePull
     \/ DecidePullThen \/ DecideFull \/ DecideIncremental
  /\ UNCHANGED <<scene, repo, index, state, snaps, event, ops, faults>>

(* Mutant: the state is recorded before the stores are loaded. *)
VerifySnapshot_StateFirst ==
  /\ run.pc = "verify"
  /\ snaps[run.base] # Alien
  /\ index' = NoFiles
  /\ state' = run.base
  /\ Goto("load")
  /\ UNCHANGED <<scene, repo, snaps, event, hurt, ops, faults>>

(* _load_and_verify: a rejected snapshot raises out of sync_repo.  A good  *)
(* one goes to apply_snapshot, which wipes the stores first.               *)
VerifySnapshot ==
  /\ run.pc = "verify"
  /\ \/ /\ snaps[run.base] = Alien
        /\ run' = IdleRun
        /\ hurt' = TRUE
        /\ UNCHANGED index
     \/ /\ snaps[run.base] # Alien
        /\ index' = NoFiles
        /\ Goto("load")
        /\ UNCHANGED hurt
  /\ UNCHANGED <<scene, repo, state, snaps, event, ops, faults>>

LoadSnapshot ==
  /\ run.pc = "load"
  /\ index' = snaps[run.base]
  /\ Goto("set")
  /\ UNCHANGED <<scene, repo, state, snaps, event, hurt, ops, faults>>

(* pipe.state.set after the stores are loaded; an ancestor snapshot is     *)
(* followed by an incremental ingest from it.                              *)
SetPulledState ==
  /\ run.pc = "set"
  /\ state' = run.base
  /\ \/ run.kind = "pull" /\ Finish
     \/ run.kind = "pullThen" /\ Goto("ihead") /\ UNCHANGED hurt
  /\ UNCHANGED <<scene, repo, index, snaps, event, ops, faults>>

(* ingest_repo reads HEAD again; that is the commit it will record.  A     *)
(* full ingest forgets the recorded state before it walks.                 *)
IngestHead ==
  /\ run.pc = "ihead"
  /\ run' = [run EXCEPT !.ihead = head,
                        !.pc = IF run.kind = "full" THEN "walk" ELSE "diff",
                        !.todo = IF run.kind = "full" THEN Path ELSE {}]
  /\ state' = IF run.kind = "full" THEN None ELSE state
  /\ UNCHANGED <<scene, repo, index, snaps, event, hurt, ops, faults>>

(* changed_since(base, include_dirty): committed delta to the HEAD of now  *)
(* plus the uncommitted changes.                                           *)
IngestDiff ==
  /\ run.pc = "diff"
  /\ run' = [run EXCEPT
       !.pc = "files",
       !.todo = DiffChanged(run.base, head) \cup dirty_files,
       !.gone = DiffDeleted(run.base, head) \cup dirty_deleted_files]
  /\ UNCHANGED <<scene, repo, index, state, snaps, event, hurt, ops, faults>>

(* The delete loop; it precedes the re-ingest loop in _ingest_delta and    *)
(* follows it in _run_dirty_only.                                          *)
DeletePath(p) ==
  /\ run.pc = "files"
  /\ p \in run.gone
  /\ run.kind = "dirty" => run.todo = {}
  /\ index' = [index EXCEPT ![p] = Absent]
  /\ run' = [run EXCEPT !.gone = @ \ {p}]
  /\ UNCHANGED <<scene, repo, state, snaps, event, hurt, ops, faults>>

(* reingest_file, first half: parse the file of now, drop its old entries. *)
(* A path that is no longer a file is skipped.                             *)
ReingestDrop(p) ==
  /\ run.pc = "files"
  /\ p \in run.todo
  /\ run.kind # "dirty" => run.gone = {}
  /\ \/ /\ work[p] = Absent
        /\ run' = [run EXCEPT !.todo = @ \ {p}]
        /\ UNCHANGED index
     \/ /\ work[p] # Absent
        /\ index' = [index EXCEPT ![p] = Absent]
        /\ run' = [run EXCEPT !.pc = "insert", !.file = p, !.read = work[p],
                              !.todo = @ \ {p}]
  /\ UNCHANGED <<scene, repo, state, snaps, event, hurt, ops, faults>>

(* reingest_file, second half: write graph and vectors of what was read. *)
ReingestInsert ==
  /\ run.pc = "insert"
  /\ index' = [index EXCEPT ![run.file] = run.read]
  /\ run' = [run EXCEPT !.pc = "files", !.file = None, !.read = Absent]
  /\ UNCHANGED <<scene, repo, state, snaps, event, hurt, ops, faults>>

(* A dirty-only run leaves the recorded state alone. *)
FilesDone ==
  /\ run.pc = "files"
  /\ run.todo = {} /\ run.gone = {}
  /\ \/ run.kind = "dirty" /\ Finish
     \/ run.kind # "dirty" /\ Goto("record") /\ UNCHANGED hurt
  /\ UNCHANGED <<scene, repo, index, state, snaps, event, ops, faults>>

(* _ingest_full: every file is read into the shadow stores ... *)
WalkFile(p) ==
  /\ run.pc = "walk"
  /\ p \in run.todo
  /\ run' = [run EXCEPT !.shadow[p] = work[p], !.todo = @ \ {p}]
  /\ UNCHANGED <<scene, repo, index, state, snaps, event, hurt, ops, faults>>

(* ... which then replace the live ones. *)
SwapShadow ==
  /\ run.pc = "walk"
  /\ run.todo = {}
  /\ index' = run.shadow
  /\ run' = [run EXCEPT !.pc = "record", !.shadow = NoFiles]
  /\ UNCHANGED <<scene, repo, state, snaps, event, hurt, ops, faults>>

RecordState ==
  /\ run.pc = "record"
  /\ state' = run.ihead
  /\ \/ /\ run.publish /\ run.kind # "pullThen"
        /\ Goto("publish") /\ UNCHANGED hurt
     \/ ~(run.publish /\ run.kind # "pullThen") /\ Finish
  /\ UNCHANGED <<scene, repo, index, snaps, event, ops, faults>>

(* Mutant: the snapshot is filed under the commit the sync started from. *)
Publish_UnderBase ==
  /\ run.pc = "publish"
  /\ run.base # None
  /\ snaps' = [snaps EXCEPT ![run.base] = index]
  /\ Finish
  /\ UNCHANGED <<scene, repo, index, state, event, ops, faults>>

(* _publish: unless the store has one, a snapshot of the live stores goes  *)
(* out under the HEAD that sync_repo read first.                           *)
Publish ==
  /\ run.pc = "publish"
  /\ snaps' = IF has(run.head) THEN snaps
              ELSE [snaps EXCEPT ![run.head] = index]
  /\ Finish
  /\ UNCHANGED <<scene, repo, index, state, event, ops, faults>>

-----------------------------------------------------------------------------
(* _maybe_trigger_background_rebuild: the index looks stale, the guard     *)
(* takes the slot and starts a thread ...                                  *)
GuardAcquire ==
  /\ "guard" \in scene.env
  /\ run.pc = "idle"
  /\ state # head
  /\ Goto("guard")
  /\ UNCHANGED <<scene, repo, index, state, snaps, event, hurt, ops, faults>>

(* ... whose sync_repo finds the slot taken (by the guard), returns noop,  *)
(* and the thread releases the slot.                                       *)
GuardSync ==
  /\ run.pc = "guard"
  /\ run' = IdleRun
  /\ UNCHANGED <<scene, repo, index, state, snaps, event, hurt, ops, faults>>

(* The embedder, Qdrant, FalkorDB or git fails: the exception leaves       *)
(* sync_repo, which gives the slot back; whoever triggered the sync logs   *)
(* it, and nobody tries again.  The stores keep what the sync has done.    *)
Fail ==
  /\ faults < scene.faults
  /\ run.pc \notin {"idle", "down", "guard"}
  /\ run' = IdleRun
  /\ hurt' = TRUE
  /\ faults' = faults + 1
  /\ UNCHANGED <<scene, repo, index, state, snaps, event, ops>>

(* The process dies, between two steps of a sync or between two syncs; a   *)
(* trigger that was due dies with it.                                      *)
Crash ==
  /\ faults < scene.faults
  /\ run.pc # "down"
  /\ run' = [IdleRun EXCEPT !.pc = "down"]
  /\ event' = FALSE
  /\ hurt' = TRUE
  /\ faults' = faults + 1
  /\ UNCHANGED <<scene, repo, index, state, snaps, ops>>

(* The next session starts with a sync of its repository (mcp-boot); a     *)
(* watch daemon that is started again starts with none.                    *)
Restart ==
  /\ run.pc = "down"
  /\ run' = IdleRun
  /\ event' \in BOOLEAN
  /\ UNCHANGED <<scene, repo, index, state, snaps, hurt, ops, faults>>

-----------------------------------------------------------------------------
SyncStep ==
  \/ ReadHead \/ Decide \/ VerifySnapshot \/ LoadSnapshot \/ SetPulledState
  \/ IngestHead \/ IngestDiff
  \/ \E p \in Path : DeletePath(p) \/ ReingestDrop(p) \/ WalkFile(p)
  \/ ReingestInsert \/ FilesDone \/ SwapShadow \/ RecordState \/ Publish
  \/ GuardSync

Developer ==
  \/ OpenSession
  \/ \E p \in Path, v \in Content \cup {Absent} : Edit(p, v)
  \/ \E c \in Commit : GitCommit(c) \/ Checkout(c) \/ Prune(c)
                         \/ RemotePublish(c)

Next == Start \/ SkipBusy \/ SyncStep \/ GuardAcquire \/ Fail \/ Crash
          \/ Restart \/ Developer

Spec == Init /\ [][Next]_vars

(* Timers fire, a started sync goes on, a dead session is opened again,    *)
(* queries keep coming.  Developers and faults owe nothing.                *)
FairSpec ==
  /\ Spec
  /\ WF_vars(Start \/ SkipBusy)
  /\ WF_vars(SyncStep)
  /\ WF_vars(Restart)
  /\ WF_vars(GuardAcquire)

-----------------------------------------------------------------------------
(* The environments the code can cope with: a watcher runs, the developer  *)
(* waits for the sync of one change before making the next, never throws   *)
(* an edit away, and moves HEAD with local changes only when there are no  *)
(* snapshots; all snapshots are of our format and made from a clean        *)
(* worktree.                                                               *)
Calm ==
  /\ "watch" \in scene.env
  /\ scene.env \cap {"overlap", "rush", "discard", "alien", "shareDirty",
                     "guard"} = {}
  /\ "carry" \in scene.env => scene.env \cap {"remote", "publish"} = {}

(* sync.py: "The goal: O(seconds) on every event, never block, always      *)
(* converge."  Once the developer pauses, the index comes to describe the  *)
(* worktree and goes on doing so.                                          *)
AlwaysConverges == <>[](index = work)

(* "Never block": every sync that starts ends and frees the slot, however  *)
(* the files, HEAD and the store change under it.                          *)
SyncTerminates == run.pc \notin {"idle", "down"} ~> run.pc \in {"idle", "down"}

(* The last sync failed, or its process died, and no trigger came since.   *)
Forgotten == hurt /\ ~event /\ run.pc = "idle"

(* In calm environments the index converges, whatever the sequence of      *)
(* edits, commits, checkouts, prunings, publications, failed syncs and     *)
(* crashes, unless the last failure is never followed by another trigger:  *)
(* one further event repairs all of it.  Elsewhere syncs at least end.     *)
Converges ==
  /\ Calm => AlwaysConverges \/ <>[]Forgotten
  /\ SyncTerminates

(* What the next sync would re-read, by the decision tree. *)
WouldTouch ==
  CASE state = head -> dirty_files \cup dirty_deleted_files
    [] state # head /\ (has(head) \/ Unbased) -> Path
    [] OTHER -> Diff(state, head) \cup dirty_files \cup dirty_deleted_files

(* Whatever was interrupted, nothing is lost for good: between syncs every *)
(* path whose entry differs from its file is one the next sync re-reads.   *)
Repairable ==
  Calm /\ run.pc \in {"idle", "down"} =>
    \A p \in Path : index[p] # work[p] => p \in WouldTouch

(* A snapshot is filed under "the git SHA of the commit" it represents:    *)
(* what a clone publishes under a commit is the index of that commit's     *)
(* files, also after pulls, ancestor pulls and interrupted syncs.          *)
SnapshotsFaithful ==
  Calm => \A c \in Commit : snaps[c] \in {None, Alien, Tree[c]}

(* The pre-query guard: "fire a background rebuild if the index looks      *)
(* stale"; a stale index that is queried gets rebuilt.                     *)
GuardRebuilds == state # head ~> state = head
=============================================================================
