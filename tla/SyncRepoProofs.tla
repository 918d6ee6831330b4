--------------------------- MODULE SyncRepoProofs ---------------------------
(***************************************************************************)
(* Proofs about module SyncRepo: type correctness in every environment,    *)
(* and, for the calm environments, that interrupted syncs are repairable   *)
(* and published snapshots faithful, for every set of files and contents,  *)
(* every commit history and every bound on commands and crashes.           *)
(***************************************************************************)
EXTENDS SyncRepo, WellFoundedInduction, TLAPS

(* Paths whose entry differs from the file. *)
Stale == {p \in Path : index[p] # work[p]}

(* What an incremental ingest from commit s re-reads. *)
Touched(s) ==
  {p \in Path : Tree[s][p] # Tree[head][p] \/ work[p] # Tree[head][p]}

(* A sync in progress has consumed its trigger.  With nothing due and no   *)
(* fault since the last sync, the index describes the worktree of HEAD.    *)
Quiet ==
  /\ run.pc # "guard"
  /\ run.pc \notin {"idle", "down"} => ~event
  /\ run.pc = "down" => hurt
  /\ run.pc = "idle" /\ ~event /\ ~hurt => state = head /\ index = work

(* Snapshots are faithful, and local changes meet none of them. *)
SnapsOK ==
  /\ \A c \in Commit : snaps[c] \in {None, Tree[c]}
  /\ "carry" \in scene.env => \A c \in Commit : snaps[c] = None
  /\ state # head => Clean \/ "carry" \in scene.env
  /\ run.publish => /\ run.pc \notin {"idle", "down"}
                    /\ Clean
                    /\ "publish" \in scene.env

(* The next sync re-reads every stale path. *)
Mendable ==
  state = head \/ ~(has(head) \/ Unbased) => Stale \subseteq Touched(state)

(* What each stage of a sync relies on. *)
PullOK ==
  run.pc \in {"verify", "load", "set"} =>
    /\ run.base \in Commit
    /\ has(run.base)
    /\ state # head
    /\ has(head) \/ Unbased
    /\ \/ run.kind = "pull" /\ run.base = head
       \/ run.kind = "pullThen" /\ run.base # head
    /\ run.pc = "set" => index = Tree[run.base]

DeltaOK ==
  /\ run.pc = "ihead" /\ run.kind = "full" => state # head /\ Unbased
  /\ \/ run.pc = "ihead" /\ run.kind # "full"
     \/ run.pc = "diff"
     => /\ run.kind \in {"pullThen", "incremental"}
        /\ state = run.base
        /\ state \in Commit \ {head}
        /\ Stale \subseteq Touched(state)
  /\ run.pc \in {"diff", "walk", "record"} => run.ihead = head

Pending ==
  run.gone \cup run.todo \cup IF run.pc = "insert" THEN {run.file} ELSE {}

FilesOK ==
  run.pc \in {"files", "insert"} =>
    /\ \/ run.kind = "dirty" /\ state = head
       \/ /\ run.kind \in {"pullThen", "incremental"}
          /\ state \in Commit \ {head}
          /\ run.ihead = head
    /\ Stale \subseteq Pending
    /\ Pending \subseteq Touched(state)
    /\ \A p \in run.gone : \/ work[p] = Absent
                           \/ p \in run.todo /\ run.kind # "dirty"
    /\ \A p \in run.todo :
         work[p] = Absent => p \in run.gone \/ index[p] = Absent
    /\ run.pc = "insert" => run.file \in Path /\ run.read = work[run.file]

WalkOK ==
  /\ run.pc = "walk" =>
       /\ state = None
       /\ \A p \in Path : p \notin run.todo => run.shadow[p] = work[p]
  /\ run.pc \in {"record", "publish"} => index = work
  /\ run.pc = "publish" => state = head /\ run.publish

HeadOK == run.pc \notin {"idle", "down", "head"} => run.head = head

CalmParts ==
  /\ Quiet /\ SnapsOK /\ Mendable /\ HeadOK
  /\ PullOK /\ DeltaOK /\ FilesOK /\ WalkOK

CalmInv == Calm => CalmParts

-----------------------------------------------------------------------------
(* The nearest ancestor with a snapshot is a commit that has one. *)
LEMMA NearestHasSnapshot ==
  ASSUME NEW c \in Commit, AncestorHits(c) # {}
  PROVE  NearestAncestor(c) \in Commit /\ has(NearestAncestor(c))
<1>. USE SyncRepoAssumption
<1>1. History[c] \in Seq(Commit)
  OBVIOUS
<1>2. AncestorHits(c) \subseteq 1 .. Len(History[c])
  BY DEF AncestorHits
<1>3. AncestorHits(c) \subseteq Nat
  BY <1>1, <1>2
<1>4. PICK n \in AncestorHits(c) : \A m \in AncestorHits(c) : n <= m
  <2>. DEFINE less == OpToRel(<, Nat)
  <2>1. less = {ss \in Nat \X Nat : ss[1] < ss[2]}
    BY DEF OpToRel
  <2>2. IsWellFoundedOn(less, Nat)
    BY NatLessThanWellFounded
  <2>. HIDE DEF less
  <2>3. PICK n \in AncestorHits(c) :
          \A m \in AncestorHits(c) : ~(<<m, n>> \in less)
    BY <1>3, <2>2, WFMin, Zenon
  <2>4. ASSUME NEW m \in AncestorHits(c)
        PROVE  n <= m
    <3>1. m \in Nat /\ n \in Nat
      BY <1>3
    <3>2. ~(m < n)
      BY <2>1, <2>3, <3>1
    <3>. QED
      BY <3>1, <3>2
  <2>. QED
    BY <2>4
<1>. DEFINE i == CHOOSE j \in AncestorHits(c) :
                   \A k \in AncestorHits(c) : j <= k
<1>5. i \in AncestorHits(c)
  BY <1>4
<1>6. NearestAncestor(c) = History[c][i]
  BY DEF NearestAncestor
<1>. HIDE DEF i
<1>7. i \in 1 .. Len(History[c]) /\ has(History[c][i])
  BY <1>5 DEF AncestorHits
<1>. QED
  BY <1>1, <1>6, <1>7

-----------------------------------------------------------------------------
(* A sync names commits once it has read HEAD, and a snapshot it has       *)
(* verified is an index.                                                   *)
NamesOK ==
  /\ run.pc \notin {"idle", "down", "guard", "head"} => run.head \in Commit
  /\ run.pc \in {"verify", "load", "set"} =>
       run.base \in Commit /\ has(run.base)
  /\ run.pc = "load" => snaps[run.base] # Alien

LEMMA IdleRunType == IdleRun \in Run
BY DEF IdleRun, Run, NoFiles, Worktree, Labels, Kinds

LEMMA InitTyped == Init => TypeOK /\ NamesOK
<1>. SUFFICES ASSUME Init PROVE TypeOK /\ NamesOK
  OBVIOUS
<1>1. scene.ops \in Nat /\ scene.faults \in Nat
  BY SyncRepoAssumption DEF Init
<1>2. TypeOK
  <2>1. work \in Worktree /\ index \in Worktree
    BY SyncRepoAssumption DEF Init, NoFiles, Worktree
  <2>2. snaps \in [Commit -> Worktree \cup {None, Alien}]
    BY DEF Init
  <2>3. run \in Run
    BY IdleRunType DEF Init
  <2>4. ops \in 0 .. scene.ops /\ faults \in 0 .. scene.faults
    BY <1>1 DEF Init
  <2>5. /\ scene \in Scenarios /\ head \in Commit /\ objects \in SUBSET Commit
        /\ state \in Commit \cup {None}
        /\ event \in BOOLEAN /\ hurt \in BOOLEAN
    BY SyncRepoAssumption DEF Init
  <2>. QED
    BY <2>1, <2>2, <2>3, <2>4, <2>5, Zenon DEF TypeOK
<1>3. NamesOK
  BY DEF Init, NamesOK, IdleRun
<1>. QED
  BY <1>2, <1>3

(* Every field of a run keeps its type. *)
LEMMA RunTyped ==
  ASSUME TypeOK, NamesOK, Next
  PROVE  run' \in Run
<1>. USE SyncRepoAssumption
<1>1. run \in Run /\ head \in Commit /\ state \in Commit \cup {None}
  BY DEF TypeOK
<1>2. IdleRun \in Run /\ [IdleRun EXCEPT !.pc = "down"] \in Run
  BY IdleRunType DEF Run, Labels
<1>3. ASSUME NEW l \in Labels PROVE [run EXCEPT !.pc = l] \in Run
  BY <1>1, <1>3 DEF Run
<1>4. CASE Start
  <2>1. PICK b \in BOOLEAN :
          run' = [IdleRun EXCEPT !.pc = "head", !.publish = b]
    BY <1>4 DEF Start
  <2>. QED
    BY <2>1, <1>2 DEF Run, Labels
<1>5. CASE SkipBusy \/ Developer \/ Publish
  BY <1>1, <1>2, <1>5
  DEF SkipBusy, Developer, Publish, OpenSession, Edit, GitCommit, Checkout,
      Prune, RemotePublish, Worked, Finish
<1>6. CASE Fail \/ Crash \/ Restart \/ GuardSync
  BY <1>2, <1>6 DEF Fail, Crash, Restart, GuardSync
<1>7. CASE \/ GuardAcquire \/ VerifySnapshot \/ LoadSnapshot
           \/ SetPulledState \/ FilesDone \/ RecordState
  BY <1>2, <1>3, <1>7
  DEF GuardAcquire, VerifySnapshot, LoadSnapshot, SetPulledState, FilesDone,
      RecordState, Goto, Finish, Labels
<1>8. CASE ReadHead
  BY <1>1, <1>8 DEF ReadHead, Run, Labels
<1>9. CASE Decide
  <2>1. /\ run.pc \notin {"idle", "down", "guard", "head"}
        /\ run.head \in Commit
    BY <1>9 DEF Decide, NamesOK
  <2>2. dirty_files \subseteq Path /\ dirty_deleted_files \subseteq Path
    BY DEF dirty_files, dirty_deleted_files
  <2>3. AncestorHits(run.head) # {} => NearestAncestor(run.head) \in Commit
    BY <2>1, NearestHasSnapshot
  <2>. QED
    <3>1. CASE DecideNoop
      BY <1>2, <3>1 DEF DecideNoop, Finish
    <3>2. CASE DecideDirtyOnly
      BY <1>1, <2>2, <3>2 DEF DecideDirtyOnly, Run, Labels, Kinds
    <3>3. CASE DecidePull
      BY <1>1, <2>1, <3>3 DEF DecidePull, Run, Labels, Kinds
    <3>4. CASE DecidePullThen
      BY <1>1, <2>3, <3>4 DEF DecidePullThen, Run, Labels, Kinds
    <3>5. CASE DecideFull
      BY <1>1, <3>5 DEF DecideFull, Run, Labels, Kinds
    <3>6. CASE DecideIncremental
      BY <1>1, <3>6 DEF DecideIncremental, Run, Labels, Kinds
    <3>. QED
      BY <1>9, <3>1, <3>2, <3>3, <3>4, <3>5, <3>6 DEF Decide
<1>10. CASE IngestHead
  BY <1>1, <1>10 DEF IngestHead, Run, Labels
<1>11. CASE IngestDiff
  <2>1. /\ DiffChanged(run.base, head) \cup dirty_files \in SUBSET Path
        /\ DiffDeleted(run.base, head) \cup dirty_deleted_files
             \in SUBSET Path
    BY DEF DiffChanged, DiffDeleted, Diff, dirty_files, dirty_deleted_files
  <2>. QED
    BY <1>1, <1>11, <2>1 DEF IngestDiff, Run, Labels
<1>12. CASE \E p \in Path : DeletePath(p)
  <2>1. PICK p \in Path : run' = [run EXCEPT !.gone = run.gone \ {p}]
    BY <1>12 DEF DeletePath
  <2>2. run.gone \ {p} \in SUBSET Path
    BY <1>1 DEF Run
  <2>. QED
    BY <1>1, <2>1, <2>2 DEF Run
<1>13. CASE \E p \in Path : ReingestDrop(p)
  <2>1. PICK p \in Path :
          \/ run' = [run EXCEPT !.todo = run.todo \ {p}]
          \/ /\ work[p] # Absent
             /\ run' = [run EXCEPT !.pc = "insert", !.file = p,
                                   !.read = work[p], !.todo = run.todo \ {p}]
    BY <1>13 DEF ReingestDrop
  <2>2. run.todo \ {p} \in SUBSET Path
    BY <1>1 DEF Run
  <2>3. work[p] \in Content \cup {Absent}
    BY DEF TypeOK, Worktree
  <2>4. CASE run' = [run EXCEPT !.todo = run.todo \ {p}]
    BY <1>1, <2>2, <2>4 DEF Run
  <2>5. CASE run' = [run EXCEPT !.pc = "insert", !.file = p,
                                !.read = work[p], !.todo = run.todo \ {p}]
    BY <1>1, <2>2, <2>3, <2>5 DEF Run, Labels
  <2>. QED
    BY <2>1, <2>4, <2>5
<1>14. CASE \E p \in Path : WalkFile(p)
  <2>1. PICK p \in Path :
          run' = [run EXCEPT !.shadow = [run.shadow EXCEPT ![p] = work[p]],
                             !.todo = run.todo \ {p}]
    BY <1>14 DEF WalkFile
  <2>2. run.todo \ {p} \in SUBSET Path
    BY <1>1 DEF Run
  <2>3. [run.shadow EXCEPT ![p] = work[p]] \in Worktree
    BY <1>1 DEF TypeOK, Worktree, Run
  <2>. QED
    BY <1>1, <2>1, <2>2, <2>3 DEF Run
<1>15. CASE ReingestInsert
  BY <1>1, <1>15 DEF ReingestInsert, Run, Labels
<1>16. CASE SwapShadow
  BY <1>1, <1>16 DEF SwapShadow, Run, Labels, NoFiles, Worktree
<1>. QED
  BY <1>4, <1>5, <1>6, <1>7, <1>8, <1>9, <1>10, <1>11, <1>12, <1>13, <1>14,
     <1>15, <1>16 DEF Next, SyncStep

(* What ReingestDrop does to the run. *)
LEMMA DropFields ==
  ASSUME run \in Run, NEW p \in Path, ReingestDrop(p)
  PROVE  /\ run.pc = "files" /\ p \in run.todo
         /\ run.kind # "dirty" => run.gone = {}
         /\ run'.kind = run.kind /\ run'.head = run.head
         /\ run'.ihead = run.ihead /\ run'.publish = run.publish
         /\ run'.gone = run.gone /\ run'.todo = run.todo \ {p}
         /\ \/ /\ work[p] = Absent /\ run'.pc = "files"
               /\ index' = index
            \/ /\ work[p] # Absent /\ run'.pc = "insert"
               /\ run'.file = p /\ run'.read = work[p]
               /\ index' = [index EXCEPT ![p] = Absent]
<1>1. CASE work[p] = Absent
  BY <1>1 DEF ReingestDrop, Run
<1>2. CASE work[p] # Absent
  <2>. DEFINE t == run.todo \ {p}
  <2>1. /\ run' = [run EXCEPT !.pc = "insert", !.file = p, !.read = work[p],
                              !.todo = t]
        /\ run.pc = "files" /\ p \in run.todo
        /\ run.kind # "dirty" => run.gone = {}
        /\ index' = [index EXCEPT ![p] = Absent]
    BY <1>2 DEF ReingestDrop
  <2>. HIDE DEF t
  <2>2. /\ run'.kind = run.kind /\ run'.head = run.head
        /\ run'.ihead = run.ihead /\ run'.publish = run.publish
        /\ run'.gone = run.gone /\ run'.todo = t
        /\ run'.pc = "insert" /\ run'.file = p /\ run'.read = work[p]
    BY <2>1 DEF Run
  <2>. QED
    BY <1>2, <2>1, <2>2 DEF t
<1>. QED
  BY <1>1, <1>2

LEMMA NextTyped ==
  ASSUME TypeOK, NamesOK, [Next]_vars
  PROVE  TypeOK' /\ NamesOK'
<1>. USE SyncRepoAssumption
<1>1. CASE UNCHANGED vars
  BY <1>1 DEF vars, repo, TypeOK, NamesOK, has
<1>2. CASE Next
  <2>1. scene' = scene
    BY <1>2
    DEF Next, SyncStep, Developer, Start, SkipBusy, GuardAcquire, Fail, Crash,
        Restart, ReadHead, Decide, VerifySnapshot, LoadSnapshot,
        SetPulledState, IngestHead, IngestDiff, DeletePath, ReingestDrop,
        WalkFile, ReingestInsert, FilesDone, SwapShadow, RecordState, Publish,
        GuardSync, OpenSession, Edit, GitCommit, Checkout, Prune,
        RemotePublish, Worked
  <2>2. ops' = ops \/ (ops < scene.ops /\ ops' = ops + 1)
    <3>1. CASE Developer
      BY <3>1
      DEF Developer, OpenSession, Edit, GitCommit, Checkout, Prune,
          RemotePublish, Worked, MayEdit, MayMove, MayWork
    <3>2. CASE ~Developer
      <4>1. ops' = ops
        BY <1>2, <3>2
        DEF Next, SyncStep, Start, SkipBusy, GuardAcquire, Fail, Crash,
            Restart, ReadHead, Decide, VerifySnapshot, LoadSnapshot,
            SetPulledState, IngestHead, IngestDiff, DeletePath, ReingestDrop,
            WalkFile, ReingestInsert, FilesDone, SwapShadow, RecordState,
            Publish, GuardSync
      <4>. QED
        BY <4>1
    <3>. QED
      BY <3>1, <3>2
  <2>3. faults' = faults \/ (faults < scene.faults /\ faults' = faults + 1)
    <3>1. CASE Fail \/ Crash
      BY <3>1 DEF Fail, Crash
    <3>2. CASE ~Fail /\ ~Crash
      <4>1. faults' = faults
        BY <1>2, <3>2
        DEF Next, SyncStep, Start, SkipBusy, GuardAcquire, Restart, ReadHead,
            Decide, VerifySnapshot, LoadSnapshot, SetPulledState, IngestHead,
            IngestDiff, DeletePath, ReingestDrop, WalkFile, ReingestInsert,
            FilesDone, SwapShadow, RecordState, Publish, GuardSync, Developer,
            OpenSession, Edit, GitCommit, Checkout, Prune, RemotePublish,
            Worked
      <4>. QED
        BY <4>1
    <3>. QED
      BY <3>1, <3>2
  <2>10. ops' \in 0 .. scene.ops /\ faults' \in 0 .. scene.faults
    <3>1. scene.ops \in Nat /\ scene.faults \in Nat
      BY DEF TypeOK
    <3>2. ops \in 0 .. scene.ops /\ faults \in 0 .. scene.faults
      BY DEF TypeOK
    <3>3. ASSUME NEW n \in Nat, NEW i \in 0 .. n, i < n
          PROVE  i + 1 \in 0 .. n
      BY <3>3
    <3>4. ops' \in 0 .. scene.ops
      BY <2>2, <3>1, <3>2, <3>3
    <3>5. faults' \in 0 .. scene.faults
      BY <2>3, <3>1, <3>2, <3>3
    <3>. QED
      BY <3>4, <3>5
  <2>4. head' \in Commit /\ objects' \in SUBSET Commit
    BY <1>2
    DEF Next, SyncStep, Developer, Start, SkipBusy, GuardAcquire, Fail, Crash,
        Restart, ReadHead, Decide, VerifySnapshot, LoadSnapshot,
        SetPulledState, IngestHead, IngestDiff, DeletePath, ReingestDrop,
        WalkFile, ReingestInsert, FilesDone, SwapShadow, RecordState, Publish,
        GuardSync, OpenSession, Edit, GitCommit, Checkout, Prune,
        RemotePublish, Worked, TypeOK, repo
  <2>5. event' \in BOOLEAN /\ hurt' \in BOOLEAN
    BY <1>2
    DEF Next, SyncStep, Developer, Start, SkipBusy, GuardAcquire, Fail, Crash,
        Restart, ReadHead, Decide, VerifySnapshot, LoadSnapshot,
        SetPulledState, IngestHead, IngestDiff, DeletePath, ReingestDrop,
        WalkFile, ReingestInsert, FilesDone, SwapShadow, RecordState, Publish,
        GuardSync, OpenSession, Edit, GitCommit, Checkout, Prune,
        RemotePublish, Worked, DecideNoop, DecideDirtyOnly, DecidePull,
        DecidePullThen, DecideFull, DecideIncremental, Finish, TypeOK
  <2>6. work' \in Worktree
    <3>1. CASE Developer
      <4>1. /\ work \in Worktree /\ head' \in Commit
            /\ Tree \in [Commit -> Worktree]
        BY <2>4 DEF TypeOK
      <4>2. \/ work' = work
            \/ \E p \in Path, v \in Content \cup {Absent} :
                 work' = [work EXCEPT ![p] = v]
            \/ work' = [p \in Path |-> IF work[p] = Tree[head][p]
                                      THEN Tree[head'][p] ELSE work[p]]
        BY <3>1
        DEF Developer, OpenSession, Edit, GitCommit, Checkout, Prune,
            RemotePublish, repo
      <4>3. CASE work' = work
        BY <4>1, <4>3
      <4>4. ASSUME NEW p \in Path, NEW v \in Content \cup {Absent},
                   work' = [work EXCEPT ![p] = v]
            PROVE  work' \in Worktree
        BY <4>1, <4>4 DEF Worktree
      <4>5. CASE work' = [p \in Path |-> IF work[p] = Tree[head][p]
                                        THEN Tree[head'][p] ELSE work[p]]
        <5>1. Tree[head'] \in Worktree
          BY <4>1
        <5>. QED
          BY <4>1, <4>5, <5>1 DEF Worktree
      <4>. QED
        BY <4>2, <4>3, <4>4, <4>5
    <3>2. CASE ~Developer
      <4>1. work' = work
        BY <1>2, <3>2
        DEF Next, SyncStep, Start, SkipBusy, GuardAcquire, Fail, Crash,
            Restart, ReadHead, Decide, VerifySnapshot, LoadSnapshot,
            SetPulledState, IngestHead, IngestDiff, DeletePath, ReingestDrop,
            WalkFile, ReingestInsert, FilesDone, SwapShadow, RecordState,
            Publish, GuardSync, repo
      <4>. QED
        BY <4>1 DEF TypeOK
    <3>. QED
      BY <3>1, <3>2
  <2>7. snaps' \in [Commit -> Worktree \cup {None, Alien}]
    <3>1. \/ snaps' = snaps
          \/ \E c \in Commit : \E s \in Worktree \cup {Alien} :
               snaps' = [snaps EXCEPT ![c] = s]
      <4>1. CASE Developer
        BY <4>1
        DEF Developer, OpenSession, Edit, GitCommit, Checkout, Prune,
            RemotePublish, Worked
      <4>2. CASE Publish
        BY <4>2 DEF Publish, NamesOK, TypeOK
      <4>3. CASE ~Developer /\ ~Publish
        BY <1>2, <4>3
        DEF Next, SyncStep, Start, SkipBusy, GuardAcquire, Fail, Crash,
            Restart, ReadHead, Decide, VerifySnapshot, LoadSnapshot,
            SetPulledState, IngestHead, IngestDiff, DeletePath, ReingestDrop,
            WalkFile, ReingestInsert, FilesDone, SwapShadow, RecordState,
            GuardSync
      <4>. QED
        BY <4>1, <4>2, <4>3
    <3>. QED
      BY <3>1 DEF TypeOK
  <2>8. index' \in Worktree
    <3>1. CASE LoadSnapshot
      BY <3>1 DEF LoadSnapshot, NamesOK, TypeOK, has
    <3>2. CASE VerifySnapshot
      BY <3>2 DEF VerifySnapshot, NoFiles, Worktree, TypeOK
    <3>3. CASE ReingestInsert
      BY <3>3 DEF ReingestInsert, TypeOK, Run, Worktree
    <3>4. CASE \E p \in Path : DeletePath(p) \/ ReingestDrop(p)
      BY <3>4 DEF DeletePath, ReingestDrop, TypeOK, Worktree
    <3>5. CASE SwapShadow
      BY <3>5 DEF SwapShadow, TypeOK, Run
    <3>6. CASE Developer
      BY <3>6
      DEF Developer, OpenSession, Edit, GitCommit, Checkout, Prune,
          RemotePublish, Worked, TypeOK
    <3>7. CASE \E p \in Path : WalkFile(p)
      BY <3>7 DEF WalkFile, TypeOK
    <3>8. CASE \/ Start \/ SkipBusy \/ GuardAcquire \/ Fail \/ Crash \/ Restart
               \/ ReadHead \/ Decide \/ SetPulledState \/ IngestHead
               \/ IngestDiff \/ FilesDone \/ RecordState \/ Publish
               \/ GuardSync
      BY <3>8
      DEF Start, SkipBusy, GuardAcquire, Fail, Crash, Restart, ReadHead,
          Decide, SetPulledState, IngestHead, IngestDiff, FilesDone,
          RecordState, Publish, GuardSync, TypeOK
    <3>. QED
      BY <1>2, <3>1, <3>2, <3>3, <3>4, <3>5, <3>6, <3>7, <3>8
      DEF Next, SyncStep
  <2>9. state' \in Commit \cup {None}
    <3>1. CASE SetPulledState
      BY <3>1 DEF SetPulledState, NamesOK
    <3>2. CASE IngestHead \/ RecordState
      BY <3>2 DEF IngestHead, RecordState, TypeOK, Run
    <3>3. CASE ~SetPulledState /\ ~IngestHead /\ ~RecordState
      BY <1>2, <3>3
      DEF Next, SyncStep, Start, SkipBusy, GuardAcquire, Fail, Crash, Restart,
          ReadHead, Decide, VerifySnapshot, LoadSnapshot, IngestDiff,
          DeletePath, ReingestDrop, WalkFile, ReingestInsert, FilesDone,
          SwapShadow, Publish, GuardSync, Developer, OpenSession, Edit,
          GitCommit, Checkout, Prune, RemotePublish, Worked, TypeOK
    <3>. QED
      BY <3>1, <3>2, <3>3
  <2>11. run' \in Run
    BY <1>2, RunTyped
  <2>12. scene' \in Scenarios
    BY <2>1 DEF TypeOK
  <2>13. TypeOK'
    BY <2>1, <2>10, <2>4, <2>5, <2>6, <2>7, <2>8, <2>9, <2>11, <2>12, Zenon
    DEF TypeOK
  <2>14. NamesOK'
    <3>0. /\ run \in Run /\ run' \in Run /\ head \in Commit
          /\ snaps \in [Commit -> Worktree \cup {None, Alien}]
      BY <2>11 DEF TypeOK
    <3>1. CASE Developer
      <4>1. run' = run
        BY <3>1
        DEF Developer, OpenSession, Edit, GitCommit, Checkout, Prune,
            RemotePublish, Worked
      <4>2. \/ snaps' = snaps
            \/ \E c \in Commit : \E s \in Worktree \cup {Alien} :
                 ~has(c) /\ snaps' = [snaps EXCEPT ![c] = s]
        BY <3>1
        DEF Developer, OpenSession, Edit, GitCommit, Checkout, Prune,
            RemotePublish, Worked
      <4>3. ASSUME NEW c \in Commit, has(c) PROVE snaps'[c] = snaps[c]
        BY <3>0, <4>2, <4>3 DEF has
      <4>. QED
        BY <4>1, <4>3 DEF NamesOK, has
    <3>2. CASE \/ Fail \/ Crash \/ Restart \/ GuardSync
      BY <3>2 DEF Fail, Crash, Restart, GuardSync, IdleRun, NamesOK
    <3>3. CASE Start
      BY <3>3 DEF Start, IdleRun, NamesOK
    <3>4. CASE SkipBusy
      BY <3>4 DEF SkipBusy, NamesOK, has
    <3>5. CASE GuardAcquire
      BY <3>0, <3>5 DEF GuardAcquire, Goto, NamesOK, Run
    <3>6. CASE ReadHead
      BY <3>0, <3>6 DEF ReadHead, NamesOK, Run
    <3>7. CASE Decide
      <4>1. run.head \in Commit /\ snaps' = snaps
        BY <3>7 DEF Decide, NamesOK
      <4>2. CASE DecidePull \/ DecidePullThen
        <5>1. /\ run'.head = run.head
              /\ run'.pc = "verify"
              /\ \/ run'.base = run.head /\ has(run.head)
                 \/ /\ AncestorHits(run.head) # {}
                    /\ run'.base = NearestAncestor(run.head)
          <6>1. CASE DecidePull
            BY <3>0, <6>1 DEF DecidePull, Run
          <6>2. CASE DecidePullThen
            BY <3>0, <6>2 DEF DecidePullThen, Run
          <6>. QED
            BY <4>2, <6>1, <6>2
        <5>2. run'.base \in Commit /\ has(run'.base)
          BY <4>1, <5>1, NearestHasSnapshot
        <5>. QED
          BY <4>1, <5>1, <5>2 DEF NamesOK, has
      <4>3. CASE DecideNoop
        BY <4>3 DEF DecideNoop, Finish, IdleRun, NamesOK
      <4>4. CASE DecideDirtyOnly
        <5>1. run'.pc = "files" /\ run'.head = run.head
          BY <3>0, <4>4 DEF DecideDirtyOnly, Run
        <5>. QED
          BY <4>1, <5>1 DEF NamesOK
      <4>5. CASE DecideFull \/ DecideIncremental
        <5>1. run'.pc = "ihead" /\ run'.head = run.head
          <6>1. CASE DecideFull
            BY <3>0, <6>1 DEF DecideFull, Run
          <6>2. CASE DecideIncremental
            BY <3>0, <6>2 DEF DecideIncremental, Run
          <6>. QED
            BY <4>5, <6>1, <6>2
        <5>. QED
          BY <4>1, <5>1 DEF NamesOK
      <4>. QED
        BY <3>7, <4>2, <4>3, <4>4, <4>5 DEF Decide
    <3>8. CASE \/ VerifySnapshot \/ LoadSnapshot
               \/ SetPulledState \/ FilesDone \/ RecordState \/ Publish
      <4>1. \/ run' = IdleRun
            \/ /\ run'.head = run.head /\ run'.base = run.base
               /\ snaps' = snaps
               /\ \/ run.pc = "verify" /\ snaps[run.base] # Alien
                  \/ run.pc \in {"load", "set", "files", "record"}
               /\ \/ run.pc = "verify" /\ run'.pc = "load"
                  \/ run.pc = "load" /\ run'.pc = "set"
                  \/ run'.pc \in {"ihead", "record", "publish"}
        <5>1. CASE VerifySnapshot
          BY <3>0, <5>1 DEF VerifySnapshot, Goto, Run
        <5>2. CASE LoadSnapshot
          BY <3>0, <5>2 DEF LoadSnapshot, Goto, Run
        <5>3. CASE SetPulledState
          BY <3>0, <5>3 DEF SetPulledState, Finish, Goto, Run
        <5>4. CASE FilesDone
          BY <3>0, <5>4 DEF FilesDone, Finish, Goto, Run
        <5>5. CASE RecordState
          BY <3>0, <5>5 DEF RecordState, Finish, Goto, Run
        <5>6. CASE Publish
          BY <5>6 DEF Publish, Finish
        <5>. QED
          BY <3>8, <5>1, <5>2, <5>3, <5>4, <5>5, <5>6
      <4>2. CASE run' = IdleRun
        BY <4>2 DEF IdleRun, NamesOK
      <4>3. CASE run' # IdleRun
        BY <4>1, <4>3 DEF NamesOK, has
      <4>. QED
        BY <4>2, <4>3
    <3>9. CASE \/ IngestHead \/ IngestDiff \/ ReingestInsert \/ SwapShadow
               \/ \E p \in Path :
                    DeletePath(p) \/ ReingestDrop(p) \/ WalkFile(p)
      <4>1. /\ run'.head = run.head
            /\ run.pc \in {"ihead", "diff", "files", "insert", "walk"}
            /\ run'.pc \in {"diff", "files", "insert", "walk", "record"}
        <5>1. CASE IngestHead
          BY <3>0, <5>1 DEF IngestHead, Run
        <5>2. CASE IngestDiff
          BY <3>0, <5>2 DEF IngestDiff, Run
        <5>3. CASE ReingestInsert
          BY <3>0, <5>3 DEF ReingestInsert, Run
        <5>4. CASE SwapShadow
          BY <3>0, <5>4 DEF SwapShadow, Run
        <5>5. CASE \E p \in Path : DeletePath(p)
          BY <3>0, <5>5 DEF DeletePath, Run
        <5>6. CASE \E p \in Path : ReingestDrop(p)
          BY <3>0, <5>6, DropFields
        <5>7. CASE \E p \in Path : WalkFile(p)
          BY <3>0, <5>7 DEF WalkFile, Run
        <5>. QED
          BY <3>9, <5>1, <5>2, <5>3, <5>4, <5>5, <5>6, <5>7
      <4>. QED
        BY <4>1 DEF NamesOK
    <3>. QED
      BY <1>2, <3>1, <3>2, <3>3, <3>4, <3>5, <3>6, <3>7, <3>8, <3>9
      DEF Next, SyncStep
  <2>. QED
    BY <2>13, <2>14
<1>. QED
  BY <1>1, <1>2

(* The variables keep their types in every environment: what is loaded     *)
(* into the stores is a snapshot that was verified, and what is recorded   *)
(* as indexed is a commit.                                                 *)
THEOREM SyncTypeCorrect == Spec => []TypeOK
<1>1. Init => TypeOK /\ NamesOK
  BY InitTyped
<1>2. TypeOK /\ NamesOK /\ [Next]_vars => TypeOK' /\ NamesOK'
  BY NextTyped
<1>. QED
  BY <1>1, <1>2, PTL DEF Spec

-----------------------------------------------------------------------------
(* Touched is what the decision tree computes from git. *)
LEMMA TouchedIs ==
  ASSUME NEW s
  PROVE  Touched(s) = Diff(s, head) \cup dirty_files \cup dirty_deleted_files
BY DEF Touched, Diff, dirty_files, dirty_deleted_files

(* Nothing is stale exactly when the index is the worktree. *)
LEMMA NothingStale ==
  ASSUME TypeOK
  PROVE  Stale = {} <=> index = work
<1>1. index \in Worktree /\ work \in Worktree
  BY DEF TypeOK
<1>. QED
  BY <1>1 DEF Stale, Worktree

LEMMA CalmInit == Init => CalmInv
<1>. SUFFICES ASSUME Init PROVE CalmParts
  BY DEF CalmInv
<1>1. run.pc = "idle" /\ ~run.publish
  BY DEF Init, IdleRun
<1>2. Quiet /\ HeadOK /\ PullOK /\ DeltaOK /\ FilesOK /\ WalkOK
  BY <1>1 DEF Init, Quiet, HeadOK, PullOK, DeltaOK, FilesOK, WalkOK
<1>3. SnapsOK
  BY <1>1 DEF Init, SnapsOK, Clean
<1>4. Mendable
  BY SyncRepoAssumption DEF Init, Mendable, Unbased
<1>. QED
  BY <1>2, <1>3, <1>4 DEF CalmParts

-----------------------------------------------------------------------------
(* A sync takes the trigger that is due. *)
LEMMA CalmStart ==
  ASSUME TypeOK, Calm, CalmParts, Start
  PROVE  CalmParts'
<1>1. /\ run.pc = "idle" /\ run'.pc = "head" /\ ~event'
      /\ run'.publish => "publish" \in scene.env /\ Clean
  BY DEF Start, IdleRun, Calm
<1>2. UNCHANGED <<scene, head, work, objects, index, state, snaps, hurt>>
  BY DEF Start, repo
<1>3. Quiet' /\ HeadOK' /\ PullOK' /\ DeltaOK' /\ FilesOK' /\ WalkOK'
  BY <1>1 DEF Quiet, HeadOK, PullOK, DeltaOK, FilesOK, WalkOK
<1>4. SnapsOK'
  BY <1>1, <1>2 DEF CalmParts, SnapsOK, Clean
<1>5. Mendable'
  BY <1>2 DEF CalmParts, Mendable, Stale, Touched, has, Unbased, is_reachable
<1>. QED
  BY <1>3, <1>4, <1>5 DEF CalmParts

LEMMA CalmReadHead ==
  ASSUME TypeOK, Calm, CalmParts, ReadHead
  PROVE  CalmParts'
<1>1. /\ run.pc = "head" /\ run'.pc = "decide" /\ run'.head = head
      /\ run'.publish = run.publish
  BY DEF ReadHead, TypeOK, Run
<1>2. UNCHANGED <<scene, head, work, objects, index, state, snaps, event,
                  hurt>>
  BY DEF ReadHead, repo
<1>3. Quiet' /\ HeadOK' /\ PullOK' /\ DeltaOK' /\ FilesOK' /\ WalkOK'
  BY <1>1, <1>2
  DEF CalmParts, Quiet, HeadOK, PullOK, DeltaOK, FilesOK, WalkOK
<1>4. SnapsOK'
  BY <1>1, <1>2 DEF CalmParts, SnapsOK, Clean
<1>5. Mendable'
  BY <1>2 DEF CalmParts, Mendable, Stale, Touched, has, Unbased, is_reachable
<1>. QED
  BY <1>3, <1>4, <1>5 DEF CalmParts

(* A failed sync and a crash leave the stores as they are, and the fault   *)
(* unrepaired until a sync completes.                                      *)
LEMMA CalmCrash ==
  ASSUME TypeOK, Calm, CalmParts, Fail \/ Crash \/ Restart
  PROVE  CalmParts'
<1>1. /\ ~run'.publish
      /\ run'.pc \in {"down", "idle"}
      /\ hurt'
  BY DEF Fail, Crash, Restart, IdleRun, CalmParts, Quiet
<1>2. UNCHANGED <<scene, head, work, objects, index, state, snaps>>
  BY DEF Fail, Crash, Restart, repo
<1>3. Quiet' /\ HeadOK' /\ PullOK' /\ DeltaOK' /\ FilesOK' /\ WalkOK'
  BY <1>1 DEF Quiet, HeadOK, PullOK, DeltaOK, FilesOK, WalkOK
<1>4. SnapsOK'
  BY <1>1, <1>2 DEF CalmParts, SnapsOK, Clean
<1>5. Mendable'
  BY <1>2 DEF CalmParts, Mendable, Stale, Touched, has, Unbased, is_reachable
<1>. QED
  BY <1>3, <1>4, <1>5 DEF CalmParts

-----------------------------------------------------------------------------
(* An edit makes its path one the next sync re-reads. *)
LEMMA CalmEdit ==
  ASSUME TypeOK, Calm, CalmParts,
         NEW p \in Path, NEW v \in Content \cup {Absent}, Edit(p, v)
  PROVE  CalmParts'
<1>1. /\ run.pc \in {"idle", "down"}
      /\ state = head \/ (state = None /\ "carry" \in scene.env)
      /\ v # Tree[head][p]
      /\ work' = [work EXCEPT ![p] = v]
      /\ run.pc = "idle" => event'
  BY DEF Edit, MayEdit, MayWork, Worked, Calm
<1>2. UNCHANGED <<scene, head, objects, index, state, snaps, run, hurt>>
  BY DEF Edit, Worked
<1>3. work \in [Path -> Content \cup {Absent}]
  BY DEF TypeOK, Worktree
<1>4. Quiet' /\ HeadOK' /\ PullOK' /\ DeltaOK' /\ FilesOK' /\ WalkOK'
  BY <1>1, <1>2
  DEF CalmParts, Quiet, HeadOK, PullOK, DeltaOK, FilesOK, WalkOK
<1>5. SnapsOK'
  BY <1>1, <1>2 DEF CalmParts, SnapsOK
<1>6. Mendable'
  <2>1. CASE state = head
    <3>1. Stale \subseteq Touched(head)
      BY <2>1 DEF CalmParts, Mendable
    <3>2. p \in Touched(head)'
      BY <1>1, <1>2, <1>3 DEF Touched
    <3>3. ASSUME NEW q \in Path, q # p
          PROVE  /\ q \in Stale' <=> q \in Stale
                 /\ q \in Touched(head)' <=> q \in Touched(head)
      BY <1>1, <1>2, <1>3, <3>3 DEF Stale, Touched
    <3>4. Stale' \subseteq Path
      BY DEF Stale
    <3>5. Stale' \subseteq Touched(head)'
      BY <3>1, <3>2, <3>3, <3>4
    <3>. QED
      BY <1>2, <2>1, <3>5 DEF Mendable
  <2>2. CASE state = None
    BY <1>2, <2>2, SyncRepoAssumption DEF Mendable, Unbased, TypeOK
  <2>. QED
    BY <1>1, <2>1, <2>2
<1>. QED
  BY <1>4, <1>5, <1>6 DEF CalmParts

(* HEAD moves only when everything before has been synced. *)
(* A session only makes a sync due. *)
LEMMA CalmSession ==
  ASSUME TypeOK, Calm, CalmParts, OpenSession
  PROVE  CalmParts'
<1>1. run.pc \in {"idle", "down"} /\ run.pc # "down" /\ event'
  BY DEF OpenSession, MayWork, Calm
<1>2. UNCHANGED <<scene, head, work, objects, index, state, snaps, run, hurt>>
  BY DEF OpenSession, repo
<1>. QED
  BY <1>1, <1>2
  DEF CalmParts, Quiet, SnapsOK, Mendable, HeadOK, PullOK, DeltaOK, FilesOK,
      WalkOK, Stale, Touched, Pending, Clean, has, Unbased, is_reachable

LEMMA CalmMay ==
  ASSUME TypeOK, Calm, CalmParts, MayMove
  PROVE  run.pc = "idle" /\ ~run.publish /\ state = head /\ index = work
<1>1. run.pc \in {"idle", "down"} /\ ~event /\ ~hurt
  BY DEF MayMove, MayWork, Calm
<1>. QED
  BY <1>1 DEF CalmParts, Quiet, SnapsOK

LEMMA CalmCommit ==
  ASSUME TypeOK, Calm, CalmParts, NEW c \in Commit, GitCommit(c)
  PROVE  CalmParts'
<1>1. run.pc = "idle" /\ ~run.publish /\ state = head /\ index = work
  BY CalmMay DEF GitCommit
<1>2. /\ head' = c /\ event'
      /\ Tree[c] = work \/ "carry" \in scene.env
  BY <1>1 DEF GitCommit, Worked, Calm
<1>3. UNCHANGED <<scene, work, index, state, snaps, run, hurt>>
  BY DEF GitCommit, Worked
<1>4. Quiet' /\ HeadOK' /\ PullOK' /\ DeltaOK' /\ FilesOK' /\ WalkOK'
  BY <1>1, <1>2, <1>3
  DEF Quiet, HeadOK, PullOK, DeltaOK, FilesOK, WalkOK
<1>5. SnapsOK'
  BY <1>1, <1>2, <1>3 DEF CalmParts, SnapsOK, Clean
<1>6. Mendable'
  BY <1>1, <1>3 DEF Mendable, Stale
<1>. QED
  BY <1>4, <1>5, <1>6 DEF CalmParts

LEMMA CalmCheckout ==
  ASSUME TypeOK, Calm, CalmParts, NEW c \in Commit, Checkout(c)
  PROVE  CalmParts'
<1>1. run.pc = "idle" /\ ~run.publish /\ state = head /\ index = work
  BY CalmMay DEF Checkout
<1>2. /\ head' = c /\ event'
      /\ Clean \/ "carry" \in scene.env
      /\ work' = [p \in Path |-> IF work[p] = Tree[head][p]
                                THEN Tree[c][p] ELSE work[p]]
  BY <1>1 DEF Checkout, Worked, Calm
<1>3. UNCHANGED <<scene, index, state, snaps, run, hurt>>
  BY DEF Checkout, Worked
<1>4. Quiet' /\ HeadOK' /\ PullOK' /\ DeltaOK' /\ FilesOK' /\ WalkOK'
  BY <1>1, <1>2, <1>3
  DEF Quiet, HeadOK, PullOK, DeltaOK, FilesOK, WalkOK
<1>5. SnapsOK'
  <2>1. Tree[c] \in Worktree
    BY SyncRepoAssumption
  <2>2. Clean => Clean'
    BY <1>2, <2>1 DEF Clean, Worktree
  <2>. QED
    BY <1>1, <1>2, <1>3, <2>2 DEF CalmParts, SnapsOK
<1>6. Mendable'
  <2>1. ASSUME NEW p \in Path, index[p] # work'[p]
        PROVE  Tree[head][p] # Tree[c][p]
    BY <1>1, <1>2, <2>1
  <2>2. Stale' \subseteq Touched(state)'
    BY <1>1, <1>2, <1>3, <2>1 DEF Stale, Touched
  <2>. QED
    BY <2>2 DEF Mendable
<1>. QED
  BY <1>4, <1>5, <1>6 DEF CalmParts

(* A recorded commit that disappears only makes the next sync read more. *)
LEMMA CalmPrune ==
  ASSUME TypeOK, Calm, CalmParts, NEW c \in Commit, Prune(c)
  PROVE  CalmParts'
<1>1. run.pc \in {"idle", "down"} /\ objects' \subseteq objects
  BY DEF Prune, MayWork, Calm
<1>2. UNCHANGED <<scene, head, work, index, state, snaps, event, run, hurt>>
  BY DEF Prune
<1>3. Quiet' /\ HeadOK' /\ PullOK' /\ DeltaOK' /\ FilesOK' /\ WalkOK'
  BY <1>1, <1>2
  DEF CalmParts, Quiet, HeadOK, PullOK, DeltaOK, FilesOK, WalkOK
<1>4. SnapsOK'
  BY <1>2 DEF CalmParts, SnapsOK, Clean
<1>5. Mendable'
  BY <1>1, <1>2
  DEF CalmParts, Mendable, Stale, Touched, has, Unbased, is_reachable
<1>. QED
  BY <1>3, <1>4, <1>5 DEF CalmParts

(* So does a snapshot that appears, at any point of a sync. *)
LEMMA CalmRemote ==
  ASSUME TypeOK, Calm, CalmParts, NEW c \in Commit, RemotePublish(c)
  PROVE  CalmParts'
<1>1. /\ "carry" \notin scene.env /\ ~has(c)
      /\ snaps' = [snaps EXCEPT ![c] = Tree[c]]
  BY DEF RemotePublish, Calm
<1>2. UNCHANGED <<scene, head, work, objects, index, state, event, run, hurt>>
  BY DEF RemotePublish, repo
<1>3. DOMAIN snaps = Commit /\ head \in Commit
  BY DEF TypeOK
<1>4. ASSUME NEW d \in Commit
      PROVE  has(d) => snaps'[d] = snaps[d]
  BY <1>1, <1>3 DEF has
<1>5. Quiet' /\ HeadOK' /\ DeltaOK' /\ WalkOK'
  BY <1>2
  DEF CalmParts, Quiet, HeadOK, DeltaOK, WalkOK, Stale, Touched, Unbased,
      is_reachable
<1>6. FilesOK'
  BY <1>2 DEF CalmParts, FilesOK, Pending, Stale, Touched
<1>7. SnapsOK'
  BY <1>1, <1>2, <1>3 DEF CalmParts, SnapsOK, Clean
<1>8. Mendable'
  BY <1>2, <1>3, <1>4
  DEF CalmParts, Mendable, Stale, Touched, has, Unbased, is_reachable
<1>9. PullOK'
  BY <1>2, <1>3, <1>4 DEF CalmParts, PullOK, has, Unbased, is_reachable
<1>. QED
  BY <1>5, <1>6, <1>7, <1>8, <1>9 DEF CalmParts

-----------------------------------------------------------------------------
(* The decision tree. *)
LEMMA CalmNoop ==
  ASSUME TypeOK, Calm, CalmParts, Decide, DecideNoop
  PROVE  CalmParts'
<1>1. /\ run.pc = "decide" /\ run'.pc = "idle" /\ ~run'.publish
      /\ state = run.head /\ ~hurt'
      /\ dirty_files = {} /\ dirty_deleted_files = {}
  BY DEF Decide, DecideNoop, Finish, IdleRun
<1>2. UNCHANGED <<scene, head, work, objects, index, state, snaps, event>>
  BY DEF Decide, repo
<1>3. run.head = head
  BY <1>1 DEF CalmParts, HeadOK
<1>4. index = work
  <2>1. Touched(head) = {}
    BY <1>1, TouchedIs DEF Diff
  <2>2. Stale \subseteq Touched(head)
    BY <1>1, <1>3 DEF CalmParts, Mendable
  <2>. QED
    BY <2>1, <2>2, NothingStale
<1>5. Quiet' /\ HeadOK' /\ PullOK' /\ DeltaOK' /\ FilesOK' /\ WalkOK'
  BY <1>1, <1>2, <1>3, <1>4
  DEF CalmParts, Quiet, HeadOK, PullOK, DeltaOK, FilesOK, WalkOK
<1>6. SnapsOK'
  BY <1>1, <1>2 DEF CalmParts, SnapsOK, Clean
<1>7. Mendable'
  BY <1>2, <1>4 DEF Mendable, Stale
<1>. QED
  BY <1>5, <1>6, <1>7 DEF CalmParts

LEMMA CalmDirty ==
  ASSUME TypeOK, Calm, CalmParts, Decide, DecideDirtyOnly
  PROVE  CalmParts'
<1>1. /\ run.pc = "decide" /\ run'.pc = "files" /\ run'.kind = "dirty"
      /\ run'.head = run.head /\ run'.publish = run.publish
      /\ run'.todo = dirty_files /\ run'.gone = dirty_deleted_files
      /\ state = run.head
  BY DEF Decide, DecideDirtyOnly, TypeOK, Run
<1>2. UNCHANGED <<scene, head, work, objects, index, state, snaps, event,
                  hurt>>
  BY DEF Decide, DecideDirtyOnly, repo
<1>3. run.head = head
  BY <1>1 DEF CalmParts, HeadOK
<1>4. Quiet' /\ HeadOK' /\ PullOK' /\ DeltaOK' /\ WalkOK'
  BY <1>1, <1>2, <1>3
  DEF CalmParts, Quiet, HeadOK, PullOK, DeltaOK, WalkOK
<1>5. SnapsOK'
  BY <1>1, <1>2 DEF CalmParts, SnapsOK, Clean
<1>6. Mendable'
  BY <1>2 DEF CalmParts, Mendable, Stale, Touched, has, Unbased, is_reachable
<1>7. FilesOK'
  <2>1. Pending' = Touched(state)
    <3>1. Diff(head, head) = {}
      BY DEF Diff
    <3>. QED
      BY <1>1, <1>3, <3>1, TouchedIs DEF Pending
  <2>2. Touched(state)' = Touched(state) /\ Stale' = Stale
    BY <1>2 DEF Touched, Stale
  <2>3. Stale \subseteq Touched(state)
    BY <1>1, <1>3 DEF CalmParts, Mendable
  <2>4. \A p \in run'.gone : work'[p] = Absent
    BY <1>1, <1>2 DEF dirty_deleted_files
  <2>5. \A p \in run'.todo : work'[p] # Absent
    BY <1>1, <1>2 DEF dirty_files
  <2>. QED
    BY <1>1, <1>2, <1>3, <2>1, <2>2, <2>3, <2>4, <2>5 DEF FilesOK
<1>. QED
  BY <1>4, <1>5, <1>6, <1>7 DEF CalmParts

LEMMA CalmPull ==
  ASSUME TypeOK, Calm, CalmParts, Decide, DecidePull \/ DecidePullThen
  PROVE  CalmParts'
<1>1. run.pc = "decide" /\ run \in Run /\ head \in Commit
  BY DEF Decide, TypeOK
<1>2. run.head = head
  BY <1>1 DEF CalmParts, HeadOK
<1>3. /\ run'.pc = "verify" /\ run'.head = run.head
      /\ run'.publish = run.publish
      /\ state # head /\ run'.base \in Commit /\ has(run'.base)
      /\ \/ run'.kind = "pull" /\ run'.base = head
         \/ run'.kind = "pullThen" /\ run'.base # head /\ Unbased
  <2>1. CASE DecidePull
    BY <1>1, <1>2, <2>1 DEF DecidePull, Run
  <2>2. CASE DecidePullThen
    <3>1. /\ run'.pc = "verify" /\ run'.head = run.head
          /\ run'.publish = run.publish /\ run'.kind = "pullThen"
          /\ state # head /\ ~has(head) /\ Unbased
          /\ AncestorHits(head) # {}
          /\ run'.base = NearestAncestor(head)
      BY <1>1, <1>2, <2>2 DEF DecidePullThen, Run
    <3>2. run'.base \in Commit /\ has(run'.base)
      BY <1>1, <3>1, NearestHasSnapshot
    <3>. QED
      BY <3>1, <3>2
  <2>. QED
    BY <2>1, <2>2
<1>4. UNCHANGED <<scene, head, work, objects, index, state, snaps, event,
                  hurt>>
  BY DEF Decide, DecidePull, DecidePullThen, repo
<1>5. Quiet' /\ HeadOK' /\ DeltaOK' /\ FilesOK' /\ WalkOK'
  BY <1>1, <1>2, <1>3, <1>4
  DEF CalmParts, Quiet, HeadOK, DeltaOK, FilesOK, WalkOK
<1>6. SnapsOK'
  BY <1>1, <1>3, <1>4 DEF CalmParts, SnapsOK, Clean
<1>7. Mendable'
  BY <1>4 DEF CalmParts, Mendable, Stale, Touched, has, Unbased, is_reachable
<1>8. PullOK'
  BY <1>3, <1>4 DEF PullOK, has, Unbased, is_reachable
<1>. QED
  BY <1>5, <1>6, <1>7, <1>8 DEF CalmParts

LEMMA CalmIngest ==
  ASSUME TypeOK, Calm, CalmParts, Decide, DecideFull \/ DecideIncremental
  PROVE  CalmParts'
<1>1. run.pc = "decide" /\ run \in Run
  BY DEF Decide, TypeOK
<1>2. run.head = head
  BY <1>1 DEF CalmParts, HeadOK
<1>3. /\ run'.pc = "ihead" /\ run'.head = run.head
      /\ run'.publish = run.publish
      /\ state # head /\ ~has(head)
      /\ \/ run'.kind = "full" /\ Unbased
         \/ run'.kind = "incremental" /\ run'.base = state /\ ~Unbased
  <2>1. CASE DecideFull
    BY <1>1, <1>2, <2>1 DEF DecideFull, Run
  <2>2. CASE DecideIncremental
    BY <1>1, <1>2, <2>2 DEF DecideIncremental, Run
  <2>. QED
    BY <2>1, <2>2
<1>4. UNCHANGED <<scene, head, work, objects, index, state, snaps, event,
                  hurt>>
  BY DEF Decide, DecideFull, DecideIncremental, repo
<1>5. Quiet' /\ HeadOK' /\ PullOK' /\ FilesOK' /\ WalkOK'
  BY <1>1, <1>2, <1>3, <1>4
  DEF CalmParts, Quiet, HeadOK, PullOK, FilesOK, WalkOK
<1>6. SnapsOK'
  BY <1>1, <1>3, <1>4 DEF CalmParts, SnapsOK, Clean
<1>7. Mendable'
  BY <1>4 DEF CalmParts, Mendable, Stale, Touched, has, Unbased, is_reachable
<1>8. DeltaOK'
  <2>1. ~Unbased => state \in Commit /\ Stale \subseteq Touched(state)
    BY <1>3 DEF CalmParts, Mendable, Unbased, TypeOK
  <2>2. Stale' = Stale /\ Touched(state)' = Touched(state)
    BY <1>4 DEF Stale, Touched
  <2>. QED
    BY <1>3, <1>4, <2>1, <2>2 DEF DeltaOK, Unbased, is_reachable
<1>. QED
  BY <1>5, <1>6, <1>7, <1>8 DEF CalmParts

-----------------------------------------------------------------------------
(* Pulling a snapshot: until it is recorded, the next sync would start     *)
(* from a snapshot, or from nothing, again.                                *)
LEMMA CalmLoading ==
  ASSUME TypeOK, Calm, CalmParts, VerifySnapshot \/ LoadSnapshot
  PROVE  CalmParts'
<1>1. /\ run.pc \in {"verify", "load"} /\ run \in Run
  BY DEF VerifySnapshot, LoadSnapshot, TypeOK
<1>2. /\ run.base \in Commit /\ has(run.base)
      /\ state # head /\ (has(head) \/ Unbased)
      /\ \/ run.kind = "pull" /\ run.base = head
         \/ run.kind = "pullThen" /\ run.base # head
  BY <1>1 DEF CalmParts, PullOK
<1>3. snaps[run.base] = Tree[run.base]
  BY <1>2 DEF CalmParts, SnapsOK, has
<1>4. snaps[run.base] # Alien
  BY <1>2, <1>3, SyncRepoAssumption
<1>5. /\ run'.base = run.base /\ run'.kind = run.kind
      /\ run'.head = run.head /\ run'.publish = run.publish
      /\ \/ run'.pc = "load"
         \/ run'.pc = "set" /\ index' = Tree[run.base]
  BY <1>1, <1>3, <1>4 DEF VerifySnapshot, LoadSnapshot, Goto, Run
<1>6. UNCHANGED <<scene, head, work, objects, state, snaps, event, hurt>>
  BY <1>4 DEF VerifySnapshot, LoadSnapshot, repo
<1>7. Quiet' /\ HeadOK' /\ DeltaOK' /\ FilesOK' /\ WalkOK'
  BY <1>1, <1>5, <1>6
  DEF CalmParts, Quiet, HeadOK, DeltaOK, FilesOK, WalkOK
<1>8. SnapsOK'
  BY <1>1, <1>5, <1>6 DEF CalmParts, SnapsOK, Clean
<1>9. Mendable'
  BY <1>2, <1>6 DEF Mendable, has, Unbased, is_reachable
<1>10. PullOK'
  BY <1>2, <1>5, <1>6 DEF PullOK, has, Unbased, is_reachable
<1>. QED
  BY <1>7, <1>8, <1>9, <1>10 DEF CalmParts

LEMMA CalmPulled ==
  ASSUME TypeOK, Calm, CalmParts, SetPulledState
  PROVE  CalmParts'
<1>1. /\ run.pc = "set" /\ run \in Run /\ state' = run.base
  BY DEF SetPulledState, TypeOK
<1>2. /\ run.base \in Commit /\ has(run.base) /\ index = Tree[run.base]
      /\ state # head
      /\ \/ run.kind = "pull" /\ run.base = head
         \/ run.kind = "pullThen" /\ run.base # head
  BY <1>1 DEF CalmParts, PullOK
<1>3. UNCHANGED <<scene, head, work, objects, index, snaps, event>>
  BY DEF SetPulledState, repo
<1>4. Clean
  BY <1>2 DEF CalmParts, SnapsOK, has
<1>5. \/ /\ run.kind = "pull" /\ run'.pc = "idle" /\ ~run'.publish /\ ~hurt'
      \/ /\ run.kind = "pullThen" /\ run'.pc = "ihead"
         /\ run'.kind = run.kind /\ run'.base = run.base
         /\ run'.head = run.head /\ run'.publish = run.publish
         /\ hurt' = hurt
  BY <1>1 DEF SetPulledState, Finish, Goto, IdleRun, Run
<1>6. Stale \subseteq Touched(run.base)
  BY <1>2 DEF Stale, Touched
<1>7. Quiet' /\ HeadOK' /\ PullOK' /\ FilesOK' /\ WalkOK'
  BY <1>1, <1>2, <1>3, <1>4, <1>5
  DEF CalmParts, Quiet, HeadOK, PullOK, FilesOK, WalkOK, Clean
<1>8. SnapsOK'
  BY <1>1, <1>3, <1>4, <1>5 DEF CalmParts, SnapsOK, Clean
<1>9. Mendable' /\ DeltaOK'
  <2>1. Stale' \subseteq Touched(state)'
    BY <1>1, <1>3, <1>6 DEF Stale, Touched
  <2>. QED
    BY <1>1, <1>2, <1>3, <1>5, <2>1 DEF Mendable, DeltaOK
<1>. QED
  BY <1>7, <1>8, <1>9 DEF CalmParts

(* ingest_repo reads HEAD and, unless it walks everything, computes what   *)
(* changed since the base.                                                 *)
LEMMA CalmIngestHead ==
  ASSUME TypeOK, Calm, CalmParts, IngestHead
  PROVE  CalmParts'
<1>1. /\ run.pc = "ihead" /\ run \in Run
  BY DEF IngestHead, TypeOK
<1>2. UNCHANGED <<scene, head, work, objects, index, snaps, event, hurt>>
  BY DEF IngestHead, repo
<1>3. /\ run'.ihead = head /\ run'.head = run.head
      /\ run'.publish = run.publish /\ run'.kind = run.kind
      /\ run'.base = run.base
  BY <1>1 DEF IngestHead, Run
<1>4. CASE run.kind = "full"
  <2>1. run'.pc = "walk" /\ run'.todo = Path /\ state' = None
    BY <1>1, <1>4 DEF IngestHead, Run
  <2>2. state # head /\ head # None
    BY <1>1, <1>4, SyncRepoAssumption DEF CalmParts, DeltaOK, TypeOK
  <2>3. Quiet' /\ HeadOK' /\ PullOK' /\ FilesOK' /\ WalkOK' /\ DeltaOK'
    BY <1>1, <1>2, <1>3, <2>1
    DEF CalmParts, Quiet, HeadOK, PullOK, FilesOK, WalkOK, DeltaOK
  <2>4. SnapsOK'
    BY <1>1, <1>2, <1>3, <2>1, <2>2 DEF CalmParts, SnapsOK, Clean
  <2>5. Mendable'
    BY <1>2, <2>1, <2>2 DEF Mendable, Unbased
  <2>. QED
    BY <2>3, <2>4, <2>5 DEF CalmParts
<1>5. CASE run.kind # "full"
  <2>1. run'.pc = "diff" /\ state' = state
    BY <1>1, <1>5 DEF IngestHead, Run
  <2>2. Quiet' /\ HeadOK' /\ PullOK' /\ FilesOK' /\ WalkOK'
    BY <1>1, <1>2, <1>3, <2>1
    DEF CalmParts, Quiet, HeadOK, PullOK, FilesOK, WalkOK
  <2>3. SnapsOK'
    BY <1>1, <1>2, <1>3, <2>1 DEF CalmParts, SnapsOK, Clean
  <2>4. Mendable'
    BY <1>2, <2>1
    DEF CalmParts, Mendable, Stale, Touched, has, Unbased, is_reachable
  <2>5. DeltaOK'
    BY <1>1, <1>2, <1>3, <1>5, <2>1 DEF CalmParts, DeltaOK, Stale, Touched
  <2>. QED
    BY <2>2, <2>3, <2>4, <2>5 DEF CalmParts
<1>. QED
  BY <1>4, <1>5

LEMMA CalmIngestDiff ==
  ASSUME TypeOK, Calm, CalmParts, IngestDiff
  PROVE  CalmParts'
<1>1. /\ run.pc = "diff" /\ run \in Run
  BY DEF IngestDiff, TypeOK
<1>2. UNCHANGED <<scene, head, work, objects, index, state, snaps, event,
                  hurt>>
  BY DEF IngestDiff, repo
<1>3. /\ run'.pc = "files" /\ run'.kind = run.kind
      /\ run'.head = run.head /\ run'.ihead = run.ihead
      /\ run'.publish = run.publish
      /\ run'.todo = DiffChanged(run.base, head) \cup dirty_files
      /\ run'.gone = DiffDeleted(run.base, head) \cup dirty_deleted_files
  BY <1>1 DEF IngestDiff, Run
<1>4. /\ run.kind \in {"pullThen", "incremental"}
      /\ state = run.base /\ state \in Commit \ {head}
      /\ Stale \subseteq Touched(state)
      /\ run.ihead = head
  BY <1>1 DEF CalmParts, DeltaOK
<1>5. Quiet' /\ HeadOK' /\ PullOK' /\ DeltaOK' /\ WalkOK'
  BY <1>1, <1>2, <1>3
  DEF CalmParts, Quiet, HeadOK, PullOK, DeltaOK, WalkOK
<1>6. SnapsOK'
  BY <1>1, <1>2, <1>3 DEF CalmParts, SnapsOK, Clean
<1>7. Mendable'
  BY <1>2 DEF CalmParts, Mendable, Stale, Touched, has, Unbased, is_reachable
<1>8. FilesOK'
  <2>1. Touched(state)' = Touched(state) /\ Stale' = Stale
    BY <1>2 DEF Touched, Stale
  <2>2. Pending' = Touched(state)
    BY <1>3, <1>4, TouchedIs DEF Pending, DiffChanged, DiffDeleted
  <2>3. \A p \in run'.gone : work'[p] = Absent \/ p \in run'.todo
    BY <1>2, <1>3
    DEF DiffDeleted, dirty_deleted_files, dirty_files, Diff
  <2>4. \A p \in run'.todo : work'[p] = Absent => p \in run'.gone
    BY <1>2, <1>3 DEF DiffChanged, dirty_deleted_files, dirty_files, Diff
  <2>. QED
    BY <1>2, <1>3, <1>4, <2>1, <2>2, <2>3, <2>4 DEF FilesOK
<1>. QED
  BY <1>5, <1>6, <1>7, <1>8 DEF CalmParts

-----------------------------------------------------------------------------
(* The files of a delta: whatever is stale is pending, and what is pending *)
(* a sync that starts over would find again.                               *)
LEMMA FilesKeep ==
  ASSUME TypeOK, Calm, CalmParts,
         run.pc \in {"files", "insert"}, run'.pc \in {"files", "insert"},
         run'.head = run.head, run'.kind = run.kind, run'.ihead = run.ihead,
         run'.publish = run.publish,
         UNCHANGED <<scene, head, work, objects, state, snaps, event, hurt>>,
         Stale' \subseteq Pending', Pending' \subseteq Pending
  PROVE  /\ Quiet' /\ HeadOK' /\ PullOK' /\ DeltaOK' /\ WalkOK'
         /\ SnapsOK' /\ Mendable'
         /\ Pending' \subseteq Touched(state)'
         /\ \/ run'.kind = "dirty" /\ state' = head'
            \/ /\ run'.kind \in {"pullThen", "incremental"}
               /\ state' \in Commit \ {head'}
               /\ run'.ihead = head'
<1>1. Quiet' /\ HeadOK' /\ PullOK' /\ DeltaOK' /\ WalkOK'
  BY DEF CalmParts, Quiet, HeadOK, PullOK, DeltaOK, WalkOK
<1>2. SnapsOK'
  BY DEF CalmParts, SnapsOK, Clean
<1>3. Touched(state)' = Touched(state)
  BY DEF Touched
<1>4. Pending' \subseteq Touched(state)'
  BY <1>3 DEF CalmParts, FilesOK
<1>5. Mendable'
  BY <1>4 DEF Mendable
<1>. QED
  BY <1>1, <1>2, <1>4, <1>5 DEF CalmParts, FilesOK

LEMMA CalmDelete ==
  ASSUME TypeOK, Calm, CalmParts, NEW p \in Path, DeletePath(p)
  PROVE  CalmParts'
<1>. DEFINE rest == run.gone \ {p}
<1>1. /\ run.pc = "files" /\ p \in run.gone
      /\ run.kind = "dirty" => run.todo = {}
      /\ index' = [index EXCEPT ![p] = Absent]
      /\ run' = [run EXCEPT !.gone = rest]
  BY DEF DeletePath
<1>. HIDE DEF rest
<1>2. /\ run'.pc = "files" /\ run'.kind = run.kind
      /\ run'.head = run.head /\ run'.ihead = run.ihead
      /\ run'.publish = run.publish
      /\ run'.todo = run.todo /\ run'.gone = rest
  BY <1>1 DEF TypeOK, Run
<1>3. UNCHANGED <<scene, head, work, objects, state, snaps, event, hurt>>
  BY DEF DeletePath, repo
<1>4. index \in [Path -> Content \cup {Absent}]
  BY DEF TypeOK, Worktree
<1>5. /\ \A q \in run.gone :
           work[q] = Absent \/ (q \in run.todo /\ run.kind # "dirty")
      /\ \A q \in run.todo :
           work[q] = Absent => q \in run.gone \/ index[q] = Absent
      /\ Stale \subseteq Pending
  BY <1>1 DEF CalmParts, FilesOK
<1>6. \A q \in Path : index'[q] = IF q = p THEN Absent ELSE index[q]
  BY <1>1, <1>4
<1>7. Pending = run.gone \cup run.todo /\ Pending' = rest \cup run.todo
  BY <1>1, <1>2 DEF Pending
<1>8. Pending' \subseteq Pending
  BY <1>7 DEF rest
<1>9. Stale' \subseteq Pending'
  BY <1>1, <1>3, <1>5, <1>6, <1>7 DEF Stale, rest
<1>10. FilesOK'
  <2>1. \A q \in run'.gone :
          work'[q] = Absent \/ (q \in run'.todo /\ run'.kind # "dirty")
    BY <1>2, <1>3, <1>5 DEF rest
  <2>2. \A q \in run'.todo :
          work'[q] = Absent => q \in run'.gone \/ index'[q] = Absent
    BY <1>2, <1>3, <1>5, <1>6 DEF rest, TypeOK, Run
  <2>. QED
    BY <1>1, <1>2, <1>3, <1>8, <1>9, <2>1, <2>2, FilesKeep DEF FilesOK
<1>. QED
  BY <1>1, <1>2, <1>3, <1>8, <1>9, <1>10, FilesKeep DEF CalmParts

LEMMA CalmDrop ==
  ASSUME TypeOK, Calm, CalmParts, NEW p \in Path, ReingestDrop(p)
  PROVE  CalmParts'
<1>. DEFINE rest == run.todo \ {p}
<1>1. /\ run.pc = "files" /\ p \in run.todo
      /\ run.kind # "dirty" => run.gone = {}
      /\ run'.kind = run.kind /\ run'.head = run.head
      /\ run'.ihead = run.ihead /\ run'.publish = run.publish
      /\ run'.gone = run.gone /\ run'.todo = rest
      /\ \/ /\ work[p] = Absent /\ run'.pc = "files"
            /\ index' = index
         \/ /\ work[p] # Absent /\ run'.pc = "insert"
            /\ run'.file = p /\ run'.read = work[p]
            /\ index' = [index EXCEPT ![p] = Absent]
  BY DropFields DEF TypeOK
<1>. HIDE DEF rest
<1>2. UNCHANGED <<scene, head, work, objects, state, snaps, event, hurt>>
  BY DEF ReingestDrop, repo
<1>3. index \in [Path -> Content \cup {Absent}] /\ run.todo \subseteq Path
  BY DEF TypeOK, Worktree, Run
<1>4. /\ \A q \in run.gone :
           work[q] = Absent \/ (q \in run.todo /\ run.kind # "dirty")
      /\ \A q \in run.todo :
           work[q] = Absent => q \in run.gone \/ index[q] = Absent
      /\ Stale \subseteq Pending
  BY <1>1 DEF CalmParts, FilesOK
<1>5. \A q \in Path \ {p} : index'[q] = index[q]
  BY <1>1, <1>3
<1>6. /\ Pending = run.gone \cup run.todo
      /\ \/ /\ work[p] = Absent /\ index'[p] = index[p]
            /\ Pending' = run.gone \cup rest
         \/ /\ work[p] # Absent
            /\ Pending' = run.gone \cup rest \cup {p}
  BY <1>1 DEF Pending
<1>7. Pending' \subseteq Pending
  BY <1>1, <1>6 DEF rest
<1>8. Stale' \subseteq Pending'
  BY <1>1, <1>2, <1>4, <1>5, <1>6 DEF Stale, rest
<1>9. FilesOK'
  <2>1. \A q \in run'.gone :
          work'[q] = Absent \/ (q \in run'.todo /\ run'.kind # "dirty")
    BY <1>1, <1>2, <1>4
  <2>2. \A q \in run'.todo :
          work'[q] = Absent => q \in run'.gone \/ index'[q] = Absent
    BY <1>1, <1>2, <1>3, <1>4, <1>5 DEF rest
  <2>. QED
    BY <1>1, <1>2, <1>7, <1>8, <2>1, <2>2, FilesKeep DEF FilesOK
<1>. QED
  BY <1>1, <1>2, <1>7, <1>8, <1>9, FilesKeep DEF CalmParts

LEMMA CalmInsert ==
  ASSUME TypeOK, Calm, CalmParts, ReingestInsert
  PROVE  CalmParts'
<1>1. /\ run.pc = "insert" /\ run \in Run
      /\ index' = [index EXCEPT ![run.file] = run.read]
  BY DEF ReingestInsert, TypeOK
<1>2. /\ run'.pc = "files" /\ run'.kind = run.kind
      /\ run'.head = run.head /\ run'.ihead = run.ihead
      /\ run'.publish = run.publish
      /\ run'.todo = run.todo /\ run'.gone = run.gone
  BY <1>1 DEF ReingestInsert, Run
<1>3. UNCHANGED <<scene, head, work, objects, state, snaps, event, hurt>>
  BY DEF ReingestInsert, repo
<1>4. index \in [Path -> Content \cup {Absent}] /\ run.todo \subseteq Path
  BY DEF TypeOK, Worktree, Run
<1>5. /\ \A q \in run.gone :
           work[q] = Absent \/ (q \in run.todo /\ run.kind # "dirty")
      /\ \A q \in run.todo :
           work[q] = Absent => q \in run.gone \/ index[q] = Absent
      /\ Stale \subseteq Pending
      /\ run.file \in Path /\ run.read = work[run.file]
  BY <1>1 DEF CalmParts, FilesOK
<1>6. \A q \in Path :
        index'[q] = IF q = run.file THEN work[q] ELSE index[q]
  BY <1>1, <1>4, <1>5
<1>7. /\ Pending = run.gone \cup run.todo \cup {run.file}
      /\ Pending' = run.gone \cup run.todo
  BY <1>1, <1>2 DEF Pending
<1>8. Stale' \subseteq Pending'
  BY <1>3, <1>5, <1>6, <1>7 DEF Stale
<1>9. FilesOK'
  <2>1. \A q \in run'.gone :
          work'[q] = Absent \/ (q \in run'.todo /\ run'.kind # "dirty")
    BY <1>2, <1>3, <1>5
  <2>2. \A q \in run'.todo :
          work'[q] = Absent => q \in run'.gone \/ index'[q] = Absent
    BY <1>2, <1>3, <1>4, <1>5, <1>6
  <2>. QED
    BY <1>1, <1>2, <1>3, <1>7, <1>8, <2>1, <2>2, FilesKeep DEF FilesOK
<1>. QED
  BY <1>1, <1>2, <1>3, <1>7, <1>8, <1>9, FilesKeep DEF CalmParts

LEMMA CalmFilesDone ==
  ASSUME TypeOK, Calm, CalmParts, FilesDone
  PROVE  CalmParts'
<1>1. /\ run.pc = "files" /\ run \in Run
      /\ run.todo = {} /\ run.gone = {}
  BY DEF FilesDone, TypeOK
<1>2. UNCHANGED <<scene, head, work, objects, index, state, snaps, event>>
  BY DEF FilesDone, repo
<1>3. index = work
  <2>1. Stale \subseteq Pending
    BY <1>1 DEF CalmParts, FilesOK
  <2>2. Pending = {}
    BY <1>1 DEF Pending
  <2>. QED
    BY <2>1, <2>2, NothingStale
<1>4. \/ run.kind = "dirty" /\ state = head
      \/ run.kind # "dirty" /\ run.ihead = head
  BY <1>1 DEF CalmParts, FilesOK
<1>5. \/ /\ run.kind = "dirty" /\ run'.pc = "idle" /\ ~run'.publish /\ ~hurt'
      \/ /\ run.kind # "dirty" /\ run'.pc = "record" /\ hurt' = hurt
         /\ run'.head = run.head /\ run'.ihead = run.ihead
         /\ run'.publish = run.publish
  BY <1>1 DEF FilesDone, Finish, Goto, IdleRun, Run
<1>6. Quiet' /\ HeadOK' /\ PullOK' /\ DeltaOK' /\ FilesOK' /\ WalkOK'
  BY <1>1, <1>2, <1>3, <1>4, <1>5
  DEF CalmParts, Quiet, HeadOK, PullOK, DeltaOK, FilesOK, WalkOK
<1>7. SnapsOK'
  BY <1>1, <1>2, <1>5 DEF CalmParts, SnapsOK, Clean
<1>8. Mendable'
  BY <1>2, <1>3 DEF Mendable, Stale
<1>. QED
  BY <1>6, <1>7, <1>8 DEF CalmParts

-----------------------------------------------------------------------------
(* A full ingest has forgotten the recorded state; the shadow is complete  *)
(* when it is swapped in.                                                  *)
LEMMA CalmWalk ==
  ASSUME TypeOK, Calm, CalmParts, NEW p \in Path, WalkFile(p)
  PROVE  CalmParts'
<1>. DEFINE rest == run.todo \ {p}
            more == [run.shadow EXCEPT ![p] = work[p]]
<1>1. /\ run.pc = "walk" /\ run \in Run
      /\ run' = [run EXCEPT !.shadow = more, !.todo = rest]
  BY DEF WalkFile, TypeOK
<1>2. UNCHANGED <<scene, head, work, objects, index, state, snaps, event,
                  hurt>>
  BY DEF WalkFile, repo
<1>3. run.shadow \in [Path -> Content \cup {Absent}]
  BY <1>1 DEF Run, Worktree
<1>4. \A q \in Path : more[q] = IF q = p THEN work[q] ELSE run.shadow[q]
  BY <1>3
<1>5. \A q \in Path : q \notin rest => q = p \/ q \notin run.todo
  OBVIOUS
<1>. HIDE DEF rest, more
<1>6. /\ run'.pc = "walk" /\ run'.shadow = more /\ run'.todo = rest
      /\ run'.head = run.head /\ run'.ihead = run.ihead
      /\ run'.publish = run.publish
  BY <1>1 DEF Run
<1>7. Quiet' /\ HeadOK' /\ PullOK' /\ DeltaOK' /\ FilesOK'
  BY <1>1, <1>2, <1>6
  DEF CalmParts, Quiet, HeadOK, PullOK, DeltaOK, FilesOK
<1>8. WalkOK'
  BY <1>1, <1>2, <1>4, <1>5, <1>6 DEF CalmParts, WalkOK
<1>9. SnapsOK'
  BY <1>1, <1>2, <1>6 DEF CalmParts, SnapsOK, Clean
<1>10. Mendable'
  BY <1>2 DEF CalmParts, Mendable, Stale, Touched, has, Unbased, is_reachable
<1>. QED
  BY <1>7, <1>8, <1>9, <1>10 DEF CalmParts

LEMMA CalmSwap ==
  ASSUME TypeOK, Calm, CalmParts, SwapShadow
  PROVE  CalmParts'
<1>1. /\ run.pc = "walk" /\ run \in Run
      /\ run.todo = {} /\ index' = run.shadow
  BY DEF SwapShadow, TypeOK
<1>2. UNCHANGED <<scene, head, work, objects, state, snaps, event, hurt>>
  BY DEF SwapShadow, repo
<1>3. /\ run'.pc = "record" /\ run'.head = run.head
      /\ run'.ihead = run.ihead /\ run'.publish = run.publish
  BY <1>1 DEF SwapShadow, Run
<1>4. run.shadow = work
  <2>1. \A p \in Path : run.shadow[p] = work[p]
    BY <1>1 DEF CalmParts, WalkOK
  <2>2. run.shadow \in Worktree /\ work \in Worktree
    BY <1>1 DEF Run, TypeOK
  <2>. QED
    BY <2>1, <2>2 DEF Worktree
<1>5. Quiet' /\ HeadOK' /\ PullOK' /\ DeltaOK' /\ FilesOK' /\ WalkOK'
  BY <1>1, <1>2, <1>3, <1>4
  DEF CalmParts, Quiet, HeadOK, PullOK, DeltaOK, FilesOK, WalkOK
<1>6. SnapsOK'
  BY <1>1, <1>2, <1>3 DEF CalmParts, SnapsOK, Clean
<1>7. Mendable'
  BY <1>1, <1>2, <1>4 DEF Mendable, Stale
<1>. QED
  BY <1>5, <1>6, <1>7 DEF CalmParts

LEMMA CalmRecord ==
  ASSUME TypeOK, Calm, CalmParts, RecordState
  PROVE  CalmParts'
<1>1. /\ run.pc = "record" /\ run \in Run /\ state' = run.ihead
  BY DEF RecordState, TypeOK
<1>2. UNCHANGED <<scene, head, work, objects, index, snaps, event>>
  BY DEF RecordState, repo
<1>3. run.ihead = head /\ index = work
  BY <1>1 DEF CalmParts, DeltaOK, WalkOK
<1>4. \/ run'.pc = "idle" /\ ~run'.publish /\ ~hurt'
      \/ /\ run'.pc = "publish" /\ hurt' = hurt
         /\ run'.head = run.head /\ run'.publish = run.publish /\ run.publish
  BY <1>1 DEF RecordState, Finish, Goto, IdleRun, Run
<1>5. Quiet' /\ HeadOK' /\ PullOK' /\ DeltaOK' /\ FilesOK' /\ WalkOK'
  BY <1>1, <1>2, <1>3, <1>4
  DEF CalmParts, Quiet, HeadOK, PullOK, DeltaOK, FilesOK, WalkOK
<1>6. SnapsOK'
  BY <1>1, <1>2, <1>3, <1>4 DEF CalmParts, SnapsOK, Clean
<1>7. Mendable'
  BY <1>2, <1>3 DEF Mendable, Stale
<1>. QED
  BY <1>5, <1>6, <1>7 DEF CalmParts

(* What goes out under HEAD is the index of HEAD's files. *)
LEMMA CalmPublish ==
  ASSUME TypeOK, Calm, CalmParts, Publish
  PROVE  CalmParts'
<1>1. run.pc = "publish" /\ run'.pc = "idle" /\ ~run'.publish /\ ~hurt'
  BY DEF Publish, Finish, IdleRun
<1>2. UNCHANGED <<scene, head, work, objects, index, state, event>>
  BY DEF Publish, repo
<1>3. /\ run.head = head /\ index = work /\ state = head
      /\ Clean /\ "carry" \notin scene.env
  BY <1>1 DEF CalmParts, HeadOK, WalkOK, SnapsOK, Calm
<1>4. \/ snaps' = snaps
      \/ snaps' = [snaps EXCEPT ![head] = Tree[head]]
  BY <1>3 DEF Publish, Clean
<1>5. Quiet' /\ HeadOK' /\ PullOK' /\ DeltaOK' /\ FilesOK' /\ WalkOK'
  BY <1>1, <1>2, <1>3
  DEF CalmParts, Quiet, HeadOK, PullOK, DeltaOK, FilesOK, WalkOK
<1>6. SnapsOK'
  BY <1>1, <1>2, <1>3, <1>4 DEF CalmParts, SnapsOK, Clean, TypeOK
<1>7. Mendable'
  BY <1>2, <1>3 DEF Mendable, Stale
<1>. QED
  BY <1>5, <1>6, <1>7 DEF CalmParts

-----------------------------------------------------------------------------
LEMMA CalmSame ==
  ASSUME CalmParts, UNCHANGED vars
  PROVE  CalmParts'
BY DEF vars, repo, CalmParts, Quiet, SnapsOK, Mendable, HeadOK, PullOK,
       DeltaOK, FilesOK, WalkOK, Stale, Touched, Pending, Clean, has, Unbased,
       is_reachable

LEMMA CalmNext ==
  ASSUME TypeOK, CalmInv, [Next]_vars
  PROVE  CalmInv'
<1>1. scene' = scene
  BY DEF Next, SyncStep, Developer, Start, SkipBusy, GuardAcquire, Fail, Crash,
         Restart, ReadHead, Decide, VerifySnapshot, LoadSnapshot,
         SetPulledState, IngestHead, IngestDiff, DeletePath, ReingestDrop,
         WalkFile, ReingestInsert, FilesDone, SwapShadow, RecordState, Publish,
         GuardSync, OpenSession, Edit, GitCommit, Checkout, Prune,
         RemotePublish, Worked, vars
<1>2. SUFFICES ASSUME Calm PROVE CalmParts'
  BY <1>1 DEF CalmInv, Calm
<1>3. CalmParts
  BY <1>2 DEF CalmInv <1>4. CASE UNCHANGED vars BY <1>3, <1>4,
              CalmSame <1>5. CASE Developer BY <1>2, <1>3, <1>5, CalmSession,
              CalmEdit, CalmCommit, CalmCheckout, CalmPrune,
              CalmRemote DEF Developer
<1>6. CASE Start \/ Fail \/ Crash \/ Restart
  BY <1>2, <1>3, <1>6, CalmStart, CalmCrash
<1>7. CASE SkipBusy \/ GuardAcquire \/ GuardSync
  BY <1>2, <1>3, <1>7
  DEF SkipBusy, GuardAcquire, GuardSync, CalmParts, Quiet, Calm
<1>8. CASE Decide
  BY <1>2, <1>3, <1>8, CalmNoop, CalmDirty, CalmPull, CalmIngest DEF Decide
<1>9. CASE \/ ReadHead \/ VerifySnapshot \/ LoadSnapshot \/ SetPulledState
           \/ IngestHead \/ IngestDiff
  BY <1>2, <1>3, <1>9, CalmReadHead, CalmLoading, CalmPulled, CalmIngestHead,
     CalmIngestDiff
<1>10. CASE \E p \in Path : DeletePath(p) \/ ReingestDrop(p) \/ WalkFile(p)
  BY <1>2, <1>3, <1>10, CalmDelete, CalmDrop, CalmWalk
<1>11. CASE \/ ReingestInsert \/ FilesDone \/ SwapShadow \/ RecordState
            \/ Publish
  BY <1>2, <1>3, <1>11, CalmInsert, CalmFilesDone, CalmSwap, CalmRecord,
     CalmPublish
<1>. QED
  BY <1>4, <1>5, <1>6, <1>7, <1>8, <1>9, <1>10, <1>11 DEF Next, SyncStep

(* Between syncs, whatever was interrupted, every path whose entry differs *)
(* from its file is one the next sync re-reads, in every calm environment. *)
THEOREM SyncRepairable == Spec => []Repairable
<1>1. TypeOK /\ CalmInv => Repairable
  <2>. SUFFICES ASSUME TypeOK, CalmParts, Calm
                PROVE  \A p \in Path : index[p] # work[p] => p \in WouldTouch
    BY DEF Repairable, CalmInv
  <2>1. \/ WouldTouch = Path
        \/ /\ state = head \/ ~(has(head) \/ Unbased)
           /\ WouldTouch = Touched(state)
    <3>1. CASE state = head
      <4>1. Diff(head, head) = {}
        BY DEF Diff
      <4>. QED
        BY <3>1, <4>1, TouchedIs DEF WouldTouch
    <3>2. CASE state # head /\ (has(head) \/ Unbased)
      BY <3>2 DEF WouldTouch
    <3>3. CASE state # head /\ ~(has(head) \/ Unbased)
      BY <3>3, TouchedIs DEF WouldTouch
    <3>. QED
      BY <3>1, <3>2, <3>3
  <2>. QED
    BY <2>1 DEF CalmParts, Mendable, Stale
<1>. QED
  BY <1>1, InitTyped, NextTyped, CalmInit, CalmNext, PTL DEF Spec

(* The safety half of "always converge": in a calm environment the index   *)
(* describes the worktree whenever no trigger is due, no sync runs and no  *)
(* fault is left to repair.                                                *)
THEOREM SyncSettled ==
  Spec => [](Calm /\ run.pc = "idle" /\ ~event /\ ~hurt
               => state = head /\ index = work)
<1>1. CalmInv => (Calm /\ run.pc = "idle" /\ ~event /\ ~hurt
                    => state = head /\ index = work)
  BY DEF CalmInv, CalmParts, Quiet
<1>. QED
  BY <1>1, InitTyped, NextTyped, CalmInit, CalmNext, PTL DEF Spec

(* In a calm environment what the store has under the SHA of a commit is   *)
(* the index of that commit's files, or of another model or schema, for    *)
(* every number of contributors, publications and crashes.                 *)
THEOREM SyncSnapshotsFaithful == Spec => []SnapshotsFaithful
<1>1. CalmInv => SnapshotsFaithful
  BY DEF CalmInv, CalmParts, SnapsOK, SnapshotsFaithful
<1>. QED
  BY <1>1, InitTyped, NextTyped, CalmInit, CalmNext, PTL DEF Spec
=============================================================================
