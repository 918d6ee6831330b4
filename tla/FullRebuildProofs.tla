------------------------- MODULE FullRebuildProofs -------------------------
(***************************************************************************)
(* What holds of a full rebuild and of the save hooks beside it, for any   *)
(* files, contents, callers, hooks and bounds.                             *)
(***************************************************************************)
EXTENDS FullRebuild, TLAPS

LEMMA StoreTypes ==
  /\ Empty \in Files
  /\ IdleJob \in Job
  /\ \A store \in Store : Ensured(store) \in Files
  /\ \A store \in Files, p \in Path, c \in Content \cup {Absent} :
       /\ Put(store, p, c) \in Files
       /\ Put(store, p, c)[p] = c
       /\ \A q \in Path : q # p => Put(store, p, c)[q] = store[q]
  /\ \A store \in Files, p \in Path \cup {None}, c \in Content \cup {Absent} :
       Put(store, p, c) \in Files
<1>1. Empty \in Files
  BY DEF Empty, Files
<1>2. IdleJob \in Job
  BY <1>1 DEF IdleJob, Job, Labels
<1>3. \A store \in Store : Ensured(store) \in Files
  BY <1>1 DEF Ensured, Store
<1>4. \A store \in Files, p \in Path, c \in Content \cup {Absent} :
        /\ Put(store, p, c) \in Files
        /\ Put(store, p, c)[p] = c
        /\ \A q \in Path : q # p => Put(store, p, c)[q] = store[q]
  BY DEF Put, Files
<1>5. \A store \in Files, p \in Path \cup {None}, c \in Content \cup {Absent} :
        Put(store, p, c) \in Files
  BY DEF Put, Files
<1> QED
  BY <1>1, <1>2, <1>3, <1>4, <1>5

LEMMA InitTypeOK == Init => TypeOK
<1> SUFFICES ASSUME Init PROVE TypeOK
  OBVIOUS
<1>1. \A x \in {"old", "head"} : Tree[x] \in Files
  BY FullRebuildAssumption
<1>2. job \in [Worker -> Job] /\ \A w \in Worker : Len(job[w].queue) = 0
  BY StoreTypes DEF Init, IdleJob
<1>3. hook \in [Hook -> [pc : {"idle", "gdrop", "vdrop", "gput", "vput"},
                         path : Path \cup {None},
                         read : Content \cup {Absent}]]
  BY DEF Init, IdleHook
<1>4. /\ work \in Files
      /\ {vec, vecShadow, graph, graphShadow} \subseteq Store
      /\ state \in {None, "old", "head"}
  BY <1>1 DEF Init, Store
<1> QED
  BY <1>2, <1>3, <1>4, FullRebuildAssumption DEF Init, TypeOK

(* The rebuild of w becomes r. *)
Turns(w, r) == job' = [job EXCEPT ![w] = r]

(* The rebuild of w moves on to some well-formed one. *)
Moves(w) == \E r \in Job : Len(r.queue) <= QueueMax /\ Turns(w, r)

(* A step that leaves the hooks and the files alone keeps the types when   *)
(* what it does to the stores and to one rebuild has them.                 *)
LEMMA JobStepType ==
  ASSUME TypeOK, NEW w \in Worker, Moves(w),
         {vec', vecShadow', graph', graphShadow'} \subseteq Store,
         state' \in {None, "old", "head"},
         work' = work, hook' = hook,
         faults' \in 0 .. MaxFaults, saves' = saves,
         forced' \in 0 .. MaxForced
  PROVE  TypeOK'
<1>1. /\ job' \in [Worker -> Job]
      /\ \A u \in Worker : Len(job'[u].queue) <= QueueMax
  BY DEF TypeOK, Moves, Turns
<1> QED
  BY <1>1 DEF TypeOK

LEMMA QueueTypes ==
  ASSUME TypeOK, NEW w \in Worker
  PROVE  /\ job[w] \in Job /\ job[w].queue \in Seq(Batch)
         /\ Len(job[w].queue) \in 0 .. QueueMax
         /\ QueueMax \in Nat
         /\ job[w].pc \in Labels /\ job[w].todo \subseteq Path
         /\ job[w].points \in Files
         /\ \A i \in 1 .. Len(job[w].queue) : job[w].queue[i] \in Batch
<1>1. job[w] \in Job /\ Len(job[w].queue) <= QueueMax
  BY DEF TypeOK
<1> QED
  BY <1>1, FullRebuildAssumption DEF Job

LEMMA GoneOrGoing ==
  ASSUME TypeOK, NEW w \in Worker,
         GiveUp(w) \/ \E l \in Labels : Goto(w, l)
  PROVE  Moves(w)
<1>0. QueueMax \in Nat /\ job[w] \in Job /\ Len(job[w].queue) <= QueueMax
  BY QueueTypes
<1>1. CASE GiveUp(w)
  <2>1. IdleJob \in Job /\ Len(IdleJob.queue) = 0
    BY StoreTypes DEF IdleJob
  <2>2. Len(IdleJob.queue) <= QueueMax
    BY <1>0, <2>1
  <2>3. Turns(w, IdleJob)
    BY <1>1 DEF GiveUp, Turns
  <2> QED
    BY <2>1, <2>2, <2>3 DEF Moves
<1>2. ASSUME NEW l \in Labels, Goto(w, l) PROVE Moves(w)
  <2> DEFINE r == [job[w] EXCEPT !.pc = l]
  <2>1. Turns(w, r)
    BY <1>2 DEF Goto, Turns, Turns
  <2>2. r \in Job /\ r.queue = job[w].queue
    BY <1>0 DEF Job
  <2> QED
    BY <1>0, <2>1, <2>2 DEF Moves
<1> QED
  BY <1>1, <1>2

LEMMA NextTypeOK == TypeOK /\ [Next]_vars => TypeOK'
<1> SUFFICES ASSUME TypeOK, [Next]_vars PROVE TypeOK'
  OBVIOUS
<1>0. /\ {vec, vecShadow, graph, graphShadow} \subseteq Store
      /\ state \in {None, "old", "head"}
      /\ faults \in 0 .. MaxFaults
      /\ saves \in 0 .. MaxSaves
      /\ forced \in 0 .. MaxForced
      /\ {MaxFaults, MaxSaves, MaxForced} \subseteq Nat
      /\ Missing \in Store /\ Files \subseteq Store
      /\ \A store \in Store : store # Missing => store \in Files
  BY FullRebuildAssumption DEF TypeOK, Store
<1>1. ASSUME NEW w \in Worker, JobStep(w) \/ Begin(w) \/ Abort(w)
             \/ \E i \in 1 .. QueueMax : UploadFails(w, i)
      PROVE  TypeOK'
  <2> DEFINE j == job[w]
  <2>0. j \in Job /\ Len(j.queue) \in 0 .. QueueMax /\ j.queue \in Seq(Batch)
        /\ QueueMax \in Nat
    BY QueueTypes
  <2>a. GiveUp(w) \/ (\E l \in Labels : Goto(w, l)) => Moves(w)
    BY GoneOrGoing
  <2>b. ASSUME NEW r \in Job, Len(r.queue) <= QueueMax,
               Turns(w, r)
        PROVE  Moves(w)
    BY <2>b DEF Moves
  <2>c. UNCHANGED <<work, hook, saves>>
    BY <1>1
       DEF JobStep, Begin, MakeShadows, ClearState, Walk, UpsertLive, Upload,
           UploadFails, AwaitOne, Walked, Scroll, DeleteLive, CreateLive,
           DropVecShadow, DeleteGraph, CopyGraph, DropGraphShadow, Record,
           Abort, stores, bounds
  <2>d. faults' \in 0 .. MaxFaults
    <3>1. faults' = faults \/ (faults < MaxFaults /\ faults' = faults + 1)
      BY <1>1
         DEF JobStep, Begin, MakeShadows, ClearState, Walk, UpsertLive, Upload,
             UploadFails, AwaitOne, Walked, Scroll, DeleteLive, CreateLive,
             DropVecShadow, DeleteGraph, CopyGraph, DropGraphShadow, Record,
             Abort, stores, bounds
    <3> QED
      BY <1>0, <3>1
  <2>e. forced' \in 0 .. MaxForced
    <3>1. forced' = forced \/ (forced < MaxForced /\ forced' = forced + 1)
      BY <1>1
         DEF JobStep, Begin, MakeShadows, ClearState, Walk, UpsertLive, Upload,
             UploadFails, AwaitOne, Walked, Scroll, DeleteLive, CreateLive,
             DropVecShadow, DeleteGraph, CopyGraph, DropGraphShadow, Record,
             Abort, stores, bounds
    <3> QED
      BY <1>0, <3>1
  <2> SUFFICES /\ Moves(w)
               /\ {vec', vecShadow', graph', graphShadow'} \subseteq Store
               /\ state' \in {None, "old", "head"}
    BY <2>c, <2>d, <2>e, JobStepType
  <2>1. CASE Begin(w)
    <3> DEFINE r == [IdleJob EXCEPT !.pc = "shadows"]
    <3>1. r \in Job /\ Len(r.queue) = 0
      BY StoreTypes DEF IdleJob, Job, Labels
    <3>2. Turns(w, r)
      BY <2>1 DEF Begin, Turns
    <3> HIDE DEF r
    <3>3. Moves(w)
      BY <2>0, <2>b, <3>1, <3>2
    <3>4. {vec', graph'} \subseteq Store
      BY <1>0, <2>1, StoreTypes DEF Begin
    <3> QED
      BY <1>0, <2>1, <3>3, <3>4 DEF Begin
  <2>2. CASE MakeShadows(w)
    BY <1>0, <2>a, <2>2, StoreTypes DEF MakeShadows, Labels
  <2>3. CASE ClearState(w)
    <3> DEFINE r == [j EXCEPT !.pc = "walk", !.todo = Path]
    <3>1. r \in Job /\ r.queue = j.queue
      BY <2>0 DEF Job, Labels
    <3>2. Turns(w, r)
      BY <2>3 DEF ClearState, Turns
    <3> HIDE DEF r
    <3>3. Moves(w)
      BY <2>0, <2>b, <3>1, <3>2
    <3> QED
      BY <1>0, <2>3, <3>3 DEF ClearState, stores
  <2>4. CASE \E p \in Path : Walk(w, p)
    <3>1. PICK p \in Path : Walk(w, p)
      BY <2>4
    <3>2. CASE work[p] = Absent
      <4> DEFINE r == [j EXCEPT !.todo = @ \ {p}]
      <4>1. Turns(w, r) /\ graphShadow' = graphShadow
        BY <3>1, <3>2 DEF Walk, Turns
      <4>2. r \in Job /\ r.queue = j.queue
        BY <2>0 DEF Job
      <4> HIDE DEF r
      <4>3. Moves(w)
        BY <2>0, <2>b, <4>1, <4>2
      <4> QED
        BY <1>0, <3>1, <4>1, <4>3 DEF Walk
    <3>3. CASE work[p] # Absent
      <4> DEFINE b == [path |-> p, read |-> work[p], status |-> "waiting"]
                 r == [j EXCEPT !.todo = @ \ {p}, !.queue = Append(@, b)]
      <4>1. work[p] \in Content /\ b \in Batch
        BY <3>3 DEF TypeOK, Files, Batch
      <4>2. Turns(w, r) /\ Len(j.queue) < QueueMax
            /\ graphShadow' = Put(Ensured(graphShadow), p, work[p])
        BY <3>1, <3>3 DEF Walk, Turns
      <4> HIDE DEF b
      <4>7. Append(j.queue, b) \in Seq(Batch)
        BY <2>0, <4>1
      <4>3. r \in Job /\ r.queue = Append(j.queue, b)
        BY <2>0, <4>7 DEF Job
      <4>4. graphShadow' \in Store
        BY <1>0, <4>1, <4>2, StoreTypes
      <4>5. Len(r.queue) <= QueueMax
        BY <2>0, <4>1, <4>2, <4>3
      <4> HIDE DEF r
      <4>6. Moves(w)
        BY <2>b, <4>2, <4>3, <4>5
      <4> QED
        BY <1>0, <3>1, <4>4, <4>6 DEF Walk
    <3> QED
      BY <3>2, <3>3
  <2>5. ASSUME NEW i \in 1 .. QueueMax, NEW label \in {"done", "failed"},
               i \in Uploading(w),
               job' = [job EXCEPT ![w].queue[i].status = label]
        PROVE  Moves(w) /\ j.queue[i] \in Batch
    <3> DEFINE b == [j.queue[i] EXCEPT !.status = label]
               q == [j.queue EXCEPT ![i] = b]
               r == [j EXCEPT !.queue = q]
    <3>1. i \in 1 .. Len(j.queue) /\ j.queue[i] \in Batch
      BY <2>5, QueueTypes DEF Uploading
    <3>2. b \in Batch
      BY <3>1 DEF Batch
    <3>3. q \in Seq(Batch) /\ Len(q) = Len(j.queue)
      BY <2>0, <3>1, <3>2
    <3>4. r \in Job /\ r.queue = q
      BY <2>0, <3>3 DEF Job
    <3>5. Turns(w, r)
      BY <2>5 DEF Turns
    <3> HIDE DEF r
    <3>6. Moves(w)
      BY <2>0, <2>b, <3>3, <3>4, <3>5
    <3> QED
      BY <3>1, <3>6
  <2>6. CASE \E i \in 1 .. QueueMax : Upload(w, i)
    <3>1. PICK i \in 1 .. QueueMax : Upload(w, i)
      BY <2>6
    <3>2. Moves(w) /\ j.queue[i] \in Batch
      BY <2>5, <3>1 DEF Upload
    <3>3. vecShadow' \in Store
      BY <1>0, <3>1, <3>2, StoreTypes DEF Upload, Batch
    <3> QED
      BY <1>0, <3>1, <3>2, <3>3 DEF Upload
  <2>7. CASE \E i \in 1 .. QueueMax : UploadFails(w, i)
    <3>1. PICK i \in 1 .. QueueMax : UploadFails(w, i)
      BY <2>7
    <3>2. Moves(w)
      BY <2>5, <3>1 DEF UploadFails
    <3> QED
      BY <1>0, <3>1, <3>2 DEF UploadFails, stores
  <2>8. CASE AwaitOne(w)
    <3> DEFINE r == [j EXCEPT !.queue = Tail(@)]
    <3>1. Turns(w, r) \/ GiveUp(w)
      BY <2>8 DEF AwaitOne, Turns
    <3>2. Tail(j.queue) \in Seq(Batch) /\ Len(Tail(j.queue)) <= QueueMax
      BY <2>0, <2>8 DEF AwaitOne
    <3>3. r \in Job /\ r.queue = Tail(j.queue)
      BY <2>0, <3>2 DEF Job
    <3> HIDE DEF r
    <3>4. Moves(w)
      BY <2>a, <2>b, <3>1, <3>2, <3>3
    <3> QED
      BY <1>0, <2>8, <3>4 DEF AwaitOne, stores
  <2>9. CASE Walked(w)
    BY <1>0, <2>a, <2>9 DEF Walked, stores, Labels
  <2>10. CASE Scroll(w)
    <3> DEFINE r == [j EXCEPT !.pc = "delete", !.points = vecShadow]
    <3>1. CASE vecShadow = Missing
      BY <1>0, <2>a, <2>10, <3>1 DEF Scroll, stores
    <3>2. CASE vecShadow # Missing
      <4>1. Turns(w, r)
        BY <2>10, <3>2 DEF Scroll, Turns
      <4>2. r \in Job /\ r.queue = j.queue
        BY <1>0, <2>0, <3>2 DEF Job, Labels
      <4> HIDE DEF r
      <4>3. Moves(w)
        BY <2>0, <2>b, <4>1, <4>2
      <4> QED
        BY <1>0, <2>10, <4>3 DEF Scroll, stores
    <3> QED
      BY <3>1, <3>2
  <2>11. CASE DeleteLive(w)
    BY <1>0, <2>a, <2>11 DEF DeleteLive, Labels
  <2>12. CASE CreateLive(w)
    <3> DEFINE r == [j EXCEPT !.pc = "upsert", !.todo = Path]
    <3>1. CASE vec = Missing
      <4>1. Turns(w, r) /\ vec' = Empty
        BY <2>12, <3>1 DEF CreateLive, Turns
      <4>2. r \in Job /\ r.queue = j.queue
        BY <2>0 DEF Job, Labels
      <4> HIDE DEF r
      <4>3. Moves(w)
        BY <2>0, <2>b, <4>1, <4>2
      <4> QED
        BY <1>0, <2>12, <4>1, <4>3, StoreTypes DEF CreateLive
    <3>2. CASE vec # Missing
      BY <1>0, <2>a, <2>12, <3>2 DEF CreateLive
    <3> QED
      BY <3>1, <3>2
  <2>13. CASE \E p \in Path : UpsertLive(w, p)
    <3>1. PICK p \in Path : UpsertLive(w, p)
      BY <2>13
    <3> DEFINE label == IF job[w].todo = {p} THEN "dropVec" ELSE job[w].pc
               r == [j EXCEPT !.todo = @ \ {p}, !.pc = label]
    <3>2. CASE vec = Missing
      BY <1>0, <2>a, <3>1, <3>2 DEF UpsertLive
    <3>3. CASE vec # Missing
      <4>1. Turns(w, r)
        BY <3>1, <3>3 DEF UpsertLive, Turns
      <4>2. r \in Job /\ r.queue = j.queue
        BY <2>0 DEF Job, Labels
      <4>3. j.points \in Files /\ j.points[p] \in Content \cup {Absent}
        BY <2>0 DEF Job, Files
      <4>4. vec' \in Store
        BY <1>0, <3>1, <3>3, <4>3, StoreTypes DEF UpsertLive
      <4> HIDE DEF r
      <4>5. Moves(w)
        BY <2>0, <2>b, <4>1, <4>2
      <4> QED
        BY <1>0, <3>1, <4>4, <4>5 DEF UpsertLive
    <3> QED
      BY <3>2, <3>3
  <2>14. CASE DropVecShadow(w)
    BY <1>0, <2>a, <2>14 DEF DropVecShadow, Labels
  <2>15. CASE DeleteGraph(w)
    BY <1>0, <2>a, <2>15 DEF DeleteGraph, Labels
  <2>16. CASE CopyGraph(w)
    BY <1>0, <2>a, <2>16 DEF CopyGraph, Labels
  <2>17. CASE DropGraphShadow(w)
    BY <1>0, <2>a, <2>17 DEF DropGraphShadow, Labels
  <2>18. CASE Record(w)
    BY <1>0, <2>a, <2>18 DEF Record, stores
  <2>19. CASE Abort(w)
    BY <1>0, <2>a, <2>19 DEF Abort, stores
  <2> QED
    BY <1>1, <2>1, <2>2, <2>3, <2>4, <2>6, <2>7, <2>8, <2>9, <2>10, <2>11,
       <2>12, <2>13, <2>14, <2>15, <2>16, <2>17, <2>18, <2>19 DEF JobStep
<1>2. ASSUME NEW h \in Hook,
             HookStep(h) \/ HookFails(h)
             \/ \E p \in Path, c \in Content : Save(h, p, c)
      PROVE  TypeOK'
  <2> DEFINE Hooks == [pc : {"idle", "gdrop", "vdrop", "gput", "vput"},
                       path : Path \cup {None}, read : Content \cup {Absent}]
  <2>0. hook \in [Hook -> Hooks] /\ IdleHook \in Hooks
    BY DEF TypeOK, IdleHook
  <2>1. UNCHANGED <<vecShadow, graphShadow, state, job, forced>>
    BY <1>2 DEF HookStep, HookGraphDrop, HookVecDrop, HookGraphPut,
                HookVecPut, HookFails, Save, bounds, stores
  <2>2. work' \in Files /\ saves' \in 0 .. MaxSaves
        /\ faults' \in 0 .. MaxFaults
    BY <1>0, <1>2, StoreTypes
       DEF HookStep, HookGraphDrop, HookVecDrop, HookGraphPut, HookVecPut,
           HookFails, Save, bounds, stores, TypeOK
  <2>3. hook' \in [Hook -> Hooks]
    BY <1>2, <2>0
       DEF HookStep, HookGraphDrop, HookVecDrop, HookGraphPut, HookVecPut,
           HookFails, Save, Tell, HookDies
  <2>4. {vec', graph'} \subseteq Store
    <3> USE <1>0, <2>0, StoreTypes
    <3>1. CASE \E p \in Path, c \in Content : Save(h, p, c)
      BY <3>1 DEF Save
    <3>2. CASE HookFails(h)
      BY <3>2 DEF HookFails, stores
    <3>3. CASE HookStep(h)
      <4>1. /\ hook[h].path \in Path \cup {None}
            /\ hook[h].read \in Content \cup {Absent}
        BY <2>0
      <4>2. /\ vec' \in {vec, Put(vec, hook[h].path, Absent),
                           Put(vec, hook[h].path, hook[h].read)}
            /\ vec' # vec => vec # Missing
        BY <3>3 DEF HookStep, HookGraphDrop, HookVecDrop, HookGraphPut,
                    HookVecPut
      <4>3. graph' \in {graph, Put(Ensured(graph), hook[h].path, Absent),
                         Put(Ensured(graph), hook[h].path, hook[h].read)}
        BY <3>3 DEF HookStep, HookGraphDrop, HookVecDrop, HookGraphPut,
                    HookVecPut
      <4>4. Ensured(graph) \in Files
        OBVIOUS
      <4>5. ASSUME NEW store \in Files, NEW c \in Content \cup {Absent}
            PROVE  Put(store, hook[h].path, c) \in Store
        BY <4>1, <4>5
      <4>6. Absent \in Content \cup {Absent}
        OBVIOUS
      <4>7. graph' \in Store
        BY <4>1, <4>3, <4>4, <4>5, <4>6
      <4>8. vec' \in Store
        BY <4>1, <4>2, <4>5, <4>6
      <4> QED
        BY <4>7, <4>8
    <3> QED
      BY <1>2, <3>1, <3>2, <3>3
  <2> QED
    BY <2>1, <2>2, <2>3, <2>4 DEF TypeOK
<1>3. CASE UNCHANGED vars
  BY <1>3 DEF vars, stores, bounds, TypeOK
<1> QED
  BY <1>1, <1>2, <1>3 DEF Next

(* Every reachable state has the types: the stores are missing or map each *)
(* file to a content, a rebuild's queue never exceeds QueueMax.            *)
THEOREM FullRebuildTypeCorrect == Spec => []TypeOK
<1> QED
  BY InitTypeOK, NextTypeOK, PTL DEF Spec

-----------------------------------------------------------------------------
(* The upload pool.  A batch in the queue belongs to a file that has been  *)
(* walked; what it read is in the shadow graph and, once it is done, in    *)
(* the shadow collection.  Only files with a batch in the queue may still  *)
(* differ between the two shadows.                                         *)

OneJob ==
  \A u, w \in Worker : ~At(u, "idle") /\ ~At(w, "idle") => u = w

BatchOK(w, b) ==
  /\ b.path \notin job[w].todo
  /\ graphShadow[b.path] = b.read
  /\ b.status = "done" => vecShadow[b.path] = b.read

Pooled(w) ==
  LET q == job[w].queue
  IN  /\ vecShadow # Missing /\ graphShadow # Missing
      /\ \A i \in 1 .. Len(q) : BatchOK(w, q[i])
      /\ \A p \in Path : \/ vecShadow[p] = graphShadow[p]
                         \/ \E i \in 1 .. Len(q) : q[i].path = p

ShadowOK(w) ==
  /\ At(w, "clear") => vecShadow = Empty /\ graphShadow = Empty
  /\ At(w, "walk") => Pooled(w)
  /\ ~At(w, "walk") => job[w].queue = <<>>
  /\ At(w, "scroll") => vecShadow # Missing /\ vecShadow = graphShadow

PoolInv == OneJob /\ \A w \in Worker : ShadowOK(w)

-----------------------------------------------------------------------------
(* The swap.  A file is clean while it has its committed content: no hook  *)
(* has touched it, nor will one that is under way.                         *)

Clean(p) == work[p] = Tree["head"][p]

Holds(store) ==
  store # Missing /\ \A p \in Path : Clean(p) => store[p] = work[p]

Swapping == {"scroll", "delete", "create", "upsert", "dropVec",
             "deleteGraph", "copyGraph", "dropGraph", "record"}

SwapOK(w) ==
  LET j == job[w]
  IN  /\ j.pc \in {"walk"} \cup Swapping => state = None
      /\ j.pc = "walk" => \A p \in Path :
           /\ p \in j.todo => graphShadow[p] = Absent
           /\ p \notin j.todo /\ Clean(p) => graphShadow[p] = work[p]
      /\ j.pc \in Swapping \ {"dropGraph", "record"} => Holds(graphShadow)
      /\ j.pc \in {"delete", "create", "upsert"} => Holds(j.points)
      /\ j.pc = "upsert" =>
           /\ vec # Missing
           /\ \A p \in Path : Clean(p) =>
                vec[p] = IF p \in j.todo THEN Absent ELSE work[p]
      /\ j.pc \in {"dropVec", "deleteGraph", "copyGraph", "dropGraph",
                   "record"} => Holds(vec)
      /\ j.pc \in {"dropGraph", "record"} => Holds(graph)

SwapInv ==
  /\ \A h \in Hook : hook[h].pc # "idle" =>
       hook[h].path \in Path /\ ~Clean(hook[h].path)
  /\ state = "head" => Holds(vec) /\ Holds(graph)
  /\ \A w \in Worker : SwapOK(w)

-----------------------------------------------------------------------------
(* A step of one rebuild, the calls that fail included. *)
WorkerStep(w) ==
  \/ JobStep(w) \/ Abort(w)
  \/ \E i \in 1 .. QueueMax : UploadFails(w, i)

(* While a rebuild holds the slot and steps, the others are idle. *)
LEMMA OthersIdle ==
  ASSUME TypeOK, PoolInv, NEW w \in Worker, WorkerStep(w)
  PROVE  /\ ~At(w, "idle")
         /\ UNCHANGED <<work, hook>>
         /\ \A u \in Worker : u # w =>
              /\ job'[u] = job[u] /\ At(u, "idle") /\ job[u].queue = <<>>
<1>1. ~At(w, "idle")
  <2>1. CASE job[w].queue # <<>>
    BY <2>1 DEF PoolInv, ShadowOK, At
  <2>2. CASE job[w].queue = <<>>
    <3>1. ~\E i \in 1 .. QueueMax : i \in Uploading(w)
      BY <2>2 DEF Uploading
    <3> QED
      BY <2>2, <3>1
         DEF WorkerStep, JobStep, MakeShadows, ClearState, Walk, UpsertLive,
             Upload, UploadFails, AwaitOne, Walked, Scroll, DeleteLive,
             CreateLive, DropVecShadow, DeleteGraph, CopyGraph,
             DropGraphShadow, Record, Abort, At
  <2> QED
    BY <2>1, <2>2
<1>2. \A u \in Worker : u # w => job'[u] = job[u]
  BY DEF WorkerStep, JobStep, MakeShadows, ClearState, Walk, UpsertLive,
         Upload, UploadFails, AwaitOne, Walked, Scroll, DeleteLive,
         CreateLive, DropVecShadow, DeleteGraph, CopyGraph,
         DropGraphShadow, Record, Abort, Goto, GiveUp, TypeOK
<1>3. UNCHANGED <<work, hook>>
  BY DEF WorkerStep, JobStep, MakeShadows, ClearState, Walk, UpsertLive,
         Upload, UploadFails, AwaitOne, Walked, Scroll, DeleteLive,
         CreateLive, DropVecShadow, DeleteGraph, CopyGraph,
         DropGraphShadow, Record, Abort, stores, bounds
<1>4. \A u \in Worker : u # w => At(u, "idle")
  BY <1>1 DEF PoolInv, OneJob
<1> QED
  BY <1>1, <1>2, <1>3, <1>4 DEF PoolInv, ShadowOK, At

(* So only what the step does to its own rebuild is to be looked at. *)
LEMMA PoolInvOwn ==
  ASSUME TypeOK, PoolInv, NEW w \in Worker, WorkerStep(w), ShadowOK(w)'
  PROVE  PoolInv'
<1>1. \A u \in Worker : u # w => At(u, "idle")' /\ job'[u].queue = <<>>
  BY OthersIdle DEF At
<1>2. OneJob'
  BY <1>1 DEF OneJob
<1>3. \A u \in Worker : u # w => ShadowOK(u)'
  BY <1>1 DEF ShadowOK, At
<1> QED
  BY <1>2, <1>3 DEF PoolInv

LEMMA GoneOK ==
  ASSUME TypeOK, NEW w \in Worker, GiveUp(w)
  PROVE  ShadowOK(w)'
<1>1. job'[w] = IdleJob
  BY DEF GiveUp, TypeOK
<1> QED
  BY <1>1 DEF ShadowOK, At, IdleJob

(* A pool thread finishes a batch. *)
LEMMA UploadPooled ==
  ASSUME TypeOK, NEW w \in Worker, At(w, "walk"), Pooled(w),
         NEW i \in 1 .. QueueMax, Upload(w, i)
  PROVE  At(w, "walk")' /\ Pooled(w)'
<1> DEFINE q == job[w].queue
           b == q[i]
<1>1. /\ i \in 1 .. Len(q) /\ b \in Batch /\ q \in Seq(Batch)
      /\ \A k \in 1 .. Len(q) : q[k] \in Batch
  BY QueueTypes DEF Upload, Uploading
<1>2. /\ job'[w].pc = "walk" /\ job'[w].todo = job[w].todo
      /\ job'[w].queue = [q EXCEPT ![i].status = "done"]
  BY QueueTypes DEF Upload, TypeOK, Job, At
<1>3. /\ Len(job'[w].queue) = Len(q)
      /\ \A k \in 1 .. Len(q) : /\ job'[w].queue[k].path = q[k].path
                                /\ job'[w].queue[k].read = q[k].read
                                /\ k # i => job'[w].queue[k] = q[k]
  BY <1>1, <1>2 DEF Batch
<1>4. vecShadow \in Files /\ b.path \in Path /\ b.read \in Content
  BY <1>1 DEF Upload, TypeOK, Store, Batch
<1>5. /\ vecShadow' \in Files
      /\ vecShadow'[b.path] = b.read
      /\ \A p \in Path : p # b.path => vecShadow'[p] = vecShadow[p]
      /\ graphShadow' = graphShadow
  BY <1>4, StoreTypes DEF Upload
<1>6. \A k \in 1 .. Len(q) : BatchOK(w, q[k])
  BY DEF Pooled
<1>7. ASSUME NEW k \in 1 .. Len(q) PROVE BatchOK(w, job[w].queue[k])'
  BY <1>1, <1>2, <1>3, <1>5, <1>6 DEF BatchOK, Batch
<1>8. ASSUME NEW p \in Path
      PROVE  \/ vecShadow'[p] = graphShadow'[p]
             \/ \E k \in 1 .. Len(q) : job'[w].queue[k].path = p
  BY <1>1, <1>3, <1>5 DEF Pooled
<1>9. vecShadow' # Missing /\ graphShadow' # Missing
  BY <1>5, FullRebuildAssumption DEF Pooled
<1> QED
  BY <1>2, <1>3, <1>7, <1>8, <1>9 DEF Pooled, At

LEMMA UploadFailsPooled ==
  ASSUME TypeOK, NEW w \in Worker, At(w, "walk"), Pooled(w),
         NEW i \in 1 .. QueueMax, UploadFails(w, i)
  PROVE  At(w, "walk")' /\ Pooled(w)'
<1> DEFINE q == job[w].queue
<1>1. /\ i \in 1 .. Len(q) /\ q \in Seq(Batch)
      /\ \A k \in 1 .. Len(q) : q[k] \in Batch
  BY QueueTypes DEF UploadFails, Uploading
<1>2. /\ job'[w].pc = "walk" /\ job'[w].todo = job[w].todo
      /\ job'[w].queue = [q EXCEPT ![i].status = "failed"]
      /\ UNCHANGED <<vecShadow, graphShadow>>
  BY QueueTypes DEF UploadFails, TypeOK, Job, At, stores
<1>3. /\ Len(job'[w].queue) = Len(q)
      /\ \A k \in 1 .. Len(q) : /\ job'[w].queue[k].path = q[k].path
                                /\ job'[w].queue[k].read = q[k].read
                                /\ \/ job'[w].queue[k] = q[k]
                                   \/ job'[w].queue[k].status = "failed"
  BY <1>1, <1>2 DEF Batch
<1>4. \A k \in 1 .. Len(q) : BatchOK(w, job[w].queue[k])'
  BY <1>2, <1>3 DEF Pooled, BatchOK
<1> QED
  BY <1>2, <1>3, <1>4 DEF Pooled, At

(* A file is walked. *)
LEMMA WalkPooled ==
  ASSUME TypeOK, NEW w \in Worker, At(w, "walk"), Pooled(w),
         NEW p \in Path, Walk(w, p)
  PROVE  At(w, "walk")' /\ Pooled(w)'
<1> DEFINE q == job[w].queue
<1>1. /\ q \in Seq(Batch) /\ vecShadow' = vecShadow
      /\ \A k \in 1 .. Len(q) : q[k] \in Batch /\ BatchOK(w, q[k])
  BY QueueTypes DEF Walk, Pooled
<1>2. CASE work[p] = Absent
  <2>1. /\ job'[w].pc = "walk" /\ job'[w].todo = job[w].todo \ {p}
        /\ job'[w].queue = q /\ graphShadow' = graphShadow
    BY <1>2, QueueTypes DEF Walk, TypeOK, Job, At
  <2>2. \A k \in 1 .. Len(q) : BatchOK(w, job[w].queue[k])'
    BY <1>1, <2>1 DEF BatchOK
  <2> QED
    BY <1>1, <2>1, <2>2 DEF Pooled, At
<1>3. CASE work[p] # Absent
  <2> DEFINE b == [path |-> p, read |-> work[p], status |-> "waiting"]
  <2>1. b \in Batch /\ work[p] \in Content
    BY <1>3 DEF Batch, TypeOK, Files
  <2>2. /\ job'[w].pc = "walk" /\ job'[w].todo = job[w].todo \ {p}
        /\ job'[w].queue = Append(q, b)
        /\ p \in job[w].todo
    BY <1>3, QueueTypes DEF Walk, TypeOK, Job, At
  <2>3. /\ b.path = p /\ b.read = work[p] /\ b.status = "waiting"
    OBVIOUS
  <2> HIDE DEF b
  <2>4. /\ Len(job'[w].queue) = Len(q) + 1
        /\ job'[w].queue[Len(q) + 1] = b
        /\ \A k \in 1 .. Len(q) : job'[w].queue[k] = q[k]
    BY <1>1, <2>1, <2>2
  <2>5. /\ graphShadow \in Files /\ Ensured(graphShadow) = graphShadow
        /\ graphShadow' = Put(graphShadow, p, work[p])
    BY <1>3 DEF Walk, Pooled, TypeOK, Store, Ensured
  <2>6. /\ graphShadow' \in Files /\ graphShadow'[p] = work[p]
        /\ \A x \in Path : x # p => graphShadow'[x] = graphShadow[x]
    BY <2>1, <2>5, StoreTypes
  <2>7. ASSUME NEW k \in 1 .. Len(q) + 1
        PROVE  BatchOK(w, job[w].queue[k])'
    <3>1. CASE k = Len(q) + 1
      BY <2>2, <2>3, <2>4, <2>6, <3>1 DEF BatchOK
    <3>2. CASE k # Len(q) + 1
      <4>1. k \in 1 .. Len(q)
        BY <1>1, <3>2
      <4>2. q[k].path \in Path /\ q[k].path # p
        BY <1>1, <2>2, <4>1 DEF BatchOK, Batch
      <4> QED
        BY <1>1, <2>2, <2>4, <2>6, <4>1, <4>2 DEF BatchOK
    <3> QED
      BY <3>1, <3>2
  <2>8. ASSUME NEW x \in Path
        PROVE  \/ vecShadow'[x] = graphShadow'[x]
               \/ \E k \in 1 .. Len(q) + 1 : job'[w].queue[k].path = x
    <3>1. CASE x = p
      BY <1>1, <2>3, <2>4, <3>1
    <3>2. CASE x # p
      <4>1. CASE vecShadow[x] = graphShadow[x]
        BY <1>1, <2>6, <3>2, <4>1
      <4>2. CASE \E k \in 1 .. Len(q) : q[k].path = x
        BY <1>1, <2>4, <4>2
      <4> QED
        BY <4>1, <4>2 DEF Pooled
    <3> QED
      BY <3>1, <3>2
  <2>9. vecShadow' # Missing /\ graphShadow' # Missing
    BY <1>1, <2>6, FullRebuildAssumption DEF Pooled
  <2> QED
    BY <2>2, <2>4, <2>7, <2>8, <2>9 DEF Pooled, At
<1> QED
  BY <1>2, <1>3

(* The oldest batch is waited for. *)
LEMMA AwaitPooled ==
  ASSUME TypeOK, NEW w \in Worker, At(w, "walk"), Pooled(w),
         job[w].queue # <<>>, Head(job[w].queue).status = "done",
         job' = [job EXCEPT ![w].queue = Tail(@)],
         UNCHANGED <<vecShadow, graphShadow>>
  PROVE  At(w, "walk")' /\ Pooled(w)'
<1> DEFINE q == job[w].queue
<1>1. /\ job'[w].pc = "walk" /\ job'[w].todo = job[w].todo
      /\ job'[w].queue = Tail(q)
  BY QueueTypes DEF TypeOK, Job, At
<1>2. /\ q \in Seq(Batch) /\ Len(q) \in Nat /\ Len(q) > 0
      /\ q[1].status = "done"
      /\ \A k \in 1 .. Len(q) : BatchOK(w, q[k])
  BY QueueTypes DEF Pooled
<1>3. /\ Len(Tail(q)) = Len(q) - 1
      /\ \A k \in 1 .. Len(q) - 1 : Tail(q)[k] = q[k + 1]
  BY <1>2
<1>4. \A k \in 1 .. Len(q) - 1 : BatchOK(w, job[w].queue[k])'
  BY <1>1, <1>2, <1>3 DEF BatchOK
<1>5. vecShadow[q[1].path] = graphShadow[q[1].path]
  BY <1>2 DEF BatchOK
<1>6. ASSUME NEW p \in Path
      PROVE  \/ vecShadow'[p] = graphShadow'[p]
             \/ \E k \in 1 .. Len(Tail(q)) : Tail(q)[k].path = p
  <2>1. CASE \E k \in 1 .. Len(q) : k # 1 /\ q[k].path = p
    <3>1. PICK k \in 1 .. Len(q) : k # 1 /\ q[k].path = p
      BY <2>1
    <3>2. k - 1 \in 1 .. Len(q) - 1 /\ Tail(q)[k - 1] = q[k]
      BY <1>2, <1>3, <3>1
    <3> QED
      BY <1>3, <3>1, <3>2
  <2>2. CASE ~\E k \in 1 .. Len(q) : k # 1 /\ q[k].path = p
    BY <1>5, <2>2 DEF Pooled
  <2> QED
    BY <2>1, <2>2
<1> QED
  BY <1>1, <1>3, <1>4, <1>6 DEF Pooled, At

LEMMA PoolStep ==
  ASSUME TypeOK, PoolInv, NEW w \in Worker, WorkerStep(w)
  PROVE  PoolInv'
<1>0. /\ ShadowOK(w) /\ job[w] \in Job /\ job[w].queue \in Seq(Batch)
      /\ Empty # Missing
  BY QueueTypes, StoreTypes, FullRebuildAssumption DEF PoolInv
<1> SUFFICES ShadowOK(w)'
  BY PoolInvOwn
<1>1. ASSUME At(w, "walk")', Pooled(w)' PROVE ShadowOK(w)'
  BY <1>1 DEF ShadowOK, At
<1>2. ASSUME NEW l \in Labels \ {"walk", "scroll", "clear"},
             ~At(w, "walk"), Goto(w, l)
      PROVE  ShadowOK(w)'
  BY <1>0, <1>2 DEF ShadowOK, At, Goto, TypeOK, Job
<1>3. GiveUp(w) => ShadowOK(w)'
  BY GoneOK
<1>4. ASSUME job[w].queue # <<>> PROVE At(w, "walk") /\ Pooled(w)
  BY <1>0, <1>4 DEF ShadowOK
<1>5. CASE MakeShadows(w)
  BY <1>0, <1>5 DEF MakeShadows, Goto, ShadowOK, At, TypeOK, Job
<1>6. CASE ClearState(w)
  <2>1. /\ job'[w].pc = "walk" /\ job'[w].queue = <<>>
        /\ vecShadow' = Empty /\ graphShadow' = Empty
    BY <1>0, <1>6 DEF ClearState, ShadowOK, At, TypeOK, Job, stores
  <2> QED
    BY <1>0, <1>1, <2>1 DEF Pooled, At
<1>7. CASE \E p \in Path : Walk(w, p)
  BY <1>0, <1>1, <1>7, WalkPooled DEF Walk, ShadowOK
<1>8. ASSUME NEW i \in 1 .. QueueMax, i \in Uploading(w)
      PROVE  At(w, "walk") /\ Pooled(w)
  BY <1>0, <1>4, <1>8 DEF Uploading
<1>9. CASE \E i \in 1 .. QueueMax : Upload(w, i)
  BY <1>1, <1>8, <1>9, UploadPooled DEF Upload
<1>10. CASE \E i \in 1 .. QueueMax : UploadFails(w, i)
  BY <1>1, <1>8, <1>10, UploadFailsPooled DEF UploadFails
<1>11. CASE AwaitOne(w)
  BY <1>1, <1>3, <1>4, <1>11, AwaitPooled DEF AwaitOne, stores
<1>12. CASE Walked(w)
  <2>1. job[w].queue = <<>> /\ Pooled(w)
    BY <1>0, <1>12 DEF Walked, ShadowOK
  <2>2. vecShadow \in Files /\ graphShadow \in Files
    BY <2>1 DEF Pooled, TypeOK, Store
  <2>3. vecShadow = graphShadow
    BY <2>1, <2>2 DEF Pooled, Files
  <2>4. job'[w].pc = "scroll" /\ job'[w].queue = <<>>
        /\ UNCHANGED <<vecShadow, graphShadow>>
    BY <1>0, <1>12, <2>1 DEF Walked, Goto, TypeOK, Job, stores
  <2> QED
    BY <2>1, <2>3, <2>4 DEF ShadowOK, Pooled, At
<1>13. CASE Scroll(w)
  <2>1. CASE vecShadow = Missing
    BY <1>3, <1>13, <2>1 DEF Scroll
  <2>2. CASE vecShadow # Missing
    <3>1. job'[w].pc = "delete" /\ job'[w].queue = job[w].queue
      BY <1>0, <1>13, <2>2 DEF Scroll, TypeOK, Job
    <3>2. job[w].queue = <<>>
      BY <1>0, <1>13 DEF Scroll, ShadowOK, At
    <3> QED
      BY <3>1, <3>2 DEF ShadowOK, At
  <2> QED
    BY <2>1, <2>2
<1>14. CASE CreateLive(w)
  <2>1. CASE vec = Missing
    <3>1. job'[w].pc = "upsert" /\ job'[w].queue = job[w].queue
      BY <1>0, <1>14, <2>1 DEF CreateLive, TypeOK, Job
    <3>2. job[w].queue = <<>>
      BY <1>0, <1>14 DEF CreateLive, ShadowOK, At
    <3> QED
      BY <3>1, <3>2 DEF ShadowOK, At
  <2>2. CASE vec # Missing
    BY <1>3, <1>14, <2>2 DEF CreateLive
  <2> QED
    BY <2>1, <2>2
<1>15. CASE \E p \in Path : UpsertLive(w, p)
  <2>1. PICK p \in Path : UpsertLive(w, p)
    BY <1>15
  <2>2. CASE vec = Missing
    BY <1>3, <2>1, <2>2 DEF UpsertLive
  <2>3. CASE vec # Missing
    <3>1. job'[w].pc \in {"upsert", "dropVec"}
          /\ job'[w].queue = job[w].queue
      BY <1>0, <2>1, <2>3 DEF UpsertLive, TypeOK, Job, At
    <3>2. job[w].queue = <<>>
      BY <1>0, <2>1 DEF UpsertLive, ShadowOK, At
    <3> QED
      BY <3>1, <3>2 DEF ShadowOK, At
  <2> QED
    BY <2>2, <2>3
<1>16. CASE DeleteLive(w) \/ DropVecShadow(w) \/ DeleteGraph(w) \/ CopyGraph(w)
            \/ DropGraphShadow(w) \/ Record(w) \/ Abort(w)
  BY <1>2, <1>3, <1>16
     DEF DeleteLive, DropVecShadow, DeleteGraph, CopyGraph, DropGraphShadow,
         Record, Abort, Labels, At
<1> QED
  BY <1>5, <1>6, <1>7, <1>9, <1>10, <1>11, <1>12, <1>13, <1>14, <1>15, <1>16
     DEF WorkerStep, JobStep

(* A rebuild begins only while nobody else holds the slot. *)
LEMMA BeginPool ==
  ASSUME TypeOK, PoolInv, Slotted, NEW w \in Worker, Begin(w)
  PROVE  PoolInv'
<1>1. \A u \in Worker : At(u, "idle") /\ job[u].queue = <<>>
  BY DEF Begin, PoolInv, ShadowOK, At
<1>2. job'[w].pc = "shadows" /\ job'[w].queue = <<>>
  BY DEF Begin, IdleJob, TypeOK
<1>3. \A u \in Worker : u # w => job'[u] = job[u]
  BY DEF Begin, TypeOK
<1>4. \A u \in Worker : ShadowOK(u)'
  BY <1>1, <1>2, <1>3 DEF ShadowOK, At
<1>5. OneJob'
  BY <1>1, <1>3 DEF OneJob, At
<1> QED
  BY <1>4, <1>5 DEF PoolInv

LEMMA HooksPool ==
  ASSUME PoolInv, UNCHANGED <<job, vecShadow, graphShadow>>
  PROVE  PoolInv'
  BY DEF PoolInv, OneJob, ShadowOK, Pooled, BatchOK, At

HookMoves(h) ==
  \/ HookStep(h) \/ HookFails(h)
  \/ \E p \in Path, c \in Content : Save(h, p, c)

LEMMA HookLeaves ==
  ASSUME NEW h \in Hook, HookMoves(h)
  PROVE  UNCHANGED <<job, vecShadow, graphShadow, state>>
  BY DEF HookMoves, HookStep, HookGraphDrop, HookVecDrop, HookGraphPut,
         HookVecPut, HookFails, Save, stores, bounds

LEMMA NextPool ==
  Slotted /\ TypeOK /\ PoolInv /\ [Next]_vars => PoolInv'
<1> SUFFICES ASSUME Slotted, TypeOK, PoolInv, [Next]_vars PROVE PoolInv'
  OBVIOUS
<1>1. CASE \E w \in Worker : Begin(w)
  BY <1>1, BeginPool
<1>2. CASE \E w \in Worker : WorkerStep(w)
  BY <1>2, PoolStep
<1>3. CASE \E h \in Hook : HookMoves(h)
  BY <1>3, HookLeaves, HooksPool
<1>4. CASE UNCHANGED vars
  BY <1>4, HooksPool DEF vars, stores
<1> QED
  BY <1>1, <1>2, <1>3, <1>4 DEF Next, WorkerStep, HookMoves

LEMMA InitPool == Init => PoolInv
  BY DEF Init, PoolInv, OneJob, ShadowOK, IdleJob, At

(* Where every rebuild takes the slot, the upload pool loses nothing: when *)
(* the shadow collection is about to be copied, it holds the chunks of     *)
(* exactly the files whose symbols are in the shadow graph, whatever       *)
(* batches finished late, out of order or not at all.                      *)
THEOREM SlottedShadowComplete ==
  ASSUME Slotted
  PROVE  Spec => []ShadowComplete
<1>1. PoolInv => ShadowComplete
  BY DEF PoolInv, ShadowOK, ShadowComplete
<1>2. TypeOK /\ PoolInv /\ [Next]_vars => PoolInv'
  BY NextPool
<1> QED
  BY <1>1, <1>2, InitPool, FullRebuildTypeCorrect, PTL DEF Spec

-----------------------------------------------------------------------------
(* What a step of somebody else, or of a hook, may do to the files and the *)
(* live stores without disturbing a swap: it soils files, and it keeps     *)
(* what the stores hold of the files that stay clean.                      *)

Keeps(store) ==
  store # Missing => /\ store' # Missing
                     /\ \A p \in Path : Clean(p)' => store'[p] = store[p]

Soils == \A p \in Path : Clean(p)' => Clean(p) /\ work'[p] = work[p]

LEMMA HoldsKept ==
  ASSUME Soils
  PROVE  /\ \A s : Holds(s) /\ s # Missing =>
                \A p \in Path : Clean(p)' => s[p] = work'[p]
         /\ Holds(vec) /\ Keeps(vec) => Holds(vec)'
         /\ Holds(graph) /\ Keeps(graph) => Holds(graph)'
         /\ Holds(graphShadow) /\ graphShadow' = graphShadow
              => Holds(graphShadow)'
  BY DEF Holds, Keeps, Soils

LEMMA SwapKept ==
  ASSUME TypeOK, NEW w \in Worker, SwapOK(w), Soils, Keeps(vec), Keeps(graph),
         job'[w] = job[w], UNCHANGED <<graphShadow, state>>
  PROVE  SwapOK(w)'
<1> DEFINE j == job[w]
<1>1. j.pc \in {"walk"} \cup Swapping => state' = None
  BY DEF SwapOK
<1>2. ASSUME j.pc = "walk", NEW p \in Path
      PROVE  /\ p \in j.todo => graphShadow'[p] = Absent
             /\ p \notin j.todo /\ Clean(p)' => graphShadow'[p] = work'[p]
  BY <1>2 DEF SwapOK, Soils
<1>3. j.pc \in Swapping \ {"dropGraph", "record"} => Holds(graphShadow)'
  BY HoldsKept DEF SwapOK
<1>4. j.pc \in {"delete", "create", "upsert"} =>
        /\ j.points # Missing
        /\ \A p \in Path : Clean(p)' => j.points[p] = work'[p]
  BY HoldsKept DEF SwapOK, Holds
<1>5. ASSUME j.pc = "upsert"
      PROVE  /\ vec' # Missing
             /\ \A p \in Path : Clean(p)' =>
                  vec'[p] = IF p \in j.todo THEN Absent ELSE work'[p]
  <2>1. vec # Missing /\ vec' # Missing
    BY <1>5 DEF SwapOK, Keeps
  <2>2. ASSUME NEW p \in Path, Clean(p)'
        PROVE  vec'[p] = IF p \in j.todo THEN Absent ELSE work'[p]
    BY <1>5, <2>1, <2>2 DEF SwapOK, Keeps, Soils
  <2> QED
    BY <2>1, <2>2
<1>6. j.pc \in {"dropVec", "deleteGraph", "copyGraph", "dropGraph", "record"}
        => Holds(vec)'
  BY HoldsKept DEF SwapOK
<1>7. j.pc \in {"dropGraph", "record"} => Holds(graph)'
  BY HoldsKept DEF SwapOK
<1>8. j.pc \in {"delete", "create", "upsert"} => Holds(job[w].points)'
  BY <1>4 DEF Holds
<1> QED
  BY <1>1, <1>2, <1>3, <1>5, <1>6, <1>7, <1>8 DEF SwapOK

(* A hook soils the file it is about, and touches no other. *)
LEMMA HookStepKeeps ==
  ASSUME TypeOK, SwapInv, ~CleanSaves, NEW h \in Hook, HookMoves(h)
  PROVE  /\ Soils /\ Keeps(vec) /\ Keeps(graph)
         /\ \A g \in Hook : hook'[g].pc # "idle" =>
              hook'[g].path \in Path /\ ~Clean(hook[g].path)'
<1>0. /\ work \in Files
      /\ \A store \in {vec, graph} : store # Missing =>
           store \in Files /\ Ensured(store) = store
      /\ \A g \in Hook : hook[g].pc # "idle" =>
           hook[g].path \in Path /\ ~Clean(hook[g].path)
      /\ \A g \in Hook : hook[g].read \in Content \cup {Absent}
      /\ Missing \notin Files
  BY FullRebuildAssumption DEF TypeOK, Store, SwapInv, Ensured
<1>1. CASE \E p \in Path, c \in Content : Save(h, p, c)
  <2>1. PICK p \in Path, c \in Content : Save(h, p, c)
    BY <1>1
  <2>2. c # Tree["head"][p] /\ work' = Put(work, p, c)
    BY <2>1 DEF Save
  <2>3. /\ work'[p] = c
        /\ \A q \in Path : q # p => work'[q] = work[q]
    BY <1>0, <2>2, StoreTypes
  <2>4. Soils /\ ~Clean(p)'
    BY <2>2, <2>3 DEF Soils, Clean
  <2>5. Keeps(vec) /\ Keeps(graph)
    BY <1>0, <2>1 DEF Save, Keeps
  <2>6. ASSUME NEW g \in Hook, hook'[g].pc # "idle"
        PROVE  hook'[g].path \in Path /\ ~Clean(hook[g].path)'
    <3>1. CASE g = h
      <4>1. hook'[g].path = p
        BY <2>1, <3>1 DEF Save, TypeOK
      <4> QED
        BY <2>4, <4>1
    <3>2. CASE g # h
      <4>1. hook'[g] = hook[g] /\ hook[g].pc # "idle"
        BY <2>1, <2>6, <3>2 DEF Save, TypeOK
      <4>2. hook[g].path \in Path /\ ~Clean(hook[g].path)
        BY <1>0, <4>1
      <4>3. ~Clean(hook[g].path)'
        <5> DEFINE x == hook[g].path
        <5>1. work'[x] # Tree["head"][x]
          BY <2>2, <2>3, <4>2 DEF Clean
        <5> QED
          BY <4>1, <5>1 DEF Clean
      <4> QED
        BY <4>1, <4>2, <4>3
    <3> QED
      BY <3>1, <3>2
  <2> QED
    BY <2>4, <2>5, <2>6
<1>2. CASE HookStep(h) \/ HookFails(h)
  <2>1. work' = work
    BY <1>2 DEF HookStep, HookGraphDrop, HookVecDrop, HookGraphPut,
                HookVecPut, HookFails
  <2>2. Soils
    BY <2>1 DEF Soils, Clean
  <2>3. hook[h].pc # "idle"
    BY <1>2 DEF HookStep, HookGraphDrop, HookVecDrop, HookGraphPut,
                HookVecPut, HookFails
  <2>4. /\ hook[h].path \in Path
        /\ \A q \in Path : Clean(q)' => q # hook[h].path
    BY <1>0, <2>2, <2>3 DEF Soils
  <2>5. ASSUME NEW store \in Files, NEW c \in Content \cup {Absent}
        PROVE  /\ Put(store, hook[h].path, c) \in Files
               /\ \A q \in Path : Clean(q)' =>
                    Put(store, hook[h].path, c)[q] = store[q]
    BY <2>4, StoreTypes
  <2>6. Keeps(vec)
    <3>1. \/ vec' = vec
          \/ \E c \in Content \cup {Absent} :
               vec # Missing /\ vec' = Put(vec, hook[h].path, c)
      BY <1>0, <1>2
         DEF HookStep, HookGraphDrop, HookVecDrop, HookGraphPut, HookVecPut,
             HookFails, stores
    <3> QED
      BY <1>0, <2>5, <3>1 DEF Keeps
  <2>7. Keeps(graph)
    <3>1. \/ graph' = graph
          \/ \E c \in Content \cup {Absent} :
               graph' = Put(Ensured(graph), hook[h].path, c)
      BY <1>0, <1>2
         DEF HookStep, HookGraphDrop, HookVecDrop, HookGraphPut, HookVecPut,
             HookFails, stores
    <3> QED
      BY <1>0, <2>5, <3>1 DEF Keeps
  <2>8. ASSUME NEW g \in Hook, hook'[g].pc # "idle"
        PROVE  hook'[g].path \in Path /\ ~Clean(hook[g].path)'
    <3>1. hook[g].pc # "idle" /\ hook'[g].path = hook[g].path
      BY <1>2, <2>8
         DEF HookStep, HookGraphDrop, HookVecDrop, HookGraphPut, HookVecPut,
             HookFails, Tell, HookDies, IdleHook, TypeOK
    <3> QED
      BY <1>0, <2>1, <3>1 DEF Clean
  <2> QED
    BY <2>2, <2>6, <2>7, <2>8
<1> QED
  BY <1>1, <1>2 DEF HookMoves

LEMMA HookSwap ==
  ASSUME TypeOK, SwapInv, ~CleanSaves, NEW h \in Hook, HookMoves(h)
  PROVE  SwapInv'
<1>1. /\ Soils /\ Keeps(vec) /\ Keeps(graph)
      /\ \A g \in Hook : hook'[g].pc # "idle" =>
           hook'[g].path \in Path /\ ~Clean(hook[g].path)'
      /\ UNCHANGED <<job, graphShadow, state>>
  BY HookStepKeeps, HookLeaves
<1>2. state' = "head" => Holds(vec)' /\ Holds(graph)'
  BY <1>1, HoldsKept DEF SwapInv
<1>3. \A w \in Worker : SwapOK(w)'
  BY <1>1, SwapKept DEF SwapInv
<1>4. \A g \in Hook : hook'[g].pc # "idle" =>
        hook'[g].path \in Path /\ ~Clean(hook[g].path)'
  BY <1>1
<1> QED
  BY <1>2, <1>3, <1>4 DEF SwapInv

LEMMA BeginSwap ==
  ASSUME TypeOK, SwapInv, NEW w \in Worker, Begin(w)
  PROVE  SwapInv'
<1>1. /\ Soils /\ Keeps(vec) /\ Keeps(graph)
      /\ UNCHANGED <<work, hook, graphShadow, state>>
  BY DEF Begin, Soils, Keeps, Clean, Ensured
<1>2. /\ job'[w].pc = "shadows"
      /\ \A u \in Worker : u # w => job'[u] = job[u]
  BY DEF Begin, IdleJob, TypeOK
<1>3. SwapOK(w)'
  BY <1>2 DEF SwapOK, Swapping
<1>4. \A u \in Worker : SwapOK(u)'
  BY <1>1, <1>2, <1>3, SwapKept DEF SwapInv
<1>5. state' = "head" => Holds(vec)' /\ Holds(graph)'
  BY <1>1, HoldsKept DEF SwapInv
<1> QED
  BY <1>1, <1>4, <1>5 DEF SwapInv, Clean

(* The work of the rebuild itself: again only its own part is to be looked *)
(* at, and what the recorded commit then promises.                         *)
LEMMA SwapOwn ==
  ASSUME TypeOK, PoolInv, SwapInv, NEW w \in Worker, WorkerStep(w),
         SwapOK(w)', state' = "head" => Holds(vec)' /\ Holds(graph)'
  PROVE  SwapInv'
<1>1. /\ UNCHANGED <<work, hook>>
      /\ \A u \in Worker : u # w => job'[u].pc = "idle"
  BY OthersIdle DEF At
<1>2. \A u \in Worker : u # w => SwapOK(u)'
  BY <1>1 DEF SwapOK, Swapping
<1> QED
  BY <1>1, <1>2 DEF SwapInv, Clean

LEMMA SwapStep ==
  ASSUME TypeOK, PoolInv, SwapInv, NEW w \in Worker, WorkerStep(w)
  PROVE  SwapInv'
<1> DEFINE j == job[w]
<1>0. /\ ShadowOK(w) /\ SwapOK(w) /\ job \in [Worker -> Job] /\ j \in Job
      /\ state = "head" => Holds(vec) /\ Holds(graph)
      /\ Empty # Missing
      /\ UNCHANGED work
      /\ None # "head"
      /\ \A store \in Store : store # Missing => store \in Files
      /\ {vec, vecShadow, graph, graphShadow} \subseteq Store
  BY QueueTypes, StoreTypes, OthersIdle, FullRebuildAssumption
     DEF PoolInv, SwapInv, Store, TypeOK
<1> SUFFICES SwapOK(w)' /\ (state' = "head" => Holds(vec)' /\ Holds(graph)')
  BY SwapOwn
<1>1. ASSUME UNCHANGED <<vec, graph, state>>
      PROVE  state' = "head" => Holds(vec)' /\ Holds(graph)'
  BY <1>0, <1>1 DEF Holds, Clean
<1>2. ASSUME GiveUp(w)
      PROVE  SwapOK(w)'
  BY <1>0, <1>2 DEF GiveUp, IdleJob, SwapOK, Swapping
<1>3. ASSUME NEW l \in Labels, Goto(w, l)
      PROVE  /\ job'[w].pc = l /\ job'[w].todo = j.todo
             /\ job'[w].points = j.points
  BY <1>0, <1>3 DEF Goto, Job
<1>4. ASSUME NEW store, Holds(store), store \in Files
      PROVE  \A p \in Path : Clean(p)' => store[p] = work'[p]
  BY <1>0, <1>4 DEF Holds, Clean
<1>5. CASE MakeShadows(w)
  BY <1>0, <1>1, <1>3, <1>5 DEF MakeShadows, SwapOK, Swapping, Labels
<1>6. CASE ClearState(w)
  <2>1. job'[w].pc = "walk" /\ job'[w].todo = Path
    BY <1>0, <1>6 DEF ClearState, Job
  <2>2. state' = None /\ graphShadow' = Empty
    BY <1>0, <1>6 DEF ClearState, stores, ShadowOK
  <2>3. SwapOK(w)'
    BY <2>1, <2>2 DEF SwapOK, Swapping, Empty
  <2> QED
    BY <1>0, <2>2, <2>3
<1>7. CASE \E p \in Path : Walk(w, p)
  <2>1. PICK p \in Path : Walk(w, p)
    BY <1>7
  <2>2. /\ j.pc = "walk" /\ p \in j.todo /\ graphShadow # Missing
        /\ graphShadow \in Files /\ state = None
    BY <1>0, <2>1 DEF Walk, ShadowOK, SwapOK, Pooled, At
  <2>3. /\ job'[w].pc = "walk" /\ job'[w].todo = j.todo \ {p}
        /\ state' = None
    BY <1>0, <2>1, <2>2 DEF Walk, Job
  <2>4. /\ work[p] \in Content \cup {Absent}
        /\ Ensured(graphShadow) = graphShadow
    BY <2>2 DEF TypeOK, Files, Ensured
  <2>5. /\ graphShadow'[p] = work[p]
        /\ \A q \in Path : q # p => graphShadow'[q] = graphShadow[q]
    <3>1. CASE work[p] = Absent
      BY <1>0, <2>1, <2>2, <3>1 DEF Walk, SwapOK
    <3>2. CASE work[p] # Absent
      <4>1. graphShadow' = Put(graphShadow, p, work[p])
        BY <2>1, <2>4, <3>2 DEF Walk
      <4> QED
        BY <2>2, <2>4, <4>1, StoreTypes
    <3> QED
      BY <3>1, <3>2
  <2>6. ASSUME NEW q \in Path
        PROVE  /\ q \in job'[w].todo => graphShadow'[q] = Absent
               /\ q \notin job'[w].todo /\ Clean(q)'
                    => graphShadow'[q] = work'[q]
    BY <1>0, <2>2, <2>3, <2>5 DEF SwapOK, Clean
  <2>7. SwapOK(w)'
    BY <2>3, <2>6 DEF SwapOK, Swapping
  <2> QED
    BY <1>0, <2>3, <2>7
<1>8. CASE (\E i \in 1 .. QueueMax : Upload(w, i) \/ UploadFails(w, i))
           \/ (AwaitOne(w) /\ ~GiveUp(w))
  <2>1. /\ job'[w].pc = j.pc /\ job'[w].todo = j.todo
        /\ job'[w].points = j.points
        /\ UNCHANGED <<vec, graph, graphShadow, state>>
    <3>1. UNCHANGED <<vec, graph, graphShadow, state>>
      BY <1>8 DEF Upload, UploadFails, AwaitOne, stores
    <3>2. \/ \E i \in 1 .. QueueMax, label \in {"done", "failed"} :
               job' = [job EXCEPT ![w].queue[i].status = label]
          \/ job' = [job EXCEPT ![w].queue = Tail(@)]
      BY <1>8 DEF Upload, UploadFails, AwaitOne
    <3>3. /\ job'[w].pc = j.pc /\ job'[w].todo = j.todo
          /\ job'[w].points = j.points
      BY <1>0, <3>2 DEF Job
    <3> QED
      BY <3>1, <3>3
  <2>2. j.pc = "walk"
    <3>1. j.queue = <<>> => \A i \in 1 .. QueueMax : i \notin Uploading(w)
      BY DEF Uploading
    <3>2. j.queue # <<>>
      BY <1>8, <3>1 DEF Upload, UploadFails, AwaitOne
    <3> QED
      BY <1>0, <3>2 DEF ShadowOK, At
  <2>3. SwapOK(w)'
    BY <1>0, <2>1, <2>2 DEF SwapOK, Swapping, Clean
  <2> QED
    BY <1>1, <2>1, <2>3
<1>9. CASE AwaitOne(w) /\ GiveUp(w)
  BY <1>1, <1>2, <1>9 DEF AwaitOne, stores
<1>10. CASE Walked(w)
  <2>1. /\ job'[w].pc = "scroll" /\ state = None /\ j.todo = {}
        /\ UNCHANGED <<vec, graph, graphShadow, state>>
    BY <1>0, <1>3, <1>10 DEF Walked, Labels, SwapOK, stores, At
  <2>2. Holds(graphShadow)'
    BY <1>0, <1>10, <2>1 DEF Walked, SwapOK, ShadowOK, Pooled, Holds, Clean, At
  <2>3. SwapOK(w)'
    BY <2>1, <2>2 DEF SwapOK, Swapping
  <2> QED
    BY <1>1, <2>1, <2>3
<1>11. CASE Scroll(w)
  <2>1. CASE vecShadow = Missing
    BY <1>1, <1>2, <1>11, <2>1 DEF Scroll, stores
  <2>2. CASE vecShadow # Missing
    <3>1. /\ job'[w].pc = "delete" /\ job'[w].points = vecShadow
          /\ vecShadow = graphShadow
          /\ UNCHANGED <<vec, graph, graphShadow, state>>
      BY <1>0, <1>11, <2>2 DEF Scroll, Job, ShadowOK, stores
    <3>2. state = None /\ Holds(graphShadow)
      BY <1>0, <1>11 DEF Scroll, At, SwapOK, Swapping
    <3>3. Holds(graphShadow)' /\ Holds(job[w].points)'
      BY <1>0, <3>1, <3>2 DEF Holds, Clean
    <3>4. SwapOK(w)'
      BY <3>1, <3>2, <3>3 DEF SwapOK, Swapping
    <3> QED
      BY <1>1, <3>1, <3>4
  <2> QED
    BY <2>1, <2>2
<1>12. CASE DeleteLive(w)
  <2>1. /\ job'[w].pc = "create" /\ job'[w].points = j.points
        /\ state' = None
        /\ UNCHANGED graphShadow
        /\ Holds(graphShadow) /\ Holds(j.points)
    BY <1>0, <1>3, <1>12 DEF DeleteLive, Labels, SwapOK, At, Swapping
  <2>2. Holds(graphShadow)' /\ Holds(job[w].points)'
    BY <1>0, <2>1 DEF Holds, Clean
  <2>3. SwapOK(w)'
    BY <2>1, <2>2 DEF SwapOK, Swapping
  <2> QED
    BY <1>0, <2>1, <2>3
<1>13. CASE CreateLive(w)
  <2>1. CASE vec # Missing
    BY <1>1, <1>2, <1>13, <2>1 DEF CreateLive
  <2>2. CASE vec = Missing
    <3>1. /\ job'[w].pc = "upsert" /\ job'[w].points = j.points
          /\ job'[w].todo = Path /\ vec' = Empty
          /\ state' = None
          /\ UNCHANGED graphShadow
          /\ Holds(graphShadow) /\ Holds(j.points)
      BY <1>0, <1>13, <2>2 DEF CreateLive, Job, SwapOK, At, Swapping
    <3>2. Holds(graphShadow)' /\ Holds(job[w].points)'
      BY <1>0, <3>1 DEF Holds, Clean
    <3>3. vec' # Missing /\ \A p \in Path : vec'[p] = Absent
      BY <1>0, <3>1 DEF Empty
    <3>4. SwapOK(w)'
      BY <3>1, <3>2, <3>3 DEF SwapOK, Swapping
    <3> QED
      BY <1>0, <3>1, <3>4
  <2> QED
    BY <2>1, <2>2
<1>14. CASE \E p \in Path : UpsertLive(w, p)
  <2>1. PICK p \in Path : UpsertLive(w, p)
    BY <1>14
  <2>2. /\ j.pc = "upsert" /\ p \in j.todo /\ vec # Missing /\ vec \in Files
        /\ state = None /\ j.points \in Files /\ j.points # Missing
        /\ Holds(graphShadow) /\ Holds(j.points)
        /\ \A q \in Path : Clean(q) =>
             vec[q] = IF q \in j.todo THEN Absent ELSE work[q]
    BY <1>0, <2>1 DEF UpsertLive, SwapOK, Swapping, At, Job, Holds
  <2>3. /\ job'[w].pc = IF j.todo = {p} THEN "dropVec" ELSE "upsert"
        /\ job'[w].points = j.points
        /\ job'[w].todo = j.todo \ {p}
        /\ state' = None
        /\ UNCHANGED graphShadow
    BY <1>0, <2>1, <2>2 DEF UpsertLive, Job
  <2>4. /\ vec' \in Files
        /\ vec'[p] = IF j.points[p] = Absent THEN vec[p] ELSE j.points[p]
        /\ \A q \in Path : q # p => vec'[q] = vec[q]
    <3>1. CASE j.points[p] = Absent
      BY <2>1, <2>2, <3>1 DEF UpsertLive
    <3>2. CASE j.points[p] # Absent
      <4>1. vec' = Put(vec, p, j.points[p])
        BY <2>1, <2>2, <3>2 DEF UpsertLive
      <4>2. j.points[p] \in Content \cup {Absent}
        BY <2>2 DEF Files
      <4> QED
        BY <2>2, <3>2, <4>1, <4>2, StoreTypes
    <3> QED
      BY <3>1, <3>2
  <2>5. Holds(graphShadow)' /\ Holds(job[w].points)'
    BY <1>0, <2>2, <2>3 DEF Holds, Clean
  <2>6. ASSUME NEW q \in Path, Clean(q)
        PROVE  vec'[q] = IF q \in j.todo \ {p} THEN Absent ELSE work[q]
    BY <2>2, <2>4, <2>6 DEF Holds
  <2>7. vec' # Missing
    BY <2>4, FullRebuildAssumption
  <2>8. job'[w].pc = "dropVec" => Holds(vec)'
    BY <1>0, <2>3, <2>6, <2>7 DEF Holds, Clean
  <2>9. \A q \in Path : Clean(q)' => Clean(q)
    BY <1>0 DEF Clean
  <2>10. SwapOK(w)'
    BY <1>0, <2>3, <2>5, <2>6, <2>7, <2>8, <2>9 DEF SwapOK, Swapping
  <2> QED
    BY <1>0, <2>3, <2>10
<1>15. CASE DropVecShadow(w)
  <2>1. /\ job'[w].pc = "deleteGraph" /\ state = None
        /\ Holds(vec) /\ Holds(graphShadow)
        /\ UNCHANGED <<vec, graph, graphShadow, state>>
    BY <1>0, <1>3, <1>15 DEF DropVecShadow, Labels, SwapOK, At, Swapping
  <2>2. Holds(graphShadow)' /\ Holds(vec)'
    BY <1>0, <2>1 DEF Holds, Clean
  <2>3. SwapOK(w)'
    BY <2>1, <2>2 DEF SwapOK, Swapping
  <2> QED
    BY <1>1, <2>1, <2>3
<1>16. CASE DeleteGraph(w)
  <2>1. CASE graph = Missing
    BY <1>1, <1>2, <1>16, <2>1 DEF DeleteGraph
  <2>2. CASE graph # Missing
    <3>1. /\ job'[w].pc = "copyGraph" /\ state' = None
          /\ Holds(vec) /\ Holds(graphShadow)
          /\ UNCHANGED <<vec, graphShadow>>
      BY <1>0, <1>3, <1>16, <2>2 DEF DeleteGraph, Labels, SwapOK, At, Swapping
    <3>2. Holds(graphShadow)' /\ Holds(vec)'
      BY <1>0, <3>1 DEF Holds, Clean
    <3>3. SwapOK(w)'
      BY <3>1, <3>2 DEF SwapOK, Swapping
    <3> QED
      BY <1>0, <3>1, <3>3
  <2> QED
    BY <2>1, <2>2
<1>17. CASE CopyGraph(w)
  <2>1. CASE ~(graph = Missing /\ graphShadow # Missing)
    BY <1>1, <1>2, <1>17, <2>1 DEF CopyGraph
  <2>2. CASE graph = Missing /\ graphShadow # Missing
    <3>1. /\ job'[w].pc = "dropGraph" /\ state' = None
          /\ Holds(vec) /\ Holds(graphShadow)
          /\ vec' = vec /\ graph' = graphShadow
      BY <1>0, <1>3, <1>17, <2>2 DEF CopyGraph, Labels, SwapOK, At, Swapping
    <3>2. Holds(graph)' /\ Holds(vec)'
      BY <1>0, <3>1 DEF Holds, Clean
    <3>3. SwapOK(w)'
      BY <3>1, <3>2 DEF SwapOK, Swapping
    <3> QED
      BY <1>0, <3>1, <3>3
  <2> QED
    BY <2>1, <2>2
<1>18. CASE DropGraphShadow(w)
  <2>1. /\ job'[w].pc = "record" /\ state = None /\ Holds(vec) /\ Holds(graph)
        /\ UNCHANGED <<vec, graph, state>>
    BY <1>0, <1>3, <1>18 DEF DropGraphShadow, Labels, SwapOK, At, Swapping
  <2>2. Holds(graph)' /\ Holds(vec)'
    BY <1>0, <2>1 DEF Holds, Clean
  <2>3. SwapOK(w)'
    BY <2>1, <2>2 DEF SwapOK, Swapping
  <2> QED
    BY <1>1, <2>1, <2>3
<1>19. CASE Record(w)
  <2>1. Holds(vec) /\ Holds(graph) /\ UNCHANGED <<vec, graph>>
    BY <1>0, <1>19 DEF Record, SwapOK, At, stores
  <2>2. Holds(graph)' /\ Holds(vec)'
    BY <1>0, <2>1 DEF Holds, Clean
  <2> QED
    BY <1>2, <1>19, <2>2 DEF Record
<1>20. CASE Abort(w)
  BY <1>1, <1>2, <1>20 DEF Abort, stores
<1> QED
  BY <1>5, <1>6, <1>7, <1>8, <1>9, <1>10, <1>11, <1>12, <1>13, <1>14, <1>15,
     <1>16, <1>17, <1>18, <1>19, <1>20 DEF WorkerStep, JobStep

LEMMA NextSwap ==
  ~CleanSaves /\ TypeOK /\ PoolInv /\ SwapInv /\ [Next]_vars => SwapInv'
<1> SUFFICES ASSUME ~CleanSaves, TypeOK, PoolInv, SwapInv, [Next]_vars
             PROVE  SwapInv'
  OBVIOUS
<1>1. CASE \E w \in Worker : Begin(w)
  BY <1>1, BeginSwap
<1>2. CASE \E w \in Worker : WorkerStep(w)
  BY <1>2, SwapStep
<1>3. CASE \E h \in Hook : HookMoves(h)
  BY <1>3, HookSwap
<1>4. CASE UNCHANGED vars
  BY <1>4 DEF vars, stores, SwapInv, SwapOK, Holds, Clean
<1> QED
  BY <1>1, <1>2, <1>3, <1>4 DEF Next, WorkerStep, HookMoves

LEMMA InitSwap == Init => SwapInv
<1> SUFFICES ASSUME Init PROVE SwapInv
  OBVIOUS
<1>1. \A x \in {"old", "head"} : Tree[x] \in Files /\ Tree[x] # Missing
  BY FullRebuildAssumption
<1>2. state = "head" => Holds(vec) /\ Holds(graph)
  BY <1>1, FullRebuildAssumption DEF Init, Holds
<1>3. \A w \in Worker : job[w].pc = "idle"
  BY DEF Init, IdleJob
<1> QED
  BY <1>2, <1>3 DEF Init, SwapInv, SwapOK, Swapping, IdleHook

(* An interrupted rebuild is never mistaken for a finished one, wherever a *)
(* store fails, a process dies or a hook comes in between: while nothing   *)
(* is under way, a file that the next sync would not read again is right   *)
(* in the vectors and in the graph.  Every rebuild takes the slot, and no  *)
(* file is re-ingested with the content it has in HEAD.                    *)
THEOREM SlottedRecoverable ==
  ASSUME Slotted, ~CleanSaves
  PROVE  Spec => []Recoverable
<1>1. PoolInv /\ SwapInv => Recoverable
  BY DEF SwapInv, Holds, Clean, Recoverable, Trusted, Right
<1>2. TypeOK /\ PoolInv /\ [Next]_vars => PoolInv'
  BY NextPool
<1>3. TypeOK /\ PoolInv /\ SwapInv /\ [Next]_vars => SwapInv'
  BY NextSwap
<1> QED
  BY <1>1, <1>2, <1>3, InitPool, InitSwap, FullRebuildTypeCorrect, PTL
     DEF Spec
=============================================================================
