---------------------------- MODULE MemoryProofs ----------------------------
(***************************************************************************)
(* Four parts of the memory layer, for any number of commands, commits,    *)
(* files, passes, threads and processes and any bounds on their faults:    *)
(* the stores of a project never promise more than they hold, the resolver *)
(* loses no reference, mixes no contexts and settles, the embedding cache  *)
(* answers with the right vectors, and episodes are neither forgotten nor   *)
(* left out of what a recall shows.                                        *)
(***************************************************************************)
EXTENDS MCMemory, Integers, FiniteSetTheorems, SequenceTheorems, TLAPS

-----------------------------------------------------------------------------
(* What a command is doing: only an ingest walks, and it knows the commit  *)
(* it walks to; the base of a delta is a commit, a full walk has none.     *)
Walk == {"fullVecs", "fullGraph", "vecs", "graph", "record"}
Whole(r) == \/ r.pc \in {"fullVecs", "fullGraph"}
            \/ r.pc = "record" /\ r.base = None

JobOK(r) ==
  /\ r.pc = "idle" => r.kind # "ingest"
  /\ r.pc \in Walk => /\ r.kind = "ingest"
                      /\ r.head \in IX!Head /\ r.base \in IX!Head \cup {None}
  /\ r.pc \in {"vecs", "graph"} => r.base # None
  /\ r.pc \in {"fullVecs", "fullGraph"} => r.base = None

JobType == [pc : Walk \cup {"idle", "opened", "drop", "create", "clear",
                         "delete"},
            kind : {"none", "tool", "ingest", "reset"},
            base : IX!Head \cup {None}, head : IX!Head \cup {None}]

JobsOK ==
  /\ cmd \in [Command -> JobType]
  /\ \A c \in Command : JobOK(cmd[c])
  /\ \A c, d \in Command :
       cmd[c].kind = "ingest" /\ cmd[d].kind = "ingest" => c = d

(* A full ingest has cleared the row before it touches a store, and no     *)
(* other command writes one before it is done.                             *)
RowCleared == \A c \in Command : Whole(cmd[c]) => state = None

(* Where nothing was spoilt, each store has the files that an ingest has   *)
(* put there, and those it counts on.                                      *)
Stored(r, v, g) ==
  /\ r.pc \in {"fullGraph", "graph", "record"} =>
       IX!FilesAt(r.head) \subseteq v
  /\ r.pc = "record" => IX!FilesAt(r.head) \subseteq g
  /\ r.pc = "vecs" => IX!FilesAt(r.base) \subseteq v
  /\ r.pc \in {"vecs", "graph"} => IX!FilesAt(r.base) \subseteq g

StoresOK ==
  ~spoilt => /\ state # None => IX!FilesAt(state.sha) \subseteq vecs \cap graph
             /\ \A c \in Command : Stored(cmd[c], vecs, graph)

IndexInv ==
  /\ head \in IX!Head /\ coll \in {"missing", "legacy", "hybrid"}
  /\ state \in IX!State \cup {None}
  /\ JobsOK /\ RowCleared /\ StoresOK

-----------------------------------------------------------------------------
(* Steps of a part are its own or leave it alone. *)
LEMMA MemorySteps ==
  ASSUME [MCNext]_allvars
  PROVE  /\ IX!Next \/ UNCHANGED indexVars
         /\ RV!Next \/ UNCHANGED resolverVars
         /\ EC!Next \/ UNCHANGED embedVars
         /\ EP!Next \/ UNCHANGED episodeVars
  BY DEF MCNext, Rest, allvars

LEMMA IndexInit ==
  ASSUME MCInit
  PROVE  IndexInv
<1>0. IX!ProjectIndexAssumption
  BY MemoryAssumption
<1>1. IX!Init
  BY DEF MCInit
<1>2. head = 0 /\ head \in IX!Head
  BY <1>0, <1>1 DEF IX!Init, IX!Head, IX!ProjectIndexAssumption
<1>3. cmd = [c \in Command |-> IX!Quiet]
  BY <1>1 DEF IX!Init
<1>4. IX!Quiet \in JobType
  BY DEF JobType, IX!Quiet
<1>5. JobsOK
  BY <1>3, <1>4 DEF JobsOK, JobOK, IX!Quiet, Walk
<1>6. RowCleared /\ \A c \in Command : Stored(cmd[c], vecs, graph)
  BY <1>3 DEF RowCleared, Whole, Stored, IX!Quiet
<1>7. \/ state = None
      \/ /\ state = [sha |-> 0, counts |-> None]
         /\ vecs = IX!FilesAt(0) /\ graph = IX!FilesAt(0)
  BY <1>1 DEF IX!Init
<1>10. coll \in {"missing", "legacy", "hybrid"}
  BY <1>0, <1>1 DEF IX!Init, IX!ProjectIndexAssumption, IX!IndexScene
<1>8. state \in IX!State \cup {None}
  BY <1>2, <1>7 DEF IX!State
<1>9. state # None => IX!FilesAt(state.sha) \subseteq vecs \cap graph
  BY <1>7
<1> QED
  BY <1>2, <1>5, <1>6, <1>8, <1>9, <1>10 DEF IndexInv, StoresOK

(* A command that goes on as r leaves the others alone. *)
LEMMA JobStep ==
  ASSUME JobsOK, NEW c \in Command, NEW r \in JobType,
         cmd' = [cmd EXCEPT ![c] = r], JobOK(r),
         r.kind = "ingest" =>
           \/ cmd[c].kind = "ingest"
           \/ \A d \in Command : cmd[d].kind # "ingest"
  PROVE  /\ JobsOK'
         /\ cmd'[c] = r
         /\ \A d \in Command \ {c} : cmd'[d] = cmd[d]
<1>1. /\ cmd' \in [Command -> JobType] /\ cmd'[c] = r
      /\ \A d \in Command \ {c} : cmd'[d] = cmd[d]
  BY DEF JobsOK
<1>2. \A d \in Command : JobOK(cmd'[d])
  BY <1>1 DEF JobsOK
<1>3. \A d, e \in Command :
        cmd'[d].kind = "ingest" /\ cmd'[e].kind = "ingest" => d = e
  BY <1>1 DEF JobsOK
<1> QED
  BY <1>1, <1>2, <1>3 DEF JobsOK

(* Only the ingest walks, so nothing is asked of the other commands. *)
LEMMA OneWalks ==
  ASSUME JobsOK, NEW c \in Command, cmd[c].kind = "ingest"
  PROVE  \A d \in Command \ {c} :
           /\ ~Whole(cmd[d])
           /\ \A v, g : Stored(cmd[d], v, g)
<1>1. \A d \in Command \ {c} : cmd[d].pc \notin Walk
  BY DEF JobsOK, JobOK
<1> QED
  BY <1>1 DEF Walk, Whole, Stored

(* What a step of one command has to keep. *)
LEMMA CommandStep ==
  ASSUME IndexInv, NEW c \in Command, NEW r \in JobType,
         cmd' = [cmd EXCEPT ![c] = r], JobOK(r),
         r.kind = "ingest" =>
           \/ cmd[c].kind = "ingest"
           \/ \A d \in Command : cmd[d].kind # "ingest",
         head' = head, coll' \in {"missing", "legacy", "hybrid"},
         state' \in IX!State \cup {None},
         Whole(r) => state' = None,
         \A d \in Command \ {c} : Whole(cmd[d]) => state' = None,
         \/ spoilt'
         \/ /\ state' # None =>
                 IX!FilesAt(state'.sha) \subseteq vecs' \cap graph'
            /\ Stored(r, vecs', graph')
            /\ \A d \in Command \ {c} : Stored(cmd[d], vecs', graph')
  PROVE  IndexInv'
<1>1. /\ JobsOK' /\ cmd'[c] = r
      /\ \A d \in Command \ {c} : cmd'[d] = cmd[d]
  BY JobStep DEF IndexInv
<1>2. \A d \in Command : Whole(cmd'[d]) => state' = None
  BY <1>1
<1>3. RowCleared'
  BY <1>2 DEF RowCleared
<1>4. spoilt' \/ \A d \in Command : Stored(cmd'[d], vecs', graph')
  BY <1>1
<1>5. StoresOK'
  BY <1>4 DEF StoresOK
<1> QED
  BY <1>1, <1>3, <1>5 DEF IndexInv

(* Adding to the stores, with the row and spoilt as they are. *)
LEMMA AddStep ==
  ASSUME IndexInv, NEW c \in Command, NEW r \in JobType,
         cmd' = [cmd EXCEPT ![c] = r], JobOK(r),
         r.kind = "ingest" =>
           \/ cmd[c].kind = "ingest"
           \/ \A d \in Command : cmd[d].kind # "ingest",
         coll' \in {"missing", "legacy", "hybrid"},
         head' = head, state' = state, spoilt' = spoilt,
         vecs \subseteq vecs', graph \subseteq graph',
         Whole(r) => state = None,
         spoilt \/ Stored(r, vecs', graph')
  PROVE  IndexInv'
<1>1. state' \in IX!State \cup {None}
  BY DEF IndexInv
<1>2. \A d \in Command \ {c} : Whole(cmd[d]) => state' = None
  BY DEF IndexInv, RowCleared
<1>3. spoilt \/ \A d \in Command \ {c} : Stored(cmd[d], vecs', graph')
  BY DEF IndexInv, StoresOK, Stored
<1>4. spoilt \/ (state' # None =>
                   IX!FilesAt(state'.sha) \subseteq vecs' \cap graph')
  BY DEF IndexInv, StoresOK
<1> QED
  BY <1>1, <1>2, <1>3, <1>4, CommandStep

LEMMA IndexNext ==
  ASSUME IndexInv, IX!Next
  PROVE  IndexInv'
<1> USE DEF IX!Run, IX!To, IX!Does
<1>j. \A c \in Command : cmd[c] \in JobType /\ JobOK(cmd[c])
  BY DEF IndexInv, JobsOK
<1>q. /\ IX!Quiet \in JobType /\ JobOK(IX!Quiet) /\ IX!Quiet.kind # "ingest"
      /\ ~Whole(IX!Quiet) /\ \A v, g : Stored(IX!Quiet, v, g)
  BY DEF JobType, JobOK, IX!Quiet, Walk, Whole, Stored
(* Stopping: the row and the stores stay. *)
<1>s. ASSUME NEW c \in Command, IX!Run(c, IX!Quiet),
             UNCHANGED <<head, coll, vecs, graph, state, spoilt>>
      PROVE  IndexInv'
  BY <1>q, <1>s, AddStep DEF IndexInv
(* Going on to a step that is not part of a walk. *)
<1>g. ASSUME NEW c \in Command,
             NEW p \in {"opened", "create", "clear", "delete"}
      PROVE  LET r == [cmd[c] EXCEPT !.pc = p]
             IN  /\ r \in JobType /\ JobOK(r) /\ r.kind = cmd[c].kind
                 /\ ~Whole(r) /\ \A v, g : Stored(r, v, g)
  BY <1>j DEF JobType, JobOK, Walk, Whole, Stored
<1>1. ASSUME NEW c \in Command, NEW k \in {"tool", "ingest"}, IX!Open(c, k)
      PROVE  IndexInv'
  <2> DEFINE r == [IX!Quiet EXCEPT !.kind = k, !.pc =
                     CASE coll = "hybrid" -> "opened"
                       [] coll = "legacy" -> "drop"
                       [] coll = "missing" -> "create"]
  <2>1. coll \in {"missing", "legacy", "hybrid"}
    BY DEF IndexInv
  <2>2. /\ r \in JobType /\ JobOK(r) /\ r.kind = k
        /\ ~Whole(r) /\ \A v, g : Stored(r, v, g)
    BY <2>1 DEF JobType, JobOK, IX!Quiet, Walk, Whole, Stored
  <2>3. cmd' = [cmd EXCEPT ![c] = r]
    BY <1>1 DEF IX!Open
  <2>4. k = "ingest" => \A d \in Command : cmd[d].kind # "ingest"
    BY <1>1 DEF IX!Open
  <2>5. UNCHANGED <<head, coll, vecs, graph, state, spoilt>>
    BY <1>1 DEF IX!Open
  <2> HIDE DEF r
  <2> QED
    BY <2>1, <2>2, <2>3, <2>4, <2>5, AddStep
<1>2. ASSUME NEW c \in Command, IX!Reset(c)
      PROVE  IndexInv'
  <2> DEFINE r == [IX!Quiet EXCEPT !.kind = "reset", !.pc = "drop"]
  <2>1. /\ r \in JobType /\ JobOK(r) /\ r.kind # "ingest"
        /\ ~Whole(r) /\ \A v, g : Stored(r, v, g)
    BY DEF JobType, JobOK, IX!Quiet, Walk, Whole, Stored
  <2>2. /\ cmd' = [cmd EXCEPT ![c] = r]
        /\ UNCHANGED <<head, coll, vecs, graph, state, spoilt>>
    BY <1>2 DEF IX!Reset
  <2> HIDE DEF r
  <2> QED
    BY <2>1, <2>2, AddStep DEF IndexInv
<1>3. ASSUME NEW c \in Command, IX!Fail(c) \/ IX!Tool(c)
      PROVE  IndexInv'
  BY <1>3, <1>s DEF IX!Fail, IX!Tool
<1>4. ASSUME NEW c \in Command, IX!DropLegacy(c)
      PROVE  IndexInv'
  <2> DEFINE r == [cmd[c] EXCEPT !.pc = "create"]
  <2>1. /\ r \in JobType /\ JobOK(r) /\ r.kind = cmd[c].kind
        /\ ~Whole(r) /\ \A v, g : Stored(r, v, g)
    BY <1>g
  <2>2. /\ cmd' = [cmd EXCEPT ![c] = r] /\ coll' = "missing" /\ vecs' = {}
        /\ spoilt' = (spoilt \/ state # None \/ ~IX!NobodyElse(c))
        /\ UNCHANGED <<head, graph, state>>
    BY <1>4 DEF IX!DropLegacy
  <2>3. IX!NobodyElse(c) =>
          \A d \in Command \ {c} : Stored(cmd[d], vecs', graph')
    BY DEF IX!NobodyElse, Stored
  <2>4. \A d \in Command \ {c} : Whole(cmd[d]) => state' = None
    BY <2>2 DEF IndexInv, RowCleared
  <2>5. spoilt' \/ (state' = None /\ IX!NobodyElse(c))
    BY <2>2
  <2> HIDE DEF r
  <2> QED
    BY <2>1, <2>2, <2>3, <2>4, <2>5, CommandStep DEF IndexInv
<1>5. ASSUME NEW c \in Command, IX!CreateHybrid(c)
      PROVE  IndexInv'
  <2>1. CASE coll = "missing"
    <3> DEFINE r == [cmd[c] EXCEPT !.pc = "opened"]
    <3>1. /\ r \in JobType /\ JobOK(r) /\ r.kind = cmd[c].kind
          /\ ~Whole(r) /\ \A v, g : Stored(r, v, g)
      BY <1>g
    <3>2. /\ cmd' = [cmd EXCEPT ![c] = r] /\ coll' = "hybrid"
          /\ UNCHANGED <<head, vecs, graph, state, spoilt>>
      BY <1>5, <2>1 DEF IX!CreateHybrid
    <3> HIDE DEF r
    <3> QED
      BY <3>1, <3>2, AddStep
  <2>2. CASE coll # "missing"
    BY <1>5, <2>2, <1>s DEF IX!CreateHybrid
  <2> QED
    BY <2>1, <2>2
<1>6. ASSUME NEW c \in Command, IX!Decide(c)
      PROVE  IndexInv'
  <2> DEFINE b == IX!Base
             r == [cmd[c] EXCEPT !.head = head, !.base = b,
                     !.pc = IF b = None THEN "fullVecs" ELSE "vecs"]
  <2>0. None \notin IX!Head
    BY MemoryAssumption DEF IX!ProjectIndexAssumption
  <2>1. /\ b \in IX!Head \cup {None}
        /\ b # None => state # None /\ b = state.sha
    BY DEF IndexInv, IX!Base, IX!State
  <2>2. /\ cmd[c].kind = "ingest" /\ cmd' = [cmd EXCEPT ![c] = r]
        /\ state' = IF b = None THEN None ELSE state
        /\ UNCHANGED <<head, coll, vecs, graph, spoilt>>
    BY <1>6 DEF IX!Decide
  <2> HIDE DEF b
  <2>3. r \in JobType /\ r.kind = "ingest" /\ r.base = b /\ r.head = head
        /\ r.pc = IF b = None THEN "fullVecs" ELSE "vecs"
    BY <1>j, <2>1, <2>2 DEF JobType, Walk, IndexInv
  <2> HIDE DEF r
  <2>4. JobOK(r) /\ (Whole(r) => state' = None)
    BY <2>1, <2>2, <2>3 DEF JobOK, Whole, Walk, IndexInv
  <2>5. spoilt \/ Stored(r, vecs, graph)
    BY <2>1, <2>3 DEF Stored, IndexInv, StoresOK
  <2>6. \A d \in Command \ {c} : ~Whole(cmd[d]) /\ Stored(cmd[d], vecs, graph)
    BY <2>2, OneWalks DEF IndexInv
  <2>7. spoilt \/ (state' # None =>
                     IX!FilesAt(state'.sha) \subseteq vecs \cap graph)
    BY <2>2 DEF IndexInv, StoresOK
  <2>8. state' \in IX!State \cup {None}
    BY <2>2 DEF IndexInv
  <2> QED
    BY <2>2, <2>3, <2>4, <2>5, <2>6, <2>7, <2>8, CommandStep DEF IndexInv
<1>7. ASSUME NEW c \in Command, IX!FullVecs(c)
      PROVE  IndexInv'
  <2> DEFINE r == [cmd[c] EXCEPT !.pc = "fullGraph"]
  <2>1. /\ cmd[c].kind = "ingest" /\ cmd[c].base = None /\ state = None
        /\ cmd' = [cmd EXCEPT ![c] = r] /\ coll' = "hybrid"
        /\ vecs' = IX!FilesAt(cmd[c].head)
        /\ UNCHANGED <<head, graph, state>>
    BY <1>j, <1>7 DEF IX!FullVecs, JobOK, Walk, IndexInv, RowCleared, Whole
  <2>2. r \in JobType /\ JobOK(r) /\ r.kind = "ingest"
    BY <1>j, <1>7 DEF JobType, JobOK, Walk, IX!FullVecs
  <2>3. Stored(r, vecs', graph')
    BY <2>1, <1>j DEF Stored, JobType
  <2>4. \A d \in Command \ {c} : Stored(cmd[d], vecs', graph')
    BY <2>1, OneWalks DEF IndexInv
  <2> HIDE DEF r
  <2> QED
    BY <2>1, <2>2, <2>3, <2>4, CommandStep DEF IndexInv
<1>8. ASSUME NEW c \in Command, IX!FullGraph(c)
      PROVE  IndexInv'
  <2> DEFINE r == [cmd[c] EXCEPT !.pc = "record"]
  <2>1. /\ cmd[c].kind = "ingest" /\ cmd[c].base = None /\ state = None
        /\ cmd' = [cmd EXCEPT ![c] = r]
        /\ graph' = IX!FilesAt(cmd[c].head)
        /\ UNCHANGED <<head, coll, vecs, state, spoilt>>
    BY <1>j, <1>8 DEF IX!FullGraph, JobOK, Walk, IndexInv, RowCleared, Whole
  <2>2. r \in JobType /\ JobOK(r) /\ r.kind = "ingest" /\ r.pc = "record"
        /\ r.head = cmd[c].head
    BY <1>j, <1>8 DEF JobType, JobOK, Walk, IX!FullGraph
  <2> HIDE DEF r
  <2>3. spoilt \/ Stored(r, vecs', graph')
    BY <1>8, <2>1, <2>2 DEF Stored, IX!FullGraph, IndexInv, StoresOK
  <2>4. \A d \in Command \ {c} : Stored(cmd[d], vecs', graph')
    BY <2>1, OneWalks DEF IndexInv
  <2> QED
    BY <2>1, <2>2, <2>3, <2>4, CommandStep DEF IndexInv
<1>9. ASSUME NEW c \in Command, IX!DeltaVecs(c)
      PROVE  IndexInv'
  <2> DEFINE r == [cmd[c] EXCEPT !.pc = "graph"]
  <2>1. CASE coll = "missing" /\ IX!New(c) # {}
    BY <1>9, <2>1, <1>s DEF IX!DeltaVecs
  <2>2. CASE ~(coll = "missing" /\ IX!New(c) # {})
    <3>1. /\ cmd[c].pc = "vecs" /\ cmd' = [cmd EXCEPT ![c] = r]
          /\ vecs' = vecs \cup IX!New(c)
          /\ UNCHANGED <<head, coll, graph, state, spoilt>>
      BY <1>9, <2>2 DEF IX!DeltaVecs
    <3>2. r \in JobType /\ JobOK(r) /\ r.kind = cmd[c].kind /\ r.pc = "graph"
          /\ r.head = cmd[c].head /\ r.base = cmd[c].base
      BY <1>j, <3>1 DEF JobType, JobOK, Walk
    <3> HIDE DEF r
    <3>3. r.kind = "ingest" /\ ~Whole(r)
      BY <1>j, <3>1, <3>2 DEF Whole, JobOK, Walk
    <3>4. spoilt \/ Stored(r, vecs', graph')
      BY <3>1, <3>2 DEF Stored, IndexInv, StoresOK, IX!New
    <3> QED
      BY <3>1, <3>2, <3>3, <3>4, AddStep DEF IndexInv
  <2> QED
    BY <2>1, <2>2
<1>10. ASSUME NEW c \in Command, IX!DeltaGraph(c)
       PROVE  IndexInv'
  <2> DEFINE r == [cmd[c] EXCEPT !.pc = "record"]
  <2>1. /\ cmd[c].pc = "graph" /\ cmd' = [cmd EXCEPT ![c] = r]
        /\ graph' = graph \cup IX!New(c)
        /\ UNCHANGED <<head, coll, vecs, state, spoilt>>
    BY <1>10 DEF IX!DeltaGraph
  <2>2. r \in JobType /\ JobOK(r) /\ r.kind = cmd[c].kind /\ r.pc = "record"
        /\ r.head = cmd[c].head /\ r.base = cmd[c].base
    BY <1>j, <2>1 DEF JobType, JobOK, Walk
  <2> HIDE DEF r
  <2>3. r.kind = "ingest" /\ ~Whole(r)
    BY <1>j, <2>1, <2>2 DEF Whole, JobOK, Walk
  <2>4. spoilt \/ Stored(r, vecs', graph')
    BY <2>1, <2>2 DEF Stored, IndexInv, StoresOK, IX!New
  <2> QED
    BY <2>1, <2>2, <2>3, <2>4, AddStep DEF IndexInv
<1>11. ASSUME NEW c \in Command, IX!Record(c)
       PROVE  IndexInv'
  <2>1. /\ cmd[c].pc = "record" /\ cmd' = [cmd EXCEPT ![c] = IX!Quiet]
        /\ state' = [sha |-> cmd[c].head,
                     counts |-> IF cmd[c].base # None THEN None
                                ELSE [files |-> Size[cmd[c].head],
                                      symbols |-> Size[cmd[c].head]]]
        /\ UNCHANGED <<head, coll, vecs, graph, spoilt>>
    BY <1>11 DEF IX!Record
  <2>2. cmd[c].head \in IX!Head /\ cmd[c].kind = "ingest"
    BY <1>j, <2>1 DEF JobOK, Walk
  <2>3. Size[cmd[c].head] \in Nat
    BY <2>2, MemoryAssumption DEF IX!ProjectIndexAssumption
  <2>4. state' \in IX!State \cup {None} /\ state'.sha = cmd[c].head
    BY <2>1, <2>2, <2>3 DEF IX!State
  <2>5. spoilt \/ IX!FilesAt(state'.sha) \subseteq vecs \cap graph
    BY <2>1, <2>4 DEF IndexInv, StoresOK, Stored
  <2>6. \A d \in Command \ {c} : ~Whole(cmd[d]) /\ Stored(cmd[d], vecs, graph)
    BY <2>2, OneWalks DEF IndexInv
  <2>7. /\ cmd' = [cmd EXCEPT ![c] = IX!Quiet] /\ head' = head
        /\ coll' \in {"missing", "legacy", "hybrid"}
    BY <2>1 DEF IndexInv
  <2>8. \/ spoilt'
        \/ /\ IX!FilesAt(state'.sha) \subseteq vecs' \cap graph'
           /\ \A d \in Command \ {c} : Stored(cmd[d], vecs', graph')
    BY <2>1, <2>5, <2>6
  <2> QED
    BY <1>q, <2>4, <2>6, <2>7, <2>8, CommandStep
(* The steps of a reset that spoil the index. *)
<1>12. ASSUME NEW c \in Command, IX!ResetDrop(c) \/ IX!ResetClear(c)
       PROVE  IndexInv'
  <2>1. PICK p \in {"create", "delete"} :
          /\ cmd' = [cmd EXCEPT ![c] = [cmd[c] EXCEPT !.pc = p]]
          /\ coll' \in {coll, "missing"} /\ spoilt' = TRUE
          /\ UNCHANGED <<head, state>>
    BY <1>12 DEF IX!ResetDrop, IX!ResetClear
  <2> DEFINE r == [cmd[c] EXCEPT !.pc = p]
  <2>2. /\ r \in JobType /\ JobOK(r) /\ r.kind = cmd[c].kind /\ ~Whole(r)
    BY <1>g
  <2>3. cmd' = [cmd EXCEPT ![c] = r] /\ spoilt'
    BY <2>1
  <2>4. \A d \in Command \ {c} : Whole(cmd[d]) => state' = None
    BY <2>1 DEF IndexInv, RowCleared
  <2>5. /\ state' \in IX!State \cup {None} /\ head' = head
        /\ coll' \in {"missing", "legacy", "hybrid"}
    BY <2>1 DEF IndexInv
  <2> HIDE DEF r
  <2> QED
    BY <2>2, <2>3, <2>4, <2>5, CommandStep
<1>13. ASSUME NEW c \in Command, IX!ResetCreate(c)
       PROVE  IndexInv'
  <2> DEFINE r == [cmd[c] EXCEPT !.pc = "clear"]
  <2>1. /\ r \in JobType /\ JobOK(r) /\ r.kind = cmd[c].kind
        /\ ~Whole(r) /\ \A v, g : Stored(r, v, g)
    BY <1>g
  <2>2. /\ cmd' = [cmd EXCEPT ![c] = r] /\ coll' \in {coll, "hybrid"}
        /\ UNCHANGED <<head, vecs, graph, state, spoilt>>
    BY <1>13 DEF IX!ResetCreate
  <2>3. coll' \in {"missing", "legacy", "hybrid"}
    BY <2>2 DEF IndexInv
  <2> HIDE DEF r
  <2> QED
    BY <2>1, <2>2, <2>3, AddStep
<1>14. ASSUME NEW c \in Command, IX!ResetDelete(c)
       PROVE  IndexInv'
  <2>1. /\ cmd' = [cmd EXCEPT ![c] = IX!Quiet] /\ state' = None
        /\ spoilt' = (spoilt /\ ~IX!NobodyElse(c))
        /\ UNCHANGED <<head, coll, vecs, graph>>
    BY <1>14 DEF IX!ResetDelete
  <2>2. IX!NobodyElse(c) =>
          \A d \in Command \ {c} : Stored(cmd[d], vecs', graph')
    BY DEF IX!NobodyElse, Stored
  <2>3. spoilt \/ \A d \in Command \ {c} : Stored(cmd[d], vecs', graph')
    BY <2>1 DEF IndexInv, StoresOK
  <2>4. spoilt' \/ \A d \in Command \ {c} : Stored(cmd[d], vecs', graph')
    BY <2>1, <2>2, <2>3
  <2> QED
    BY <1>q, <2>1, <2>4, CommandStep DEF IndexInv
<1>15. ASSUME IX!Commit
       PROVE  IndexInv'
  <2>1. /\ head' \in IX!Head
        /\ UNCHANGED <<coll, vecs, graph, state, cmd, spoilt>>
    BY <1>15 DEF IX!Commit
  <2> QED
    BY <2>1 DEF IndexInv, JobsOK, RowCleared, StoresOK
<1>16. ASSUME IX!LoseGraph
       PROVE  IndexInv'
  <2>1. spoilt' /\ UNCHANGED <<head, coll, state, cmd>>
    BY <1>16 DEF IX!LoseGraph
  <2> QED
    BY <2>1 DEF IndexInv, JobsOK, RowCleared, StoresOK
<1> QED
  BY <1>1, <1>2, <1>3, <1>4, <1>5, <1>6, <1>7, <1>8, <1>9, <1>10, <1>11,
     <1>12, <1>13, <1>14, <1>15, <1>16 DEF IX!Next, IX!Step

(* ProjectIndex: nothing is recorded that is not indexed.                  *)
THEOREM IndexKeepsItsWord == MCSpec => []MCRecordedMeansIndexed
<1>1. MCInit => IndexInv
  BY IndexInit
<1>2. IndexInv /\ [MCNext]_allvars => IndexInv'
  <2> SUFFICES ASSUME IndexInv, [MCNext]_allvars
               PROVE  IndexInv'
    OBVIOUS
  <2>1. CASE IX!Next
    BY <2>1, IndexNext
  <2>2. CASE UNCHANGED indexVars
    BY <2>2 DEF indexVars, IndexInv, JobsOK, RowCleared, StoresOK
  <2> QED
    BY <2>1, <2>2, MemorySteps
<1>3. IndexInv => MCRecordedMeansIndexed
  BY DEF IndexInv, StoresOK, MCRecordedMeansIndexed, IX!RecordedMeansIndexed
<1>4. MCSpec => MCInit /\ [][MCNext]_allvars
  BY PTL DEF MCSpec, allvars
<1> QED
  BY <1>1, <1>2, <1>3, <1>4, PTL

-----------------------------------------------------------------------------
(***************************************************************************)
(* The resolver.  No reference is lost as an edge leaves its placeholder   *)
(* only for a symbol of the same name, in whatever pass wrote the row; and *)
(* what a pass has loaded, of whatever age, mixes no two languages in one  *)
(* file, so nothing is looked up ahead of a file's own namespace.          *)
(***************************************************************************)
Shaped(e) == e = [kind |-> e.kind, from |-> e.from, name |-> e.name,
                  arity |-> e.arity, recv |-> e.recv]
Linked(i) == i = [from |-> i.from, key |-> i.key, live |-> i.live]

(* Symbols and relative imports are those of some version of their file.   *)
Defined(s, d) == \E f \in File : \E v \in s.versions[f] : d \in v.defs
Relative(s, i) ==
  /\ i.key \in RV!Import
  /\ i.key.kind = "relative" =>
       i.from \in File /\ \E v \in s.versions[i.from] :
                            \E k \in v.imports : k.kind = "relative"

GraphRead(s, g) ==
  /\ g = [defs |-> g.defs, raw |-> g.raw, placeholders |-> g.placeholders,
          imports |-> g.imports]
  /\ \A d \in g.defs : Defined(s, d)
  /\ \A i \in g.imports : Relative(s, i)

PassOK(s, r) ==
  r.pc # "idle" =>
    /\ r = [pc |-> r.pc, loaded |-> r.loaded, rows |-> r.rows,
            fresh |-> r.fresh, left |-> r.left]
    /\ \A row \in r.rows : row.to.name = row.edge.name
    /\ GraphRead(s, r.loaded)

Referred(f) ==
  \A w \in RV!Wanted(f) :
    \/ \E e \in raw : e.kind = w.kind /\ e.from = f /\ e.name = w.name
    \/ \E b \in bound : b.kind = w.kind /\ b.from = f /\ b.to.name = w.name

ResolverInv ==
  /\ setting \in ResolverScenes
  /\ \A e \in raw : Shaped(e) /\ e.name \in placeholders /\ e.kind \in RV!Kind
  /\ \A f \in RV!Ingested : Referred(f)
  /\ \A d \in defs : Defined(setting, d)
  /\ \A i \in imports : Linked(i) /\ Relative(setting, i)
  /\ DOMAIN holds = File /\ DOMAIN pass = Pass
  /\ \A p \in Pass : PassOK(setting, pass[p])

(* What is defined in a graph that was read is a symbol of its file.       *)
LEMMA DefsTyped ==
  ASSUME setting \in ResolverScenes, NEW d, Defined(setting, d)
  PROVE  /\ d.key.name \in Name /\ d.key.file \in File /\ d.key.file # None
         /\ d.space \in Space \cup {None}
         /\ \E v \in setting.versions[d.key.file] : d \in v.defs
<1>0. /\ None \notin File \cup Name \cup Assembly
      /\ RV!OneLanguage(setting.versions)
      /\ setting \in RV!ResolverScene
  BY MemoryAssumption DEF RV!ResolverAssumption
<1>1. PICK f \in File : \E v \in setting.versions[f] : d \in v.defs
  BY DEF Defined
<1>2. PICK v \in setting.versions[f] : d \in v.defs
  BY <1>1
<1>3. d.key.file = f
  BY <1>0, <1>2 DEF RV!OneLanguage
<1>4. setting.versions[f] \subseteq RV!Extracted
  BY <1>0 DEF RV!ResolverScene
<1>5. v.defs \subseteq RV!Symbol
  BY <1>2, <1>4 DEF RV!Extracted
<1>6. d.key.name \in Name /\ d.space \in Space \cup {None}
  BY <1>2, <1>5 DEF RV!Symbol, RV!SymbolKey
<1> QED
  BY <1>0, <1>2, <1>3, <1>6

(* A set of numbers has a least one.                                       *)
LEMMA Least ==
  ASSUME NEW S, S \subseteq Nat, S # {}
  PROVE  \E n \in S : \A m \in S : n <= m
<1> DEFINE less == OpToRel(<, Nat)
<1>1. less = {ss \in Nat \X Nat : ss[1] < ss[2]}
  BY DEF OpToRel
<1>2. IsWellFoundedOn(less, Nat)
  BY NatLessThanWellFounded
<1> HIDE DEF less
<1>3. PICK n \in S : \A m \in S : ~(<<m, n>> \in less)
  BY <1>2, WFMin, Zenon
<1>4. ASSUME NEW m \in S
      PROVE  n <= m
  <2>1. m \in Nat /\ n \in Nat
    OBVIOUS
  <2>2. ~(m < n)
    BY <1>1, <1>3, <2>1
  <2> QED
    BY <2>1, <2>2
<1> QED
  BY <1>4

(* What an import reaches is a file.                                       *)
LEMMA ReachedFile ==
  ASSUME NEW g, NEW k \in RV!Import
  PROVE  RV!Reached(g, k) \in File \cup {None}
<1> DEFINE hits == {i \in DOMAIN k.to : \E d \in g.defs : d.key.file = k.to[i]}
<1>1. RV!Reached(g, k) = IF k.kind # "relative" \/ hits = {} THEN None
                         ELSE k.to[RV!Min(hits)]
  BY Zenon DEF RV!Reached
<1>2. CASE k.kind = "relative" /\ hits # {}
  <2>1. k.to \in Seq(File)
    BY <1>2 DEF RV!Import
  <2>2. hits \subseteq Nat
    BY <2>1
  <2>3. RV!Min(hits) \in hits
    BY <1>2, <2>2, Least DEF RV!Min
  <2>4. PICK m \in DOMAIN k.to : m = RV!Min(hits)
    BY <2>3
  <2> HIDE DEF hits
  <2>5. k.to[RV!Min(hits)] \in File
    BY <2>1, <2>4
  <2> QED
    BY <1>1, <1>2, <2>5
<1> QED
  BY <1>1, <1>2

(* What is picked was a candidate. *)
LEMMA Picked ==
  ASSUME NEW S, NEW a
  PROVE  RV!Pick(S, a) \subseteq S
  BY DEF RV!Pick, RV!ByArity

(* A reference is bound to a symbol or a type of its name. *)
LEMMA BoundByName ==
  ASSUME NEW g, NEW e, NEW b \in RV!Resolution(g, e)
  PROVE  b.to.name = e.name
<1> DEFINE named == RV!Named(g, e.name)
           own == {d \in named : d.key.file = e.from}
           imported == RV!Imported(g, e.from, e.name)
           typed == RV!Pick(RV!Listed(RV!OfReceiver(g, e, named)), e.arity)
           home == RV!Home(g, e, named)
           using == RV!Used(g, e, named)
           Of(S) == \A c \in S : c.sym.key.name = e.name
<1>1. \A S : Of(S) => \A conf : \A x \in RV!To(S, conf) : x.to.name = e.name
  BY DEF RV!To
<1>2. \A S, a : Of(S) => Of(RV!Pick(S, a))
  BY Picked
<1>3. \A D : D \subseteq named => Of(RV!Listed(D))
  BY DEF RV!Listed, RV!Named
<1>4. Of(imported)
  BY DEF RV!Imported, RV!Named
<1>5. Of(RV!Listed(RV!Earliest(own, e.arity)))
  <2>1. RV!Earliest(own, e.arity) \subseteq named
    BY DEF RV!Earliest
  <2> QED
    BY <1>3, <2>1
<1>6. Of(typed)
  <2>1. RV!OfReceiver(g, e, named) \subseteq named
    BY DEF RV!OfReceiver
  <2> QED
    BY <1>2, <1>3, <2>1
<1>7. Of(RV!Listed(home)) /\ Of(RV!Listed(using)) /\ Of(RV!Listed(named))
  <2>1. home \subseteq named /\ using \subseteq named
    BY DEF RV!Home, RV!Used
  <2> QED
    BY <1>3, <2>1
<1>8. \A t \in RV!Exposed(e) : t.name = e.name
  BY DEF RV!Exposed
<1>9. \/ \E S, conf : Of(S) /\ b \in RV!To(S, conf)
      \/ \E t \in RV!Exposed(e) : b = [to |-> t, conf |-> "external"]
  <2>0. b \in RV!Resolution(g, e)
    OBVIOUS
  <2>1. \/ b \in RV!To(RV!Listed(RV!Earliest(own, e.arity)), "high")
        \/ b \in RV!To(RV!Pick(imported, e.arity), "high")
        \/ b \in RV!To(typed, "high")
        \/ b \in RV!To(RV!Pick(RV!Listed(home), e.arity), "high")
        \/ b \in RV!To(RV!Listed(using), "high")
        \/ b \in RV!To(RV!Pick(RV!Listed(named), e.arity), "medium")
        \/ \E t \in RV!Exposed(e) : b = [to |-> t, conf |-> "external"]
    BY <2>0, Zenon DEF RV!Resolution
  <2> HIDE DEF named, own, imported, typed, home, using
  <2> QED
    BY <1>2, <1>4, <1>5, <1>6, <1>7, <2>1
<1> QED
  BY <1>1, <1>8, <1>9

(* So is every row of a pass. *)
LEMMA RowsByName ==
  ASSUME NEW g
  PROVE  \A r \in RV!Rows(g) : r.to.name = r.edge.name
<1> SUFFICES ASSUME NEW r \in RV!Rows(g)
             PROVE  r.to.name = r.edge.name
  OBVIOUS
<1>1. PICK e \in g.raw :
        /\ RV!Resolution(g, e) # {}
        /\ r.edge = e
        /\ r.to = (CHOOSE b \in RV!Resolution(g, e) : TRUE).to
  BY DEF RV!Rows
<1>2. (CHOOSE b \in RV!Resolution(g, e) : TRUE) \in RV!Resolution(g, e)
  BY <1>1
<1> QED
  BY <1>1, <1>2, BoundByName

(* Bounded contexts, decided on any graph a pass may have read.            *)
LEMMA OneContext ==
  ASSUME setting \in ResolverScenes, NEW g, GraphRead(setting, g),
         NEW e, e.recv = None, RV!HomeOf(g, e.from) # None,
         \E d \in RV!Named(g, e.name) : d.space = RV!HomeOf(g, e.from),
         NEW near,
         near = {d \in g.defs : \/ d.space = RV!HomeOf(g, e.from)
                                \/ d.key.file = e.from},
         NEW h, h.defs = near, h.imports = g.imports,
         h.placeholders = g.placeholders
  PROVE  RV!Resolution(g, e) = RV!Resolution(h, e)
<1> DEFINE S == RV!HomeOf(g, e.from)
<1>0. /\ None \notin File \cup Name \cup Assembly
      /\ RV!OneLanguage(setting.versions)
      /\ setting \in RV!ResolverScene
  BY MemoryAssumption DEF RV!ResolverAssumption
<1>k. \A d \in g.defs : /\ d.key.name \in Name /\ d.key.file \in File
                        /\ \E v \in setting.versions[d.key.file] : d \in v.defs
  BY DefsTyped DEF GraphRead
(* The file has a namespace, and so no relative imports. *)
<1>1. \E d \in g.defs : d.key.file = e.from /\ d.space # None
  BY DEF RV!HomeOf
<1>2. e.from \in File /\ \A v \in setting.versions[e.from] :
                           \A k \in v.imports : k.kind # "relative"
  BY <1>0, <1>1, <1>k DEF RV!OneLanguage
<1>3. \A i \in g.imports : i.from = e.from => i.key.kind # "relative"
  BY <1>2 DEF GraphRead, Relative
<1>4. /\ RV!Imported(g, e.from, e.name) = {}
      /\ RV!Imported(h, e.from, e.name) = {}
  <2>1. \A i \in g.imports : i.from = e.from =>
          RV!Reached(g, i.key) = None /\ RV!Reached(h, i.key) = None
    BY <1>3 DEF RV!Reached
  <2>2. \A d \in g.defs : d.key.file # None
    BY <1>0, <1>k
  <2> QED
    BY <2>1, <2>2 DEF RV!Imported, RV!Named
(* Nor is there a type for a receiver it does not have. *)
<1>5. RV!Named(g, None) = {} /\ RV!Named(h, None) = {}
  BY <1>0, <1>k DEF RV!Named
<1>6. \A a : RV!Pick(RV!Listed({}), a) = {}
  BY Picked DEF RV!Listed
<1>7. \A D : RV!OfReceiver(g, e, D) = {} /\ RV!OfReceiver(h, e, D) = {}
  BY <1>5 DEF RV!OfReceiver
(* What is left is the same in both. *)
<1>8. {x \in h.defs : x.key.file = e.from}
        = {x \in g.defs : x.key.file = e.from}
  OBVIOUS
<1>9. RV!HomeOf(h, e.from) = S
  <2> DEFINE Sole(D) ==
               LET seen == {d.space : d \in D} \ {None}
               IN  IF RV!Cardinality(seen) = 1
                   THEN CHOOSE s \in seen : TRUE ELSE None
  <2>1. RV!HomeOf(g, e.from) = Sole({x \in g.defs : x.key.file = e.from})
    BY Zenon DEF RV!HomeOf
  <2>2. RV!HomeOf(h, e.from) = Sole({x \in h.defs : x.key.file = e.from})
    BY Zenon DEF RV!HomeOf
  <2> HIDE DEF Sole
  <2> QED
    BY <1>8, <2>1, <2>2
<1> DEFINE named == RV!Named(g, e.name)  there == RV!Named(h, e.name)
<1>10. {d \in there : d.key.file = e.from}
         = {d \in named : d.key.file = e.from}
  BY DEF RV!Named
<1>11. RV!Home(h, e, there) = RV!Home(g, e, named) /\ RV!Home(g, e, named) # {}
  BY <1>9 DEF RV!Home, RV!Named
<1> HIDE DEF named, there
<1> DEFINE own == {d \in named : d.key.file = e.from}
<1>12. RV!Resolution(g, e) =
         IF e.name \notin g.placeholders THEN {}
         ELSE IF own # {}
              THEN RV!To(RV!Listed(RV!Earliest(own, e.arity)), "high")
         ELSE RV!To(RV!Pick(RV!Listed(RV!Home(g, e, named)), e.arity), "high")
  BY <1>4, <1>6, <1>7, <1>11, Zenon DEF RV!Resolution, named
<1>13. RV!Resolution(h, e) =
         IF e.name \notin g.placeholders THEN {}
         ELSE IF own # {}
              THEN RV!To(RV!Listed(RV!Earliest(own, e.arity)), "high")
         ELSE RV!To(RV!Pick(RV!Listed(RV!Home(h, e, there)), e.arity), "high")
  BY <1>4, <1>6, <1>7, <1>10, <1>11, Zenon DEF RV!Resolution, there
<1> QED
  BY <1>11, <1>12, <1>13

LEMMA ResolverInit ==
  ASSUME MCInit
  PROVE  ResolverInv
<1>1. /\ setting \in ResolverScenes
      /\ holds = [f \in File |-> None]
      /\ defs = {} /\ imports = {} /\ raw = {}
      /\ pass = [p \in Pass |-> RV!NoPass]
  BY DEF MCInit, RV!Init
<1>2. RV!Ingested = {}
  BY <1>1 DEF RV!Ingested
<1>3. \A p \in Pass : PassOK(setting, pass[p])
  BY <1>1 DEF PassOK, RV!NoPass
<1> QED
  BY <1>1, <1>2, <1>3 DEF ResolverInv

(* What is merged of a new version is shaped like an edge and has all the  *)
(* file refers to.                                                         *)
LEMMA MergedOK ==
  ASSUME \A e \in raw : Shaped(e), NEW f, NEW content
  PROVE  /\ \A e \in RV!Merged(f, content) :
              Shaped(e) /\ e.from = f /\ e.kind \in RV!Kind
         /\ \A c \in RV!ToSet(content.calls) :
              \E e \in RV!Merged(f, content) :
                e.kind = "CALLS" /\ e.name = c.name
         /\ \A n \in content.injects :
              \E e \in RV!Merged(f, content) :
                e.kind = "INJECTS" /\ e.name = n
         /\ \A n \in content.refs :
              \E e \in RV!Merged(f, content) :
                e.kind = "REFERENCES" /\ e.name = n
<1> DEFINE old(k, n) == {e \in raw : e.kind = k /\ e.from = f /\ e.name = n}
           bare(k, n) == IF old(k, n) # {} THEN CHOOSE e \in old(k, n) : TRUE
                         ELSE [kind |-> k, from |-> f, name |-> n,
                               arity |-> -1, recv |-> None]
           sites(n) == SelectSeq(content.calls, LAMBDA c : c.name = n)
           receivers(n) == SelectSeq(sites(n), LAMBDA c : c.recv # None)
           called(n) == [bare("CALLS", n) EXCEPT
                          !.arity = RV!Last(sites(n)).arity,
                          !.recv = IF receivers(n) = <<>> THEN @
                                   ELSE RV!Last(receivers(n)).recv]
<1>1. \A k, n : /\ Shaped(bare(k, n)) /\ bare(k, n).kind = k
                /\ bare(k, n).from = f /\ bare(k, n).name = n
  BY DEF Shaped
<1> HIDE DEF bare, sites, receivers
<1>2. \A n : /\ Shaped(called(n)) /\ called(n).kind = "CALLS"
             /\ called(n).from = f /\ called(n).name = n
  <2> SUFFICES ASSUME NEW n
               PROVE  /\ Shaped(called(n)) /\ called(n).kind = "CALLS"
                      /\ called(n).from = f /\ called(n).name = n
    OBVIOUS
  <2> DEFINE x == bare("CALLS", n)
             a == RV!Last(sites(n)).arity
             r == IF receivers(n) = <<>> THEN x.recv
                  ELSE RV!Last(receivers(n)).recv
             y == called(n)
  <2>1. y = [x EXCEPT !.arity = a, !.recv = r]
    OBVIOUS
  <2>2. Shaped(x) /\ x.kind = "CALLS" /\ x.from = f /\ x.name = n
    BY <1>1
  <2> HIDE DEF x, a, r, y
  <2>3. ASSUME NEW k, NEW g, NEW m, NEW b, NEW s,
               x = [kind |-> k, from |-> g, name |-> m, arity |-> b,
                    recv |-> s]
        PROVE  y = [kind |-> k, from |-> g, name |-> m, arity |-> a,
                    recv |-> r]
    BY <2>1, <2>3
  <2>4. y = [kind |-> x.kind, from |-> x.from, name |-> x.name,
             arity |-> a, recv |-> r]
    BY <2>2, <2>3, Zenon DEF Shaped
  <2>5. Shaped(y)
    BY <2>4 DEF Shaped
  <2> QED
    BY <2>2, <2>4, <2>5 DEF y
<1> HIDE DEF called
<1>3. RV!Merged(f, content) =
        {called(n) : n \in {c.name : c \in RV!ToSet(content.calls)}}
          \cup {bare("INJECTS", n) : n \in content.injects}
          \cup {bare("REFERENCES", n) : n \in content.refs}
  BY Zenon DEF RV!Merged, called, bare, sites, receivers
<1> DEFINE M == RV!Merged(f, content)
<1> HIDE DEF M
<1>4. \A e \in M : Shaped(e) /\ e.from = f /\ e.kind \in RV!Kind
  BY <1>1, <1>2, <1>3 DEF M, RV!Kind
<1>5. \A c \in RV!ToSet(content.calls) : called(c.name) \in M
  BY <1>3 DEF M
<1>6. /\ \A n \in content.injects : bare("INJECTS", n) \in M
      /\ \A n \in content.refs : bare("REFERENCES", n) \in M
  BY <1>3 DEF M
<1> QED
  BY <1>1, <1>2, <1>4, <1>5, <1>6 DEF M

(* A pass whose graph is outdated keeps what it has loaded.                *)
LEMMA OutdatedKeeps ==
  ASSUME ResolverInv
  PROVE  /\ DOMAIN RV!Outdated = Pass
         /\ \A p \in Pass : /\ PassOK(setting, RV!Outdated[p])
                            /\ \/ RV!Outdated[p].pc = "idle"
                               \/ RV!Outdated[p].fresh = FALSE
<1>0. DOMAIN RV!Outdated = Pass
  BY DEF RV!Outdated
<1> SUFFICES ASSUME NEW p \in Pass, NEW o, o = RV!Outdated[p]
             PROVE  /\ PassOK(setting, o)
                    /\ o.pc = "idle" \/ o.fresh = FALSE
  BY <1>0
<1>1. o = IF pass[p].pc = "idle" THEN RV!NoPass
          ELSE [pass[p] EXCEPT !.fresh = FALSE]
  BY DEF RV!Outdated
<1>2. CASE pass[p].pc = "idle"
  BY <1>1, <1>2 DEF PassOK, RV!NoPass
<1>3. CASE pass[p].pc # "idle"
  <2>1. PassOK(setting, pass[p])
    BY DEF ResolverInv
  <2>2. o = [pc |-> pass[p].pc, loaded |-> pass[p].loaded,
             rows |-> pass[p].rows, fresh |-> FALSE, left |-> pass[p].left]
    BY <1>1, <1>3, <2>1 DEF PassOK
  <2>3. /\ o.pc = pass[p].pc /\ o.loaded = pass[p].loaded
        /\ o.rows = pass[p].rows /\ o.fresh = FALSE /\ o.left = pass[p].left
    BY <2>2
  <2> QED
    BY <1>3, <2>1, <2>2, <2>3 DEF PassOK
<1> QED
  BY <1>2, <1>3

LEMMA ReingestKeeps ==
  ASSUME ResolverInv, NEW f \in File, NEW content \in setting.versions[f],
         RV!Reingest(f, content)
  PROVE  ResolverInv'
<1> DEFINE new == RV!Merged(f, content)
<1>1. /\ holds' = [holds EXCEPT ![f] = content]
      /\ defs' = {d \in defs : \A c \in content.defs : c.key # d.key}
                   \cup content.defs
      /\ imports' = {IF i.from = f THEN [i EXCEPT !.live = FALSE] ELSE i :
                       i \in {x \in imports :
                                x.from # f \/ x.key \notin content.imports}}
                      \cup {[from |-> f, key |-> k, live |-> TRUE] :
                              k \in content.imports}
      /\ raw' = {e \in raw : \A n \in new : ~RV!SameEdge(e, n)} \cup new
      /\ placeholders' = placeholders \cup {e.name : e \in new}
      /\ pass' = RV!Outdated
      /\ setting' = setting /\ bound' = bound
  BY DEF RV!Reingest
<1>2. /\ \A e \in new : Shaped(e) /\ e.from = f /\ e.kind \in RV!Kind
      /\ \A c \in RV!ToSet(content.calls) :
           \E e \in new : e.kind = "CALLS" /\ e.name = c.name
      /\ \A n \in content.injects :
           \E e \in new : e.kind = "INJECTS" /\ e.name = n
      /\ \A n \in content.refs :
           \E e \in new : e.kind = "REFERENCES" /\ e.name = n
  BY MergedOK DEF ResolverInv
<1> HIDE DEF new
<1>3. \A e \in raw' : /\ Shaped(e)
                       /\ e.name \in placeholders' /\ e.kind \in RV!Kind
  BY <1>1, <1>2 DEF ResolverInv
<1>4. \A e \in raw : \E d \in raw' : RV!SameEdge(e, d)
  BY <1>1 DEF RV!SameEdge
<1>5. ASSUME NEW x \in File, holds'[x] # None
      PROVE  Referred(x)'
  <2>1. CASE x = f
    <3>1. holds'[f] = content
      BY <1>1 DEF ResolverInv
    <3>2. ASSUME NEW w \in RV!Wanted(f)'
          PROVE  \E e \in new : e.kind = w.kind /\ e.name = w.name
      <4>1. \/ \E c \in RV!ToSet(content.calls) :
                 w = [kind |-> "CALLS", name |-> c.name]
            \/ \E n \in content.injects : w = [kind |-> "INJECTS", name |-> n]
            \/ \E n \in content.refs : w = [kind |-> "REFERENCES", name |-> n]
        BY <3>1, <3>2 DEF RV!Wanted
      <4> QED
        BY <1>2, <4>1
    <3> QED
      BY <1>1, <1>2, <2>1, <3>2 DEF Referred
  <2>2. CASE x # f
    <3>1. holds'[x] = holds[x] /\ x \in RV!Ingested
      BY <1>1, <1>5, <2>2 DEF ResolverInv, RV!Ingested
    <3>2. Referred(x) /\ RV!Wanted(x)' = RV!Wanted(x)
      BY <3>1 DEF ResolverInv, RV!Wanted
    <3> QED
      BY <1>1, <1>4, <3>2 DEF Referred, RV!SameEdge
  <2> QED
    BY <2>1, <2>2
<1>6. \A d \in defs' : Defined(setting, d)
  BY <1>1 DEF ResolverInv, Defined
<1>7. \A i \in imports' : Linked(i) /\ Relative(setting, i)
  <2>1. \A i \in imports :
          [i EXCEPT !.live = FALSE] =
            [from |-> i.from, key |-> i.key, live |-> FALSE]
    <3> SUFFICES ASSUME NEW i \in imports, NEW j,
                        j = [i EXCEPT !.live = FALSE]
                 PROVE  j = [from |-> i.from, key |-> i.key, live |-> FALSE]
      OBVIOUS
    <3>1. ASSUME NEW x, NEW y, NEW z, i = [from |-> x, key |-> y, live |-> z]
          PROVE  j = [from |-> x, key |-> y, live |-> FALSE]
      BY <3>1
    <3> QED
      BY <3>1, Zenon DEF ResolverInv, Linked
  <2>2. \A i \in imports' :
          \/ \E j \in imports : i = j \/ i = [from |-> j.from, key |-> j.key,
                                             live |-> FALSE]
          \/ \E k \in content.imports : i = [from |-> f, key |-> k,
                                             live |-> TRUE]
    BY <1>1, <2>1
  <2>3. content.imports \subseteq RV!Import
    <3>1. setting \in RV!ResolverScene
      BY MemoryAssumption DEF ResolverInv, RV!ResolverAssumption
    <3> QED
      BY <3>1 DEF RV!ResolverScene, RV!Extracted
  <2> QED
    BY <2>2, <2>3 DEF ResolverInv, Relative, Linked
<1>8. DOMAIN pass' = Pass /\ \A p \in Pass : PassOK(setting, pass'[p])
  BY <1>1, OutdatedKeeps
<1> QED
  BY <1>1, <1>3, <1>5, <1>6, <1>7, <1>8 DEF ResolverInv, RV!Ingested

(* An alias is a name of a file that an import of the same file reaches.   *)
Reaching(g, a) ==
  \E i \in g.imports :
    /\ i.from = a.from /\ i.key.kind = "relative"
    /\ RV!Reached(g, i.key) # None
    /\ a.key \in RV!Names(RV!Reached(g, i.key))

LEMMA AliasesOf ==
  ASSUME NEW g, NEW a \in RV!Aliases(g)
  PROVE  Reaching(g, a)
<1>1. PICK i \in {x \in g.imports : RV!Reached(g, x.key) # None} :
        a \in {[from |-> i.from, key |-> k] :
                 k \in RV!Names(RV!Reached(g, i.key)) \ {i.key}}
  BY DEF RV!Aliases
<1>2. i \in g.imports /\ RV!Reached(g, i.key) # None
  OBVIOUS
<1>3. i.key.kind = "relative"
  BY <1>2 DEF RV!Reached
<1>4. PICK k \in RV!Names(RV!Reached(g, i.key)) :
        a = [from |-> i.from, key |-> k]
  BY <1>1
<1>5. a.from = i.from /\ a.key = k
  BY <1>4
<1> QED
  BY <1>2, <1>3, <1>4, <1>5 DEF Reaching

LEMMA PassSteps ==
  ASSUME ResolverInv, NEW p \in Pass,
         \/ RV!Load(p) \/ RV!Apply(p) \/ RV!Cleanup(p)
         \/ RV!EmitAliases(p) \/ RV!Abandon(p)
  PROVE  ResolverInv'
<1> DEFINE r == pass[p]
<1>0. /\ DOMAIN pass = Pass /\ \A q \in Pass : PassOK(setting, pass[q])
      /\ \A e \in raw :
           Shaped(e) /\ e.name \in placeholders /\ e.kind \in RV!Kind
      /\ \A f \in RV!Ingested : Referred(f)
      /\ \A d \in defs : Defined(setting, d)
      /\ \A i \in imports : Linked(i) /\ Relative(setting, i)
  BY DEF ResolverInv
(* A pass that ends, or goes on with what it has loaded. *)
<1>n. PassOK(setting, RV!NoPass)
  BY DEF PassOK, RV!NoPass
<1>g. ASSUME r.pc # "idle", NEW s,
             \/ \E l : s = [r EXCEPT !.left = l]
             \/ s = [r EXCEPT !.pc = "alias"]
      PROVE  PassOK(setting, s)
  <2>0. /\ r = [pc |-> r.pc, loaded |-> r.loaded, rows |-> r.rows,
                fresh |-> r.fresh, left |-> r.left]
        /\ \A row \in r.rows : row.to.name = row.edge.name
        /\ GraphRead(setting, r.loaded)
    BY <1>0, <1>g DEF PassOK
  <2>1. ASSUME NEW l, s = [r EXCEPT !.left = l]
        PROVE  s = [pc |-> r.pc, loaded |-> r.loaded, rows |-> r.rows,
                    fresh |-> r.fresh, left |-> l]
    BY <2>0, <2>1
  <2>2. ASSUME s = [r EXCEPT !.pc = "alias"]
        PROVE  s = [pc |-> "alias", loaded |-> r.loaded, rows |-> r.rows,
                    fresh |-> r.fresh, left |-> r.left]
    BY <2>0, <2>2
  <2>3. PICK c, l : s = [pc |-> c, loaded |-> r.loaded, rows |-> r.rows,
                         fresh |-> r.fresh, left |-> l]
    BY <1>g, <2>1, <2>2
  <2> HIDE DEF r
  <2> QED
    BY <2>0, <2>3 DEF PassOK
(* Whatever pass[p] becomes, the others stay. *)
<1>o. ASSUME NEW s, pass' = [pass EXCEPT ![p] = s], PassOK(setting, s),
             setting' = setting
      PROVE  DOMAIN pass' = Pass /\ \A q \in Pass : PassOK(setting, pass'[q])
  BY <1>0, <1>o
<1> HIDE DEF r
<1>1. CASE RV!Load(p)
  <2> DEFINE g == RV!graph
             s == [pc |-> "apply", loaded |-> g, rows |-> RV!Rows(g),
                   fresh |-> TRUE,
                   left |-> {n \in DOMAIN RV!Batches :
                               \E x \in RV!Rows(g) :
                                 RV!InBatch(x, RV!Batches[n])}]
  <2>1. /\ pass' = [pass EXCEPT ![p] = s]
        /\ UNCHANGED <<setting, holds, defs, imports, raw, bound,
                       placeholders>>
    BY <1>1, Zenon DEF RV!Load, RV!graphVars
  <2>2. GraphRead(setting, g)
    BY <1>0 DEF GraphRead, Relative, RV!graph
  <2>3. \A row \in RV!Rows(g) : row.to.name = row.edge.name
    BY RowsByName
  <2> HIDE DEF g
  <2>4. PassOK(setting, s)
    BY <2>2, <2>3 DEF PassOK
  <2> HIDE DEF s
  <2>5. DOMAIN pass' = Pass /\ \A q \in Pass : PassOK(setting, pass'[q])
    BY <1>o, <2>1, <2>4
  <2> QED
    BY <2>1, <2>5 DEF ResolverInv, RV!Ingested, Referred, RV!Wanted
<1>2. CASE RV!Apply(p)
  <2> DEFINE b == RV!Batches[RV!Min(pass[p].left)]
             met == {x \in pass[p].rows :
                       /\ RV!InBatch(x, b)
                       /\ \E e \in raw : RV!SameEdge(e, x.edge)}
             merged == {[kind |-> x.edge.kind, from |-> x.edge.from,
                         to |-> x.to, conf |-> x.conf] : x \in met}
             s == [r EXCEPT !.left = @ \ {RV!Min(@)}]
  <2>1. /\ pass[p].pc = "apply"
        /\ raw' = {e \in raw : \A x \in met : ~RV!SameEdge(e, x.edge)}
        /\ bound' = {e \in bound : \A m \in merged :
                       ~(e.kind = m.kind /\ e.from = m.from /\ e.to = m.to)}
                      \cup merged
        /\ pass' = [pass EXCEPT ![p].left = @ \ {RV!Min(@)}]
        /\ UNCHANGED <<setting, holds, defs, imports, placeholders>>
    BY <1>2, Zenon DEF RV!Apply
  <2>2. \A x \in met : x.to.name = x.edge.name
    BY <1>0, <2>1 DEF PassOK
  <2>3. pass' = [pass EXCEPT ![p] = s] /\ PassOK(setting, s)
    BY <1>0, <1>g, <2>1 DEF r
  <2>4. DOMAIN pass' = Pass /\ \A q \in Pass : PassOK(setting, pass'[q])
    BY <1>o, <2>1, <2>3
  <2>5. \A x \in met : \E m \in merged :
          /\ m.kind = x.edge.kind /\ m.from = x.edge.from
          /\ m.to.name = x.edge.name
    <3> SUFFICES ASSUME NEW x \in met
                 PROVE  \E m \in merged :
                          /\ m.kind = x.edge.kind /\ m.from = x.edge.from
                          /\ m.to.name = x.edge.name
      OBVIOUS
    <3>1. [kind |-> x.edge.kind, from |-> x.edge.from, to |-> x.to,
           conf |-> x.conf] \in merged
      OBVIOUS
    <3> HIDE DEF met, merged
    <3> QED
      BY <2>2, <3>1
  <2> HIDE DEF met, merged, s
  <2>6. \A e \in raw : \/ e \in raw'
                       \/ \E m \in merged : /\ m.kind = e.kind
                                            /\ m.from = e.from
                                            /\ m.to.name = e.name
    BY <2>1, <2>5 DEF RV!SameEdge
  <2>7. \A c \in bound : \E m \in bound' : /\ m.kind = c.kind
                                           /\ m.from = c.from
                                           /\ m.to = c.to
    BY <2>1
  <2>8. \A f \in RV!Ingested : Referred(f)'
    <3> SUFFICES ASSUME NEW f \in RV!Ingested, NEW w \in RV!Wanted(f)'
                 PROVE  \/ \E e \in raw' : /\ e.kind = w.kind /\ e.from = f
                                           /\ e.name = w.name
                        \/ \E c \in bound' : /\ c.kind = w.kind /\ c.from = f
                                             /\ c.to.name = w.name
      BY DEF Referred
    <3>1. w \in RV!Wanted(f)
      BY <2>1 DEF RV!Wanted
    <3>2. CASE \E e \in raw : e.kind = w.kind /\ e.from = f /\ e.name = w.name
      BY <2>1, <2>6, <3>2
    <3>3. CASE \E c \in bound : /\ c.kind = w.kind /\ c.from = f
                                /\ c.to.name = w.name
      BY <2>7, <3>3
    <3> QED
      BY <1>0, <3>1, <3>2, <3>3 DEF Referred
  <2>9. RV!Ingested' = RV!Ingested
    BY <2>1 DEF RV!Ingested
  <2>10. \A e \in raw' :
           Shaped(e) /\ e.name \in placeholders' /\ e.kind \in RV!Kind
    BY <1>0, <2>1
  <2> QED
    BY <2>1, <2>4, <2>8, <2>9, <2>10 DEF ResolverInv
<1>3. CASE RV!Cleanup(p)
  <2> DEFINE s == [r EXCEPT !.pc = "alias"]
  <2>1. /\ pass[p].pc = "apply"
        /\ placeholders' = {n \in placeholders : \E e \in raw : e.name = n}
        /\ pass' = [pass EXCEPT ![p].pc = "alias"]
        /\ UNCHANGED <<setting, holds, defs, imports, raw, bound>>
    BY <1>3 DEF RV!Cleanup
  <2>2. pass' = [pass EXCEPT ![p] = s] /\ PassOK(setting, s)
    BY <1>0, <1>g, <2>1 DEF r
  <2>3. DOMAIN pass' = Pass /\ \A q \in Pass : PassOK(setting, pass'[q])
    BY <1>o, <2>1, <2>2
  <2>4. \A e \in raw' :
          Shaped(e) /\ e.name \in placeholders' /\ e.kind \in RV!Kind
    BY <1>0, <2>1
  <2> QED
    BY <2>1, <2>3, <2>4 DEF ResolverInv, RV!Ingested, Referred, RV!Wanted
<1>4. CASE RV!EmitAliases(p)
  <2> DEFINE g == pass[p].loaded
             new == {a \in RV!Aliases(g) : \A i \in imports :
                       ~(i.from = a.from /\ i.key = a.key)}
  <2>1. /\ pass[p].pc = "alias"
        /\ imports' = imports \cup
             {[from |-> a.from, key |-> a.key, live |-> TRUE] : a \in new}
        /\ pass' = IF pass[p].fresh \/ new = {}
                   THEN [pass EXCEPT ![p] = RV!NoPass]
                   ELSE [RV!Outdated EXCEPT ![p] = RV!NoPass]
        /\ UNCHANGED <<setting, holds, defs, raw, bound, placeholders>>
    BY <1>4, Zenon DEF RV!EmitAliases
  <2>2. GraphRead(setting, g)
    BY <1>0, <2>1 DEF PassOK
  <2>3. \A a \in RV!Aliases(g) : Relative(setting, a)
    <3> SUFFICES ASSUME NEW a \in RV!Aliases(g)
                 PROVE  Relative(setting, a)
      OBVIOUS
    <3>1. PICK i \in g.imports : /\ a.from = i.from
                                /\ i.key.kind = "relative"
                                /\ RV!Reached(g, i.key) # None
                                /\ a.key \in RV!Names(RV!Reached(g, i.key))
      BY AliasesOf DEF Reaching
    <3>2. Relative(setting, i)
      BY <2>2 DEF GraphRead
    <3>3. RV!Reached(g, i.key) \in File
      BY <3>1, <3>2, ReachedFile DEF Relative
    <3>4. a.key \in RV!Import
      <4>1. PICK t \in File : a.key = RV!Path(<<t>>) \/ a.key = RV!Bare(t)
        BY <3>1, <3>3 DEF RV!Names
      <4>2. <<t>> \in Seq(File) /\ <<t>> \in Seq(Space \cup File)
        OBVIOUS
      <4>3. RV!Path(<<t>>) \in RV!Import
        BY <4>2 DEF RV!Path, RV!Import
      <4>4. RV!Bare(t) \in RV!Import
        BY <4>2 DEF RV!Bare, RV!Import
      <4> QED
        BY <4>1, <4>3, <4>4
    <3> QED
      BY <3>1, <3>2, <3>4 DEF Relative
  <2>6. \A i \in imports' : Linked(i) /\ Relative(setting, i)
    BY <1>0, <2>1, <2>3 DEF Linked, Relative
  <2>7. DOMAIN pass' = Pass /\ \A q \in Pass : PassOK(setting, pass'[q])
    <3>1. CASE pass' = [pass EXCEPT ![p] = RV!NoPass]
      BY <1>n, <1>o, <2>1, <3>1
    <3>2. CASE pass' = [RV!Outdated EXCEPT ![p] = RV!NoPass]
      BY <1>n, <2>1, <3>2, OutdatedKeeps
    <3> QED
      BY <2>1, <3>1, <3>2
  <2> QED
    BY <2>1, <2>6, <2>7 DEF ResolverInv, RV!Ingested, Referred, RV!Wanted
<1>5. CASE RV!Abandon(p)
  <2>1. /\ pass' = [pass EXCEPT ![p] = RV!NoPass]
        /\ UNCHANGED <<setting, holds, defs, imports, raw, bound,
                       placeholders>>
    BY <1>5 DEF RV!Abandon, RV!graphVars
  <2>2. DOMAIN pass' = Pass /\ \A q \in Pass : PassOK(setting, pass'[q])
    BY <1>n, <1>o, <2>1
  <2> QED
    BY <2>1, <2>2 DEF ResolverInv, RV!Ingested, Referred, RV!Wanted
<1> QED
  BY <1>1, <1>2, <1>3, <1>4, <1>5

LEMMA ResolverNext ==
  ASSUME ResolverInv, [MCNext]_allvars
  PROVE  ResolverInv'
<1>1. CASE RV!Next
  <2>1. ASSUME NEW f \in File, NEW content \in setting.versions[f],
               RV!Reingest(f, content)
        PROVE  ResolverInv'
    BY <2>1, ReingestKeeps
  <2> QED
    BY <1>1, <2>1, PassSteps DEF RV!Next
<1>2. CASE UNCHANGED resolverVars
  BY <1>2 DEF resolverVars, ResolverInv, RV!Ingested, Referred, RV!Wanted
<1> QED
  BY <1>1, <1>2, MemorySteps

(* Resolver: no reference is lost to passes that overlap or die, and where *)
(* the own namespace of a file defines a name, the other bounded contexts  *)
(* do not count.                                                           *)
THEOREM ReferencesSafe == MCSpec => []MCReferencesKept
<1>1. MCInit => ResolverInv
  BY ResolverInit
<1>2. ResolverInv /\ [MCNext]_allvars => ResolverInv'
  BY ResolverNext
<1>3. ResolverInv => MCReferencesKept
  <2> SUFFICES ASSUME ResolverInv
               PROVE  MCReferencesKept
    OBVIOUS
  <2>1. RV!ReferencesKept
    BY DEF ResolverInv, RV!ReferencesKept, Referred
  <2>2. RV!ContextsApart
    <3> SUFFICES ASSUME NEW p \in Pass, pass[p].pc # "idle",
                        NEW e \in pass[p].loaded.raw,
                        e.recv = None,
                        RV!HomeOf(pass[p].loaded, e.from) # None,
                        \E d \in RV!Named(pass[p].loaded, e.name) :
                          d.space = RV!HomeOf(pass[p].loaded, e.from),
                        NEW near,
                        near = {d \in pass[p].loaded.defs :
                             \/ d.space = RV!HomeOf(pass[p].loaded, e.from)
                             \/ d.key.file = e.from}
                 PROVE  RV!Resolution(pass[p].loaded, e) =
                          RV!Resolution([pass[p].loaded EXCEPT !.defs = near],
                                        e)
      BY Zenon DEF RV!ContextsApart
    <3>1. setting \in ResolverScenes /\ GraphRead(setting, pass[p].loaded)
      BY DEF ResolverInv, PassOK
    <3> DEFINE g == pass[p].loaded
               h == [g EXCEPT !.defs = near]
    <3>2. /\ h.defs = near /\ h.imports = g.imports
          /\ h.placeholders = g.placeholders
      BY <3>1 DEF GraphRead
    <3> HIDE DEF g, h
    <3>3. RV!Resolution(g, e) = RV!Resolution(h, e)
      BY <3>1, <3>2, OneContext DEF g
    <3> QED
      BY <3>3 DEF g, h
  <2> QED
    BY <2>1, <2>2 DEF MCReferencesKept
<1>4. MCSpec => MCInit /\ [][MCNext]_allvars
  BY PTL DEF MCSpec, allvars
<1> QED
  BY <1>1, <1>2, <1>3, <1>4, PTL

-----------------------------------------------------------------------------
(***************************************************************************)
(* The resolver comes to rest.  What a pass decided on is the graph of now *)
(* but for the edges that passes have bound since, and for the aliases     *)
(* that passes like it have added; and an alias leads to no symbol that    *)
(* the import it stands for does not lead to.                              *)
(***************************************************************************)
Extends(g, h) ==
  /\ h.defs = g.defs /\ g.imports \subseteq h.imports
  /\ \A a \in h.imports : a \in g.imports \/ Reaching(g, a)

Settled(g) == \A e \in g.raw : RV!Resolution(g, e) = {}

(* What a pass still has to write are the rows whose edges are there.      *)
FreshOK(r, g) ==
  r.pc # "idle" /\ r.fresh =>
    /\ Extends(r.loaded, g)
    /\ g.raw \subseteq r.loaded.raw
    /\ \A e \in r.loaded.raw : e.name \in r.loaded.placeholders
    /\ r.rows = RV!Rows(r.loaded)
    /\ r.left \subseteq 1 .. 6
    /\ \A x \in r.rows : x.edge \in g.raw =>
         r.pc = "apply" /\ \E i \in r.left : RV!InBatch(x, RV!Batches[i])

SettleInv ==
  /\ ResolverInv
  /\ \A p \in Pass : FreshOK(pass[p], RV!graph)
  /\ settled => Settled(RV!graph)

(* Where imports lead depends on the definitions alone.                    *)
LEMMA SameReach ==
  ASSUME NEW g, NEW h, h.defs = g.defs, NEW k
  PROVE  RV!Reached(h, k) = RV!Reached(g, k)
  BY DEF RV!Reached

(* A file that is named by its path, if by anything, is reached.           *)
LEMMA NameReaches ==
  ASSUME NEW g, NEW t, NEW k \in RV!Names(t)
  PROVE  RV!Reached(g, k) \in {t, None}
<1>1. CASE k = RV!Bare(t)
  BY <1>1 DEF RV!Reached, RV!Bare
<1>2. CASE k = RV!Path(<<t>>)
  <2>1. k.to = <<t>> /\ k.kind = "relative"
    BY <1>2 DEF RV!Path
  <2> DEFINE hits == {i \in DOMAIN k.to :
                        \E d \in g.defs : d.key.file = k.to[i]}
  <2>2. DOMAIN k.to = {1} /\ k.to[1] = t
    BY <2>1
  <2>3. hits = {} \/ hits = {1}
    BY <2>2
  <2>4. RV!Min({1}) = 1
    BY DEF RV!Min
  <2>5. RV!Reached(g, k) = IF hits = {} THEN None ELSE k.to[RV!Min(hits)]
    BY <2>1, Zenon DEF RV!Reached
  <2> HIDE DEF hits
  <2> QED
    BY <2>2, <2>3, <2>4, <2>5
<1> QED
  BY <1>1, <1>2 DEF RV!Names

(* The symbols that imports lead to are the same with the aliases.         *)
LEMMA SameImported ==
  ASSUME NEW g, NEW h, Extends(g, h), NEW f, NEW n,
         \A d \in g.defs : d.key.file # None
  PROVE  LET G == RV!Imported(g, f, n)
             H == RV!Imported(h, f, n)
         IN  G \subseteq H /\ \A c \in H : \E b \in G : b.sym = c.sym
<1> DEFINE G == RV!Imported(g, f, n)
           H == RV!Imported(h, f, n)
<1>0. /\ h.defs = g.defs /\ RV!Named(h, n) = RV!Named(g, n)
      /\ RV!Named(g, n) \subseteq g.defs
  BY DEF Extends, RV!Named
<1>1. G \subseteq H
  <2> SUFFICES ASSUME NEW c \in G PROVE c \in H
    OBVIOUS
  <2>1. /\ c \in [via : {i.key : i \in {x \in g.imports : x.from = f}},
                  sym : RV!Named(g, n)]
        /\ RV!Reached(g, c.via) = c.sym.key.file
    BY DEF RV!Imported
  <2>2. c \in [via : {i.key : i \in {x \in h.imports : x.from = f}},
               sym : RV!Named(h, n)]
    BY <1>0, <2>1 DEF Extends
  <2>3. RV!Reached(h, c.via) = c.sym.key.file
    BY <1>0, <2>1, SameReach
  <2> QED
    BY <2>2, <2>3 DEF RV!Imported
<1>2. ASSUME NEW c \in H
      PROVE  \E b \in G : b.sym = c.sym
  <2>1. /\ c \in [via : {i.key : i \in {x \in h.imports : x.from = f}},
                  sym : RV!Named(g, n)]
        /\ RV!Reached(g, c.via) = c.sym.key.file
    BY <1>0, SameReach DEF RV!Imported
  <2>2. /\ c.sym \in RV!Named(g, n) /\ c.sym.key.file # None
        /\ \E a \in h.imports : a.from = f /\ a.key = c.via
    BY <1>0, <2>1
  <2>3. PICK a \in h.imports : a.from = f /\ a.key = c.via
    BY <2>2
  <2>4. \E i \in g.imports : /\ i.from = f
                             /\ RV!Reached(g, i.key) = c.sym.key.file
    <3>1. CASE a \in g.imports
      BY <2>1, <2>3, <3>1
    <3>2. CASE Reaching(g, a)
      <4>1. PICK i \in g.imports :
              i.from = a.from /\ a.key \in RV!Names(RV!Reached(g, i.key))
        BY <3>2 DEF Reaching
      <4>2. RV!Reached(g, a.key) \in {RV!Reached(g, i.key), None}
        BY <4>1, NameReaches
      <4> QED
        BY <2>1, <2>2, <2>3, <4>1, <4>2
    <3> QED
      BY <3>1, <3>2 DEF Extends
  <2>5. PICK i \in g.imports : /\ i.from = f
                               /\ RV!Reached(g, i.key) = c.sym.key.file
    BY <2>4
  <2> DEFINE b == [via |-> i.key, sym |-> c.sym]
  <2>6. b \in [via : {x.key : x \in {y \in g.imports : y.from = f}},
               sym : RV!Named(g, n)]
    BY <2>2, <2>5
  <2>7. b \in G /\ b.sym = c.sym
    BY <2>5, <2>6 DEF RV!Imported
  <2> QED
    BY <2>7
<1> QED
  BY <1>1, <1>2

(* Candidates listed once more do not help to pick one.                    *)
LEMMA PickedNone ==
  ASSUME NEW G, NEW H, G \subseteq H, G # {},
         \A c \in H : \E b \in G : b.sym = c.sym,
         NEW a, RV!Pick(G, a) = {}
  PROVE  RV!Pick(H, a) = {}
<1> DEFINE fit(S) == {c \in S : c.sym.params = a}
           spaces(S) == {c.sym.space : c \in S} \ {None}
<1>1. ~RV!Alone(G)
  BY DEF RV!Pick, RV!Alone
<1>2. ~RV!Alone(H)
  BY <1>1 DEF RV!Alone
<1>3. spaces(G) = spaces(H)
  OBVIOUS
<1>4. RV!Alone(fit(H)) => RV!Alone(fit(G))
  <2> SUFFICES ASSUME NEW c \in H, fit(H) = {c}
               PROVE  RV!Alone(fit(G))
    BY DEF RV!Alone
  <2>1. PICK b \in G : b.sym = c.sym
    OBVIOUS
  <2>2. c.sym.params = a
    OBVIOUS
  <2>3. b \in fit(G) /\ fit(G) \subseteq fit(H)
    BY <2>1, <2>2
  <2>4. fit(G) = {b}
    BY <2>3
  <2> QED
    BY <2>3, <2>4 DEF RV!Alone
<1>5. RV!ByArity(G, a) = IF \/ a < 0 \/ RV!Cardinality(spaces(G)) > 1
                            \/ ~RV!Alone(fit(G))
                         THEN {} ELSE fit(G)
  BY Zenon DEF RV!ByArity
<1>6. RV!ByArity(H, a) = IF \/ a < 0 \/ RV!Cardinality(spaces(H)) > 1
                            \/ ~RV!Alone(fit(H))
                         THEN {} ELSE fit(H)
  BY Zenon DEF RV!ByArity
<1>7. RV!Alone(fit(G)) => fit(G) # {}
  BY DEF RV!Alone
<1> HIDE DEF fit, spaces
<1>8. RV!ByArity(G, a) = {}
  BY <1>1, Zenon DEF RV!Pick
<1>9. RV!ByArity(H, a) = {}
  BY <1>3, <1>4, <1>5, <1>6, <1>7, <1>8
<1> QED
  BY <1>2, <1>9, Zenon DEF RV!Pick

(* What cannot be bound is not bound with more aliases, unless a namespace *)
(* has the dotted name of a file.                                          *)
LEMMA StillNone ==
  ASSUME setting \in ResolverScenes, File \cap Space = {},
         NEW g, GraphRead(setting, g), NEW h, Extends(g, h), NEW e,
         e.name \in g.placeholders, RV!Resolution(g, e) = {}
  PROVE  RV!Resolution(h, e) = {}
<1>0. None \notin File
  BY MemoryAssumption DEF RV!ResolverAssumption
<1>k. \A d \in g.defs : /\ d.key.file # None
                        /\ d.space \in Space \cup {None}
  BY DefsTyped DEF GraphRead
<1> DEFINE named == RV!Named(g, e.name)
           own == {d \in named : d.key.file = e.from}
           G == RV!Imported(g, e.from, e.name)
           H == RV!Imported(h, e.from, e.name)
           typed == RV!Pick(RV!Listed(RV!OfReceiver(g, e, named)), e.arity)
           home == RV!Home(g, e, named)
           met == RV!Used(g, e, named)
(* Definitions, and what is decided by them, are the same. *)
<1>1. \A n : RV!Named(h, n) = RV!Named(g, n)
  BY DEF Extends, RV!Named
<1>2. RV!Named(h, e.name) = named
  BY <1>1
<1>3. \A D : RV!OfReceiver(h, e, D) = RV!OfReceiver(g, e, D)
  BY <1>1 DEF RV!OfReceiver
<1>4. RV!HomeOf(h, e.from) = RV!HomeOf(g, e.from)
  <2> DEFINE Sole(D) ==
               LET seen == {d.space : d \in D} \ {None}
               IN  IF RV!Cardinality(seen) = 1
                   THEN CHOOSE s \in seen : TRUE ELSE None
             In(k) == {x \in k.defs : x.key.file = e.from}
  <2>1. /\ RV!HomeOf(g, e.from) = Sole(In(g))
        /\ RV!HomeOf(h, e.from) = Sole(In(h))
    BY Zenon DEF RV!HomeOf
  <2>2. In(g) = In(h)
    BY DEF Extends
  <2> HIDE DEF Sole, In
  <2> QED
    BY <2>1, <2>2
<1>5. \A D : RV!Home(h, e, D) = RV!Home(g, e, D)
  BY <1>4 DEF RV!Home
(* No alias is a namespace of a definition. *)
<1>6. RV!Used(h, e, named) = met
  <2>1. named \subseteq g.defs
    BY DEF RV!Named
  <2>2. ASSUME NEW a \in h.imports, NEW d \in g.defs,
               a.key = RV!Bare(d.space), Reaching(g, a)
        PROVE  FALSE
    <3>1. PICK i \in g.imports : /\ RV!Reached(g, i.key) # None
                                 /\ a.key \in RV!Names(RV!Reached(g, i.key))
      BY <2>2 DEF Reaching
    <3>2. RV!Reached(g, i.key) \in File
      BY <3>1, ReachedFile DEF GraphRead, Relative
    <3>3. RV!Bare(d.space) = RV!Bare(RV!Reached(g, i.key))
      BY <2>2, <3>1 DEF RV!Names, RV!Bare, RV!Path
    <3>4. d.space = RV!Reached(g, i.key)
      BY <3>3 DEF RV!Bare
    <3> QED
      BY <1>0, <1>k, <3>2, <3>4
  <2>3. \A a \in h.imports, d \in g.defs :
          a.key = RV!Bare(d.space) => a \in g.imports
    BY <2>2 DEF Extends
  <2>4. g.imports \subseteq h.imports
    BY DEF Extends
  <2> HIDE DEF named
  <2> QED
    BY <2>1, <2>3, <2>4 DEF RV!Used
(* An import that leads nowhere certain still does not. *)
<1>7. /\ G \subseteq H /\ \A c \in H : \E b \in G : b.sym = c.sym
  BY <1>k, SameImported
<1>t. \A S, conf : RV!To(S, conf) = {} <=> S = {}
  BY DEF RV!To
<1> DEFINE best == RV!To(RV!Listed(RV!Earliest(own, e.arity)), "high")
           near == RV!To(RV!Pick(RV!Listed(home), e.arity), "high")
           one == RV!To(RV!Listed(met), "high")
           all == RV!To(RV!Pick(RV!Listed(named), e.arity), "medium")
           ext == {[to |-> t, conf |-> "external"] : t \in RV!Exposed(e)}
           rest == IF typed # {} THEN RV!To(typed, "high")
                   ELSE IF home # {} THEN near
                   ELSE IF RV!Cardinality(met) = 1 THEN one
                   ELSE IF named # {} THEN all
                   ELSE IF RV!Cardinality(RV!Exposed(e)) = 1 THEN ext
                   ELSE {}
<1>8. RV!Resolution(g, e) =
        IF e.name \notin g.placeholders THEN {}
        ELSE IF own # {} THEN best
        ELSE IF G # {} THEN RV!To(RV!Pick(G, e.arity), "high")
        ELSE rest
  BY Zenon DEF RV!Resolution
<1>9. RV!Resolution(h, e) =
        IF e.name \notin h.placeholders THEN {}
        ELSE IF own # {} THEN best
        ELSE IF H # {} THEN RV!To(RV!Pick(H, e.arity), "high")
        ELSE rest
  BY <1>2, <1>3, <1>5, <1>6, Zenon DEF RV!Resolution
<1> HIDE DEF best, rest, own, G, H
<1>10. CASE own # {}
  BY <1>8, <1>9, <1>10
<1>11. CASE own = {} /\ G # {}
  <2>1. RV!Pick(G, e.arity) = {}
    BY <1>8, <1>11, <1>t
  <2>2. RV!Pick(H, e.arity) = {}
    BY <1>7, <1>11, <2>1, PickedNone
  <2> QED
    BY <1>7, <1>9, <1>11, <1>t, <2>2
<1>12. CASE own = {} /\ G = {}
  <2>1. H = {}
    BY <1>7, <1>12
  <2> QED
    BY <1>8, <1>9, <1>12, <2>1
<1> QED
  BY <1>10, <1>11, <1>12

(* What is explained by a graph that another explains is explained by it.  *)
LEMMA ExtendsTwice ==
  ASSUME NEW g, NEW h, Extends(g, h), NEW k, k.defs = h.defs,
         h.imports \subseteq k.imports,
         \A a \in k.imports : a \in h.imports \/ Reaching(h, a)
  PROVE  Extends(g, k)
<1>1. ASSUME NEW a \in k.imports, Reaching(h, a)
      PROVE  Reaching(g, a)
  <2>1. PICK i \in h.imports :
          /\ i.from = a.from /\ i.key.kind = "relative"
          /\ RV!Reached(h, i.key) # None
          /\ a.key \in RV!Names(RV!Reached(h, i.key))
    BY <1>1 DEF Reaching
  <2>2. RV!Reached(h, i.key) = RV!Reached(g, i.key)
    BY SameReach DEF Extends
  <2>3. CASE i \in g.imports
    BY <2>1, <2>2, <2>3 DEF Reaching
  <2>4. CASE Reaching(g, i)
    <3>1. PICK j \in g.imports :
            /\ j.from = i.from /\ j.key.kind = "relative"
            /\ RV!Reached(g, j.key) # None
            /\ i.key \in RV!Names(RV!Reached(g, j.key))
      BY <2>4 DEF Reaching
    <3>2. RV!Reached(g, i.key) = RV!Reached(g, j.key)
      BY <2>1, <2>2, <3>1, NameReaches
    <3> QED
      BY <2>1, <2>2, <3>1, <3>2 DEF Reaching
  <2> QED
    BY <2>3, <2>4 DEF Extends
<1> QED
  BY <1>1 DEF Extends

(* One graph follows another while no file is ingested.                    *)
Follows(g, k) == Extends(g, k) /\ k.raw \subseteq g.raw

LEMMA FreshKept ==
  ASSUME NEW r, NEW g, FreshOK(r, g), NEW k, Follows(g, k)
  PROVE  FreshOK(r, k)
<1> SUFFICES ASSUME r.pc # "idle", r.fresh
             PROVE  FreshOK(r, k)
  BY DEF FreshOK
<1>1. Extends(r.loaded, g) /\ Extends(g, k) /\ k.raw \subseteq g.raw
  BY DEF FreshOK, Follows
<1>2. Extends(r.loaded, k)
  BY <1>1, ExtendsTwice DEF Extends
<1> QED
  BY <1>1, <1>2 DEF FreshOK

LEMMA SettledKept ==
  ASSUME setting \in ResolverScenes, File \cap Space = {},
         NEW g, GraphRead(setting, g), Settled(g),
         \A e \in g.raw : e.name \in g.placeholders,
         NEW k, Follows(g, k)
  PROVE  Settled(k)
  BY StillNone DEF Settled, Follows

(* Rows are all there is to bind. *)
LEMMA RowsLeft ==
  ASSUME NEW g
  PROVE  /\ \A e \in g.raw : RV!Resolution(g, e) # {} =>
              \E x \in RV!Rows(g) : x.edge = e
         /\ \A x \in RV!Rows(g) :
              x.edge \in g.raw /\ RV!Resolution(g, x.edge) # {}
<1> DEFINE chosen(e) == CHOOSE b \in RV!Resolution(g, e) : TRUE
           row(e) == [edge |-> e, to |-> chosen(e).to,
                      conf |-> chosen(e).conf]
           E == {x \in g.raw : RV!Resolution(g, x) # {}}
<1>1. RV!Rows(g) = {row(e) : e \in E}
  BY Zenon DEF RV!Rows
<1>2. \A e : row(e).edge = e
  OBVIOUS
<1> HIDE DEF row
<1>3. \A x \in RV!Rows(g) : \E e \in E : x = row(e)
  BY <1>1
<1>4. \A e \in E : row(e) \in RV!Rows(g)
  BY <1>1
<1> QED
  BY <1>2, <1>3, <1>4

LEMMA SettleInit ==
  ASSUME MCInit
  PROVE  SettleInv
<1>1. settled = FALSE /\ pass = [p \in Pass |-> RV!NoPass]
  BY DEF MCInit, RV!Init
<1>2. \A p \in Pass : FreshOK(pass[p], RV!graph)
  BY <1>1 DEF FreshOK, RV!NoPass
<1> QED
  BY <1>1, <1>2, ResolverInit DEF SettleInv

(* The graph as it is read. *)
LEMMA GraphIs ==
  ASSUME ResolverInv
  PROVE  /\ RV!graph.defs = defs /\ RV!graph.raw = raw
         /\ RV!graph.placeholders = placeholders
         /\ RV!graph.imports = {[from |-> i.from, key |-> i.key] :
                                  i \in imports}
         /\ GraphRead(setting, RV!graph)
         /\ \A e \in raw : e.name \in placeholders /\ e.kind \in RV!Kind
  BY DEF ResolverInv, RV!graph, GraphRead, Relative

LEMMA SameGraph ==
  ASSUME ResolverInv, ResolverInv', defs' = defs, raw' \subseteq raw,
         imports' = imports
  PROVE  Follows(RV!graph, RV!graph')
<1>1. RV!graph'.defs = defs' /\ RV!graph'.raw = raw'
  BY DEF RV!graph
<1>2. RV!graph'.imports = {[from |-> i.from, key |-> i.key] : i \in imports'}
  BY DEF RV!graph
<1> QED
  BY <1>1, <1>2, GraphIs DEF Follows, Extends

(* Steps that leave the settings alone leave the decisions alone. *)
LEMMA SameDecisions ==
  ASSUME setting' = setting, NEW CONSTANT g
  PROVE  /\ \A e : RV!Resolution(g, e)' = RV!Resolution(g, e)
         /\ RV!Rows(g)' = RV!Rows(g)
         /\ Settled(g)' <=> Settled(g)
<1>1. ASSUME NEW CONSTANT e
      PROVE  RV!Resolution(g, e)' = RV!Resolution(g, e)
  <2>1. RV!Exposed(e)' = RV!Exposed(e)
    BY DEF RV!Exposed
  <2> QED
    BY <2>1, Zenon DEF RV!Resolution
<1>2. \A e : RV!Resolution(g, e)' = RV!Resolution(g, e)
  BY <1>1
<1>3. RV!Rows(g)' = RV!Rows(g)
  BY <1>2 DEF RV!Rows
<1>4. Settled(g)' <=> Settled(g)
  BY <1>2 DEF Settled
<1> QED
  BY <1>2, <1>3, <1>4

(* What a pass does but for its aliases, if they are those of before the   *)
(* last ingest, is explained by the graph as it was.                       *)
LEMMA PassFollows ==
  ASSUME SettleInv, ResolverInv', NEW p \in Pass,
         \/ RV!Load(p) \/ RV!Apply(p) \/ RV!Cleanup(p) \/ RV!Abandon(p)
         \/ RV!EmitAliases(p) /\ (pass[p].fresh \/ imports' = imports)
  PROVE  Follows(RV!graph, RV!graph')
<1>1. CASE RV!Load(p) \/ RV!Apply(p) \/ RV!Cleanup(p) \/ RV!Abandon(p)
  <2>1. defs' = defs /\ raw' \subseteq raw /\ imports' = imports
    BY <1>1 DEF RV!Load, RV!Apply, RV!Cleanup, RV!Abandon, RV!graphVars
  <2> QED
    BY <2>1, SameGraph DEF SettleInv
<1>2. CASE RV!EmitAliases(p) /\ imports' = imports
  <2>1. defs' = defs /\ raw' = raw
    BY <1>2 DEF RV!EmitAliases
  <2> QED
    BY <1>2, <2>1, SameGraph DEF SettleInv
<1>3. CASE RV!EmitAliases(p) /\ pass[p].fresh
  <2> DEFINE g == RV!graph  l == pass[p].loaded  k == RV!graph'
  <2>1. /\ pass[p].pc = "alias" /\ defs' = defs /\ raw' = raw
        /\ \A i \in imports' :
             \/ i \in imports
             \/ \E a \in RV!Aliases(l) :
                  i = [from |-> a.from, key |-> a.key, live |-> TRUE]
        /\ imports \subseteq imports'
    BY <1>3 DEF RV!EmitAliases
  <2>2. Extends(l, g)
    BY <1>3, <2>1 DEF SettleInv, FreshOK
  <2>3. /\ g.defs = defs /\ g.raw = raw
        /\ g.imports = {[from |-> i.from, key |-> i.key] : i \in imports}
    BY GraphIs DEF SettleInv
  <2>4. /\ k.defs = defs' /\ k.raw = raw'
        /\ k.imports = {[from |-> i.from, key |-> i.key] : i \in imports'}
    BY DEF RV!graph
  <2> HIDE DEF g, k
  <2>5. ASSUME NEW i \in imports',
               NEW b, b = [from |-> i.from, key |-> i.key]
        PROVE  b \in g.imports \/ Reaching(g, b)
    <3>1. CASE i \in imports
      BY <2>3, <2>5, <3>1
    <3>2. CASE i \notin imports
      <4>1. PICK a \in RV!Aliases(l) :
              i = [from |-> a.from, key |-> a.key, live |-> TRUE]
        BY <2>1, <3>2
      <4>2. b.from = a.from /\ b.key = a.key
        BY <2>5, <4>1
      <4>3. PICK j \in l.imports :
              /\ j.from = a.from /\ j.key.kind = "relative"
              /\ RV!Reached(l, j.key) # None
              /\ a.key \in RV!Names(RV!Reached(l, j.key))
        BY AliasesOf DEF Reaching
      <4>4. j \in g.imports /\ RV!Reached(g, j.key) = RV!Reached(l, j.key)
        BY <2>2, SameReach DEF Extends
      <4> QED
        BY <4>2, <4>3, <4>4 DEF Reaching
    <3> QED
      BY <3>1, <3>2
  <2>6. \A b \in k.imports : b \in g.imports \/ Reaching(g, b)
    BY <2>4, <2>5
  <2>7. g.imports \subseteq k.imports
    BY <2>1, <2>3, <2>4
  <2> QED
    BY <2>1, <2>3, <2>4, <2>6, <2>7 DEF Follows, Extends, g, k
<1> QED
  BY <1>1, <1>2, <1>3

(* Steps that follow keep what other passes have loaded, and, once all is  *)
(* bound that can be, there is nothing more to bind.                       *)
LEMMA FollowedKeeps ==
  ASSUME SettleInv, File \cap Space = {}, setting' = setting,
         Follows(RV!graph, RV!graph')
  PROVE  /\ \A q \in Pass : pass'[q] = pass[q] =>
              FreshOK(pass[q], RV!graph)'
         /\ Settled(RV!graph) => Settled(RV!graph)'
<1>0. ResolverInv /\ setting \in ResolverScenes
  BY DEF SettleInv, ResolverInv
<1>k. PICK k : k = RV!graph'
  OBVIOUS
<1>1. ASSUME NEW q \in Pass, pass'[q] = pass[q]
      PROVE  FreshOK(pass[q], RV!graph)'
  <2>0. PICK r : r = pass[q]
    OBVIOUS
  <2>1. FreshOK(r, k)
    BY <1>k, <2>0, FreshKept DEF SettleInv
  <2>2. PICK l : l = r.loaded
    OBVIOUS
  <2>3. RV!Rows(l)' = RV!Rows(l)
    BY SameDecisions
  <2>4. RV!Rows(r.loaded)' = RV!Rows(r.loaded)
    BY <2>2, <2>3
  <2>5. FreshOK(r, k)'
    BY <2>1, <2>4 DEF FreshOK
  <2> QED
    BY <1>1, <1>k, <2>0, <2>5
<1>2. ASSUME Settled(RV!graph)
      PROVE  Settled(RV!graph)'
  <2>1. Settled(k)
    BY <1>0, <1>2, <1>k, GraphIs, SettledKept
  <2>2. Settled(k)'
    BY <2>1, SameDecisions
  <2> QED
    BY <1>k, <2>2
<1> QED
  BY <1>1, <1>2

(* Every row is in one of the six queries. *)
LEMMA RowsBatched ==
  ASSUME NEW x, x.edge.kind \in RV!Kind
  PROVE  \E i \in 1 .. 6 : RV!InBatch(x, RV!Batches[i])
<1>1. RV!Label(x.to) \in {"Type", "Symbol"}
  BY DEF RV!Label
<1>2. /\ RV!Batches[1] = <<"CALLS", "Symbol">>
      /\ RV!Batches[2] = <<"CALLS", "Type">>
      /\ RV!Batches[3] = <<"INJECTS", "Symbol">>
      /\ RV!Batches[4] = <<"INJECTS", "Type">>
      /\ RV!Batches[5] = <<"REFERENCES", "Symbol">>
      /\ RV!Batches[6] = <<"REFERENCES", "Type">>
  BY DEF RV!Batches
<1>3. \A i \in 1 .. 6 : RV!Batches[i] = <<x.edge.kind, RV!Label(x.to)>>
                          => RV!InBatch(x, RV!Batches[i])
  BY DEF RV!InBatch
<1>4. \/ x.edge.kind = "CALLS" \/ x.edge.kind = "INJECTS"
      \/ x.edge.kind = "REFERENCES"
  BY DEF RV!Kind
<1> HIDE DEF RV!Batches
<1>5. \E i \in 1 .. 6 :
        RV!Batches[i] = <<x.edge.kind, RV!Label(x.to)>>
  BY <1>1, <1>2, <1>4
<1> QED
  BY <1>3, <1>5

(* The pass that takes a step still knows what it has left to do.          *)
LEMMA OwnKept ==
  ASSUME SettleInv, ResolverInv', setting' = setting, NEW p \in Pass,
         Follows(RV!graph, RV!graph'),
         RV!Load(p) \/ RV!Apply(p) \/ RV!Cleanup(p)
  PROVE  FreshOK(pass[p], RV!graph)'
<1>0. /\ DOMAIN pass = Pass /\ PassOK(setting, pass[p])
      /\ FreshOK(pass[p], RV!graph)
      /\ RV!graph.raw = raw /\ RV!graph'.raw = raw'
      /\ \A e \in raw : e.name \in placeholders /\ e.kind \in RV!Kind
  BY GraphIs DEF SettleInv, ResolverInv, RV!graph
<1>k. PICK k : k = RV!graph'
  OBVIOUS
<1>s. PICK s : s = pass'[p]
  OBVIOUS
<1>l. PICK l : l = s.loaded
  OBVIOUS
<1>r. RV!Rows(s.loaded)' = RV!Rows(s.loaded)
  <2>1. RV!Rows(l)' = RV!Rows(l)
    BY SameDecisions
  <2> QED
    BY <1>l, <2>1
<1> SUFFICES FreshOK(s, k)
  <2>1. FreshOK(s, k)'
    BY <1>r DEF FreshOK
  <2> QED
    BY <2>1, <1>k, <1>s
<1>1. CASE RV!Load(p)
  <2> DEFINE g == RV!graph
             todo == {n \in DOMAIN RV!Batches :
                        \E x \in RV!Rows(g) : RV!InBatch(x, RV!Batches[n])}
  <2>1. /\ s = [pc |-> "apply", loaded |-> g, rows |-> RV!Rows(g),
                fresh |-> TRUE, left |-> todo]
        /\ raw' = raw
    BY <1>0, <1>1, <1>s DEF RV!Load, RV!graphVars
  <2>2. Extends(g, k) /\ k.raw \subseteq g.raw
    BY <1>k DEF Follows
  <2>3. DOMAIN RV!Batches = 1 .. 6
    BY DEF RV!Batches
  <2>4. \A x \in RV!Rows(g) : \E i \in todo : RV!InBatch(x, RV!Batches[i])
    <3> SUFFICES ASSUME NEW x \in RV!Rows(g)
                 PROVE  \E i \in todo : RV!InBatch(x, RV!Batches[i])
      OBVIOUS
    <3>1. x.edge.kind \in RV!Kind
      BY <1>0, RowsLeft
    <3>2. PICK i \in 1 .. 6 : RV!InBatch(x, RV!Batches[i])
      BY <3>1, RowsBatched
    <3> QED
      BY <2>3, <3>2
  <2>5. todo \subseteq 1 .. 6
    BY <2>3
  <2>6. \A e \in g.raw : e.name \in g.placeholders
    BY <1>0, GraphIs DEF SettleInv
  <2> HIDE DEF todo, g
  <2>7. /\ s.pc = "apply" /\ s.loaded = g /\ s.rows = RV!Rows(g)
        /\ s.left = todo
    BY <2>1
  <2> QED
    BY <2>2, <2>4, <2>5, <2>6, <2>7 DEF FreshOK
<1>2. CASE RV!Apply(p)
  <2> DEFINE r == pass[p]  m == RV!Min(r.left)
  <2>1. /\ r.pc = "apply" /\ r.left # {}
        /\ pass' = [pass EXCEPT ![p].left = @ \ {RV!Min(@)}]
        /\ \A x \in r.rows :
             RV!InBatch(x, RV!Batches[m]) => x.edge \notin raw'
    <3>1. r.pc = "apply" /\ r.left # {}
      BY <1>2 DEF RV!Apply
    <3>2. pass' = [pass EXCEPT ![p].left = @ \ {RV!Min(@)}]
      BY <1>2 DEF RV!Apply
    <3>3. ASSUME NEW x \in r.rows, RV!InBatch(x, RV!Batches[m]),
                 x.edge \in raw'
          PROVE  FALSE
      BY <1>2, <3>3 DEF RV!Apply, RV!SameEdge
    <3> QED
      BY <3>1, <3>2, <3>3
  <2>2. r = [pc |-> r.pc, loaded |-> r.loaded, rows |-> r.rows,
             fresh |-> r.fresh, left |-> r.left]
    BY <1>0, <2>1 DEF PassOK
  <2>3. s = [r EXCEPT !.left = @ \ {m}]
    BY <1>0, <1>s, <2>1
  <2> HIDE DEF r, m
  <2>4. s = [pc |-> r.pc, loaded |-> r.loaded, rows |-> r.rows,
             fresh |-> r.fresh, left |-> r.left \ {m}]
    BY <2>2, <2>3
  <2>5. /\ s.pc = r.pc /\ s.loaded = r.loaded /\ s.rows = r.rows
        /\ s.fresh = r.fresh /\ s.left = r.left \ {m}
    BY <2>4
  <2>6. FreshOK(r, k)
    BY <1>0, <1>k, FreshKept DEF r
  <2>7. k.raw = raw'
    BY <1>0, <1>k
  <2> QED
    BY <2>1, <2>5, <2>6, <2>7 DEF FreshOK
<1>3. CASE RV!Cleanup(p)
  <2> DEFINE r == pass[p]
  <2>1. /\ r.pc = "apply" /\ r.left = {}
        /\ pass' = [pass EXCEPT ![p].pc = "alias"]
    BY <1>3 DEF RV!Cleanup
  <2>2. r = [pc |-> r.pc, loaded |-> r.loaded, rows |-> r.rows,
             fresh |-> r.fresh, left |-> r.left]
    BY <1>0, <2>1 DEF PassOK
  <2>3. s = [r EXCEPT !.pc = "alias"]
    BY <1>0, <1>s, <2>1
  <2> HIDE DEF r
  <2>4. s = [pc |-> "alias", loaded |-> r.loaded, rows |-> r.rows,
             fresh |-> r.fresh, left |-> r.left]
    BY <2>2, <2>3
  <2>5. /\ s.pc = "alias" /\ s.loaded = r.loaded /\ s.rows = r.rows
        /\ s.fresh = r.fresh /\ s.left = r.left
    BY <2>4
  <2>6. FreshOK(r, k)
    BY <1>0, <1>k, FreshKept DEF r
  <2> QED
    BY <2>1, <2>5, <2>6 DEF FreshOK
<1> QED
  BY <1>1, <1>2, <1>3

(* A pass that goes through on the graph of now leaves nothing to bind.    *)
LEMMA FreshSettles ==
  ASSUME SettleInv, ResolverInv', File \cap Space = {}, NEW p \in Pass,
         RV!EmitAliases(p), pass[p].fresh
  PROVE  Settled(RV!graph)'
<1> DEFINE l == pass[p].loaded
<1>k. PICK k : k = RV!graph'
  OBVIOUS
<1>1. /\ pass[p].pc = "alias" /\ setting' = setting
  BY DEF RV!EmitAliases
<1>2. /\ Extends(l, RV!graph) /\ RV!graph.raw \subseteq l.raw
      /\ \A e \in l.raw : e.name \in l.placeholders
      /\ \A x \in RV!Rows(l) : x.edge \notin RV!graph.raw
  BY <1>1 DEF SettleInv, FreshOK
<1>3. Follows(RV!graph, k)
  BY <1>k, PassFollows
<1>4. Extends(l, k) /\ k.raw \subseteq RV!graph.raw
  BY <1>2, <1>3, ExtendsTwice DEF Follows, Extends
<1>5. \A e \in k.raw : RV!Resolution(l, e) = {}
  BY <1>2, <1>4, RowsLeft
<1>6. setting \in ResolverScenes /\ GraphRead(setting, l)
  BY <1>1 DEF SettleInv, ResolverInv, PassOK
<1>7. Settled(k)
  <2> SUFFICES ASSUME NEW e \in k.raw
               PROVE  RV!Resolution(k, e) = {}
    BY DEF Settled
  <2>1. e.name \in l.placeholders /\ RV!Resolution(l, e) = {}
    BY <1>2, <1>4, <1>5
  <2> QED
    BY <1>4, <1>6, <2>1, StillNone
<1>8. Settled(k)'
  BY <1>1, <1>7, SameDecisions
<1> QED
  BY <1>k, <1>8

(* While no file is ingested and no pass adds what imports meant before.   *)
LEMMA PassKeeps ==
  ASSUME SettleInv, ResolverInv', File \cap Space = {}, NEW p \in Pass,
         \/ RV!Load(p) \/ RV!Apply(p) \/ RV!Cleanup(p) \/ RV!Abandon(p)
         \/ RV!EmitAliases(p) /\ (pass[p].fresh \/ imports' = imports)
  PROVE  /\ \A q \in Pass : pass'[q] = pass[q] \/ q = p =>
              FreshOK(pass[q], RV!graph)'
         /\ settled /\ settled' => Settled(RV!graph)'
<1>0. DOMAIN pass = Pass
  BY DEF SettleInv, ResolverInv
<1>1. setting' = setting
  BY DEF RV!Load, RV!Apply, RV!Cleanup, RV!Abandon, RV!EmitAliases
<1>2. Follows(RV!graph, RV!graph')
  BY PassFollows
<1>3. FreshOK(pass[p], RV!graph)'
  <2>1. CASE RV!Load(p) \/ RV!Apply(p) \/ RV!Cleanup(p)
    BY <1>1, <1>2, <2>1, OwnKept
  <2>2. CASE RV!Abandon(p)
    <3>1. pass'[p].pc = "idle"
      BY <1>0, <2>2 DEF RV!Abandon, RV!NoPass
    <3> QED
      BY <3>1 DEF FreshOK
  <2>3. CASE RV!EmitAliases(p)
    <3>1. DOMAIN RV!Outdated = Pass
      BY DEF RV!Outdated
    <3>2. pass'[p] = RV!NoPass
      BY <1>0, <2>3, <3>1 DEF RV!EmitAliases
    <3>3. pass'[p].pc = "idle"
      BY <3>2 DEF RV!NoPass
    <3> QED
      BY <3>3 DEF FreshOK
  <2> QED
    BY <2>1, <2>2, <2>3
<1> QED
  BY <1>1, <1>2, <1>3, FollowedKeeps DEF SettleInv

LEMMA PassSettled ==
  ASSUME SettleInv, ResolverInv', File \cap Space = {}, NEW p \in Pass,
         \/ RV!Load(p) \/ RV!Apply(p) \/ RV!Cleanup(p)
         \/ RV!EmitAliases(p) \/ RV!Abandon(p)
  PROVE  SettleInv'
<1>0. DOMAIN pass = Pass
  BY DEF SettleInv, ResolverInv
<1>1. CASE RV!Load(p) \/ RV!Apply(p) \/ RV!Cleanup(p) \/ RV!Abandon(p)
  <2>1. settled' = settled /\ \E s : pass' = [pass EXCEPT ![p] = s]
    BY <1>1 DEF RV!Load, RV!Apply, RV!Cleanup, RV!Abandon
  <2>2. \A q \in Pass : pass'[q] = pass[q] \/ q = p
    BY <1>0, <2>1
  <2> QED
    BY <1>1, <2>1, <2>2, PassKeeps DEF SettleInv
<1>2. CASE RV!EmitAliases(p)
  <2> DEFINE new == {a \in RV!Aliases(pass[p].loaded) : \A i \in imports :
                       ~(i.from = a.from /\ i.key = a.key)}
  <2>1. /\ imports' = imports \cup
             {[from |-> a.from, key |-> a.key, live |-> TRUE] : a \in new}
        /\ settled' = (pass[p].fresh \/ (settled /\ new = {}))
        /\ pass' = IF pass[p].fresh \/ new = {}
                   THEN [pass EXCEPT ![p] = RV!NoPass]
                   ELSE [RV!Outdated EXCEPT ![p] = RV!NoPass]
    BY <1>2, Zenon DEF RV!EmitAliases
  <2> HIDE DEF new
  <2>2. CASE pass[p].fresh \/ new = {}
    <3>1. \A q \in Pass : pass'[q] = pass[q] \/ q = p
      BY <1>0, <2>1, <2>2
    <3>2. pass[p].fresh \/ imports' = imports
      BY <2>1, <2>2
    <3>3. settled' => Settled(RV!graph)'
      <4>1. CASE pass[p].fresh
        BY <1>2, <4>1, FreshSettles
      <4>2. CASE ~pass[p].fresh
        <5>1. settled' => settled
          BY <2>1, <4>2
        <5> QED
          BY <1>2, <3>2, <5>1, PassKeeps
      <4> QED
        BY <4>1, <4>2
    <3> QED
      BY <1>2, <3>1, <3>2, <3>3, PassKeeps DEF SettleInv
  <2>3. CASE ~pass[p].fresh /\ new # {}
    <3>1. ~settled' /\ pass' = [RV!Outdated EXCEPT ![p] = RV!NoPass]
      BY <2>1, <2>3
    <3>2. \A q \in Pass : pass'[q].pc = "idle" \/ pass'[q].fresh = FALSE
      BY <3>1, OutdatedKeeps DEF SettleInv, RV!NoPass
    <3>3. \A q \in Pass : FreshOK(pass[q], RV!graph)'
      BY <3>2 DEF FreshOK
    <3> QED
      BY <3>1, <3>3 DEF SettleInv
  <2> QED
    BY <2>2, <2>3
<1> QED
  BY <1>1, <1>2

LEMMA SettleNext ==
  ASSUME SettleInv, File \cap Space = {}, [MCNext]_allvars
  PROVE  SettleInv'
<1>0. ResolverInv'
  BY ResolverNext DEF SettleInv
<1>1. CASE RV!Next
  <2>1. ASSUME NEW f \in File, NEW content \in setting.versions[f],
               RV!Reingest(f, content)
        PROVE  SettleInv'
    <3>1. settled' = FALSE /\ pass' = RV!Outdated
      BY <2>1 DEF RV!Reingest
    <3>2. \A q \in Pass : pass'[q].pc = "idle" \/ pass'[q].fresh = FALSE
      BY <3>1, OutdatedKeeps DEF SettleInv
    <3>3. \A q \in Pass : FreshOK(pass[q], RV!graph)'
      BY <3>2 DEF FreshOK
    <3> QED
      BY <1>0, <3>1, <3>3 DEF SettleInv
  <2> QED
    BY <1>0, <1>1, <2>1, PassSettled DEF RV!Next
<1>2. CASE UNCHANGED resolverVars
  <2>1. /\ setting' = setting /\ pass' = pass /\ settled' = settled
        /\ defs' = defs /\ raw' = raw /\ imports' = imports
    BY <1>2 DEF resolverVars
  <2>2. Follows(RV!graph, RV!graph')
    BY <1>0, <2>1, SameGraph DEF SettleInv
  <2> QED
    BY <1>0, <2>1, <2>2, FollowedKeeps DEF SettleInv
<1> QED
  BY <1>1, <1>2, MemorySteps

(* Resolver: after a pass that saw what the last ingest left and went      *)
(* through, beside whatever others that did too, no pass has anything to   *)
(* bind.  No namespace may be the dotted name of a file: the alias of that *)
(* file would make an import of the namespace of it.                       *)
THEOREM PassesSettle ==
  File \cap Space = {} => (MCSpec => []MCPassSettles)
<1> SUFFICES ASSUME File \cap Space = {}
             PROVE  MCSpec => []MCPassSettles
  OBVIOUS
<1>1. MCInit => SettleInv
  BY SettleInit
<1>2. SettleInv /\ [MCNext]_allvars => SettleInv'
  BY SettleNext
<1>3. SettleInv => MCPassSettles
  <2> SUFFICES ASSUME SettleInv, settled
               PROVE  RV!Rows(RV!graph) = {}
    BY DEF MCPassSettles, RV!PassSettles
  <2>1. \A e \in RV!graph.raw : RV!Resolution(RV!graph, e) = {}
    BY DEF SettleInv, Settled
  <2> QED
    BY <2>1, RowsLeft
<1>4. MCSpec => MCInit /\ [][MCNext]_allvars
  BY PTL DEF MCSpec, allvars
<1> QED
  BY <1>1, <1>2, <1>3, <1>4, PTL

-----------------------------------------------------------------------------
(***************************************************************************)
(* The embedding cache.  An answer is right as the vectors found and the   *)
(* ones made are, while the call goes on; a process that holds a digest    *)
(* holds the one of the weights served, for a pull that hits no live       *)
(* process finds neither digests nor answers; and the counters of a        *)
(* process with one thread are what that thread last read of them.         *)
(***************************************************************************)
Made(live, w, v, x) == v.text = x /\ (live \/ v.weights = w)

CallShaped(c) ==
  DOMAIN c = {"pc", "batch", "key", "found", "new", "tries", "out", "read"}

(* m is the digest memoised in the process of the call. *)
EmbedOK(live, w, m, c) ==
  /\ c.out # <<>> =>
       /\ c.pc = "idle" /\ m # None
       /\ Len(c.out) = Len(c.batch)
       /\ \A i \in DOMAIN c.out : Made(live, w, c.out[i], c.batch[i])
  /\ c.pc \in {"tags", "pin", "look", "post", "put"} => c.batch \in Batch
  /\ c.pc = "pin" => c.key \in EC!Digest /\ (live \/ c.key = w)
  /\ c.pc \in {"look", "post", "put"} => m # None
  /\ c.pc \in {"post", "put"} =>
       \A x \in DOMAIN c.found : /\ c.found[x] \in EC!Vector
                                 /\ Made(live, w, c.found[x], x)
  /\ c.pc = "put" =>
       /\ DOMAIN c.new = DOMAIN EC!Missed(c)
       /\ \A i \in DOMAIN c.new :
            /\ c.new[i] = [text |-> EC!Missed(c)[i],
                           weights |-> c.new[i].weights]
            /\ c.new[i].weights \in EC!Digest
            /\ live \/ c.new[i].weights = w

Live == cached.livePull
CallsOK ==
  \A t \in Thread :
    CallShaped(call[t]) /\ EmbedOK(Live, served, memo[EC!P(t)], call[t])

KeysOK ==
  /\ memo \in [Process -> EC!Digest \cup {None}]
  /\ \A p \in Process : Live \/ memo[p] \in {None, served}
  /\ cache \in [Text \X EC!Digest -> EC!Vector \cup {None}]
  /\ \A k \in DOMAIN cache :
       cache[k] # None => Made(Live, k[2], cache[k], k[1])

(* tly, pst and lkd are the counters, their rows and the lookups so far. *)
Counted(c, tly, pst, lkd) ==
  /\ c.pc = "record" => c.read = tly
  /\ IF c.pc = "zero" THEN pst = lkd ELSE EC!Plus(pst, tly) = lkd

StatsOK ==
  /\ tally \in [Process -> EC!Count] /\ posted \in [Process -> EC!Count]
  /\ looked \in [Process -> EC!Count]
  /\ \A t \in Thread :
       LET p == EC!P(t)
       IN  (\A u \in Thread \ {t} : EC!P(u) # p) =>
             Counted(call[t], tally[p], posted[p], looked[p])
  /\ \A t \in Thread : call[t].read \in EC!Count

EmbedInv ==
  /\ cached \in EmbedScenes /\ served \in EC!Digest
  /\ DOMAIN call = Thread
  /\ CallsOK /\ KeysOK /\ StatsOK

(* The new vectors go where they belong: the gap at i is the Rank of i-th, *)
(* and no other gap is.                                                    *)
LEMMA GapsFilled ==
  ASSUME NEW c, NEW T, c.batch \in Seq(T), NEW i \in EC!Gaps(c)
  PROVE  /\ EC!Rank(EC!Gaps(c), i) \in DOMAIN EC!Missed(c)
         /\ EC!Missed(c)[EC!Rank(EC!Gaps(c), i)] = c.batch[i]
<1> DEFINE G == EC!Gaps(c)
           Upto(k) == {j \in G : j <= k}
<1>c. \A S : EC!Cardinality(S) = Cardinality(S)
  BY Zenon DEF EC!Cardinality, Cardinality
<1>0. PICK n \in Nat : n = Len(c.batch) /\ DOMAIN c.batch = 1 .. n
  OBVIOUS
<1>1. G \subseteq 1 .. Len(c.batch) /\ Len(c.batch) \in Nat
  <2>1. G \subseteq DOMAIN c.batch
    BY DEF EC!Gaps
  <2> HIDE DEF G
  <2> QED
    BY <1>0, <2>1
<1>2. IsFiniteSet(G)
  <2>1. G \subseteq 1 .. n
    BY <1>0, <1>1
  <2> HIDE DEF G
  <2>2. IsFiniteSet(1 .. n)
    BY FS_Interval
  <2> QED
    BY <2>1, <2>2, FS_Subset
<1>3. \A k \in G : /\ IsFiniteSet(Upto(k)) /\ k \in Upto(k)
                   /\ Upto(k) \subseteq G
                   /\ Cardinality(Upto(k)) \in Nat
                   /\ Cardinality(Upto(k)) <= Cardinality(G)
                   /\ Cardinality(Upto(k)) # 0
  <2> SUFFICES ASSUME NEW k \in G
               PROVE  /\ IsFiniteSet(Upto(k)) /\ k \in Upto(k)
                      /\ Upto(k) \subseteq G
                      /\ Cardinality(Upto(k)) \in Nat
                      /\ Cardinality(Upto(k)) <= Cardinality(G)
                      /\ Cardinality(Upto(k)) # 0
    OBVIOUS
  <2>1. k \in Upto(k) /\ Upto(k) \subseteq G
    BY <1>1
  <2> HIDE DEF Upto, G
  <2> QED
    BY <1>2, <2>1, FS_Subset, FS_CardinalityType, FS_EmptySet
<1>4. \A k \in G : EC!Rank(EC!Gaps(c), k) = Cardinality(Upto(k))
  BY <1>c DEF EC!Rank
<1>5. ASSUME NEW k \in G, NEW l \in G, k < l
      PROVE  Cardinality(Upto(k)) < Cardinality(Upto(l))
  <2>0. G \subseteq Int
    BY <1>0, <1>1
  <2> HIDE DEF G
  <2>1. Upto(k) \subseteq Upto(l) \ {l} /\ l \in Upto(l)
    <3>1. ASSUME NEW j \in Upto(k)
          PROVE  j \in G /\ j <= l /\ j # l
      BY <1>5, <2>0, <3>1
    <3>2. \A j \in G : j <= l => j \in Upto(l)
      OBVIOUS
    <3>3. l <= l
      BY <2>0
    <3> HIDE DEF Upto
    <3> QED
      BY <3>1, <3>2, <3>3
  <2> HIDE DEF Upto
  <2>2. IsFiniteSet(Upto(l) \ {l})
        /\ Cardinality(Upto(l) \ {l}) = Cardinality(Upto(l)) - 1
    BY <1>3, <2>1, FS_RemoveElement
  <2>3. Cardinality(Upto(k)) <= Cardinality(Upto(l) \ {l})
    BY <2>1, <2>2, FS_Subset
  <2> QED
    BY <1>3, <2>2, <2>3
<1>6. \A k \in G : Cardinality(Upto(k)) = Cardinality(Upto(i)) => k = i
  <2> SUFFICES ASSUME NEW k \in G, Cardinality(Upto(k)) = Cardinality(Upto(i)),
                      k # i
               PROVE  FALSE
    OBVIOUS
  <2>1. k < i \/ i < k
    BY <1>1
  <2> HIDE DEF Upto, G
  <2> QED
    BY <1>3, <1>5, <2>1 DEF G
<1>7. EC!Rank(EC!Gaps(c), i) \in 1 .. Cardinality(G)
  <2> HIDE DEF Upto
  <2>1. Cardinality(G) \in Nat
    BY <1>2, FS_CardinalityType
  <2> HIDE DEF G
  <2> QED
    BY <1>3, <1>4, <2>1 DEF G
<1>8. (CHOOSE k \in G : EC!Rank(EC!Gaps(c), k) = EC!Rank(EC!Gaps(c), i)) = i
  <2> HIDE DEF Upto
  <2> QED
    BY <1>4, <1>6
<1> QED
  BY <1>c, <1>7, <1>8 DEF EC!Missed, EC!InOrder

(* So a text put back by that order is answered with its own vector.       *)
LEMMA AnswerRight ==
  ASSUME NEW c, c.batch \in Batch, NEW live, NEW w,
         \A x \in DOMAIN c.found : Made(live, w, c.found[x], x),
         \A i \in EC!Gaps(c) :
           LET n == EC!Rank(EC!Gaps(c), i)
           IN  Made(live, w, c.new[n], EC!Missed(c)[n])
  PROVE  /\ Len(EC!Answer(c)) = Len(c.batch)
         /\ \A i \in DOMAIN EC!Answer(c) :
              Made(live, w, EC!Answer(c)[i], c.batch[i])
<1>1. c.batch \in Seq(Text)
  BY MemoryAssumption DEF EC!EmbedCacheAssumption
<1>2. \A i \in DOMAIN c.batch : Made(live, w, EC!Answer(c)[i], c.batch[i])
  <2> SUFFICES ASSUME NEW i \in DOMAIN c.batch
               PROVE  Made(live, w, EC!Answer(c)[i], c.batch[i])
    OBVIOUS
  <2>1. CASE i \in EC!Gaps(c)
    <3>1. EC!Answer(c)[i] = c.new[EC!Rank(EC!Gaps(c), i)]
      BY <2>1 DEF EC!Answer
    <3>2. EC!Missed(c)[EC!Rank(EC!Gaps(c), i)] = c.batch[i]
      BY <1>1, <2>1, GapsFilled
    <3> QED
      BY <2>1, <3>1, <3>2
  <2>2. CASE i \notin EC!Gaps(c)
    <3>1. EC!Answer(c)[i] = c.found[c.batch[i]]
      BY <2>2 DEF EC!Answer
    <3>2. c.batch[i] \in DOMAIN c.found
      BY <2>2 DEF EC!Gaps
    <3> QED
      BY <3>1, <3>2
  <2> QED
    BY <2>1, <2>2
<1>3. DOMAIN EC!Answer(c) = DOMAIN c.batch
  BY DEF EC!Answer
<1>4. Len(EC!Answer(c)) = Len(c.batch)
  <2>1. PICK n \in Nat : n = Len(c.batch) /\ DOMAIN c.batch = 1 .. n
    BY <1>1
  <2>2. EC!Answer(c) = [i \in 1 .. n |-> EC!Answer(c)[i]]
    BY <2>1 DEF EC!Answer
  <2> DEFINE R == {EC!Answer(c)[i] : i \in 1 .. n}
  <2>3. EC!Answer(c) \in [1 .. n -> R]
    BY <2>2
  <2> HIDE DEF R
  <2>4. EC!Answer(c) \in Seq(R) /\ Len(EC!Answer(c)) = n
    BY <2>3
  <2> QED
    BY <2>1, <2>4
<1> QED
  BY <1>2, <1>3, <1>4

(* A call without an answer is right. *)
LEMMA AtRest ==
  ASSUME NEW live, NEW w, NEW m, NEW b
  PROVE  /\ CallShaped(EC!Resting(b, <<>>))
         /\ EmbedOK(live, w, m, EC!Resting(b, <<>>))
         /\ EC!Resting(b, <<>>).pc = "idle"
         /\ EC!Resting(b, <<>>).read \in EC!Count
  BY DEF CallShaped, EmbedOK, EC!Resting, EC!Count, EC!NoCount

LEMMA EmbedTypes ==
  ASSUME EmbedInv, NEW t \in Thread
  PROVE  /\ EC!P(t) \in Process
         /\ CallShaped(call[t])
         /\ EmbedOK(Live, served, memo[EC!P(t)], call[t])
         /\ call[t].read \in EC!Count
<1>1. cached.home \in [Thread -> Process]
  BY MemoryAssumption DEF EmbedInv, EC!EmbedCacheAssumption, EC!Scene
<1> QED
  BY <1>1 DEF EmbedInv, CallsOK, StatsOK, EC!P

LEMMA Remembers ==
  ASSUME NEW live, NEW w, NEW m, NEW n, NEW c, EmbedOK(live, w, m, c),
         m # None => n # None
  PROVE  EmbedOK(live, w, n, c)
  BY DEF EmbedOK

(* One call goes on. *)
LEMMA OneCall ==
  ASSUME EmbedInv, NEW t \in Thread, NEW c,
         call' = [call EXCEPT ![t] = c], cached' = cached, served' = served,
         \A p \in Process : memo[p] # None => memo'[p] # None,
         CallShaped(c), EmbedOK(Live, served, memo'[EC!P(t)], c)
  PROVE  CallsOK' /\ (DOMAIN call = Thread)'
<1>1. DOMAIN call = Thread
  BY DEF EmbedInv
<1>2. ASSUME NEW u \in Thread
      PROVE  /\ CallShaped(call'[u])
             /\ EmbedOK(Live, served, memo'[EC!P(u)], call'[u])
  <2>1. CASE u = t
    BY <1>1, <2>1
  <2>2. CASE u # t
    <3>1. call'[u] = call[u]
      BY <1>1, <2>2
    <3> QED
      BY <3>1, <1>2, EmbedTypes, Remembers
  <2> QED
    BY <2>1, <2>2
<1>3. Live' = Live /\ (\A u \in Thread : EC!P(u)' = EC!P(u))
  BY DEF Live, EC!P
<1> QED
  BY <1>1, <1>2, <1>3 DEF CallsOK

(* ... and counts its lookups or hands them over. *)
LEMMA OneCount ==
  ASSUME EmbedInv, NEW t \in Thread, NEW c,
         call' = [call EXCEPT ![t] = c], cached' = cached,
         c.read \in EC!Count,
         tally' \in [Process -> EC!Count], posted' \in [Process -> EC!Count],
         looked' \in [Process -> EC!Count],
         \A p \in Process \ {EC!P(t)} : /\ tally'[p] = tally[p]
                                        /\ posted'[p] = posted[p]
                                        /\ looked'[p] = looked[p],
         Counted(call[t], tally[EC!P(t)], posted[EC!P(t)], looked[EC!P(t)])
           => Counted(c, tally'[EC!P(t)], posted'[EC!P(t)], looked'[EC!P(t)])
  PROVE  StatsOK'
<1>1. DOMAIN call = Thread
  BY DEF EmbedInv
<1>2. ASSUME NEW u \in Thread,
             \A v \in Thread \ {u} : EC!P(v) # EC!P(u)
      PROVE  Counted(call'[u], tally'[EC!P(u)], posted'[EC!P(u)],
                     looked'[EC!P(u)])
  <2>0. Counted(call[u], tally[EC!P(u)], posted[EC!P(u)], looked[EC!P(u)])
    BY <1>2 DEF EmbedInv, StatsOK
  <2>1. CASE u = t
    BY <1>1, <2>0, <2>1
  <2>2. CASE u # t
    <3>1. call'[u] = call[u] /\ EC!P(u) \in Process \ {EC!P(t)}
      BY <1>1, <1>2, <2>2, EmbedTypes
    <3> QED
      BY <2>0, <3>1
  <2> QED
    BY <2>1, <2>2
<1>3. \A u \in Thread : EC!P(u)' = EC!P(u)
  BY DEF EC!P
<1>4. \A u \in Thread : call'[u].read \in EC!Count
  BY <1>1, EmbedTypes
<1> QED
  BY <1>2, <1>3, <1>4 DEF StatsOK

(* ... or does neither. *)
LEMMA NoCounting ==
  ASSUME EmbedInv, NEW t \in Thread, NEW c,
         call' = [call EXCEPT ![t] = c], cached' = cached,
         UNCHANGED <<tally, posted, looked>>,
         c.read \in EC!Count, call[t].pc # "zero",
         c.pc \notin {"record", "zero"}
  PROVE  StatsOK'
<1>1. Counted(call[t], tally[EC!P(t)], posted[EC!P(t)], looked[EC!P(t)])
        => Counted(c, tally[EC!P(t)], posted[EC!P(t)], looked[EC!P(t)])
  BY DEF Counted
<1>2. /\ tally \in [Process -> EC!Count] /\ posted \in [Process -> EC!Count]
      /\ looked \in [Process -> EC!Count]
  BY DEF EmbedInv, StatsOK
<1> QED
  BY <1>1, <1>2, OneCount

LEMMA EmbedInit ==
  ASSUME MCInit
  PROVE  EmbedInv
<1>1. EC!Init
  BY DEF MCInit
<1>2. \A t \in Thread : call[t] = EC!Resting(<<>>, <<>>)
  BY <1>1 DEF EC!Init
<1>3. CallsOK
  BY <1>2, AtRest DEF CallsOK
<1>4. KeysOK
  BY <1>1 DEF EC!Init, KeysOK, EC!Vector, EC!Digest
<1>5. EC!NoCount \in EC!Count /\ EC!Plus(EC!NoCount, EC!NoCount) = EC!NoCount
  BY DEF EC!NoCount, EC!Count, EC!Plus
<1>6. cached.home \in [Thread -> Process]
  BY <1>1, MemoryAssumption DEF EC!Init, EC!EmbedCacheAssumption, EC!Scene
<1>7. StatsOK
  <2>1. \A p \in Process : tally[p] = EC!NoCount /\ posted[p] = EC!NoCount
                           /\ looked[p] = EC!NoCount
    BY <1>1 DEF EC!Init
  <2>2. ASSUME NEW t \in Thread
        PROVE  Counted(call[t], tally[EC!P(t)], posted[EC!P(t)],
                       looked[EC!P(t)])
    <3>1. EC!P(t) \in Process
      BY <1>6 DEF EC!P
    <3> QED
      BY <1>2, <1>5, <2>1, <3>1, AtRest DEF Counted
  <2>3. \A t \in Thread : call[t].read \in EC!Count
    BY <1>2, AtRest
  <2>4. /\ tally \in [Process -> EC!Count] /\ posted \in [Process -> EC!Count]
        /\ looked \in [Process -> EC!Count]
    BY <1>1, <1>5 DEF EC!Init
  <2> QED
    BY <2>2, <2>3, <2>4 DEF StatsOK
<1>8. cached \in EmbedScenes /\ served \in EC!Digest /\ DOMAIN call = Thread
  BY <1>1 DEF EC!Init, EC!Digest
<1> QED
  BY <1>3, <1>4, <1>7, <1>8 DEF EmbedInv

(* What does not touch digests and rows leaves them as true as they were. *)
LEMMA SameKeys ==
  ASSUME EmbedInv, UNCHANGED <<cached, served, memo, cache>>
  PROVE  KeysOK' /\ (cached \in EmbedScenes /\ served \in EC!Digest)'
  BY DEF EmbedInv, KeysOK, Live

LEMMA EmbedStep ==
  ASSUME EmbedInv, NEW t \in Thread, NEW b, EC!Embed(t, b)
  PROVE  EmbedInv'
<1> DEFINE c == [EC!Resting(b, <<>>) EXCEPT
                   !.pc = IF memo[EC!P(t)] = None THEN "tags" ELSE "look"]
<1>1. /\ call' = [call EXCEPT ![t] = c] /\ call[t].pc = "idle"
      /\ UNCHANGED <<cached, served, memo, cache, tally, posted, looked>>
      /\ b \in Batch
  BY DEF EC!Embed, EC!Set, EC!At
<1>2. /\ CallShaped(c) /\ c.read \in EC!Count /\ c.batch = b /\ c.out = <<>>
      /\ c.pc = IF memo[EC!P(t)] = None THEN "tags" ELSE "look"
  BY DEF CallShaped, EC!Resting, EC!Count, EC!NoCount
<1> HIDE DEF c
<1>3. EmbedOK(Live, served, memo[EC!P(t)], c)
  BY <1>1, <1>2 DEF EmbedOK
<1>4. CallsOK' /\ (DOMAIN call = Thread)'
  BY <1>1, <1>2, <1>3, OneCall
<1>5. StatsOK'
  BY <1>1, <1>2, NoCounting
<1> QED
  BY <1>1, <1>4, <1>5, SameKeys DEF EmbedInv

(* A call that raises, where nothing else changes but a budget. *)
LEMMA RaiseStep ==
  ASSUME EmbedInv, NEW t \in Thread, EC!Raise(t), call[t].pc # "zero",
         UNCHANGED <<cached, served, memo, cache, tally, posted, looked>>
  PROVE  EmbedInv'
<1>1. call' = [call EXCEPT ![t] = EC!Resting(<<>>, <<>>)]
  BY DEF EC!Raise, EC!Set
<1>2. CallsOK' /\ (DOMAIN call = Thread)'
  BY <1>1, AtRest, OneCall
<1>3. EC!Resting(<<>>, <<>>).pc \notin {"record", "zero"}
  BY AtRest
<1>4. StatsOK'
  BY <1>1, <1>3, AtRest, NoCounting
<1> QED
  BY <1>2, <1>4, SameKeys DEF EmbedInv

LEMMA DigestStep ==
  ASSUME EmbedInv, NEW t \in Thread, EC!model_digest(t)
  PROVE  EmbedInv'
<1>0. /\ UNCHANGED <<cached, served, memo, cache, tally, posted, looked>>
      /\ call[t].pc = "tags"
  BY DEF EC!model_digest, EC!At
<1>1. CASE EC!Raise(t)
  BY <1>0, <1>1, RaiseStep
<1>2. CASE EC!Set(t, [call[t] EXCEPT !.pc = "pin", !.key = served])
  <2> DEFINE c == [call[t] EXCEPT !.pc = "pin", !.key = served]
  <2>1. call' = [call EXCEPT ![t] = c]
    BY <1>2 DEF EC!Set
  <2>2. /\ CallShaped(c) /\ c.pc = "pin" /\ c.key = served
        /\ c.batch = call[t].batch /\ c.out = call[t].out
        /\ c.read = call[t].read
    BY EmbedTypes DEF CallShaped
  <2> HIDE DEF c
  <2>3. EmbedOK(Live, served, memo[EC!P(t)], c)
    BY <1>0, <2>2, EmbedTypes DEF EmbedOK, EmbedInv
  <2>4. CallsOK' /\ (DOMAIN call = Thread)'
    BY <1>0, <2>1, <2>2, <2>3, OneCall
  <2>5. StatsOK'
    BY <1>0, <2>1, <2>2, EmbedTypes, NoCounting
  <2> QED
    BY <1>0, <2>4, <2>5, SameKeys DEF EmbedInv
<1> QED
  BY <1>1, <1>2 DEF EC!model_digest

LEMMA PinStep ==
  ASSUME EmbedInv, NEW t \in Thread, EC!model_id(t)
  PROVE  EmbedInv'
<1> DEFINE c == [call[t] EXCEPT !.pc = "look"]
           p == EC!P(t)
<1>0. /\ UNCHANGED <<cached, served, cache, tally, posted, looked>>
      /\ call[t].pc = "pin" /\ call' = [call EXCEPT ![t] = c]
      /\ memo' = [memo EXCEPT ![p] = call[t].key]
  BY DEF EC!model_id, EC!At, EC!Set
<1>1. /\ CallShaped(c) /\ c.pc = "look" /\ c.batch = call[t].batch
      /\ c.out = call[t].out /\ c.read = call[t].read
  BY EmbedTypes DEF CallShaped
<1> HIDE DEF c
<1>2. /\ call[t].key \in EC!Digest /\ (Live \/ call[t].key = served)
      /\ call[t].batch \in Batch /\ call[t].out = <<>>
  BY <1>0, EmbedTypes DEF EmbedOK
<1>3. call[t].key # None
  BY <1>2, MemoryAssumption DEF EC!EmbedCacheAssumption
<1>4. memo \in [Process -> EC!Digest \cup {None}] /\ p \in Process
  BY EmbedTypes DEF EmbedInv, KeysOK
<1>5. \A q \in Process : memo'[q] = IF q = p THEN call[t].key ELSE memo[q]
  BY <1>0, <1>4
<1>6. EmbedOK(Live, served, memo'[p], c)
  BY <1>1, <1>2, <1>3, <1>4, <1>5 DEF EmbedOK
<1>7. CallsOK' /\ (DOMAIN call = Thread)'
  BY <1>0, <1>1, <1>3, <1>5, <1>6, OneCall
<1>8. StatsOK'
  BY <1>0, <1>1, EmbedTypes, NoCounting
<1>9. KeysOK'
  <2>1. memo' \in [Process -> EC!Digest \cup {None}]
    BY <1>0, <1>2, <1>4
  <2>2. \A q \in Process : Live \/ memo'[q] \in {None, served}
    BY <1>2, <1>5 DEF EmbedInv, KeysOK
  <2> QED
    BY <1>0, <2>1, <2>2 DEF EmbedInv, KeysOK, Live
<1> QED
  BY <1>0, <1>7, <1>8, <1>9 DEF EmbedInv

(* The counters of a lookup: its rows and the rest of the batch. *)
LEMMA LookupCounts ==
  ASSUME NEW s \in Seq(Text), NEW H, H \subseteq EC!Range(s)
  PROVE  [hits |-> EC!Cardinality(H), misses |-> Len(s) - EC!Cardinality(H)]
           \in EC!Count
<1>c. EC!Cardinality(H) = Cardinality(H)
  BY Zenon DEF EC!Cardinality, Cardinality
<1>1. PICK n \in Nat : n = Len(s) /\ DOMAIN s = 1 .. n
  OBVIOUS
<1>2. IsFiniteSet(1 .. n) /\ Cardinality(1 .. n) = n
  BY FS_Interval
<1>3. /\ IsFiniteSet(EC!Range(s))
      /\ Cardinality(EC!Range(s)) <= n
  <2>1. EC!Range(s) = {s[x] : x \in 1 .. n}
    BY <1>1 DEF EC!Range
  <2>2. s \in Surjection(1 .. n, EC!Range(s))
    BY <1>1, <2>1 DEF Surjection
  <2> QED
    BY <1>2, <2>2, FS_Surjection
<1>4. /\ IsFiniteSet(H) /\ Cardinality(H) \in Nat /\ Cardinality(H) <= n
  BY <1>3, FS_Subset, FS_CardinalityType
<1> QED
  BY <1>c, <1>1, <1>4 DEF EC!Count

(* What is missing depends on the batch and on what was found. *)
LEMMA MissedSame ==
  ASSUME NEW c, NEW d, d.batch = c.batch, d.found = c.found
  PROVE  EC!Missed(d) = EC!Missed(c) /\ EC!Gaps(d) = EC!Gaps(c)
<1>1. EC!Gaps(d) = EC!Gaps(c)
  BY DEF EC!Gaps
<1> QED
  BY <1>1 DEF EC!Missed

LEMMA LookStep ==
  ASSUME EmbedInv, NEW t \in Thread, EC!get_many(t)
  PROVE  EmbedInv'
<1> DEFINE p == EC!P(t)
           key == memo[p]
           hit == {x \in EC!Range(call[t].batch) : cache[<<x, key>>] # None}
           n == [hits |-> EC!Cardinality(hit),
                 misses |-> Len(call[t].batch) - EC!Cardinality(hit)]
           f == [x \in hit |-> cache[<<x, key>>]]
           c == [call[t] EXCEPT !.found = f]
           d == IF EC!Gaps(c) = {} THEN EC!Resting(c.batch, EC!Answer(c))
                ELSE [c EXCEPT !.pc = "post"]
<1>0. /\ call[t].pc = "look" /\ call' = [call EXCEPT ![t] = d]
      /\ tally' = [tally EXCEPT ![p] = EC!Plus(@, n)]
      /\ looked' = [looked EXCEPT ![p] = EC!Plus(@, n)]
      /\ UNCHANGED <<cached, served, memo, cache, posted>>
  BY DEF EC!get_many, EC!At, EC!Set
<1>1. /\ CallShaped(c) /\ c.pc = "look" /\ c.batch = call[t].batch
      /\ c.out = call[t].out /\ c.read = call[t].read /\ c.found = f
  <2> HIDE DEF f
  <2> QED
    BY <1>0, EmbedTypes DEF CallShaped
<1>2. /\ c.batch \in Batch /\ c.out = <<>> /\ p \in Process /\ key # None
  BY <1>0, <1>1, EmbedTypes DEF EmbedOK
<1>3. /\ key \in EC!Digest /\ (Live \/ key = served)
      /\ c.batch \in Seq(Text)
  BY <1>2, MemoryAssumption DEF EmbedInv, KeysOK, EC!EmbedCacheAssumption
<1>4. \A x \in hit : /\ f[x] \in EC!Vector /\ Made(Live, served, f[x], x)
  <2> SUFFICES ASSUME NEW x \in hit
               PROVE  f[x] \in EC!Vector /\ Made(Live, served, f[x], x)
    OBVIOUS
  <2>1. x \in Text
    BY <1>1, <1>3 DEF EC!Range
  <2> DEFINE k == <<x, key>>
  <2>2. k \in Text \X EC!Digest /\ f[x] = cache[k] /\ cache[k] # None
        /\ k[1] = x /\ k[2] = key
    BY <1>3, <2>1
  <2> HIDE DEF k, hit, f, key
  <2>3. cache[k] \in EC!Vector /\ Made(Live, k[2], cache[k], k[1])
    BY <2>2 DEF EmbedInv, KeysOK
  <2> QED
    BY <1>3, <2>2, <2>3 DEF Made
<1>5. \A x \in DOMAIN c.found : /\ c.found[x] \in EC!Vector
                                /\ Made(Live, served, c.found[x], x)
  BY <1>1, <1>4
<1>6. n \in EC!Count
  BY <1>1, <1>3, LookupCounts
<1> HIDE DEF hit, key, f, c, n
<1>7. /\ CallShaped(d) /\ d.read \in EC!Count /\ d.pc \in {"idle", "post"}
      /\ EmbedOK(Live, served, memo[p], d)
  <2>1. CASE EC!Gaps(c) = {}
    <3>1. d = EC!Resting(c.batch, EC!Answer(c))
      BY <2>1
    <3>2. /\ Len(EC!Answer(c)) = Len(c.batch)
          /\ \A i \in DOMAIN EC!Answer(c) :
               Made(Live, served, EC!Answer(c)[i], c.batch[i])
      BY <1>2, <1>5, <2>1, AnswerRight
    <3>3. /\ CallShaped(d) /\ d.pc = "idle" /\ d.batch = c.batch
          /\ d.out = EC!Answer(c) /\ d.read \in EC!Count
      BY <3>1 DEF CallShaped, EC!Resting, EC!Count, EC!NoCount
    <3> QED
      BY <1>2, <3>2, <3>3 DEF EmbedOK, key
  <2>2. CASE EC!Gaps(c) # {}
    <3>1. d = [c EXCEPT !.pc = "post"]
      BY <2>2
    <3>2. /\ CallShaped(d) /\ d.pc = "post" /\ d.batch = c.batch
          /\ d.out = c.out /\ d.read = c.read /\ d.found = c.found
      BY <1>1, <3>1 DEF CallShaped
    <3> QED
      BY <1>1, <1>2, <1>5, <3>2, EmbedTypes DEF EmbedOK, key
  <2> QED
    BY <2>1, <2>2
<1> HIDE DEF d
<1>8. CallsOK' /\ (DOMAIN call = Thread)'
  BY <1>0, <1>7, OneCall
<1>9. StatsOK'
  <2>1. /\ tally \in [Process -> EC!Count] /\ posted \in [Process -> EC!Count]
        /\ looked \in [Process -> EC!Count]
    BY DEF EmbedInv, StatsOK
  <2>2. \A a \in EC!Count : EC!Plus(a, n) \in EC!Count
    BY <1>6 DEF EC!Count, EC!Plus
  <2>3. /\ tally' \in [Process -> EC!Count]
        /\ looked' \in [Process -> EC!Count]
        /\ tally'[p] = EC!Plus(tally[p], n)
        /\ looked'[p] = EC!Plus(looked[p], n)
        /\ \A q \in Process \ {p} : /\ tally'[q] = tally[q]
                                    /\ looked'[q] = looked[q]
    BY <1>0, <1>2, <2>1, <2>2
  <2>4. \A a, b \in EC!Count :
          EC!Plus(a, EC!Plus(b, n)) = EC!Plus(EC!Plus(a, b), n)
    BY <1>6 DEF EC!Count, EC!Plus
  <2>5. EC!Plus(posted[p], tally[p]) = looked[p]
          => EC!Plus(posted'[p], tally'[p]) = looked'[p]
    BY <1>0, <1>2, <2>1, <2>3, <2>4
  <2>6. Counted(call[t], tally[p], posted[p], looked[p])
          => Counted(d, tally'[p], posted'[p], looked'[p])
    BY <1>0, <1>7, <2>5 DEF Counted
  <2> QED
    BY <1>0, <1>7, <2>1, <2>3, <2>6, OneCount
<1> QED
  BY <1>0, <1>8, <1>9, SameKeys DEF EmbedInv

LEMMA PostStep ==
  ASSUME EmbedInv, NEW t \in Thread, EC!post(t)
  PROVE  EmbedInv'
<1> DEFINE todo == EC!Missed(call[t])
           v == [i \in DOMAIN todo |-> [text |-> todo[i], weights |-> served]]
           c == [call[t] EXCEPT !.pc = "put", !.new = v]
           again == [call[t] EXCEPT !.tries = @ + 1]
<1>0. /\ UNCHANGED <<cached, served, memo, cache, tally, posted, looked>>
      /\ call[t].pc = "post"
  BY DEF EC!post, EC!At
<1>1. CASE EC!Raise(t)
  BY <1>0, <1>1, RaiseStep
<1>2. CASE call' = [call EXCEPT ![t] = c]
  <2>1. /\ CallShaped(c) /\ c.pc = "put" /\ c.new = v
        /\ c.batch = call[t].batch /\ c.out = call[t].out
        /\ c.read = call[t].read /\ c.found = call[t].found
    BY EmbedTypes DEF CallShaped
  <2>2. /\ DOMAIN v = DOMAIN todo
        /\ \A i \in DOMAIN v : v[i] = [text |-> todo[i], weights |-> served]
    OBVIOUS
  <2> HIDE DEF c, v
  <2>3. EC!Missed(c) = todo
    BY <2>1, MissedSame
  <2>4. /\ \A i \in DOMAIN v :
             v[i] = [text |-> todo[i], weights |-> v[i].weights]
        /\ \A i \in DOMAIN v : v[i].weights = served
    BY <2>2
  <2>5. served \in EC!Digest
    BY DEF EmbedInv
  <2> HIDE DEF todo
  <2>6. EmbedOK(Live, served, memo[EC!P(t)], c)
    BY <1>0, <2>1, <2>2, <2>3, <2>4, <2>5, EmbedTypes DEF EmbedOK
  <2>7. CallsOK' /\ (DOMAIN call = Thread)'
    BY <1>0, <1>2, <2>1, <2>6, OneCall
  <2>8. StatsOK'
    BY <1>0, <1>2, <2>1, EmbedTypes, NoCounting
  <2> QED
    BY <1>0, <2>7, <2>8, SameKeys DEF EmbedInv
<1>3. CASE call' = [call EXCEPT ![t] = again]
  <2>1. /\ CallShaped(again) /\ again.pc = "post"
        /\ again.batch = call[t].batch /\ again.out = call[t].out
        /\ again.read = call[t].read /\ again.found = call[t].found
    BY <1>0, EmbedTypes DEF CallShaped
  <2> HIDE DEF again
  <2>2. EmbedOK(Live, served, memo[EC!P(t)], again)
    BY <1>0, <2>1, EmbedTypes DEF EmbedOK
  <2>3. CallsOK' /\ (DOMAIN call = Thread)'
    BY <1>0, <1>3, <2>1, <2>2, OneCall
  <2>4. StatsOK'
    BY <1>0, <1>3, <2>1, EmbedTypes, NoCounting
  <2> QED
    BY <1>0, <2>3, <2>4, SameKeys DEF EmbedInv
<1>4. EC!Raise(t) \/ call' = [call EXCEPT ![t] = c]
      \/ call' = [call EXCEPT ![t] = again]
  BY DEF EC!post, EC!Set
<1> QED
  BY <1>1, <1>2, <1>3, <1>4

LEMMA PutStep ==
  ASSUME EmbedInv, NEW t \in Thread, EC!put_many(t)
  PROVE  EmbedInv'
<1> DEFINE c == call[t]
           todo == EC!Missed(c)
           p == EC!P(t)
           key == memo[p]
           row(k) == c.new[CHOOSE i \in DOMAIN todo : todo[i] = k[1]]
           rest == EC!Resting(c.batch, EC!Answer(c))
<1>0. /\ UNCHANGED <<cached, served, memo, tally, posted, looked>>
      /\ c.pc = "put"
  BY DEF EC!put_many, EC!At
<1>1. CASE EC!Raise(t) /\ UNCHANGED cache
  BY <1>0, <1>1, RaiseStep
<1>2. CASE /\ cache' = [k \in DOMAIN cache |->
                          IF k[2] = key /\ k[1] \in EC!Range(todo)
                          THEN row(k) ELSE cache[k]]
           /\ call' = [call EXCEPT ![t] = rest]
  <2>1. /\ c.batch \in Batch /\ c.out = <<>> /\ p \in Process /\ key # None
        /\ \A x \in DOMAIN c.found : Made(Live, served, c.found[x], x)
        /\ DOMAIN c.new = DOMAIN todo
        /\ \A i \in DOMAIN c.new :
             /\ c.new[i] = [text |-> todo[i], weights |-> c.new[i].weights]
             /\ c.new[i].weights \in EC!Digest
             /\ Live \/ c.new[i].weights = served
    BY <1>0, EmbedTypes DEF EmbedOK
  <2>2. c.batch \in Seq(Text)
    BY <2>1, MemoryAssumption DEF EC!EmbedCacheAssumption
  <2>3. key \in EC!Digest /\ (Live \/ key = served)
    BY <2>1 DEF EmbedInv, KeysOK
  <2>4. cache \in [Text \X EC!Digest -> EC!Vector \cup {None}]
    BY DEF EmbedInv, KeysOK
  <2> HIDE DEF todo, key
  <2>5. ASSUME NEW i \in DOMAIN todo
        PROVE  Made(Live, served, c.new[i], todo[i])
    <3> DEFINE y == c.new[i]
               v == y.weights
               x == todo[i]
    <3>1. y = [text |-> x, weights |-> v] /\ (Live \/ v = served)
      BY <2>1
    <3> HIDE DEF y, v, x
    <3>2. y.text = x /\ y.weights = v
      BY <3>1
    <3> QED
      BY <3>1, <3>2 DEF Made, x, y
  <2>6. ASSUME NEW k \in DOMAIN cache,
               k[2] = key, k[1] \in EC!Range(todo)
        PROVE  row(k) \in EC!Vector /\ Made(Live, k[2], row(k), k[1])
    <3> DEFINE i == CHOOSE j \in DOMAIN todo : todo[j] = k[1]
    <3>1. i \in DOMAIN todo /\ todo[i] = k[1]
      BY <2>6 DEF EC!Range
    <3>2. row(k) = c.new[i]
      OBVIOUS
    <3> HIDE DEF i, row
    <3>3. k[1] \in Text
      BY <2>4
    <3>4. /\ c.new[i] = [text |-> k[1], weights |-> c.new[i].weights]
          /\ c.new[i].weights \in EC!Digest
          /\ Live \/ c.new[i].weights = key
      BY <2>1, <2>3, <3>1
    <3>5. c.new[i] \in EC!Vector
      BY <3>3, <3>4 DEF EC!Vector
    <3>6. c.new[i].text = k[1]
      BY <3>4
    <3> QED
      BY <2>6, <3>2, <3>4, <3>5, <3>6 DEF Made
  <2> HIDE DEF row
  <2>7. /\ cache' \in [Text \X EC!Digest -> EC!Vector \cup {None}]
        /\ \A k \in DOMAIN cache' :
             cache'[k] # None => Made(Live, k[2], cache'[k], k[1])
    <3>1. DOMAIN cache' = DOMAIN cache
      BY <1>2
    <3>2. ASSUME NEW k \in DOMAIN cache
          PROVE  /\ cache'[k] \in EC!Vector \cup {None}
                 /\ cache'[k] # None => Made(Live, k[2], cache'[k], k[1])
      <4>1. CASE k[2] = key /\ k[1] \in EC!Range(todo)
        <5>1. cache'[k] = row(k)
          BY <1>2, <4>1
        <5> QED
          BY <2>6, <4>1, <5>1
      <4>2. CASE ~(k[2] = key /\ k[1] \in EC!Range(todo))
        <5>1. cache'[k] = cache[k]
          BY <1>2, <4>2
        <5> QED
          BY <2>4, <5>1 DEF EmbedInv, KeysOK
      <4> QED
        BY <4>1, <4>2
    <3> QED
      BY <1>2, <2>4, <3>1, <3>2
  <2>8. KeysOK'
    BY <1>0, <2>7 DEF EmbedInv, KeysOK, Live
  <2>9. /\ Len(EC!Answer(c)) = Len(c.batch)
        /\ \A i \in DOMAIN EC!Answer(c) :
             Made(Live, served, EC!Answer(c)[i], c.batch[i])
    <3>1. ASSUME NEW i \in EC!Gaps(c)
          PROVE  LET n == EC!Rank(EC!Gaps(c), i)
                 IN  Made(Live, served, c.new[n], EC!Missed(c)[n])
      BY <2>2, <2>5, GapsFilled DEF todo
    <3> QED
      BY <2>1, <3>1, AnswerRight
  <2>10. /\ CallShaped(rest) /\ rest.pc = "idle" /\ rest.batch = c.batch
         /\ rest.out = EC!Answer(c) /\ rest.read \in EC!Count
    BY DEF CallShaped, EC!Resting, EC!Count, EC!NoCount
  <2> HIDE DEF rest
  <2>11. EmbedOK(Live, served, memo[p], rest)
    BY <2>1, <2>9, <2>10 DEF EmbedOK, key
  <2>12. CallsOK' /\ (DOMAIN call = Thread)'
    BY <1>0, <1>2, <2>10, <2>11, OneCall
  <2>13. StatsOK'
    BY <1>0, <1>2, <2>10, NoCounting
  <2> QED
    BY <1>0, <2>8, <2>12, <2>13 DEF EmbedInv
<1> QED
  BY <1>1, <1>2 DEF EC!put_many, EC!Set

LEMMA FlushStep ==
  ASSUME EmbedInv, NEW t \in Thread, EC!Flush(t)
  PROVE  EmbedInv'
<1> DEFINE p == EC!P(t)
           c == [EC!Resting(<<>>, <<>>) EXCEPT !.pc = "record",
                                               !.read = tally[p]]
<1>0. /\ UNCHANGED <<cached, served, memo, cache, tally, posted, looked>>
      /\ call' = [call EXCEPT ![t] = c] /\ call[t].pc = "idle"
  BY DEF EC!Flush, EC!Set, EC!At
<1>1. /\ CallShaped(c) /\ c.pc = "record" /\ c.out = <<>>
      /\ c.read = tally[p]
  BY DEF CallShaped, EC!Resting
<1>2. /\ tally \in [Process -> EC!Count] /\ posted \in [Process -> EC!Count]
      /\ looked \in [Process -> EC!Count] /\ p \in Process
  BY EmbedTypes DEF EmbedInv, StatsOK
<1> HIDE DEF c
<1>3. EmbedOK(Live, served, memo[p], c)
  BY <1>1 DEF EmbedOK
<1>4. CallsOK' /\ (DOMAIN call = Thread)'
  BY <1>0, <1>1, <1>3, OneCall
<1>5. StatsOK'
  <2>1. Counted(call[t], tally[p], posted[p], looked[p])
          => Counted(c, tally[p], posted[p], looked[p])
    BY <1>0, <1>1 DEF Counted
  <2>2. c.read \in EC!Count
    BY <1>1, <1>2
  <2> QED
    BY <1>0, <1>2, <2>1, <2>2, OneCount
<1> QED
  BY <1>0, <1>4, <1>5, SameKeys DEF EmbedInv

LEMMA RecordStep ==
  ASSUME EmbedInv, NEW t \in Thread, EC!record_cache_stats(t)
  PROVE  EmbedInv'
<1> DEFINE p == EC!P(t)
           c == [call[t] EXCEPT !.pc = "zero"]
<1>0. /\ UNCHANGED <<cached, served, memo, cache, tally, looked>>
      /\ call[t].pc = "record"
  BY DEF EC!record_cache_stats, EC!At
<1>1. CASE EC!Raise(t) /\ UNCHANGED posted
  BY <1>0, <1>1, RaiseStep
<1>2. CASE /\ posted' = [posted EXCEPT ![p] = EC!Plus(@, call[t].read)]
           /\ call' = [call EXCEPT ![t] = c]
  <2>1. /\ CallShaped(c) /\ c.pc = "zero" /\ c.out = call[t].out
        /\ c.read = call[t].read
    BY EmbedTypes DEF CallShaped
  <2>2. /\ tally \in [Process -> EC!Count] /\ posted \in [Process -> EC!Count]
        /\ looked \in [Process -> EC!Count] /\ p \in Process
        /\ c.read \in EC!Count
    BY <2>1, EmbedTypes DEF EmbedInv, StatsOK
  <2> HIDE DEF c
  <2>3. EmbedOK(Live, served, memo[p], c)
    BY <1>0, <2>1, EmbedTypes DEF EmbedOK
  <2>4. CallsOK' /\ (DOMAIN call = Thread)'
    BY <1>0, <1>2, <2>1, <2>3, OneCall
  <2>5. EC!Plus(posted[p], c.read) \in EC!Count
    BY <2>2 DEF EC!Plus, EC!Count
  <2>6. /\ posted' \in [Process -> EC!Count]
        /\ posted'[p] = EC!Plus(posted[p], c.read)
        /\ \A q \in Process \ {p} : posted'[q] = posted[q]
    BY <1>2, <2>1, <2>2, <2>5
  <2>7. Counted(call[t], tally[p], posted[p], looked[p])
          => Counted(c, tally'[p], posted'[p], looked'[p])
    BY <1>0, <2>1, <2>6 DEF Counted
  <2>8. StatsOK'
    BY <1>0, <1>2, <2>2, <2>6, <2>7, OneCount
  <2> QED
    BY <1>0, <2>4, <2>8, SameKeys DEF EmbedInv
<1> QED
  BY <1>1, <1>2 DEF EC!record_cache_stats, EC!Set

LEMMA ZeroStep ==
  ASSUME EmbedInv, NEW t \in Thread, EC!Zero(t)
  PROVE  EmbedInv'
<1> DEFINE p == EC!P(t)
           c == EC!Resting(<<>>, <<>>)
<1>0. /\ UNCHANGED <<cached, served, memo, cache, posted, looked>>
      /\ tally' = [tally EXCEPT ![p] = EC!NoCount]
      /\ call' = [call EXCEPT ![t] = c] /\ call[t].pc = "zero"
  BY DEF EC!Zero, EC!Set, EC!At
<1>1. CallsOK' /\ (DOMAIN call = Thread)'
  BY <1>0, AtRest, OneCall
<1>2. /\ tally \in [Process -> EC!Count] /\ posted \in [Process -> EC!Count]
      /\ looked \in [Process -> EC!Count] /\ p \in Process
  BY EmbedTypes DEF EmbedInv, StatsOK
<1>3. /\ EC!NoCount \in EC!Count
      /\ \A a \in EC!Count : EC!Plus(a, EC!NoCount) = a
  BY DEF EC!NoCount, EC!Count, EC!Plus
<1>4. /\ tally' \in [Process -> EC!Count] /\ tally'[p] = EC!NoCount
      /\ \A q \in Process \ {p} : tally'[q] = tally[q]
  BY <1>0, <1>2, <1>3
<1>5. c.pc = "idle" /\ c.read \in EC!Count
  BY AtRest
<1>6. Counted(call[t], tally[p], posted[p], looked[p])
        => Counted(c, tally'[p], posted'[p], looked'[p])
  BY <1>0, <1>2, <1>3, <1>4, <1>5 DEF Counted
<1>7. StatsOK'
  BY <1>0, <1>2, <1>4, <1>5, <1>6, OneCount
<1> QED
  BY <1>0, <1>1, <1>7, SameKeys DEF EmbedInv

LEMMA RestartStep ==
  ASSUME EmbedInv, NEW p \in Process, EC!Restart(p)
  PROVE  EmbedInv'
<1> DEFINE c == EC!Resting(<<>>, <<>>)
<1>0. /\ call' = [t \in Thread |-> IF EC!P(t) = p THEN c ELSE call[t]]
      /\ memo' = [memo EXCEPT ![p] = None]
      /\ tally' = [tally EXCEPT ![p] = EC!NoCount]
      /\ looked' = [looked EXCEPT ![p] = posted[p]]
      /\ UNCHANGED <<cached, served, cache, posted>>
  BY DEF EC!Restart
<1>1. /\ tally \in [Process -> EC!Count] /\ posted \in [Process -> EC!Count]
      /\ looked \in [Process -> EC!Count]
      /\ memo \in [Process -> EC!Digest \cup {None}]
  BY DEF EmbedInv, StatsOK, KeysOK
<1>2. Live' = Live /\ \A t \in Thread : EC!P(t)' = EC!P(t)
  BY <1>0 DEF Live, EC!P
<1>3. CallsOK'
  <2>1. ASSUME NEW t \in Thread
        PROVE  /\ CallShaped(call'[t])
               /\ EmbedOK(Live, served, memo'[EC!P(t)], call'[t])
    <3>1. CASE EC!P(t) = p
      <4>1. call'[t] = c
        BY <1>0, <3>1
      <4> QED
        BY <4>1, AtRest
    <3>2. CASE EC!P(t) # p
      <4>1. call'[t] = call[t] /\ memo'[EC!P(t)] = memo[EC!P(t)]
        BY <1>0, <1>1, <3>2, EmbedTypes
      <4> QED
        BY <4>1, EmbedTypes
    <3> QED
      BY <3>1, <3>2
  <2> QED
    BY <1>0, <1>2, <2>1 DEF CallsOK
<1>4. KeysOK'
  BY <1>0, <1>1 DEF EmbedInv, KeysOK, Live
<1>5. /\ EC!NoCount \in EC!Count
      /\ \A a \in EC!Count : EC!Plus(a, EC!NoCount) = a
  BY DEF EC!NoCount, EC!Count, EC!Plus
<1>6. StatsOK'
  <2>1. /\ tally' \in [Process -> EC!Count]
        /\ posted' \in [Process -> EC!Count]
        /\ looked' \in [Process -> EC!Count]
    BY <1>0, <1>1, <1>5
  <2>2. ASSUME NEW t \in Thread, \A u \in Thread \ {t} : EC!P(u) # EC!P(t)
        PROVE  Counted(call'[t], tally'[EC!P(t)], posted'[EC!P(t)],
                       looked'[EC!P(t)])
    <3>1. CASE EC!P(t) = p
      <4>1. /\ call'[t] = c /\ tally'[p] = EC!NoCount
            /\ looked'[p] = posted[p] /\ posted'[p] = posted[p]
        BY <1>0, <1>1, <3>1
      <4>2. c.pc = "idle" /\ posted[p] \in EC!Count
        BY <1>1, AtRest
      <4> QED
        BY <1>5, <3>1, <4>1, <4>2 DEF Counted
    <3>2. CASE EC!P(t) # p
      <4>1. /\ call'[t] = call[t] /\ tally'[EC!P(t)] = tally[EC!P(t)]
            /\ looked'[EC!P(t)] = looked[EC!P(t)]
            /\ posted'[EC!P(t)] = posted[EC!P(t)]
        BY <1>0, <1>1, <3>2, EmbedTypes
      <4>2. Counted(call[t], tally[EC!P(t)], posted[EC!P(t)],
                    looked[EC!P(t)])
        BY <2>2 DEF EmbedInv, StatsOK
      <4> QED
        BY <4>1, <4>2
    <3> QED
      BY <3>1, <3>2
  <2>3. \A t \in Thread : call'[t].read \in EC!Count
    BY <1>0, AtRest, EmbedTypes
  <2> QED
    BY <1>2, <2>1, <2>2, <2>3 DEF StatsOK
<1>7. (cached \in EmbedScenes /\ served \in EC!Digest
       /\ DOMAIN call = Thread)'
  BY <1>0 DEF EmbedInv
<1> QED
  BY <1>3, <1>4, <1>6, <1>7 DEF EmbedInv

(* A pull that hits no live process finds no answer of the old weights. *)
LEMMA PullStep ==
  ASSUME EmbedInv, EC!Pull
  PROVE  EmbedInv'
<1>0. /\ UNCHANGED <<cached, memo, cache, call, tally, posted, looked>>
      /\ served' = 1
      /\ Live \/ /\ \A p \in Process : memo[p] = None
                 /\ \A t \in Thread : call[t].pc = "idle"
  BY DEF EC!Pull, EC!At, Live
<1>1. CallsOK'
  <2>1. ASSUME NEW t \in Thread
        PROVE  EmbedOK(Live, 1, memo[EC!P(t)], call[t])
    <3>1. CASE Live
      BY <3>1, EmbedTypes DEF EmbedOK, Made
    <3>2. CASE ~Live
      BY <1>0, <3>2, EmbedTypes DEF EmbedOK
    <3> QED
      BY <3>1, <3>2
  <2>2. Live' = Live /\ \A t \in Thread : EC!P(t)' = EC!P(t)
    BY <1>0 DEF Live, EC!P
  <2> QED
    BY <1>0, <2>1, <2>2, EmbedTypes DEF CallsOK
<1>2. KeysOK'
  BY <1>0 DEF EmbedInv, KeysOK, Live
<1>3. StatsOK'
  BY <1>0 DEF EmbedInv, StatsOK, EC!P
<1> QED
  BY <1>0, <1>1, <1>2, <1>3 DEF EmbedInv, EC!Digest

LEMMA EmbedNext ==
  ASSUME EmbedInv, EC!Next \/ UNCHANGED embedVars
  PROVE  EmbedInv'
<1>1. CASE UNCHANGED embedVars
  <2>1. UNCHANGED <<cached, served, memo, cache, call, tally, posted, looked>>
    BY <1>1 DEF embedVars
  <2>2. Live' = Live /\ \A t \in Thread : EC!P(t)' = EC!P(t)
    BY <2>1 DEF Live, EC!P
  <2>3. CallsOK'
    BY <2>1, <2>2 DEF EmbedInv, CallsOK
  <2>4. StatsOK'
    BY <2>1, <2>2 DEF EmbedInv, StatsOK
  <2> QED
    BY <2>1, <2>3, <2>4, SameKeys DEF EmbedInv
<1>2. CASE \E t \in Thread : EC!Work(t)
  BY <1>2, DigestStep, PinStep, LookStep, PostStep, PutStep, RecordStep,
     ZeroStep DEF EC!Work
<1>3. CASE \E t \in Thread : EC!Flush(t) \/ \E b \in Batch : EC!Embed(t, b)
  BY <1>3, FlushStep, EmbedStep
<1>4. CASE (\E p \in Process : EC!Restart(p)) \/ EC!Pull
  BY <1>4, RestartStep, PullStep
<1> QED
  BY <1>1, <1>2, <1>3, <1>4 DEF EC!Next

(* An answer of the embedder has, in its place, the vector of each text of *)
(* the batch; unless a pull hits a live process, the vectors and the rows  *)
(* of the cache are those of the weights they claim, and the memoised      *)
(* digest is the one served; and the lookups of a process with one thread  *)
(* are counted once, flushes that fail and processes that die included.    *)
THEOREM CacheIsSound == MCSpec => []MCCacheSound
<1>1. MCInit => EmbedInv
  BY EmbedInit
<1>2. EmbedInv /\ [MCNext]_allvars => EmbedInv'
  <2> SUFFICES ASSUME EmbedInv, [MCNext]_allvars
               PROVE  EmbedInv'
    OBVIOUS
  <2> QED
    BY MemorySteps, EmbedNext
<1>3. EmbedInv => MCCacheSound
  <2> SUFFICES ASSUME EmbedInv
               PROVE  MCCacheSound
    OBVIOUS
  <2>1. EC!AnswersFaithful
    BY EmbedTypes DEF EC!AnswersFaithful, EC!At, EmbedOK, Made, Live
  <2>2. EC!KeysTrueWhenQuiet
    BY DEF EmbedInv, KeysOK, Made, Live, EC!KeysTrueWhenQuiet, EC!KeysTrue
  <2>3. EC!StatsCountedOnce
    <3> SUFFICES ASSUME NEW p \in Process, EC!Alone(p)
                 PROVE  IF \E t \in Thread : EC!P(t) = p /\ EC!At(t, "zero")
                        THEN posted[p] = looked[p]
                        ELSE EC!Plus(posted[p], tally[p]) = looked[p]
      BY DEF EC!StatsCountedOnce
    <3> DEFINE Mine == {t \in Thread : EC!P(t) = p}
    <3>1. Cardinality(Mine) = EC!Cardinality(Mine)
      BY Zenon DEF EC!Cardinality, Cardinality
    <3>2. IsFiniteSet(Thread)
      <4>1. IsFiniteSet(Thread) <=> EC!IsFiniteSet(Thread)
        BY Zenon DEF EC!IsFiniteSet, IsFiniteSet
      <4> QED
        BY <4>1, MemoryAssumption DEF EC!EmbedCacheAssumption
    <3>3. IsFiniteSet(Mine)
      BY <3>2, FS_Subset
    <3>4. Cardinality(Mine) = 1
      BY <3>1 DEF EC!Alone
    <3>5. PICK t : Mine = {t}
      <4> HIDE DEF Mine
      <4> QED
        BY <3>3, <3>4, FS_Singleton
    <3>6. /\ t \in Thread /\ EC!P(t) = p
          /\ \A u \in Thread \ {t} : EC!P(u) # EC!P(t)
      BY <3>5
    <3>7. Counted(call[t], tally[p], posted[p], looked[p])
      BY <3>6 DEF EmbedInv, StatsOK
    <3>8. (\E u \in Thread : EC!P(u) = p /\ EC!At(u, "zero"))
            <=> call[t].pc = "zero"
      BY <3>6 DEF EC!At
    <3> QED
      BY <3>7, <3>8 DEF Counted
  <2> QED
    BY <2>1, <2>2, <2>3 DEF MCCacheSound
<1>4. MCSpec => MCInit /\ [][MCNext]_allvars
  BY PTL DEF MCSpec, allvars
<1> QED
  BY <1>1, <1>2, <1>3, <1>4, PTL

-----------------------------------------------------------------------------
(***************************************************************************)
(* Episodic memory.  What its operations leave between two of their        *)
(* statements, for any number of processes, prompts and failures.          *)
(***************************************************************************)

(* An operation knows what its statements use.                             *)
OpOK(o) ==
  /\ o = [pc |-> o.pc, prompt |-> o.prompt, ts |-> o.ts, id |-> o.id,
          groups |-> o.groups, seen |-> o.seen, del |-> o.del,
          hits |-> o.hits, shown |-> o.shown,
          verdict |-> o.verdict, all |-> o.all]
  /\ o.pc \in {"select", "insert", "refresh", "embed"} =>
       /\ o.prompt \in Prompt /\ o.verdict \in EP!Verdict
       /\ o.ts \in Nat /\ 0 < o.ts /\ o.ts <= clock
  /\ o.pc \in {"insert", "refresh", "embed"} => o.id \in EpisodeId
  /\ o.pc \in {"first", "compact"} => o.groups \subseteq Prompt
  /\ o.pc = "compact" =>
       /\ o.prompt \in Prompt
       /\ \A r \in o.seen : /\ r.id \in EpisodeId
                            /\ r.ts \in Nat /\ r.ts <= clock
       /\ \A r, s \in o.seen : r.id = s.id => r = s

RowOK(r) == r \in EP!Row /\ r.ts <= clock

TableInv ==
  /\ world \in EpisodeScenes /\ clock \in Nat /\ failures.n \in Nat
  /\ acked \subseteq Prompt
  /\ DOMAIN table = EpisodeId /\ DOMAIN doing = Proc
  /\ DOMAIN latest = Prompt /\ \A x \in Prompt : latest[x] \in Nat
  /\ \A i \in EP!Live : RowOK(table[i])
  /\ \A p \in Proc : OpOK(doing[p])

(* Who is at work, and whether alone; an id that was drawn is nobody's.    *)
WorkInv ==
  /\ world.serial => \A p, q \in Proc :
       ~EP!Now(p, "idle") /\ ~EP!Now(q, "idle") => p = q
  /\ \A p \in Proc :
       /\ doing[p].pc \in {"groups", "first", "compact", "prune"} =>
            p \in world.dedupes
       /\ EP!Now(p, "unlink") => world.serial /\ acked = {}
       /\ EP!Now(p, "insert") =>
            /\ table[doing[p].id] = NoRow /\ doing[p].id \notin vectors
            /\ \A q \in Proc : q = p \/ doing[q].id # doing[p].id

(* One dedupe leaves a row of every prompt there is to remember.           *)
Known(x) == \/ latest[x] > 0 \/ x \in acked
            \/ \E p \in Proc : /\ doing[p].pc \in {"refresh", "embed"}
                               /\ doing[p].prompt = x
KeptInv ==
  EP!OneDedupe =>
    /\ \A x \in Prompt : Known(x) => EP!RowsOf(x) # {}
    /\ \A p \in Proc : EP!Now(p, "compact") =>
         \A r \in doing[p].seen : r.id \in EP!RowsOf(doing[p].prompt)

(* While nothing was left bare, a row has a point, or is about to.         *)
Pointed(i) == \/ i \in vectors
              \/ \E p \in Proc : EP!Now(p, "embed") /\ doing[p].id = i
PointInv ==
  EP!OneDedupe /\ ~failures.bare =>
    /\ (\A p \in Proc : ~EP!Now(p, "unlink")) =>
         \A i \in EP!Live : Pointed(i)
    /\ \A p \in Proc : EP!Now(p, "prune") =>
         \A i \in doing[p].del : i \notin EP!Live /\ Pointed(i)

(* Rows that nobody deletes are there when their record ends.              *)
SteadyInv ==
  /\ world.dedupes = {} \/ world.serial =>
       \A p \in Proc : doing[p].pc \in {"refresh", "embed"} =>
         doing[p].id \in EP!RowsOf(doing[p].prompt)
  /\ world.dedupes = {} =>
       \A x \in acked : EP!RowsOf(x) \cap vectors # {}

(* Alone, an operation finds what it left.                                 *)
SerialInv ==
  world.serial =>
    /\ \A x \in Prompt : EP!RowsOf(x) # {} =>
         /\ \E i \in EP!RowsOf(x) : table[i].ts = latest[x]
         /\ \A i \in EP!RowsOf(x) : table[i].ts <= latest[x]
    /\ \A p \in Proc :
         /\ doing[p].pc \in {"select", "insert", "refresh"} =>
              doing[p].ts = clock
         /\ EP!Now(p, "compact") => doing[p].seen =
              {[id |-> i, ts |-> table[i].ts] :
                 i \in EP!Hashed(doing[p].prompt)}

InStepInv ==
  world.serial /\ failures.n = 0 =>
    /\ EP!Idle => vectors = EP!Live
    /\ \A p \in Proc :
         /\ doing[p].pc \notin {"idle", "embed", "prune", "unlink"} =>
              vectors = EP!Live
         /\ EP!Now(p, "embed") => EP!Live = vectors \cup {doing[p].id}
         /\ EP!Now(p, "prune") =>
              vectors = EP!Live \cup doing[p].del
              /\ EP!Live \cap doing[p].del = {}
         /\ EP!Now(p, "unlink") => vectors = {}

EpisodesInv == /\ TableInv /\ WorkInv /\ KeptInv /\ PointInv
               /\ SteadyInv /\ SerialInv /\ InStepInv

-----------------------------------------------------------------------------
(* What is drawn from a table that stays is the same. *)
LEMMA SameTable ==
  ASSUME table' = table
  PROVE  /\ EP!Live' = EP!Live
         /\ \A x : /\ EP!RowsOf(x)' = EP!RowsOf(x)
                   /\ EP!Hashed(x)' = EP!Hashed(x)
  BY DEF EP!Live, EP!RowsOf, EP!Hashed

(* A statement that only reads: a process has got on, the stores have not. *)
LEMMA OnlyReads ==
  ASSUME EpisodesInv, NEW p \in Proc, NEW CONSTANT o,
         UNCHANGED <<world, table, vectors, acked, latest, failures>>,
         clock' = clock \/ clock' = clock + 1,
         doing' = [doing EXCEPT ![p] = o],
         world.serial => \A q \in Proc : q = p \/ EP!Now(q, "idle"),
         doing[p].pc \in {"idle", "select", "groups", "first", "by_ids"},
         o.pc \in {"idle", "select", "insert", "refresh", "groups", "first",
                   "compact", "by_ids"},
         OpOK(o)',
         o.pc \in {"groups", "first", "compact"} => p \in world.dedupes,
         \A q \in Proc : \/ q = p \/ ~EP!Now(q, "insert")
                         \/ doing[q].id # o.id,
         o.pc = "insert" =>
           /\ table[o.id] = NoRow /\ o.id \notin vectors
           /\ \A q \in Proc : q = p \/ doing[q].id # o.id,
         o.pc = "refresh" => o.id \in EP!RowsOf(o.prompt),
         o.pc = "compact" =>
           o.seen = {[id |-> i, ts |-> table[i].ts] :
                       i \in EP!Hashed(o.prompt)},
         world.serial /\ o.pc \in {"select", "insert", "refresh"} =>
           o.ts = clock'
  PROVE  EpisodesInv'
<1>0. /\ DOMAIN doing = Proc /\ clock \in Nat
      /\ TableInv /\ WorkInv /\ KeptInv /\ PointInv
      /\ SteadyInv /\ SerialInv /\ InStepInv
  BY DEF EpisodesInv, TableInv
<1>1. /\ DOMAIN doing' = Proc /\ doing'[p] = o
      /\ \A q \in Proc : q = p \/ doing'[q] = doing[q]
  BY <1>0
<1>2. /\ EP!Live' = EP!Live
      /\ \A x : /\ EP!RowsOf(x)' = EP!RowsOf(x)
                /\ EP!Hashed(x)' = EP!Hashed(x)
  BY SameTable
<1>3. TableInv'
  <2>1. \A q \in Proc : OpOK(doing[q])'
    <3> SUFFICES ASSUME NEW q \in Proc, q # p
                 PROVE  OpOK(doing[q])'
      BY <1>1
    <3>1. doing'[q] = doing[q] /\ OpOK(doing[q])
      BY <1>0, <1>1 DEF TableInv
    <3> QED
      BY <1>0, <3>1 DEF OpOK
  <2>2. \A i \in EP!Live : RowOK(table[i])'
    BY <1>0, <1>2 DEF TableInv, RowOK, EP!Row
  <2> QED
    BY <1>0, <1>1, <1>2, <2>1, <2>2 DEF TableInv
<1>4. WorkInv'
  <2>1. world.serial => \A q, r \in Proc :
          ~EP!Now(q, "idle")' /\ ~EP!Now(r, "idle")' => q = r
    BY <1>1 DEF EP!Now
  <2>2. \A q \in Proc : q # p => doing'[q] = doing[q]
    BY <1>1
  <2>3. \A q \in Proc :
          /\ doing'[q].pc \in {"groups", "first", "compact", "prune"} =>
               q \in world.dedupes
          /\ EP!Now(q, "unlink")' => world.serial /\ acked = {}
    BY <1>0, <1>1 DEF WorkInv, EP!Now
  <2>4. \A q \in Proc : EP!Now(q, "insert")' =>
          /\ table[doing'[q].id] = NoRow /\ doing'[q].id \notin vectors
          /\ \A r \in Proc : r = q \/ doing'[r].id # doing'[q].id
    BY <1>0, <1>1 DEF WorkInv, EP!Now
  <2> QED
    BY <2>1, <2>3, <2>4 DEF WorkInv
<1>5. KeptInv'
  <2>1. \A x : Known(x)' => Known(x) \/ EP!RowsOf(x) # {}
    BY <1>1 DEF Known
  <2>2. ASSUME o.pc = "compact", NEW r \in o.seen
        PROVE  r.id \in EP!RowsOf(o.prompt)
    BY <2>2 DEF EP!Hashed
  <2> QED
    BY <1>0, <1>1, <1>2, <2>1, <2>2 DEF KeptInv, EP!OneDedupe, EP!Now
<1>6. PointInv'
  <2>1. \A i : Pointed(i) => Pointed(i)'
    BY <1>1 DEF Pointed, EP!Now
  <2> QED
    BY <1>0, <1>1, <1>2, <2>1 DEF PointInv, EP!OneDedupe, EP!Now
<1>7. SteadyInv'
  BY <1>0, <1>1, <1>2 DEF SteadyInv
<1>8. SerialInv'
  BY <1>0, <1>1, <1>2 DEF SerialInv, EP!Now
<1>9. InStepInv'
  BY <1>0, <1>1, <1>2 DEF InStepInv, EP!Now, EP!Idle
<1> QED
  BY <1>3, <1>4, <1>5, <1>6, <1>7, <1>8, <1>9 DEF EpisodesInv

(* The statements that only read. *)
LEMMA ReadSteps ==
  ASSUME EpisodesInv, NEW p \in Proc,
         \/ \E x \in Prompt : \/ \E v \in EP!Verdict : EP!Record(p, x, v)
                              \/ \E all \in BOOLEAN : EP!Search(p, x, all)
         \/ EP!Select(p)
         \/ EP!Groups(p) \/ EP!First(p) \/ EP!ById(p)
  PROVE  EpisodesInv'
<1>0. /\ DOMAIN doing = Proc /\ clock \in Nat /\ OpOK(doing[p])
      /\ TableInv /\ WorkInv /\ SerialInv
      /\ DOMAIN table = EpisodeId
      /\ \A i \in EP!Live : RowOK(table[i])
  BY DEF EpisodesInv, TableInv
<1>n. NoRow \notin EpisodeId
  BY MemoryAssumption DEF EP!EpisodesAssumption
<1>a. ~EP!Now(p, "idle") /\ world.serial =>
        \A q \in Proc : q = p \/ EP!Now(q, "idle")
  BY <1>0 DEF WorkInv
<1>f. /\ EP!Free = [pc |-> "idle", prompt |-> NoRow, ts |-> 0, id |-> NoRow,
                    groups |-> {}, seen |-> {}, del |-> {}, hits |-> <<>>,
                    shown |-> <<>>,
                    verdict |-> "none", all |-> FALSE]
      /\ \A q \in Proc : ~EP!Now(q, "insert") \/ doing[q].id # NoRow
  BY <1>0, <1>n DEF EP!Free, TableInv, OpOK, EP!Now
<1>1. ASSUME NEW x \in Prompt, NEW v \in EP!Verdict, EP!Record(p, x, v)
      PROVE  EpisodesInv'
  <2>1. /\ UNCHANGED <<world, table, vectors, acked, latest, failures>>
        /\ clock' = clock + 1
        /\ EP!Now(p, "idle") /\ (world.serial => EP!Idle)
    BY <1>1 DEF EP!Record, EP!Begin
  <2>t. PICK t : t = clock + 1
    OBVIOUS
  <2>3. PICK c : c = [EP!Free EXCEPT !.pc = "select", !.prompt = x, !.ts = t,
                                     !.verdict = v]
    OBVIOUS
  <2>d. doing' = [doing EXCEPT ![p] = c]
    BY <1>1, <2>t, <2>3 DEF EP!Record, EP!Goto
  <2>2. c = [pc |-> "select", prompt |-> x, ts |-> t, id |-> NoRow,
             groups |-> {}, seen |-> {}, del |-> {}, hits |-> <<>>,
             shown |-> <<>>,
             verdict |-> v, all |-> FALSE]
    BY <1>f, <2>3
  <2>4. /\ c.pc = "select" /\ c.id = NoRow /\ c.ts = clock + 1
        /\ c.prompt = x /\ c.verdict = v
    BY <2>2, <2>t
  <2>5. OpOK(c)'
    BY <1>0, <2>1, <2>2, <2>4 DEF OpOK
  <2> QED
    BY <1>f, <2>1, <2>d, <2>4, <2>5, OnlyReads DEF EP!Now, EP!Idle
<1>2. ASSUME NEW x \in Prompt, NEW all \in BOOLEAN, EP!Search(p, x, all)
      PROVE  EpisodesInv'
  <2>1. PICK h : doing' = [doing EXCEPT ![p] =
                   [EP!Free EXCEPT !.pc = "by_ids", !.prompt = x, !.all = all,
                                   !.hits = h]]
    BY <1>2 DEF EP!Search, EP!Goto
  <2>2. /\ UNCHANGED <<world, table, vectors, acked, latest, failures>>
        /\ clock' = clock
        /\ EP!Now(p, "idle") /\ (world.serial => EP!Idle)
    BY <1>2 DEF EP!Search, EP!Begin
  <2>3. PICK c : c = [EP!Free EXCEPT !.pc = "by_ids", !.prompt = x,
                                     !.all = all, !.hits = h]
    OBVIOUS
  <2>4. c = [pc |-> "by_ids", prompt |-> x, ts |-> 0, id |-> NoRow,
             groups |-> {}, seen |-> {}, del |-> {}, hits |-> h,
             shown |-> <<>>,
             verdict |-> "none", all |-> all]
    BY <1>f, <2>3
  <2>5. c.pc = "by_ids" /\ c.id = NoRow
    BY <2>4
  <2>6. OpOK(c)'
    BY <2>4 DEF OpOK
  <2> QED
    BY <1>f, <2>1, <2>2, <2>3, <2>5, <2>6, OnlyReads DEF EP!Now, EP!Idle
<1>3. CASE EP!Select(p)
  <2>0. /\ EP!Now(p, "select")
        /\ UNCHANGED <<world, table, vectors, acked, latest, failures>>
        /\ clock' = clock
    BY <1>3 DEF EP!Select
  <2> DEFINE r == doing[p]
  <2>s. r = [pc |-> r.pc, prompt |-> r.prompt, ts |-> r.ts, id |-> r.id,
             groups |-> r.groups, seen |-> r.seen, del |-> r.del,
             hits |-> r.hits, shown |-> r.shown,
             verdict |-> r.verdict, all |-> r.all]
    BY <1>0 DEF OpOK
  <2>r. /\ r.prompt \in Prompt /\ r.verdict \in EP!Verdict
        /\ r.ts \in Nat /\ 0 < r.ts /\ r.ts <= clock'
    BY <1>0, <2>0 DEF OpOK, EP!Now
  <2> HIDE DEF r
  <2>t. world.serial => r.ts = clock'
    BY <1>0, <2>0 DEF SerialInv, EP!Now, r
  <2>1. PICK i \in EpisodeId, l \in {"insert", "refresh"} :
          /\ doing' = [doing EXCEPT ![p] = [r EXCEPT !.id = i, !.pc = l]]
          /\ l = "refresh" => i \in EP!Hashed(r.prompt)
          /\ l = "insert" => /\ table[i] = NoRow /\ i \notin vectors
                             /\ \A q \in Proc : doing[q].id # i
    <3>1. \A i \in EP!Hashed(r.prompt) : i \in EpisodeId
      BY DEF EP!Hashed, EP!RowsOf, EP!Live
    <3> QED
      BY <1>3, <3>1 DEF EP!Select, EP!Goto, r
  <2>2. PICK c : c = [r EXCEPT !.id = i, !.pc = l]
    OBVIOUS
  <2>3. c = [pc |-> l, prompt |-> r.prompt, ts |-> r.ts, id |-> i,
             groups |-> r.groups, seen |-> r.seen, del |-> r.del,
             hits |-> r.hits, shown |-> r.shown,
             verdict |-> r.verdict, all |-> r.all]
    BY <2>2, <2>s
  <2>4. /\ c.pc = l /\ c.id = i /\ c.prompt = r.prompt
        /\ c.ts = r.ts /\ c.groups = r.groups /\ c.seen = r.seen
        /\ c.del = r.del /\ c.hits = r.hits /\ c.shown = r.shown
        /\ c.verdict = r.verdict
    BY <2>3
  <2>5. OpOK(c)'
    BY <2>r, <2>3, <2>4 DEF OpOK
  <2>6. doing' = [doing EXCEPT ![p] = c]
    BY <2>1, <2>2, Zenon
  <2>7. /\ l = "refresh" => i \in EP!RowsOf(c.prompt)
        /\ l = "refresh" => table[i] # NoRow
    BY <2>1, <2>4 DEF EP!Hashed, EP!RowsOf, EP!Live
  <2>8. \A q \in Proc : q = p \/ ~EP!Now(q, "insert") \/ doing[q].id # c.id
    BY <1>0, <2>1, <2>4, <2>7 DEF WorkInv
  <2>9. doing[p].pc = "select"
    BY <2>0 DEF EP!Now
  <2> QED
    BY <1>a, <2>0, <2>t, <2>1, <2>4, <2>5, <2>6, <2>7, <2>8, <2>9, OnlyReads
    DEF EP!Now
<1>4. CASE EP!Groups(p)
  <2>0. /\ EP!Now(p, "groups")
        /\ UNCHANGED <<world, table, vectors, acked, latest, failures>>
        /\ clock' = clock
        /\ \/ doing' = [doing EXCEPT ![p] = EP!Free]
           \/ \E g \in SUBSET Prompt : doing' = [doing EXCEPT ![p] =
                [doing[p] EXCEPT !.pc = "first", !.groups = g]]
    BY <1>4 DEF EP!Groups, EP!Goto
  <2>1. CASE doing' = [doing EXCEPT ![p] = EP!Free]
    <3>1. PICK c : c = EP!Free
      OBVIOUS
    <3>2. c.pc = "idle" /\ c.id = NoRow /\ OpOK(c)'
      BY <1>f, <3>1 DEF OpOK
    <3> QED
      BY <1>a, <1>f, <2>0, <2>1, <3>1, <3>2, OnlyReads DEF EP!Now
  <2>2. CASE \E g \in SUBSET Prompt : doing' = [doing EXCEPT ![p] =
               [doing[p] EXCEPT !.pc = "first", !.groups = g]]
    <3>1. PICK g \in SUBSET Prompt : doing' = [doing EXCEPT ![p] =
                 [doing[p] EXCEPT !.pc = "first", !.groups = g]]
      BY <2>2
    <3> DEFINE r == doing[p]
    <3>2. PICK c : c = [r EXCEPT !.pc = "first", !.groups = g]
      OBVIOUS
    <3>3. r = [pc |-> r.pc, prompt |-> r.prompt, ts |-> r.ts, id |-> r.id,
               groups |-> r.groups, seen |-> r.seen, del |-> r.del,
               hits |-> r.hits, shown |-> r.shown,
               verdict |-> r.verdict, all |-> r.all]
      BY <1>0 DEF OpOK
    <3> HIDE DEF r
    <3>4. c = [pc |-> "first", prompt |-> r.prompt, ts |-> r.ts,
               id |-> r.id, groups |-> g, seen |-> r.seen, del |-> r.del,
               hits |-> r.hits, shown |-> r.shown,
               verdict |-> r.verdict, all |-> r.all]
      BY <3>2, <3>3
    <3>5. c.pc = "first" /\ c.id = r.id
      BY <3>4
    <3>6. OpOK(c)'
      BY <3>4 DEF OpOK
    <3>7. p \in world.dedupes
      BY <1>0, <2>0 DEF WorkInv, EP!Now
    <3>8. \A q \in Proc : q = p \/ ~EP!Now(q, "insert") \/ doing[q].id # r.id
      BY <1>0 DEF WorkInv, r
    <3>9. doing' = [doing EXCEPT ![p] = c]
      BY <3>1, <3>2, Zenon DEF r
    <3>10. /\ \A q \in Proc : \/ q = p \/ ~EP!Now(q, "insert")
                              \/ doing[q].id # c.id
           /\ world.serial => \A q \in Proc : q = p \/ EP!Now(q, "idle")
           /\ doing[p].pc = "groups"
      BY <1>a, <2>0, <3>5, <3>8 DEF EP!Now
    <3> QED
      BY <2>0, <3>5, <3>6, <3>7, <3>9, <3>10, OnlyReads
  <2> QED
    BY <2>0, <2>1, <2>2
<1>5. CASE EP!First(p)
  <2> DEFINE r == doing[p]
             found(y) == {[id |-> i, ts |-> table[i].ts] : i \in EP!Hashed(y)}
  <2>0. /\ EP!Now(p, "first")
        /\ UNCHANGED <<world, table, vectors, acked, latest, failures>>
        /\ clock' = clock
        /\ \E y \in r.groups : doing' = [doing EXCEPT ![p] =
             [r EXCEPT !.pc = "compact", !.prompt = y, !.seen = found(y)]]
    BY <1>5 DEF EP!First, EP!Goto
  <2>1. PICK y \in r.groups : doing' = [doing EXCEPT ![p] =
               [r EXCEPT !.pc = "compact", !.prompt = y, !.seen = found(y)]]
    BY <2>0
  <2>2. y \in Prompt
    BY <1>0, <2>0 DEF OpOK, EP!Now
  <2>3. \A i \in EP!Hashed(y) :
          i \in EpisodeId /\ table[i].ts \in Nat /\ table[i].ts <= clock
    BY <1>0 DEF EP!Hashed, EP!RowsOf, EP!Live, RowOK, EP!Row
  <2>s. PICK f : f = found(y)
    OBVIOUS
  <2>4. /\ \A v \in f : v.id \in EpisodeId /\ v.ts \in Nat /\ v.ts <= clock
        /\ \A v, w \in f : v.id = w.id => v = w
    BY <2>3, <2>s
  <2>5. PICK c : c = [r EXCEPT !.pc = "compact", !.prompt = y, !.seen = f]
    OBVIOUS
  <2>6. r = [pc |-> r.pc, prompt |-> r.prompt, ts |-> r.ts, id |-> r.id,
             groups |-> r.groups, seen |-> r.seen, del |-> r.del,
             hits |-> r.hits, shown |-> r.shown,
             verdict |-> r.verdict, all |-> r.all]
    BY <1>0 DEF OpOK
  <2>r. r.groups \subseteq Prompt
    BY <1>0, <2>0 DEF OpOK, EP!Now
  <2>8. p \in world.dedupes
    BY <1>0, <2>0 DEF WorkInv, EP!Now
  <2>9. \A q \in Proc : q = p \/ ~EP!Now(q, "insert") \/ doing[q].id # r.id
    BY <1>0 DEF WorkInv
  <2>10. doing[p].pc = "first"
    BY <2>0 DEF EP!Now
  <2> HIDE DEF r, found
  <2>11. c = [pc |-> "compact", prompt |-> y, ts |-> r.ts, id |-> r.id,
              groups |-> r.groups, seen |-> f, del |-> r.del,
              hits |-> r.hits, shown |-> r.shown,
              verdict |-> r.verdict, all |-> r.all]
    BY <2>5, <2>6
  <2>12. /\ c.pc = "compact" /\ c.id = r.id /\ c.prompt = y /\ c.seen = f
         /\ c.groups = r.groups
    BY <2>11
  <2>13. OpOK(c)'
    BY <2>0, <2>2, <2>4, <2>11, <2>12, <2>r DEF OpOK
  <2>14. c.seen = {[id |-> i, ts |-> table[i].ts] : i \in EP!Hashed(c.prompt)}
    BY <2>12, <2>s DEF found
  <2>15. doing' = [doing EXCEPT ![p] = c]
    BY <2>1, <2>s, <2>5, Zenon
  <2>16. /\ \A q \in Proc : \/ q = p \/ ~EP!Now(q, "insert")
                            \/ doing[q].id # c.id
         /\ world.serial => \A q \in Proc : q = p \/ EP!Now(q, "idle")
    BY <1>a, <2>0, <2>9, <2>10, <2>12 DEF EP!Now
  <2>17. c.pc = "compact"
    BY <2>12
  <2> QED
    BY <2>0, <2>8, <2>10, <2>17, <2>13, <2>14, <2>15, <2>16, OnlyReads
<1>6. CASE EP!ById(p)
  <2>0. /\ EP!Now(p, "by_ids")
        /\ UNCHANGED <<world, table, vectors, acked, latest, failures>>
        /\ clock' = clock
        /\ \E s : doing' = [doing EXCEPT ![p] =
             [EP!Free EXCEPT !.prompt = doing[p].prompt, !.shown = s]]
    BY <1>6 DEF EP!ById, EP!Goto
  <2>1. PICK s : doing' = [doing EXCEPT ![p] =
               [EP!Free EXCEPT !.prompt = doing[p].prompt, !.shown = s]]
    BY <2>0
  <2>2. PICK y : y = doing[p].prompt
    OBVIOUS
  <2>3. PICK c : c = [EP!Free EXCEPT !.prompt = y, !.shown = s]
    OBVIOUS
  <2>4. c = [pc |-> "idle", prompt |-> y, ts |-> 0, id |-> NoRow,
             groups |-> {}, seen |-> {}, del |-> {}, hits |-> <<>>,
             shown |-> s,
             verdict |-> "none", all |-> FALSE]
    BY <1>f, <2>3
  <2>5. c.pc = "idle" /\ c.id = NoRow
    BY <2>4
  <2>6. OpOK(c)'
    BY <2>4 DEF OpOK
  <2> QED
    BY <1>a, <1>f, <2>0, <2>1, <2>2, <2>3, <2>5, <2>6, OnlyReads DEF EP!Now
<1> QED
  BY <1>1, <1>2, <1>3, <1>4, <1>5, <1>6

(* What becomes of the operations when one of them gets to be c. *)
LEMMA OthersOK ==
  ASSUME TableInv, NEW p \in Proc, NEW CONSTANT c, clock' = clock,
         doing' = [doing EXCEPT ![p] = c], OpOK(c)'
  PROVE  /\ DOMAIN doing' = Proc /\ doing'[p] = c
         /\ \A q \in Proc : q = p \/ doing'[q] = doing[q]
         /\ \A q \in Proc : OpOK(doing[q])'
<1>1. /\ DOMAIN doing' = Proc /\ doing'[p] = c
      /\ \A q \in Proc : q = p \/ doing'[q] = doing[q]
  BY DEF TableInv
<1> SUFFICES ASSUME NEW q \in Proc, q # p
             PROVE  OpOK(doing[q])'
  BY <1>1
<1>2. doing'[q] = doing[q] /\ OpOK(doing[q])
  BY <1>1 DEF TableInv
<1> QED
  BY <1>2 DEF OpOK

LEMMA Freed ==
  ASSUME TableInv, NEW p \in Proc, clock' = clock,
         doing' = [doing EXCEPT ![p] = EP!Free]
  PROVE  /\ DOMAIN doing' = Proc
         /\ doing'[p].pc = "idle" /\ doing'[p].id = NoRow
         /\ \A q \in Proc : q = p \/ doing'[q] = doing[q]
         /\ \A q \in Proc : OpOK(doing[q])'
<1>1. PICK c : c = EP!Free
  OBVIOUS
<1>2. c = [pc |-> "idle", prompt |-> NoRow, ts |-> 0, id |-> NoRow,
           groups |-> {}, seen |-> {}, del |-> {}, hits |-> <<>>,
           shown |-> <<>>,
           verdict |-> "none", all |-> FALSE]
  BY <1>1 DEF EP!Free
<1>3. OpOK(c)' /\ c.pc = "idle" /\ c.id = NoRow
  BY <1>2 DEF OpOK
<1> QED
  BY <1>1, <1>3, OthersOK

(* An insert or a refresh is done, its point is next. *)
LEMMA Embeds ==
  ASSUME TableInv, NEW p \in Proc, clock' = clock,
         doing[p].pc \in {"insert", "refresh"},
         doing' = [doing EXCEPT ![p] = [doing[p] EXCEPT !.pc = "embed"]]
  PROVE  /\ DOMAIN doing' = Proc
         /\ doing'[p].pc = "embed" /\ doing'[p].id = doing[p].id
         /\ doing'[p].prompt = doing[p].prompt
         /\ doing'[p].ts = doing[p].ts
         /\ \A q \in Proc : q = p \/ doing'[q] = doing[q]
         /\ \A q \in Proc : OpOK(doing[q])'
<1> DEFINE r == doing[p]
<1>s. r = [pc |-> r.pc, prompt |-> r.prompt, ts |-> r.ts, id |-> r.id,
           groups |-> r.groups, seen |-> r.seen, del |-> r.del,
           hits |-> r.hits, shown |-> r.shown,
           verdict |-> r.verdict, all |-> r.all]
  BY DEF TableInv, OpOK
<1>r. /\ r.prompt \in Prompt /\ r.ts \in Nat /\ 0 < r.ts /\ r.ts <= clock'
      /\ r.id \in EpisodeId /\ r.verdict \in EP!Verdict
  BY DEF TableInv, OpOK
<1>d. doing' = [doing EXCEPT ![p] = [r EXCEPT !.pc = "embed"]]
  OBVIOUS
<1> HIDE DEF r
<1>1. PICK c : c = [r EXCEPT !.pc = "embed"]
  OBVIOUS
<1>2. c = [pc |-> "embed", prompt |-> r.prompt, ts |-> r.ts, id |-> r.id,
           groups |-> r.groups, seen |-> r.seen, del |-> r.del,
           hits |-> r.hits, shown |-> r.shown,
           verdict |-> r.verdict, all |-> r.all]
  BY <1>1, <1>s
<1>3. /\ c.pc = "embed" /\ c.id = r.id /\ c.prompt = r.prompt
      /\ c.ts = r.ts /\ c.groups = r.groups /\ c.seen = r.seen
      /\ c.del = r.del /\ c.hits = r.hits /\ c.shown = r.shown
      /\ c.verdict = r.verdict
  BY <1>2
<1>4. OpOK(c)'
  BY <1>r, <1>2, <1>3 DEF OpOK
<1>5. doing' = [doing EXCEPT ![p] = c]
  BY <1>d, <1>1, Zenon
<1> QED
  BY <1>3, <1>4, <1>5, OthersOK DEF r

(* An operation ends in the middle: of what it wrote nothing is undone. *)
LEMMA AbortKeeps ==
  ASSUME EpisodesInv, NEW p \in Proc, ~EP!Now(p, "idle"), EP!Abort(p),
         UNCHANGED <<world, table, vectors, acked, latest, clock>>
  PROVE  EpisodesInv'
<1>0. /\ DOMAIN doing = Proc /\ clock \in Nat /\ failures.n \in Nat
      /\ TableInv /\ WorkInv /\ KeptInv /\ PointInv
      /\ SteadyInv /\ SerialInv /\ InStepInv
  BY DEF EpisodesInv, TableInv
<1>d. /\ doing' = [doing EXCEPT ![p] = EP!Free]
      /\ failures' = [n |-> failures.n + 1,
                      bare |-> failures.bare
                                 \/ doing[p].pc \in {"embed", "unlink"}]
  BY DEF EP!Abort, EP!Fails, EP!Goto
<1>1. /\ DOMAIN doing' = Proc
      /\ doing'[p].pc = "idle" /\ doing'[p].id = NoRow
      /\ \A q \in Proc : q = p \/ doing'[q] = doing[q]
      /\ \A q \in Proc : OpOK(doing[q])'
  BY <1>0, <1>d, Freed
<1>2. /\ EP!Live' = EP!Live
      /\ \A x : /\ EP!RowsOf(x)' = EP!RowsOf(x)
                /\ EP!Hashed(x)' = EP!Hashed(x)
  BY SameTable
<1>f. /\ failures'.n \in Nat /\ failures'.n # 0
      /\ ~failures'.bare => /\ ~failures.bare
                            /\ doing[p].pc \notin {"embed", "unlink"}
  <2>1. PICK b : b = (failures.bare \/ doing[p].pc \in {"embed", "unlink"})
    OBVIOUS
  <2>2. failures' = [n |-> failures.n + 1, bare |-> b]
    BY <1>d, <2>1, Zenon
  <2>3. failures'.n = failures.n + 1 /\ failures'.bare = b
    BY <2>2
  <2>4. ~failures'.bare => /\ ~failures.bare
                           /\ doing[p].pc \notin {"embed", "unlink"}
    BY <2>1, <2>3, Zenon
  <2> QED
    BY <1>0, <2>3, <2>4
<1>3. TableInv'
  BY <1>0, <1>1, <1>2, <1>f DEF TableInv, RowOK
<1>4. WorkInv'
  <2>n. \A q \in Proc : EP!Now(q, "insert") => doing[q].id # NoRow
    <3>1. NoRow \notin EpisodeId
      BY MemoryAssumption DEF EP!EpisodesAssumption
    <3> QED
      BY <1>0, <3>1 DEF TableInv, OpOK, EP!Now
  <2>1. world.serial => \A q, r \in Proc :
          ~EP!Now(q, "idle")' /\ ~EP!Now(r, "idle")' => q = r
    BY <1>0, <1>1 DEF WorkInv, EP!Now
  <2>3. \A q \in Proc :
          /\ doing'[q].pc \in {"groups", "first", "compact", "prune"} =>
               q \in world.dedupes
          /\ EP!Now(q, "unlink")' => world.serial /\ acked = {}
    BY <1>0, <1>1 DEF WorkInv, EP!Now
  <2>4. \A q \in Proc : EP!Now(q, "insert")' =>
          /\ table[doing'[q].id] = NoRow /\ doing'[q].id \notin vectors
          /\ \A r \in Proc : r = q \/ doing'[r].id # doing'[q].id
    BY <1>0, <1>1, <2>n DEF WorkInv, EP!Now
  <2> QED
    BY <2>1, <2>3, <2>4 DEF WorkInv
<1>5. KeptInv'
  <2>1. \A x : Known(x)' => Known(x)
    BY <1>1 DEF Known
  <2> QED
    BY <1>0, <1>1, <1>2, <2>1 DEF KeptInv, EP!OneDedupe, EP!Now
<1>6. PointInv'
  <2> SUFFICES ASSUME EP!OneDedupe, ~failures.bare,
                      doing[p].pc \notin {"embed", "unlink"}
               PROVE  PointInv'
    BY <1>f DEF PointInv, EP!OneDedupe
  <2>1. \A i : Pointed(i) => Pointed(i)'
    BY <1>1 DEF Pointed, EP!Now
  <2>2. (\A q \in Proc : ~EP!Now(q, "unlink"))' =>
          \A q \in Proc : ~EP!Now(q, "unlink")
    BY <1>1 DEF EP!Now
  <2> QED
    BY <1>0, <1>1, <1>2, <2>1, <2>2 DEF PointInv, EP!Now
<1>7. SteadyInv'
  BY <1>0, <1>1, <1>2 DEF SteadyInv
<1>8. SerialInv'
  BY <1>0, <1>1, <1>2 DEF SerialInv, EP!Now
<1>9. InStepInv'
  BY <1>f DEF InStepInv
<1> QED
  BY <1>3, <1>4, <1>5, <1>6, <1>7, <1>8, <1>9 DEF EpisodesInv

(* The row of a prompt nobody found is new, under an id nobody uses. *)
LEMMA InsertKeeps ==
  ASSUME EpisodesInv, NEW p \in Proc, EP!Insert(p)
  PROVE  EpisodesInv'
<1>0. /\ DOMAIN doing = Proc /\ clock \in Nat /\ DOMAIN table = EpisodeId
      /\ TableInv /\ WorkInv /\ KeptInv /\ PointInv
      /\ SteadyInv /\ SerialInv /\ InStepInv
  BY DEF EpisodesInv, TableInv
<1>p. PICK i, x, t, v :
        /\ i = doing[p].id /\ x = doing[p].prompt /\ t = doing[p].ts
        /\ v = doing[p].verdict
  OBVIOUS
<1> DEFINE row == [prompt |-> x, ts |-> t, hashed |-> TRUE, verdict |-> v]
<1>d. /\ EP!Now(p, "insert") /\ doing[p].pc = "insert"
      /\ table' = [table EXCEPT ![i] = row]
      /\ latest' = [latest EXCEPT ![x] = t]
      /\ doing' = [doing EXCEPT ![p] = [doing[p] EXCEPT !.pc = "embed"]]
      /\ UNCHANGED <<world, vectors, acked, clock, failures>>
  BY <1>p DEF EP!Insert, EP!Goto, EP!Now
<1>t. /\ i \in EpisodeId /\ x \in Prompt /\ v \in EP!Verdict
      /\ t \in Nat /\ 0 < t /\ t <= clock
  BY <1>0, <1>p, <1>d DEF TableInv, OpOK
<1>n. /\ table[i] = NoRow /\ i \notin vectors /\ i \notin EP!Live
      /\ \A q \in Proc : q = p \/ doing[q].id # i
  BY <1>0, <1>p, <1>d DEF WorkInv, EP!Live
<1>m. row # NoRow /\ row \in EP!Row /\ row.prompt = x /\ row.ts = t
  <2>1. row \in EP!Row /\ NoRow \notin EP!Row
    BY <1>t, MemoryAssumption DEF EP!EpisodesAssumption, EP!Row
  <2> QED
    BY <2>1
<1>1. /\ DOMAIN doing' = Proc
      /\ doing'[p].pc = "embed" /\ doing'[p].id = i
      /\ doing'[p].prompt = x /\ doing'[p].ts = t
      /\ \A q \in Proc : q = p \/ doing'[q] = doing[q]
      /\ \A q \in Proc : OpOK(doing[q])'
  BY <1>0, <1>p, <1>d, Embeds
<1> HIDE DEF row
<1>2. /\ EP!Live' = EP!Live \cup {i}
      /\ table'[i] = row
      /\ \A j \in EpisodeId : j # i => table'[j] = table[j]
  BY <1>0, <1>d, <1>t, <1>m DEF EP!Live
<1>x. /\ EP!RowsOf(x)' = EP!RowsOf(x) \cup {i}
      /\ \A y : y # x => EP!RowsOf(y)' = EP!RowsOf(y)
  BY <1>2, <1>m, <1>n DEF EP!RowsOf, EP!Live
<1>l. /\ DOMAIN latest' = Prompt /\ latest'[x] = t
      /\ \A y \in Prompt : y = x \/ latest'[y] = latest[y]
  BY <1>0, <1>d, <1>t DEF TableInv
<1>3. TableInv'
  <2>1. \A j \in EP!Live' : RowOK(table[j])'
    BY <1>0, <1>d, <1>t, <1>m, <1>2 DEF TableInv, RowOK
  <2>2. DOMAIN table' = EpisodeId
    BY <1>0, <1>d
  <2> QED
    BY <1>0, <1>1, <1>d, <1>t, <1>l, <2>1, <2>2 DEF TableInv
<1>4. WorkInv'
  <2>1. world.serial => \A q, r \in Proc :
          ~EP!Now(q, "idle")' /\ ~EP!Now(r, "idle")' => q = r
    BY <1>0, <1>1, <1>d DEF WorkInv, EP!Now
  <2>3. \A q \in Proc :
          /\ doing'[q].pc \in {"groups", "first", "compact", "prune"} =>
               q \in world.dedupes
          /\ EP!Now(q, "unlink")' => world.serial /\ acked = {}
    BY <1>0, <1>1 DEF WorkInv, EP!Now
  <2>4. \A q \in Proc : EP!Now(q, "insert")' =>
          /\ table'[doing'[q].id] = NoRow /\ doing'[q].id \notin vectors
          /\ \A r \in Proc : r = q \/ doing'[r].id # doing'[q].id
    <3> SUFFICES ASSUME NEW q \in Proc, q # p, doing[q].pc = "insert"
                 PROVE  /\ table'[doing[q].id] = NoRow
                        /\ doing[q].id \notin vectors
                        /\ \A r \in Proc : r = q \/ doing[r].id # doing[q].id
      BY <1>1, <1>p DEF EP!Now
    <3>1. doing[q].id \in EpisodeId /\ doing[q].id # i
      BY <1>0, <1>n DEF TableInv, OpOK
    <3> QED
      BY <1>0, <1>2, <3>1 DEF WorkInv, EP!Now
  <2> QED
    BY <1>d, <2>1, <2>3, <2>4 DEF WorkInv
<1>5. KeptInv'
  <2>1. \A y \in Prompt : Known(y)' => Known(y) \/ y = x
    BY <1>1, <1>l, <1>d DEF Known
  <2>2. \A q \in Proc : EP!Now(q, "compact")' =>
          /\ EP!Now(q, "compact") /\ doing'[q] = doing[q]
    BY <1>1 DEF EP!Now
  <2>3. \A y : EP!RowsOf(y) \subseteq EP!RowsOf(y)'
    BY <1>x
  <2> QED
    BY <1>0, <1>x, <1>d, <2>1, <2>2, <2>3 DEF KeptInv, EP!OneDedupe
<1>6. PointInv'
  <2>1. \A j : Pointed(j) => Pointed(j)' /\ j # i
    BY <1>1, <1>n, <1>d DEF Pointed, EP!Now
  <2>2. Pointed(i)'
    BY <1>1 DEF Pointed, EP!Now
  <2>3. (\A q \in Proc : ~EP!Now(q, "unlink"))' =>
          \A q \in Proc : ~EP!Now(q, "unlink")
    BY <1>1, <1>d DEF EP!Now
  <2>4. \A q \in Proc : EP!Now(q, "prune")' =>
          EP!Now(q, "prune") /\ doing'[q] = doing[q]
    BY <1>1 DEF EP!Now
  <2> QED
    BY <1>0, <1>d, <1>2, <2>1, <2>2, <2>3, <2>4 DEF PointInv, EP!OneDedupe
<1>7. SteadyInv'
  <2>1. \A y : EP!RowsOf(y) \subseteq EP!RowsOf(y)'
    BY <1>x
  <2>2. ASSUME world.dedupes = {} \/ world.serial,
               NEW q \in Proc, doing'[q].pc \in {"refresh", "embed"}
        PROVE  (doing[q].id \in EP!RowsOf(doing[q].prompt))'
    <3>1. CASE q = p
      BY <1>1, <1>2, <1>m, <3>1 DEF EP!RowsOf
    <3>2. CASE q # p
      <4>1. doing'[q] = doing[q]
        BY <1>1, <3>2
      <4>2. /\ doing[q].id \in EP!Live
            /\ table[doing[q].id].prompt = doing[q].prompt
        BY <1>0, <2>2, <4>1 DEF SteadyInv, EP!RowsOf
      <4>3. doing[q].id # i /\ doing[q].id \in EpisodeId
        BY <1>n, <4>2 DEF EP!Live
      <4> QED
        BY <1>2, <4>1, <4>2, <4>3 DEF EP!RowsOf
    <3> QED
      BY <3>1, <3>2
  <2>3. ASSUME world.dedupes = {}, NEW y \in acked
        PROVE  EP!RowsOf(y)' \cap vectors # {}
    BY <1>0, <2>1, <2>3 DEF SteadyInv
  <2> QED
    BY <1>d, <2>2, <2>3 DEF SteadyInv
<1>8. SerialInv'
  <2> SUFFICES ASSUME world.serial
               PROVE  SerialInv'
    BY <1>d DEF SerialInv
  <2>1. t = clock
    BY <1>0, <1>p, <1>d DEF SerialInv
  <2>2. \A q \in Proc : q = p \/ EP!Now(q, "idle")
    BY <1>0, <1>d DEF WorkInv, EP!Now
  <2>3. \A q \in Proc : doing'[q].pc \in {"idle", "embed"}
    BY <1>1, <2>2 DEF EP!Now
  <2>4. \A j \in EP!RowsOf(x)' : table'[j].ts <= latest'[x]
    <3>1. \A j \in EP!RowsOf(x) : table[j].ts <= clock /\ j \in EpisodeId
      BY <1>0 DEF TableInv, RowOK, EP!RowsOf, EP!Live
    <3> QED
      BY <1>x, <1>l, <1>2, <1>m, <1>n, <1>t, <2>1, <3>1
  <2>5. i \in EP!RowsOf(x)' /\ table'[i].ts = latest'[x]
    BY <1>x, <1>l, <1>2, <1>m
  <2>6. ASSUME NEW y \in Prompt, y # x, EP!RowsOf(y) # {}
        PROVE  /\ \E j \in EP!RowsOf(y) : table'[j].ts = latest'[y]
               /\ \A j \in EP!RowsOf(y) : table'[j].ts <= latest'[y]
    <3>1. \A j \in EP!RowsOf(y) : table'[j] = table[j]
      BY <1>2, <1>n DEF EP!RowsOf, EP!Live
    <3>2. latest'[y] = latest[y]
      BY <1>l, <2>6
    <3> QED
      BY <1>0, <2>6, <3>1, <3>2 DEF SerialInv
  <2> QED
    BY <1>x, <2>3, <2>4, <2>5, <2>6 DEF SerialInv, EP!Now
<1>9. InStepInv'
  <2> SUFFICES ASSUME world.serial, failures.n = 0
               PROVE  InStepInv'
    BY <1>d DEF InStepInv
  <2>2. \A q \in Proc : q = p \/ EP!Now(q, "idle")
    BY <1>0, <1>d DEF WorkInv, EP!Now
  <2>3. \A q \in Proc : doing'[q].pc = "idle" \/ q = p
    BY <1>1, <2>2 DEF EP!Now
  <2>4. vectors = EP!Live
    BY <1>0, <1>d DEF InStepInv
  <2> QED
    BY <1>1, <1>2, <1>d, <2>3, <2>4 DEF InStepInv, EP!Now, EP!Idle
<1> QED
  BY <1>3, <1>4, <1>5, <1>6, <1>7, <1>8, <1>9 DEF EpisodesInv

(* A row that was found gets a newer time, if it is still there. *)
LEMMA RefreshKeeps ==
  ASSUME EpisodesInv, NEW p \in Proc, EP!Refresh(p)
  PROVE  EpisodesInv'
<1>0. /\ DOMAIN doing = Proc /\ clock \in Nat /\ DOMAIN table = EpisodeId
      /\ TableInv /\ WorkInv /\ KeptInv /\ PointInv
      /\ SteadyInv /\ SerialInv /\ InStepInv
  BY DEF EpisodesInv, TableInv
<1>p. PICK i, x, t, v :
        /\ i = doing[p].id /\ x = doing[p].prompt /\ t = doing[p].ts
        /\ v = doing[p].verdict
  OBVIOUS
<1>d. /\ EP!Now(p, "refresh") /\ doing[p].pc = "refresh"
      /\ table' = [j \in EpisodeId |->
                     IF j = i /\ table[j] # NoRow
                     THEN [table[j] EXCEPT !.ts = t,
                             !.verdict = IF table[j].verdict = "none" THEN v
                                         ELSE table[j].verdict]
                     ELSE table[j]]
      /\ latest' = [latest EXCEPT ![x] = t]
      /\ doing' = [doing EXCEPT ![p] = [doing[p] EXCEPT !.pc = "embed"]]
      /\ UNCHANGED <<world, vectors, acked, clock, failures>>
  BY <1>p DEF EP!Refresh, EP!Goto, EP!Now
<1>t. /\ i \in EpisodeId /\ x \in Prompt /\ v \in EP!Verdict
      /\ t \in Nat /\ 0 < t /\ t <= clock
  BY <1>0, <1>p, <1>d DEF TableInv, OpOK
<1>1. /\ DOMAIN doing' = Proc
      /\ doing'[p].pc = "embed" /\ doing'[p].id = i
      /\ doing'[p].prompt = x /\ doing'[p].ts = t
      /\ \A q \in Proc : q = p \/ doing'[q] = doing[q]
      /\ \A q \in Proc : OpOK(doing[q])'
  BY <1>0, <1>p, <1>d, Embeds
<1>2. \A j \in EpisodeId :
        /\ j # i \/ table[j] = NoRow => table'[j] = table[j]
        /\ j = i /\ table[j] # NoRow =>
             /\ table'[j] \in EP!Row /\ table'[j] # NoRow
             /\ table'[j].prompt = table[j].prompt /\ table'[j].ts = t
             /\ table'[j].hashed = table[j].hashed
  <2> SUFFICES ASSUME i \in EP!Live
               PROVE  /\ table'[i] \in EP!Row /\ table'[i] # NoRow
                      /\ table'[i].prompt = table[i].prompt
                      /\ table'[i].ts = t
                      /\ table'[i].hashed = table[i].hashed
    BY <1>d DEF EP!Live
  <2>1. /\ table[i] \in EP!Row /\ NoRow \notin EP!Row
        /\ table'[i] = [table[i] EXCEPT !.ts = t,
                          !.verdict = IF table[i].verdict = "none" THEN v
                                      ELSE table[i].verdict]
    BY <1>0, <1>d, MemoryAssumption
    DEF TableInv, RowOK, EP!Live, EP!EpisodesAssumption
  <2>2. PICK r : r = table[i]
    OBVIOUS
  <2>3. /\ r = [prompt |-> r.prompt, ts |-> r.ts, hashed |-> r.hashed,
                verdict |-> r.verdict]
        /\ r.prompt \in Prompt /\ r.hashed \in BOOLEAN
        /\ r.verdict \in EP!Verdict
    BY <2>1, <2>2 DEF EP!Row
  <2>v. PICK w \in EP!Verdict :
          w = IF r.verdict = "none" THEN v ELSE r.verdict
    BY <1>t, <2>3
  <2>4. [r EXCEPT !.ts = t, !.verdict = w] =
          [prompt |-> r.prompt, ts |-> t, hashed |-> r.hashed, verdict |-> w]
    <3>1. PICK b, m, a, c : r = [prompt |-> a, ts |-> m, hashed |-> b,
                                 verdict |-> c]
      BY <2>3, Zenon
    <3>2. PICK q : q = [r EXCEPT !.ts = t]
      OBVIOUS
    <3>3. q = [prompt |-> a, ts |-> t, hashed |-> b, verdict |-> c]
      BY <3>1, <3>2
    <3>4. [q EXCEPT !.verdict = w] =
            [prompt |-> a, ts |-> t, hashed |-> b, verdict |-> w]
      BY <3>3
    <3>5. [r EXCEPT !.ts = t, !.verdict = w] = [q EXCEPT !.verdict = w]
      BY <3>2
    <3>6. r.prompt = a /\ r.hashed = b
      BY <3>1
    <3> QED
      BY <3>4, <3>5, <3>6
  <2>e. table'[i] = [r EXCEPT !.ts = t, !.verdict = w]
    BY <2>1, <2>2, <2>v, Zenon
  <2>5. table'[i] =
          [prompt |-> r.prompt, ts |-> t, hashed |-> r.hashed, verdict |-> w]
    BY <2>e, <2>4
  <2>6. table'[i] \in EP!Row
    BY <1>t, <2>3, <2>5 DEF EP!Row
  <2> QED
    BY <2>1, <2>2, <2>5, <2>6
<1>3. /\ EP!Live' = EP!Live
      /\ \A y : /\ EP!RowsOf(y)' = EP!RowsOf(y)
                /\ EP!Hashed(y)' = EP!Hashed(y)
  <2>1. EP!Live' = EP!Live
    BY <1>2 DEF EP!Live
  <2>2. \A y : EP!RowsOf(y)' = EP!RowsOf(y)
    BY <1>2, <2>1 DEF EP!RowsOf, EP!Live
  <2> QED
    BY <1>2, <2>1, <2>2 DEF EP!Hashed, EP!RowsOf, EP!Live
<1>l. /\ DOMAIN latest' = Prompt /\ latest'[x] = t
      /\ \A y \in Prompt : y = x \/ latest'[y] = latest[y]
  BY <1>0, <1>d, <1>t DEF TableInv
<1>4. TableInv'
  <2>1. \A j \in EP!Live' : RowOK(table[j])'
    BY <1>0, <1>d, <1>t, <1>2, <1>3 DEF TableInv, RowOK, EP!Live
  <2>2. DOMAIN table' = EpisodeId
    BY <1>d
  <2> QED
    BY <1>0, <1>1, <1>d, <1>t, <1>l, <2>1, <2>2 DEF TableInv
<1>5. WorkInv'
  <2>1. world.serial => \A q, r \in Proc :
          ~EP!Now(q, "idle")' /\ ~EP!Now(r, "idle")' => q = r
    BY <1>0, <1>1, <1>d DEF WorkInv, EP!Now
  <2>3. \A q \in Proc :
          /\ doing'[q].pc \in {"groups", "first", "compact", "prune"} =>
               q \in world.dedupes
          /\ EP!Now(q, "unlink")' => world.serial /\ acked = {}
    BY <1>0, <1>1 DEF WorkInv, EP!Now
  <2>4. \A q \in Proc : EP!Now(q, "insert")' =>
          /\ table'[doing'[q].id] = NoRow /\ doing'[q].id \notin vectors
          /\ \A r \in Proc : r = q \/ doing'[r].id # doing'[q].id
    <3> SUFFICES ASSUME NEW q \in Proc, q # p, doing[q].pc = "insert"
                 PROVE  /\ table'[doing[q].id] = NoRow
                        /\ doing[q].id \notin vectors
                        /\ \A r \in Proc : r = q \/ doing[r].id # doing[q].id
      BY <1>1, <1>p DEF EP!Now
    <3>1. doing[q].id \in EpisodeId
      BY <1>0 DEF TableInv, OpOK
    <3> QED
      BY <1>0, <1>2, <3>1 DEF WorkInv, EP!Now
  <2> QED
    BY <1>d, <2>1, <2>3, <2>4 DEF WorkInv
<1>6. KeptInv'
  <2>k. Known(x)
    BY <1>d, <1>p DEF Known
  <2>1. ASSUME NEW y \in Prompt, Known(y)', y # x
        PROVE  Known(y)
    BY <1>1, <1>l, <1>d, <2>1 DEF Known
  <2>3. \A y \in Prompt : Known(y)' => Known(y)
    BY <2>k, <2>1
  <2>2. \A q \in Proc : EP!Now(q, "compact")' =>
          /\ EP!Now(q, "compact") /\ doing'[q] = doing[q]
    BY <1>1 DEF EP!Now
  <2> QED
    BY <1>0, <1>3, <1>d, <2>2, <2>3 DEF KeptInv, EP!OneDedupe
<1>7. PointInv'
  <2>1. \A j : Pointed(j) => Pointed(j)'
    BY <1>1, <1>d DEF Pointed, EP!Now
  <2>3. (\A q \in Proc : ~EP!Now(q, "unlink"))' =>
          \A q \in Proc : ~EP!Now(q, "unlink")
    BY <1>1, <1>d DEF EP!Now
  <2>4. \A q \in Proc : EP!Now(q, "prune")' =>
          EP!Now(q, "prune") /\ doing'[q] = doing[q]
    BY <1>1 DEF EP!Now
  <2> QED
    BY <1>0, <1>d, <1>3, <2>1, <2>3, <2>4 DEF PointInv, EP!OneDedupe
<1>8. SteadyInv'
  <2>1. ASSUME world.dedupes = {} \/ world.serial,
               NEW q \in Proc, doing'[q].pc \in {"refresh", "embed"}
        PROVE  (doing[q].id \in EP!RowsOf(doing[q].prompt))'
    <3>1. /\ doing[q].pc \in {"refresh", "embed"}
          /\ doing'[q].id = doing[q].id /\ doing'[q].prompt = doing[q].prompt
      BY <1>1, <1>p, <1>d, <2>1
    <3>2. /\ doing[q].id \in EP!Live
          /\ table[doing[q].id].prompt = doing[q].prompt
      BY <1>0, <2>1, <3>1 DEF SteadyInv, EP!RowsOf
    <3> QED
      BY <1>2, <1>3, <3>1, <3>2 DEF EP!RowsOf, EP!Live
  <2> QED
    BY <1>0, <1>d, <1>3, <2>1 DEF SteadyInv
<1>9. SerialInv'
  <2> SUFFICES ASSUME world.serial
               PROVE  SerialInv'
    BY <1>d DEF SerialInv
  <2>1. t = clock /\ i \in EP!RowsOf(x)
    BY <1>0, <1>p, <1>d DEF SerialInv, SteadyInv
  <2>2. \A q \in Proc : q = p \/ EP!Now(q, "idle")
    BY <1>0, <1>d DEF WorkInv, EP!Now
  <2>3. \A q \in Proc : doing'[q].pc \in {"idle", "embed"}
    BY <1>1, <2>2 DEF EP!Now
  <2>5. table'[i].ts = latest'[x]
    BY <1>l, <1>2, <2>1 DEF EP!RowsOf, EP!Live
  <2>4. \A j \in EP!RowsOf(x) : table'[j].ts <= latest'[x]
    <3>1. \A j \in EP!RowsOf(x) : table[j].ts <= clock /\ j \in EpisodeId
      BY <1>0 DEF TableInv, RowOK, EP!RowsOf, EP!Live
    <3> QED
      BY <1>l, <1>2, <1>t, <2>1, <2>5, <3>1
  <2>6. ASSUME NEW y \in Prompt, y # x, EP!RowsOf(y) # {}
        PROVE  /\ \E j \in EP!RowsOf(y) : table'[j].ts = latest'[y]
               /\ \A j \in EP!RowsOf(y) : table'[j].ts <= latest'[y]
    <3>1. \A j \in EP!RowsOf(y) : table'[j] = table[j]
      BY <1>2, <2>1, <2>6 DEF EP!RowsOf, EP!Live
    <3>2. latest'[y] = latest[y]
      BY <1>l, <2>6
    <3> QED
      BY <1>0, <2>6, <3>1, <3>2 DEF SerialInv
  <2> QED
    BY <1>3, <2>1, <2>3, <2>4, <2>5, <2>6 DEF SerialInv, EP!Now
<1>10. InStepInv'
  <2> SUFFICES ASSUME world.serial, failures.n = 0
               PROVE  InStepInv'
    BY <1>d DEF InStepInv
  <2>1. i \in EP!Live
    BY <1>0, <1>p, <1>d DEF SteadyInv, EP!RowsOf
  <2>2. \A q \in Proc : q = p \/ EP!Now(q, "idle")
    BY <1>0, <1>d DEF WorkInv, EP!Now
  <2>3. \A q \in Proc : doing'[q].pc = "idle" \/ q = p
    BY <1>1, <2>2 DEF EP!Now
  <2>4. vectors = EP!Live
    BY <1>0, <1>d DEF InStepInv
  <2> QED
    BY <1>1, <1>3, <1>d, <2>1, <2>3, <2>4 DEF InStepInv, EP!Now, EP!Idle
<1> QED
  BY <1>4, <1>5, <1>6, <1>7, <1>8, <1>9, <1>10 DEF EpisodesInv

(* The point is in the collection, the id is returned. *)
LEMMA UpsertKeeps ==
  ASSUME EpisodesInv, NEW p \in Proc, EP!Upsert(p)
  PROVE  EpisodesInv'
<1>0. /\ DOMAIN doing = Proc /\ clock \in Nat
      /\ TableInv /\ WorkInv /\ KeptInv /\ PointInv
      /\ SteadyInv /\ SerialInv /\ InStepInv
  BY DEF EpisodesInv, TableInv
<1>a. CASE EP!Abort(p) /\ UNCHANGED <<vectors, acked>>
  BY <1>a, AbortKeeps DEF EP!Upsert, EP!Now
<1>b. CASE /\ vectors' = vectors \cup {doing[p].id}
           /\ acked' = acked \cup {doing[p].prompt}
           /\ doing' = [doing EXCEPT ![p] = EP!Free]
           /\ UNCHANGED failures
  <2>p. PICK i, x : i = doing[p].id /\ x = doing[p].prompt
    OBVIOUS
  <2>d. /\ doing[p].pc = "embed"
        /\ vectors' = vectors \cup {i} /\ acked' = acked \cup {x}
        /\ UNCHANGED <<world, table, latest, clock, failures>>
    BY <1>b, <2>p DEF EP!Upsert, EP!Now
  <2>1. /\ DOMAIN doing' = Proc
        /\ doing'[p].pc = "idle" /\ doing'[p].id = NoRow
        /\ \A q \in Proc : q = p \/ doing'[q] = doing[q]
        /\ \A q \in Proc : OpOK(doing[q])'
    BY <1>0, <1>b, <2>d, Freed
  <2>2. /\ EP!Live' = EP!Live
        /\ \A y : /\ EP!RowsOf(y)' = EP!RowsOf(y)
                  /\ EP!Hashed(y)' = EP!Hashed(y)
    BY <2>d, SameTable
  <2>t. x \in Prompt
    BY <1>0, <2>p, <2>d DEF TableInv, OpOK
  <2>3. TableInv'
    BY <1>0, <2>1, <2>2, <2>d, <2>t DEF TableInv, RowOK
  <2>4. WorkInv'
    <3>n. \A q \in Proc : EP!Now(q, "insert") => doing[q].id # NoRow
      <4>1. NoRow \notin EpisodeId
        BY MemoryAssumption DEF EP!EpisodesAssumption
      <4> QED
        BY <1>0, <4>1 DEF TableInv, OpOK, EP!Now
    <3>1. world.serial => \A q, r \in Proc :
            ~EP!Now(q, "idle")' /\ ~EP!Now(r, "idle")' => q = r
      BY <1>0, <2>1 DEF WorkInv, EP!Now
    <3>2. \A q \in Proc :
            doing'[q].pc \in {"groups", "first", "compact", "prune"} =>
              q \in world.dedupes
      BY <1>0, <2>1 DEF WorkInv, EP!Now
    <3>3. \A q \in Proc : ~EP!Now(q, "unlink")'
      BY <1>0, <2>1, <2>d DEF WorkInv, EP!Now
    <3>4. \A q \in Proc : EP!Now(q, "insert")' =>
            /\ table[doing'[q].id] = NoRow /\ doing'[q].id \notin vectors'
            /\ \A r \in Proc : r = q \/ doing'[r].id # doing'[q].id
      BY <1>0, <2>1, <2>d, <2>p, <3>n DEF WorkInv, EP!Now
    <3> QED
      BY <2>d, <3>1, <3>2, <3>3, <3>4 DEF WorkInv
  <2>5. KeptInv'
    <3>1. \A y \in Prompt : Known(y)' => Known(y)
      BY <2>1, <2>d, <2>p DEF Known
    <3>2. \A q \in Proc : EP!Now(q, "compact")' =>
            /\ EP!Now(q, "compact") /\ doing'[q] = doing[q]
      BY <2>1 DEF EP!Now
    <3> QED
      BY <1>0, <2>2, <2>d, <3>1, <3>2 DEF KeptInv, EP!OneDedupe
  <2>6. PointInv'
    <3>1. \A j : Pointed(j) => Pointed(j)'
      BY <2>1, <2>d, <2>p DEF Pointed, EP!Now
    <3>3. (\A q \in Proc : ~EP!Now(q, "unlink"))' =>
            \A q \in Proc : ~EP!Now(q, "unlink")
      BY <2>1, <2>d DEF EP!Now
    <3>4. \A q \in Proc : EP!Now(q, "prune")' =>
            EP!Now(q, "prune") /\ doing'[q] = doing[q]
      BY <2>1 DEF EP!Now
    <3> QED
      BY <1>0, <2>d, <2>2, <3>1, <3>3, <3>4 DEF PointInv, EP!OneDedupe
  <2>7. SteadyInv'
    <3>1. ASSUME world.dedupes = {}
          PROVE  i \in EP!RowsOf(x)
      BY <1>0, <2>p, <2>d, <3>1 DEF SteadyInv
    <3> QED
      BY <1>0, <2>1, <2>2, <2>d, <3>1 DEF SteadyInv
  <2>8. SerialInv'
    BY <1>0, <2>1, <2>2, <2>d DEF SerialInv, EP!Now
  <2>9. InStepInv'
    <3> SUFFICES ASSUME world.serial, failures.n = 0
                 PROVE  InStepInv'
      BY <2>d DEF InStepInv
    <3>2. \A q \in Proc : q = p \/ EP!Now(q, "idle")
      BY <1>0, <2>d DEF WorkInv, EP!Now
    <3>3. \A q \in Proc : doing'[q].pc = "idle"
      BY <2>1, <3>2 DEF EP!Now
    <3>4. EP!Live = vectors'
      BY <1>0, <2>p, <2>d DEF InStepInv, EP!Now
    <3> QED
      BY <2>2, <3>3, <3>4 DEF InStepInv, EP!Now, EP!Idle
  <2> QED
    BY <2>3, <2>4, <2>5, <2>6, <2>7, <2>8, <2>9 DEF EpisodesInv
<1> QED
  BY <1>a, <1>b DEF EP!Upsert, EP!Goto

(* Hashes of old rows are filled in. *)
LEMMA DedupeKeeps ==
  ASSUME EpisodesInv, NEW p \in Proc, EP!Dedupe(p)
  PROVE  EpisodesInv'
<1>0. /\ DOMAIN doing = Proc /\ clock \in Nat /\ DOMAIN table = EpisodeId
      /\ TableInv /\ WorkInv /\ KeptInv /\ PointInv
      /\ SteadyInv /\ SerialInv /\ InStepInv
  BY DEF EpisodesInv, TableInv
<1>d. /\ EP!Now(p, "idle") /\ doing[p].pc = "idle" /\ p \in world.dedupes
      /\ table' = [j \in EpisodeId |->
                     IF table[j] = NoRow THEN NoRow
                     ELSE [table[j] EXCEPT !.hashed = TRUE]]
      /\ doing' = [doing EXCEPT ![p] = [EP!Free EXCEPT !.pc = "groups"]]
      /\ UNCHANGED <<world, vectors, acked, latest, clock, failures>>
      /\ world.serial => EP!Idle
  BY DEF EP!Dedupe, EP!Begin, EP!Goto, EP!Now
<1>1. /\ DOMAIN doing' = Proc
      /\ doing'[p].pc = "groups" /\ doing'[p].id = NoRow
      /\ \A q \in Proc : q = p \/ doing'[q] = doing[q]
      /\ \A q \in Proc : OpOK(doing[q])'
  <2>1. PICK c : c = [EP!Free EXCEPT !.pc = "groups"]
    OBVIOUS
  <2>2. c = [pc |-> "groups", prompt |-> NoRow, ts |-> 0, id |-> NoRow,
             groups |-> {}, seen |-> {}, del |-> {}, hits |-> <<>>,
             shown |-> <<>>,
             verdict |-> "none", all |-> FALSE]
    BY <2>1 DEF EP!Free
  <2>3. OpOK(c)' /\ c.pc = "groups" /\ c.id = NoRow
    BY <2>2 DEF OpOK
  <2> QED
    BY <1>0, <1>d, <2>1, <2>3, OthersOK
<1>2. \A j \in EpisodeId :
        /\ table[j] = NoRow => table'[j] = NoRow
        /\ table[j] # NoRow =>
             /\ table'[j] \in EP!Row /\ table'[j] # NoRow
             /\ table'[j].prompt = table[j].prompt
             /\ table'[j].ts = table[j].ts
  <2> SUFFICES ASSUME NEW i \in EP!Live
               PROVE  /\ table'[i] \in EP!Row /\ table'[i] # NoRow
                      /\ table'[i].prompt = table[i].prompt
                      /\ table'[i].ts = table[i].ts
    BY <1>d DEF EP!Live
  <2>1. /\ table[i] \in EP!Row /\ NoRow \notin EP!Row
        /\ table'[i] = [table[i] EXCEPT !.hashed = TRUE]
    BY <1>0, <1>d, MemoryAssumption
    DEF TableInv, RowOK, EP!Live, EP!EpisodesAssumption
  <2>2. PICK r : r = table[i]
    OBVIOUS
  <2>s. r = [prompt |-> r.prompt, ts |-> r.ts, hashed |-> r.hashed,
             verdict |-> r.verdict]
    BY <2>1, <2>2 DEF EP!Row
  <2>3. r.prompt \in Prompt /\ r.ts \in Nat /\ r.verdict \in EP!Verdict
    BY <2>1, <2>2 DEF EP!Row
  <2>b. PICK b \in BOOLEAN : b = TRUE
    OBVIOUS
  <2>c. table'[i] = [r EXCEPT !.hashed = b]
    BY <2>1, <2>2, <2>b, Zenon
  <2>4. [r EXCEPT !.hashed = b] =
          [prompt |-> r.prompt, ts |-> r.ts, hashed |-> b,
           verdict |-> r.verdict]
    BY <2>s
  <2>5. table'[i] = [prompt |-> r.prompt, ts |-> r.ts, hashed |-> b,
                     verdict |-> r.verdict]
    BY <2>c, <2>4
  <2>6. table'[i] \in EP!Row
    BY <2>3, <2>5, <2>b DEF EP!Row
  <2> QED
    BY <2>1, <2>2, <2>5, <2>6
<1>3. /\ EP!Live' = EP!Live
      /\ \A y : EP!RowsOf(y)' = EP!RowsOf(y)
  <2>1. EP!Live' = EP!Live
    BY <1>2 DEF EP!Live
  <2> QED
    BY <1>2, <2>1 DEF EP!RowsOf, EP!Live
<1>4. TableInv'
  <2>1. \A j \in EP!Live' : RowOK(table[j])'
    BY <1>0, <1>d, <1>2, <1>3 DEF TableInv, RowOK, EP!Live
  <2>2. DOMAIN table' = EpisodeId
    BY <1>d
  <2> QED
    BY <1>0, <1>1, <1>d, <2>1, <2>2 DEF TableInv
<1>5. WorkInv'
  <2>n. \A q \in Proc : EP!Now(q, "insert") =>
          doing[q].id # NoRow /\ doing[q].id \in EpisodeId
    <3>1. NoRow \notin EpisodeId
      BY MemoryAssumption DEF EP!EpisodesAssumption
    <3> QED
      BY <1>0, <3>1 DEF TableInv, OpOK, EP!Now
  <2>1. world.serial => \A q, r \in Proc :
          ~EP!Now(q, "idle")' /\ ~EP!Now(r, "idle")' => q = r
    BY <1>1, <1>d DEF EP!Now, EP!Idle
  <2>3. \A q \in Proc :
          /\ doing'[q].pc \in {"groups", "first", "compact", "prune"} =>
               q \in world.dedupes
          /\ EP!Now(q, "unlink")' => world.serial /\ acked = {}
    BY <1>0, <1>1, <1>d DEF WorkInv, EP!Now
  <2>4. \A q \in Proc : EP!Now(q, "insert")' =>
          /\ table'[doing'[q].id] = NoRow /\ doing'[q].id \notin vectors
          /\ \A r \in Proc : r = q \/ doing'[r].id # doing'[q].id
    BY <1>0, <1>1, <1>2, <2>n DEF WorkInv, EP!Now
  <2> QED
    BY <1>d, <2>1, <2>3, <2>4 DEF WorkInv
<1>6. KeptInv'
  <2>1. \A y \in Prompt : Known(y)' => Known(y)
    BY <1>1, <1>d DEF Known
  <2>2. \A q \in Proc : EP!Now(q, "compact")' =>
          /\ EP!Now(q, "compact") /\ doing'[q] = doing[q]
    BY <1>1 DEF EP!Now
  <2> QED
    BY <1>0, <1>3, <1>d, <2>1, <2>2 DEF KeptInv, EP!OneDedupe
<1>7. PointInv'
  <2>1. \A j : Pointed(j) => Pointed(j)'
    BY <1>1, <1>d DEF Pointed, EP!Now
  <2>3. (\A q \in Proc : ~EP!Now(q, "unlink"))' =>
          \A q \in Proc : ~EP!Now(q, "unlink")
    BY <1>1, <1>d DEF EP!Now
  <2>4. \A q \in Proc : EP!Now(q, "prune")' =>
          EP!Now(q, "prune") /\ doing'[q] = doing[q]
    BY <1>1 DEF EP!Now
  <2> QED
    BY <1>0, <1>d, <1>3, <2>1, <2>3, <2>4 DEF PointInv, EP!OneDedupe
<1>8. SteadyInv'
  <2>1. ASSUME NEW q \in Proc, doing'[q].pc \in {"refresh", "embed"}
        PROVE  ~world.serial /\ world.dedupes # {}
    BY <1>1, <1>d, <2>1 DEF EP!Idle, EP!Now
  <2> QED
    BY <1>d, <2>1 DEF SteadyInv
<1>9. SerialInv'
  <2> SUFFICES ASSUME world.serial
               PROVE  SerialInv'
    BY <1>d DEF SerialInv
  <2>3. \A q \in Proc : doing'[q].pc \in {"idle", "groups"}
    BY <1>1, <1>d DEF EP!Now, EP!Idle
  <2>4. \A y : \A j \in EP!RowsOf(y) : table'[j].ts = table[j].ts
    BY <1>2 DEF EP!RowsOf, EP!Live
  <2>5. \A y \in Prompt : EP!RowsOf(y) # {} =>
          /\ \E j \in EP!RowsOf(y) : table'[j].ts = latest[y]
          /\ \A j \in EP!RowsOf(y) : table'[j].ts <= latest[y]
    BY <1>0, <2>4 DEF SerialInv
  <2>6. world' = world /\ latest' = latest
    BY <1>d
  <2> QED
    BY <1>3, <2>3, <2>5, <2>6 DEF SerialInv, EP!Now
<1>10. InStepInv'
  <2> SUFFICES ASSUME world.serial, failures.n = 0
               PROVE  InStepInv'
    BY <1>d DEF InStepInv
  <2>3. \A q \in Proc : doing'[q].pc \in {"idle", "groups"}
    BY <1>1, <1>d DEF EP!Now, EP!Idle
  <2>4. vectors = EP!Live
    BY <1>0, <1>d DEF InStepInv
  <2> QED
    BY <1>1, <1>3, <1>d, <2>3, <2>4 DEF InStepInv, EP!Now, EP!Idle
<1> QED
  BY <1>4, <1>5, <1>6, <1>7, <1>8, <1>9, <1>10 DEF EpisodesInv

(* The points of the deleted rows go; a row that is there keeps its own. *)
LEMMA PruneKeeps ==
  ASSUME EpisodesInv, NEW p \in Proc, EP!Prune(p)
  PROVE  EpisodesInv'
<1>0. /\ DOMAIN doing = Proc /\ clock \in Nat
      /\ TableInv /\ WorkInv /\ KeptInv /\ PointInv
      /\ SteadyInv /\ SerialInv /\ InStepInv
  BY DEF EpisodesInv, TableInv
<1>a. CASE EP!Abort(p) /\ UNCHANGED vectors
  BY <1>a, AbortKeeps DEF EP!Prune, EP!Now
<1>b. CASE /\ vectors' = vectors \ doing[p].del
           /\ doing' = [doing EXCEPT ![p] = EP!Free]
           /\ UNCHANGED failures
  <2>p. PICK gone : gone = doing[p].del
    OBVIOUS
  <2>d. /\ doing[p].pc = "prune" /\ vectors' = vectors \ gone
        /\ UNCHANGED <<world, table, acked, latest, clock, failures>>
        /\ p \in world.dedupes
    BY <1>0, <1>b, <2>p DEF EP!Prune, EP!Now, WorkInv
  <2>1. /\ DOMAIN doing' = Proc
        /\ doing'[p].pc = "idle" /\ doing'[p].id = NoRow
        /\ \A q \in Proc : q = p \/ doing'[q] = doing[q]
        /\ \A q \in Proc : OpOK(doing[q])'
    BY <1>0, <1>b, <2>d, Freed
  <2>2. /\ EP!Live' = EP!Live
        /\ \A y : /\ EP!RowsOf(y)' = EP!RowsOf(y)
                  /\ EP!Hashed(y)' = EP!Hashed(y)
    BY <2>d, SameTable
  <2>3. TableInv'
    BY <1>0, <2>1, <2>2, <2>d DEF TableInv, RowOK
  <2>4. WorkInv'
    <3>n. \A q \in Proc : EP!Now(q, "insert") => doing[q].id # NoRow
      <4>1. NoRow \notin EpisodeId
        BY MemoryAssumption DEF EP!EpisodesAssumption
      <4> QED
        BY <1>0, <4>1 DEF TableInv, OpOK, EP!Now
    <3>1. world.serial => \A q, r \in Proc :
            ~EP!Now(q, "idle")' /\ ~EP!Now(r, "idle")' => q = r
      BY <1>0, <2>1 DEF WorkInv, EP!Now
    <3>2. \A q \in Proc :
            doing'[q].pc \in {"groups", "first", "compact", "prune"} =>
              q \in world.dedupes
      BY <1>0, <2>1 DEF WorkInv, EP!Now
    <3>3. \A q \in Proc : EP!Now(q, "unlink")' => world.serial /\ acked = {}
      BY <1>0, <2>1, <2>d DEF WorkInv, EP!Now
    <3>4. \A q \in Proc : EP!Now(q, "insert")' =>
            /\ table[doing'[q].id] = NoRow /\ doing'[q].id \notin vectors'
            /\ \A r \in Proc : r = q \/ doing'[r].id # doing'[q].id
      BY <1>0, <2>1, <2>d, <2>p, <3>n DEF WorkInv, EP!Now
    <3> QED
      BY <2>d, <3>1, <3>2, <3>3, <3>4 DEF WorkInv
  <2>5. KeptInv'
    <3>1. \A y \in Prompt : Known(y)' => Known(y)
      BY <2>1, <2>d DEF Known
    <3>2. \A q \in Proc : EP!Now(q, "compact")' =>
            /\ EP!Now(q, "compact") /\ doing'[q] = doing[q]
      BY <2>1 DEF EP!Now
    <3> QED
      BY <1>0, <2>2, <2>d, <3>1, <3>2 DEF KeptInv, EP!OneDedupe
  <2>6. PointInv'
    <3> SUFFICES ASSUME EP!OneDedupe, ~failures.bare
                 PROVE  PointInv'
      BY <2>d DEF PointInv, EP!OneDedupe
    <3>1. \A j \in EP!Live : Pointed(j) => Pointed(j)'
      BY <1>0, <2>1, <2>d, <2>p DEF Pointed, EP!Now, PointInv
    <3>3. (\A q \in Proc : ~EP!Now(q, "unlink"))' =>
            \A q \in Proc : ~EP!Now(q, "unlink")
      BY <2>1, <2>d DEF EP!Now
    <3>4. \A q \in Proc : ~EP!Now(q, "prune")'
      BY <1>0, <2>1, <2>d DEF EP!Now, WorkInv, EP!OneDedupe
    <3> QED
      BY <1>0, <2>d, <2>2, <3>1, <3>3, <3>4 DEF PointInv
  <2>7. SteadyInv'
    <3>1. world.dedupes # {}
      BY <2>d
    <3> QED
      BY <1>0, <2>1, <2>2, <2>d, <3>1 DEF SteadyInv
  <2>8. SerialInv'
    BY <1>0, <2>1, <2>2, <2>d DEF SerialInv, EP!Now
  <2>9. InStepInv'
    <3> SUFFICES ASSUME world.serial, failures.n = 0
                 PROVE  InStepInv'
      BY <2>d DEF InStepInv
    <3>2. \A q \in Proc : q = p \/ EP!Now(q, "idle")
      BY <1>0, <2>d DEF WorkInv, EP!Now
    <3>3. \A q \in Proc : doing'[q].pc = "idle"
      BY <2>1, <3>2 DEF EP!Now
    <3>4. EP!Live = vectors'
      BY <1>0, <2>p, <2>d DEF InStepInv, EP!Now
    <3> QED
      BY <2>2, <3>3, <3>4 DEF InStepInv, EP!Now, EP!Idle
  <2> QED
    BY <2>3, <2>4, <2>5, <2>6, <2>7, <2>8, <2>9 DEF EpisodesInv
<1> QED
  BY <1>a, <1>b DEF EP!Prune, EP!Goto

(* A reset takes the collection first, if it can, *)
LEMMA ResetKeeps ==
  ASSUME EpisodesInv, NEW p \in Proc, EP!Reset(p)
  PROVE  EpisodesInv'
<1>0. /\ DOMAIN doing = Proc /\ clock \in Nat /\ failures.n \in Nat
      /\ TableInv /\ KeptInv /\ SerialInv
  BY DEF EpisodesInv, TableInv
<1>d. /\ world.serial /\ EP!Idle /\ acked' = {}
      /\ doing' = [doing EXCEPT ![p] = [EP!Free EXCEPT !.pc = "unlink"]]
      /\ UNCHANGED <<world, table, latest, clock>>
      /\ \/ vectors' = {} /\ failures' = failures
         \/ \E b : failures' = [n |-> failures.n + 1, bare |-> b]
  BY DEF EP!Reset, EP!Begin, EP!Goto, EP!Fails
<1>f. /\ failures'.n \in Nat
      /\ failures'.n = 0 => vectors' = {}
  <2>1. CASE vectors' = {} /\ failures' = failures
    BY <1>0, <2>1
  <2>2. ASSUME NEW b, failures' = [n |-> failures.n + 1, bare |-> b]
        PROVE  failures'.n = failures.n + 1
    BY <2>2
  <2> QED
    BY <1>0, <1>d, <2>1, <2>2
<1>1. /\ doing'[p].pc = "unlink"
      /\ \A q \in Proc : q = p \/ doing'[q] = doing[q]
      /\ \A q \in Proc : OpOK(doing[q])'
      /\ DOMAIN doing' = Proc
  <2>1. PICK c : c = [EP!Free EXCEPT !.pc = "unlink"]
    OBVIOUS
  <2>2. c = [pc |-> "unlink", prompt |-> NoRow, ts |-> 0, id |-> NoRow,
             groups |-> {}, seen |-> {}, del |-> {}, hits |-> <<>>,
             shown |-> <<>>,
             verdict |-> "none", all |-> FALSE]
    BY <2>1 DEF EP!Free
  <2>3. OpOK(c)' /\ c.pc = "unlink"
    BY <2>2 DEF OpOK
  <2> QED
    BY <1>0, <1>d, <2>1, <2>3, OthersOK
<1>i. \A q \in Proc : q = p \/ doing'[q].pc = "idle"
  BY <1>1, <1>d DEF EP!Idle, EP!Now
<1>2. /\ EP!Live' = EP!Live
      /\ \A y : /\ EP!RowsOf(y)' = EP!RowsOf(y)
                /\ EP!Hashed(y)' = EP!Hashed(y)
  BY <1>d, SameTable
<1>3. TableInv'
  BY <1>0, <1>1, <1>2, <1>d, <1>f DEF TableInv, RowOK
<1>4. WorkInv'
  BY <1>1, <1>i, <1>d DEF WorkInv, EP!Now
<1>5. KeptInv'
  <2>1. \A y \in Prompt : Known(y)' => Known(y)
    BY <1>1, <1>i, <1>d DEF Known
  <2> QED
    BY <1>0, <1>1, <1>i, <1>2, <1>d, <2>1 DEF KeptInv, EP!OneDedupe, EP!Now
<1>6. PointInv'
  BY <1>1, <1>i DEF PointInv, EP!Now
<1>7. SteadyInv'
  BY <1>1, <1>i, <1>d DEF SteadyInv
<1>8. SerialInv'
  BY <1>0, <1>1, <1>i, <1>2, <1>d DEF SerialInv, EP!Now
<1>9. InStepInv'
  BY <1>1, <1>i, <1>f DEF InStepInv, EP!Now, EP!Idle
<1> QED
  BY <1>3, <1>4, <1>5, <1>6, <1>7, <1>8, <1>9 DEF EpisodesInv

(* and the file with the rows then. *)
LEMMA UnlinkKeeps ==
  ASSUME EpisodesInv, NEW p \in Proc, EP!Unlink(p)
  PROVE  EpisodesInv'
<1>0. /\ DOMAIN doing = Proc /\ clock \in Nat
      /\ TableInv /\ WorkInv /\ InStepInv
  BY DEF EpisodesInv, TableInv
<1>d. /\ EP!Now(p, "unlink") /\ doing[p].pc = "unlink"
      /\ table' = [j \in EpisodeId |-> NoRow]
      /\ latest' = [y \in Prompt |-> 0]
      /\ doing' = [doing EXCEPT ![p] = EP!Free]
      /\ UNCHANGED <<world, vectors, acked, clock, failures>>
  BY DEF EP!Unlink, EP!Goto, EP!Now
<1>s. /\ world.serial /\ acked = {}
      /\ \A q \in Proc : q = p \/ EP!Now(q, "idle")
  BY <1>0, <1>d DEF WorkInv, EP!Now
<1>1. /\ DOMAIN doing' = Proc
      /\ doing'[p].pc = "idle"
      /\ \A q \in Proc : q = p \/ doing'[q] = doing[q]
      /\ \A q \in Proc : OpOK(doing[q])'
  BY <1>0, <1>d, Freed
<1>i. \A q \in Proc : doing'[q].pc = "idle"
  BY <1>1, <1>s DEF EP!Now
<1>2. EP!Live' = {} /\ \A y : EP!RowsOf(y)' = {}
  BY <1>d DEF EP!Live, EP!RowsOf
<1>3. TableInv'
  BY <1>0, <1>1, <1>2, <1>d DEF TableInv
<1>4. WorkInv'
  BY <1>i DEF WorkInv, EP!Now
<1>5. KeptInv'
  <2>1. \A y \in Prompt : ~Known(y)'
    BY <1>i, <1>d, <1>s DEF Known
  <2> QED
    BY <1>i, <2>1 DEF KeptInv, EP!Now
<1>6. PointInv'
  BY <1>i, <1>2 DEF PointInv, EP!Now
<1>7. SteadyInv'
  BY <1>i, <1>s, <1>d DEF SteadyInv
<1>8. SerialInv'
  BY <1>i, <1>2 DEF SerialInv, EP!Now
<1>9. InStepInv'
  <2>1. failures.n = 0 => vectors = {}
    BY <1>0, <1>d, <1>s DEF InStepInv
  <2> QED
    BY <1>i, <1>2, <1>d, <2>1 DEF InStepInv, EP!Now
<1> QED
  BY <1>3, <1>4, <1>5, <1>6, <1>7, <1>8, <1>9 DEF EpisodesInv

LEMMA Greatest ==
  ASSUME NEW S, S \subseteq Nat, S # {}, NEW k \in Nat, \A n \in S : n <= k
  PROVE  EP!Max(S) \in S /\ \A n \in S : n <= EP!Max(S)
<1> DEFINE D == {k - n : n \in S}
<1>1. D \subseteq Nat /\ D # {}
  <2>1. \A n \in S : k - n \in Nat
    OBVIOUS
  <2>2. PICK n \in S : TRUE
    OBVIOUS
  <2>3. k - n \in D
    OBVIOUS
  <2> QED
    BY <2>1, <2>3
<1>2. PICK d \in D : \A m \in D : d <= m
  BY <1>1, Least
<1>3. PICK n \in S : d = k - n
  BY <1>2
<1>4. \A m \in S : n >= m
  <2> SUFFICES ASSUME NEW m \in S
               PROVE  n >= m
    OBVIOUS
  <2>1. k - m \in D
    OBVIOUS
  <2>2. k - n <= k - m
    BY <1>2, <1>3, <2>1
  <2> QED
    BY <2>2
<1>5. EP!Max(S) \in S /\ \A m \in S : EP!Max(S) >= m
  BY <1>4, Zenon DEF EP!Max
<1> QED
  BY <1>5

(* What one transaction of dedupe deletes of the groups it reads. *)
ReadGroups(p) == {g \in EP!GroupRows(p) : g # {}}
Gone(p) == UNION {EP!Rest(g) : g \in ReadGroups(p)}
Keeping(p, i) == {g \in ReadGroups(p) : EP!Oldest(g).id = i}
Found(x) == {[id |-> i, ts |-> table[i].ts] : i \in EP!Hashed(x)}

LEMMA GroupsAre ==
  ASSUME TableInv, NEW p \in Proc, doing[p].pc = "compact",
         NEW g \in ReadGroups(p)
  PROVE  /\ g # {}
         /\ \/ g = doing[p].seen
            \/ \E x \in Prompt : x # doing[p].prompt /\ g = Found(x)
         /\ \A r \in g : r.id \in EpisodeId /\ r.ts \in Nat /\ r.ts <= clock
         /\ \A r, s \in g : r.id = s.id => r = s
         /\ EP!Oldest(g) \in g /\ EP!Oldest(g).id \notin EP!Rest(g)
<1>1. /\ g # {}
      /\ \/ g = doing[p].seen
         \/ \E x \in Prompt : x # doing[p].prompt /\ g = Found(x)
  <2>1. g \in EP!GroupRows(p) /\ g # {}
    BY DEF ReadGroups
  <2>2. \/ g = doing[p].seen
        \/ \E x \in doing[p].groups \ {doing[p].prompt} : g = Found(x)
    BY <2>1 DEF EP!GroupRows, Found
  <2>3. doing[p].groups \subseteq Prompt
    BY DEF TableInv, OpOK
  <2> QED
    BY <2>1, <2>2, <2>3
<1>2. /\ \A r \in g : r.id \in EpisodeId /\ r.ts \in Nat /\ r.ts <= clock
      /\ \A r, s \in g : r.id = s.id => r = s
  <2>1. CASE g = doing[p].seen
    BY <2>1 DEF TableInv, OpOK
  <2>2. ASSUME NEW x \in Prompt, g = Found(x)
        PROVE  /\ \A r \in g : /\ r.id \in EpisodeId
                               /\ r.ts \in Nat /\ r.ts <= clock
               /\ \A r, s \in g : r.id = s.id => r = s
    <3>1. \A i \in EP!Hashed(x) :
            i \in EpisodeId /\ table[i].ts \in Nat /\ table[i].ts <= clock
      BY DEF TableInv, RowOK, EP!Row, EP!Hashed, EP!RowsOf, EP!Live
    <3> QED
      BY <2>2, <3>1 DEF Found
  <2> QED
    BY <1>1, <2>1, <2>2
<1>3. EP!Oldest(g) \in g
  <2> DEFINE T == {r.ts : r \in g}
  <2>1. T \subseteq Nat /\ T # {}
    BY <1>1, <1>2
  <2>2. PICK n \in T : \A m \in T : n <= m
    BY <2>1, Least
  <2>3. PICK r \in g : r.ts = n
    BY <2>2
  <2>4. \A s \in g : r.ts <= s.ts
    BY <2>2, <2>3
  <2> QED
    BY <2>4, Zenon DEF EP!Oldest
<1>4. EP!Oldest(g).id \notin EP!Rest(g)
  BY <1>2, <1>3 DEF EP!Rest
<1> QED
  BY <1>1, <1>2, <1>3, <1>4

(* Without another dedupe, groups are of rows that are there, of one       *)
(* prompt each, and no two share a row; with no overlap, as they are now.  *)
LEMMA GroupsApart ==
  ASSUME TableInv, KeptInv, SerialInv, EP!OneDedupe \/ world.serial,
         NEW p \in Proc, doing[p].pc = "compact"
  PROVE  /\ \A g \in ReadGroups(p) : \A r \in g : r.id \in EP!Live
         /\ \A g \in ReadGroups(p) : \A r, s \in g :
              table[r.id].prompt = table[s.id].prompt
         /\ \A g, h \in ReadGroups(p) : \A r \in g, s \in h :
              r.id = s.id => g = h
         /\ world.serial => \A g \in ReadGroups(p) : \A r \in g :
                              r.ts = table[r.id].ts
<1> DEFINE y == doing[p].prompt
<1>1. /\ \A r \in doing[p].seen : r.id \in EP!RowsOf(y)
      /\ world.serial =>
           \A r \in doing[p].seen : r.ts = table[r.id].ts
  <2>1. CASE world.serial
    <3>1. doing[p].seen = Found(y)
      BY <2>1 DEF SerialInv, EP!Now, Found
    <3> QED
      BY <3>1 DEF Found, EP!Hashed
  <2>2. CASE ~world.serial
    BY <2>2 DEF KeptInv, EP!Now
  <2> QED
    BY <2>1, <2>2
<1>2. \A x : \A r \in Found(x) : /\ r.id \in EP!RowsOf(x)
                                 /\ r.ts = table[r.id].ts
  BY DEF Found, EP!Hashed
<1>3. \A g \in ReadGroups(p) :
        \/ g = doing[p].seen
        \/ \E x \in Prompt : x # y /\ g = Found(x)
  BY GroupsAre
<1>4. \A x : \A i \in EP!RowsOf(x) : i \in EP!Live /\ table[i].prompt = x
  BY DEF EP!RowsOf
<1> HIDE DEF y
<1>5. \A g \in ReadGroups(p) : \A r \in g : r.id \in EP!Live
  BY <1>1, <1>2, <1>3, <1>4
<1>6. \A g \in ReadGroups(p) : \A r, s \in g :
        table[r.id].prompt = table[s.id].prompt
  BY <1>1, <1>2, <1>3, <1>4
<1>7. \A g, h \in ReadGroups(p) : \A r \in g, s \in h :
        r.id = s.id => g = h
  BY <1>1, <1>2, <1>3, <1>4
<1>8. world.serial => \A g \in ReadGroups(p) : \A r \in g :
                        r.ts = table[r.id].ts
  BY <1>1, <1>2, <1>3
<1> QED
  BY <1>5, <1>6, <1>7, <1>8

(* The oldest row of each group stays. *)
LEMMA OldestStays ==
  ASSUME TableInv, KeptInv, SerialInv, EP!OneDedupe \/ world.serial,
         NEW p \in Proc, doing[p].pc = "compact"
  PROVE  /\ Gone(p) \subseteq EP!Live
         /\ \A i \in Gone(p) : \E g \in ReadGroups(p) : \E r \in g :
              /\ r.id = i /\ EP!Oldest(g) \in g
              /\ EP!Oldest(g).id \in EP!Live \ Gone(p)
              /\ table[EP!Oldest(g).id].prompt = table[i].prompt
<1>1. \A g \in ReadGroups(p) : /\ EP!Oldest(g) \in g
                               /\ EP!Oldest(g).id \notin EP!Rest(g)
  BY GroupsAre
<1>2. \A g \in ReadGroups(p) : \A i \in EP!Rest(g) : \E r \in g : r.id = i
  BY DEF EP!Rest
<1>3. \A g, h \in ReadGroups(p) : \A r \in g, s \in h : r.id = s.id => g = h
  BY GroupsApart
<1>4. \A g \in ReadGroups(p) : EP!Oldest(g).id \notin Gone(p)
  <2> SUFFICES ASSUME NEW g \in ReadGroups(p), NEW h \in ReadGroups(p),
                      EP!Oldest(g).id \in EP!Rest(h)
               PROVE  FALSE
    BY DEF Gone
  <2>1. PICK s \in h : s.id = EP!Oldest(g).id
    BY <1>2
  <2>2. g = h
    BY <1>1, <1>3, <2>1
  <2> QED
    BY <1>1, <2>2
<1>5. \A i \in Gone(p) : \E g \in ReadGroups(p) : \E r \in g : r.id = i
  BY <1>2 DEF Gone
<1>6. /\ \A g \in ReadGroups(p) : \A r \in g : r.id \in EP!Live
      /\ \A g \in ReadGroups(p) : \A r, s \in g :
           table[r.id].prompt = table[s.id].prompt
  BY GroupsApart
<1> QED
  BY <1>1, <1>4, <1>5, <1>6

(* What the transaction does to the table. *)
LEMMA Compacted ==
  ASSUME TableInv, NEW p \in Proc, doing[p].pc = "compact",
         table' = [i \in EpisodeId |->
                     IF i \in Gone(p) \/ table[i] = NoRow THEN NoRow
                     ELSE IF Keeping(p, i) = {} THEN table[i]
                     ELSE [table[i] EXCEPT !.ts =
                             EP!Newest(UNION Keeping(p, i))]]
  PROVE  /\ DOMAIN table' = EpisodeId
         /\ \A i \in EpisodeId : i \in Gone(p) \/ table[i] = NoRow =>
              table'[i] = NoRow
         /\ \A i \in EP!Live \ Gone(p) :
              /\ table'[i] \in EP!Row /\ table'[i] # NoRow
              /\ table'[i].prompt = table[i].prompt
              /\ table'[i].ts <= clock
              /\ \/ table'[i].ts = table[i].ts
                 \/ \E g \in Keeping(p, i) : \E r \in g : table'[i].ts = r.ts
              /\ \A g \in Keeping(p, i) : \A r \in g : r.ts <= table'[i].ts
              /\ Keeping(p, i) = {} => table'[i].ts = table[i].ts
<1>1. /\ DOMAIN table' = EpisodeId
      /\ \A i \in EpisodeId : i \in Gone(p) \/ table[i] = NoRow =>
           table'[i] = NoRow
  OBVIOUS
<1>2. ASSUME NEW i \in EP!Live \ Gone(p)
      PROVE  /\ table'[i] \in EP!Row /\ table'[i] # NoRow
             /\ table'[i].prompt = table[i].prompt
             /\ table'[i].ts <= clock
             /\ \/ table'[i].ts = table[i].ts
                \/ \E g \in Keeping(p, i) : \E r \in g : table'[i].ts = r.ts
             /\ \A g \in Keeping(p, i) : \A r \in g : r.ts <= table'[i].ts
             /\ Keeping(p, i) = {} => table'[i].ts = table[i].ts
  <2>1. /\ i \in EpisodeId /\ table[i] # NoRow
        /\ table[i] \in EP!Row /\ NoRow \notin EP!Row /\ table[i].ts <= clock
        /\ clock \in Nat
    BY MemoryAssumption
    DEF EP!Live, TableInv, RowOK, EP!EpisodesAssumption
  <2>2. CASE Keeping(p, i) = {}
    <3>1. table'[i] = table[i]
      BY <2>1, <2>2
    <3> QED
      BY <2>1, <2>2, <3>1
  <2>3. CASE Keeping(p, i) # {}
    <3> DEFINE u == UNION Keeping(p, i)
               S == {r.ts : r \in u}
    <3>1. table'[i] = [table[i] EXCEPT !.ts = EP!Newest(u)]
      BY <2>1, <2>3
    <3>2. /\ \A r \in u : r.ts \in Nat /\ r.ts <= clock
          /\ u # {}
      <4>1. \A g \in Keeping(p, i) :
              g # {} /\ \A r \in g : r.ts \in Nat /\ r.ts <= clock
        BY GroupsAre DEF Keeping
      <4> QED
        BY <2>3, <4>1
    <3>3. /\ S \subseteq Nat /\ S # {} /\ \A n \in S : n <= clock
      BY <3>2
    <3>4. EP!Max(S) \in S /\ \A n \in S : n <= EP!Max(S)
      BY <2>1, <3>3, Greatest
    <3>5. PICK t : t = EP!Newest(u)
      OBVIOUS
    <3>6. /\ t \in Nat /\ t <= clock
          /\ \E r \in u : t = r.ts
          /\ \A r \in u : r.ts <= t
      BY <3>3, <3>4, <3>5 DEF EP!Newest
    <3>7. PICK r : r = table[i]
      OBVIOUS
    <3>8. r = [prompt |-> r.prompt, ts |-> r.ts, hashed |-> r.hashed,
               verdict |-> r.verdict]
      BY <2>1, <3>7 DEF EP!Row
    <3>9. /\ r.prompt \in Prompt /\ r.hashed \in BOOLEAN
          /\ r.verdict \in EP!Verdict
      BY <2>1, <3>7 DEF EP!Row
    <3>10. [r EXCEPT !.ts = t] =
             [prompt |-> r.prompt, ts |-> t, hashed |-> r.hashed,
              verdict |-> r.verdict]
      BY <3>8
    <3>11. table'[i] = [prompt |-> r.prompt, ts |-> t, hashed |-> r.hashed,
                        verdict |-> r.verdict]
      BY <3>1, <3>5, <3>7, <3>10
    <3>12. table'[i] \in EP!Row
      BY <3>6, <3>9, <3>11 DEF EP!Row
    <3>13. table'[i].prompt = table[i].prompt /\ table'[i].ts = t
      BY <3>7, <3>11
    <3>14. /\ \E g \in Keeping(p, i) : \E v \in g : t = v.ts
           /\ \A g \in Keeping(p, i) : \A v \in g : v.ts <= t
      BY <3>6
    <3> QED
      BY <2>1, <2>3, <3>6, <3>12, <3>13, <3>14
  <2> QED
    BY <2>2, <2>3
<1> QED
  BY <1>1, <1>2

(* The transaction of dedupe: of each group one row stays. *)
LEMMA CompactKeeps ==
  ASSUME EpisodesInv, NEW p \in Proc, EP!Compact(p)
  PROVE  EpisodesInv'
<1>0. /\ DOMAIN doing = Proc /\ clock \in Nat /\ DOMAIN table = EpisodeId
      /\ TableInv /\ WorkInv /\ KeptInv /\ PointInv
      /\ SteadyInv /\ SerialInv /\ InStepInv
  BY DEF EpisodesInv, TableInv
<1>a. CASE EP!Abort(p) /\ UNCHANGED table
  BY <1>a, AbortKeeps DEF EP!Compact, EP!Now
<1>b. CASE ~(EP!Abort(p) /\ UNCHANGED table)
  <2>c. /\ doing[p].pc = "compact"
        /\ table' = [i \in EpisodeId |->
                       IF i \in Gone(p) \/ table[i] = NoRow THEN NoRow
                       ELSE IF Keeping(p, i) = {} THEN table[i]
                       ELSE [table[i] EXCEPT !.ts =
                               EP!Newest(UNION Keeping(p, i))]]
        /\ doing' = [doing EXCEPT ![p] =
                       [doing[p] EXCEPT !.pc = "prune", !.del = Gone(p)]]
        /\ UNCHANGED <<world, vectors, acked, latest, clock, failures>>
    BY <1>b DEF EP!Compact, EP!Now, EP!Goto, ReadGroups, Gone, Keeping
  <2>g. PICK gone : gone = Gone(p)
    OBVIOUS
  <2>d. /\ UNCHANGED <<world, vectors, acked, latest, clock, failures>>
        /\ p \in world.dedupes
    BY <1>0, <2>c DEF WorkInv
  <2>1. /\ DOMAIN doing' = Proc
        /\ doing'[p].pc = "prune" /\ doing'[p].id = doing[p].id
        /\ doing'[p].del = gone
        /\ \A q \in Proc : q = p \/ doing'[q] = doing[q]
        /\ \A q \in Proc : OpOK(doing[q])'
    <3>1. PICK r : r = doing[p]
      OBVIOUS
    <3>2. r = [pc |-> r.pc, prompt |-> r.prompt, ts |-> r.ts, id |-> r.id,
               groups |-> r.groups, seen |-> r.seen, del |-> r.del,
               hits |-> r.hits, shown |-> r.shown,
               verdict |-> r.verdict, all |-> r.all]
      BY <1>0, <3>1 DEF TableInv, OpOK
    <3>3. PICK c : c = [r EXCEPT !.pc = "prune", !.del = gone]
      OBVIOUS
    <3>4. c = [pc |-> "prune", prompt |-> r.prompt, ts |-> r.ts, id |-> r.id,
               groups |-> r.groups, seen |-> r.seen, del |-> gone,
               hits |-> r.hits, shown |-> r.shown,
               verdict |-> r.verdict, all |-> r.all]
      BY <3>2, <3>3
    <3>5. /\ OpOK(c)' /\ c.pc = "prune" /\ c.id = r.id /\ c.del = gone
      BY <3>4 DEF OpOK
    <3>6. doing' = [doing EXCEPT ![p] = c]
      BY <2>c, <2>g, <3>1, <3>3, Zenon
    <3> QED
      BY <1>0, <2>d, <3>1, <3>5, <3>6, OthersOK
  <2>2. /\ DOMAIN table' = EpisodeId
        /\ \A i \in EpisodeId : i \in gone \/ table[i] = NoRow =>
             table'[i] = NoRow
        /\ \A i \in EP!Live \ gone :
             /\ table'[i] \in EP!Row /\ table'[i] # NoRow
             /\ table'[i].prompt = table[i].prompt
             /\ table'[i].ts <= clock
             /\ \/ table'[i].ts = table[i].ts
                \/ \E g \in Keeping(p, i) : \E r \in g : table'[i].ts = r.ts
             /\ \A g \in Keeping(p, i) : \A r \in g : r.ts <= table'[i].ts
             /\ Keeping(p, i) = {} => table'[i].ts = table[i].ts
    BY <1>0, <2>c, <2>g, Compacted
  <2>3. /\ EP!Live' = EP!Live \ gone
        /\ \A y : EP!RowsOf(y)' = EP!RowsOf(y) \ gone
    <3>1. EP!Live' = EP!Live \ gone
      BY <2>2 DEF EP!Live
    <3>2. \A i \in EP!Live \ gone : table'[i].prompt = table[i].prompt
      BY <2>2
    <3> QED
      BY <3>1, <3>2 DEF EP!RowsOf
  <2> DEFINE Stays == EP!OneDedupe \/ world.serial
  <2>s. ASSUME Stays
        PROVE  /\ gone \subseteq EP!Live
               /\ \A i \in gone : \E g \in ReadGroups(p) : \E r \in g :
                    /\ r.id = i /\ EP!Oldest(g) \in g
                    /\ EP!Oldest(g).id \in EP!Live \ gone
                    /\ table[EP!Oldest(g).id].prompt = table[i].prompt
    BY <1>0, <2>c, <2>g, <2>s, OldestStays
  <2>4. TableInv'
    <3>1. \A i \in EP!Live' : RowOK(table[i])'
      BY <2>2, <2>3, <2>d DEF RowOK
    <3> QED
      BY <1>0, <2>1, <2>2, <2>d, <3>1 DEF TableInv
  <2>5. WorkInv'
    <3>1. world.serial => \A q, r \in Proc :
            ~EP!Now(q, "idle")' /\ ~EP!Now(r, "idle")' => q = r
      BY <1>0, <2>1, <2>c DEF WorkInv, EP!Now
    <3>2. \A q \in Proc :
            /\ doing'[q].pc \in {"groups", "first", "compact", "prune"} =>
                 q \in world.dedupes
            /\ EP!Now(q, "unlink")' => world.serial /\ acked = {}
      BY <1>0, <2>1, <2>d DEF WorkInv, EP!Now
    <3>3. \A q \in Proc : EP!Now(q, "insert") => doing[q].id \in EpisodeId
      BY <1>0 DEF TableInv, OpOK, EP!Now
    <3>4. \A q \in Proc : EP!Now(q, "insert")' =>
            /\ table'[doing'[q].id] = NoRow /\ doing'[q].id \notin vectors
            /\ \A r \in Proc : r = q \/ doing'[r].id # doing'[q].id
      BY <1>0, <2>1, <2>2, <3>3 DEF WorkInv, EP!Now
    <3> QED
      BY <2>d, <3>1, <3>2, <3>4 DEF WorkInv
  <2>6. KeptInv'
    <3> SUFFICES ASSUME EP!OneDedupe
                 PROVE  KeptInv'
      BY <2>d DEF KeptInv, EP!OneDedupe
    <3>1. \A y \in Prompt : Known(y)' => Known(y)
      BY <2>1, <2>d DEF Known
    <3>2. \A q \in Proc : ~EP!Now(q, "compact")'
      BY <1>0, <2>1, <2>d DEF EP!Now, WorkInv, EP!OneDedupe
    <3>3. ASSUME NEW y \in Prompt, EP!RowsOf(y) # {}
          PROVE  EP!RowsOf(y)' # {}
      <4>1. PICK i \in EP!RowsOf(y) : TRUE
        BY <3>3
      <4>2. CASE i \in gone
        <5>1. PICK o \in EP!Live \ gone : table[o].prompt = table[i].prompt
          BY <2>s, <4>2
        <5>2. o \in EP!RowsOf(y) \ gone
          BY <4>1, <5>1 DEF EP!RowsOf
        <5> QED
          BY <2>3, <5>2
      <4>3. CASE i \notin gone
        BY <2>3, <4>3
      <4> QED
        BY <4>2, <4>3
    <3> QED
      BY <1>0, <3>1, <3>2, <3>3 DEF KeptInv
  <2>7. PointInv'
    <3> SUFFICES ASSUME EP!OneDedupe, ~failures.bare
                 PROVE  PointInv'
      BY <2>d DEF PointInv, EP!OneDedupe
    <3>1. \A j : Pointed(j) => Pointed(j)'
      BY <2>1, <2>c, <2>d DEF Pointed, EP!Now
    <3>2. \A q \in Proc : ~EP!Now(q, "unlink")
      BY <1>0, <2>c DEF WorkInv, EP!Now
    <3>3. \A j \in EP!Live : Pointed(j)'
      BY <1>0, <3>1, <3>2 DEF PointInv
    <3>4. \A q \in Proc : EP!Now(q, "prune")' => q = p
      BY <1>0, <2>1, <2>d DEF EP!Now, WorkInv, EP!OneDedupe
    <3>5. \A j \in gone : j \notin EP!Live' /\ Pointed(j)'
      BY <2>s, <2>3, <3>3
    <3> QED
      BY <2>1, <2>3, <3>3, <3>4, <3>5 DEF PointInv
  <2>8. SteadyInv'
    <3>1. world.dedupes # {}
      BY <2>d
    <3>2. world.serial => \A q \in Proc : doing'[q].pc \in {"idle", "prune"}
      BY <1>0, <2>1, <2>c DEF WorkInv, EP!Now
    <3> QED
      BY <2>d, <3>1, <3>2 DEF SteadyInv
  <2>9. SerialInv'
    <3> SUFFICES ASSUME world.serial
                 PROVE  SerialInv'
      BY <2>d DEF SerialInv
    <3>1. \A q \in Proc : doing'[q].pc \in {"idle", "prune"}
      BY <1>0, <2>1, <2>c DEF WorkInv, EP!Now
    <3>2. /\ \A g \in ReadGroups(p) : \A r \in g :
               r.id \in EP!Live /\ r.ts = table[r.id].ts
          /\ \A g \in ReadGroups(p) : \A r, s \in g :
               table[r.id].prompt = table[s.id].prompt
          /\ \A g \in ReadGroups(p) : EP!Oldest(g) \in g
      BY <1>0, <2>c, GroupsApart, GroupsAre
    <3>3. \A i : \A g \in Keeping(p, i) :
            g \in ReadGroups(p) /\ EP!Oldest(g).id = i
      BY DEF Keeping
    <3>4. ASSUME NEW y \in Prompt, EP!RowsOf(y) # {}
          PROVE  /\ \E j \in EP!RowsOf(y) \ gone : table'[j].ts = latest[y]
                 /\ \A j \in EP!RowsOf(y) \ gone : table'[j].ts <= latest[y]
      <4>1. /\ \A j \in EP!RowsOf(y) : /\ table[j].ts <= latest[y]
                                       /\ j \in EP!Live
                                       /\ table[j].prompt = y
            /\ \E j \in EP!RowsOf(y) : table[j].ts = latest[y]
        BY <1>0, <3>4 DEF SerialInv, EP!RowsOf
      <4>2. ASSUME NEW j \in EP!RowsOf(y) \ gone
            PROVE  table'[j].ts <= latest[y]
        <5>1. ASSUME NEW g \in Keeping(p, j), NEW r \in g
              PROVE  r.ts <= latest[y]
          <6>1. /\ r.id \in EP!Live /\ r.ts = table[r.id].ts
                /\ table[r.id].prompt = table[j].prompt
            BY <3>2, <3>3, <5>1
          <6>2. r.id \in EP!RowsOf(y)
            BY <4>1, <4>2, <6>1 DEF EP!RowsOf
          <6> QED
            BY <4>1, <6>1, <6>2
        <5> QED
          BY <2>2, <4>1, <4>2, <5>1
      <4>t. /\ latest[y] \in Nat
            /\ \A j \in EP!RowsOf(y) \ gone : table'[j].ts \in Nat
        BY <1>0, <2>2 DEF TableInv, EP!RowsOf, EP!Row
      <4>3. PICK i \in EP!RowsOf(y) : table[i].ts = latest[y]
        BY <4>1
      <4>4. CASE i \in gone
        <5>g. PICK g \in ReadGroups(p) : \E r \in g :
                /\ r.id = i
                /\ EP!Oldest(g).id \in EP!Live \ gone
                /\ table[EP!Oldest(g).id].prompt = table[i].prompt
          BY <2>s, <4>4
        <5>1. PICK r \in g :
                /\ r.id = i
                /\ EP!Oldest(g).id \in EP!Live \ gone
                /\ table[EP!Oldest(g).id].prompt = table[i].prompt
          BY <5>g
        <5>2. PICK o : o = EP!Oldest(g).id
          OBVIOUS
        <5>3. g \in Keeping(p, o) /\ o \in EP!RowsOf(y) \ gone
          BY <4>1, <5>1, <5>2 DEF Keeping, EP!RowsOf
        <5>4. r.ts = latest[y]
          BY <3>2, <4>3, <5>1
        <5>5. latest[y] <= table'[o].ts
          BY <2>2, <5>1, <5>2, <5>3, <5>4
        <5> QED
          BY <4>2, <4>t, <5>3, <5>5
      <4>5. CASE i \notin gone
        <5>1. i \in EP!RowsOf(y) \ gone
          BY <4>3, <4>5
        <5>2. latest[y] <= table'[i].ts
          <6>1. CASE Keeping(p, i) = {}
            BY <2>2, <4>1, <4>3, <5>1, <6>1
          <6>2. ASSUME NEW g \in Keeping(p, i)
                PROVE  latest[y] <= table'[i].ts
            <7>1. /\ EP!Oldest(g) \in g
                  /\ EP!Oldest(g).ts = table[i].ts
              BY <3>2, <3>3
            <7> QED
              BY <2>2, <4>1, <4>3, <5>1, <7>1
          <6> QED
            BY <6>1, <6>2
        <5> QED
          BY <4>2, <4>t, <5>1, <5>2
      <4> QED
        BY <4>2, <4>4, <4>5
    <3>5. \A y \in Prompt : EP!RowsOf(y)' # {} => EP!RowsOf(y) # {}
      BY <2>3
    <3> QED
      BY <2>3, <2>d, <3>1, <3>4, <3>5 DEF SerialInv, EP!Now
  <2>10. InStepInv'
    <3> SUFFICES ASSUME world.serial, failures.n = 0
                 PROVE  InStepInv'
      BY <2>d DEF InStepInv
    <3>1. \A q \in Proc : q = p \/ doing'[q].pc = "idle"
      BY <1>0, <2>1, <2>c DEF WorkInv, EP!Now
    <3>2. vectors = EP!Live
      BY <1>0, <2>c DEF InStepInv
    <3>3. vectors = EP!Live' \cup gone /\ EP!Live' \cap gone = {}
      BY <2>s, <2>3, <3>2
    <3> QED
      BY <2>1, <2>d, <3>1, <3>3 DEF InStepInv, EP!Now, EP!Idle
  <2> QED
    BY <2>4, <2>5, <2>6, <2>7, <2>8, <2>9, <2>10 DEF EpisodesInv
<1> QED
  BY <1>a, <1>b

(* The rows that are there at first are older than the clock. *)
LEMMA EpisodesInit ==
  ASSUME EP!Init
  PROVE  EpisodesInv
<1> DEFINE L == world.legacy
           Old(i) == {r \in L : r.id = i}
           row(r) == [prompt |-> r.prompt, ts |-> r.ts, hashed |-> FALSE,
                      verdict |-> r.verdict]
           times(x) == {r.ts : r \in {s \in L : s.prompt = x}}
<1>0. /\ world \in EpisodeScenes
      /\ table = [i \in EpisodeId |->
                    IF Old(i) = {} THEN NoRow
                    ELSE LET r == CHOOSE r \in Old(i) : TRUE IN row(r)]
      /\ vectors = {r.id : r \in L}
      /\ doing = [p \in Proc |-> EP!Free]
      /\ acked = {r.prompt : r \in L}
      /\ latest = [x \in Prompt |-> EP!Max({0} \cup times(x))]
      /\ clock = EP!Cardinality(L) /\ failures = [n |-> 0, bare |-> FALSE]
  BY DEF EP!Init
<1>1. /\ L \subseteq [id : EpisodeId, prompt : Prompt, ts : Nat,
                      verdict : EP!Verdict]
      /\ EP!IsFiniteSet(L)
      /\ \A r \in L : r.ts <= clock
      /\ \A r, s \in L : r.id = s.id => r = s
      /\ NoRow \notin EP!Row
  <2>1. world \in EP!EpisodeScene
    BY <1>0, MemoryAssumption DEF EP!EpisodesAssumption
  <2>2. L \in SUBSET [id : EpisodeId, prompt : Prompt, ts : Nat,
                      verdict : EP!Verdict]
    BY <2>1 DEF EP!EpisodeScene
  <2> QED
    BY <1>0, <2>2, MemoryAssumption DEF EP!EpisodesAssumption
<1>2. clock \in Nat
  <2>1. IsFiniteSet(L)
    BY <1>1, Zenon DEF EP!IsFiniteSet, IsFiniteSet
  <2>2. EP!Cardinality(L) = Cardinality(L)
    BY Zenon DEF EP!Cardinality, Cardinality
  <2> QED
    BY <1>0, <2>1, <2>2, FS_CardinalityType
<1>3. \A r \in L : /\ r.id \in EpisodeId /\ r.prompt \in Prompt
                   /\ r.ts \in Nat /\ r.verdict \in EP!Verdict
  BY <1>1
<1>4. \A r \in L : table[r.id] = row(r)
  <2> SUFFICES ASSUME NEW r \in L
               PROVE  table[r.id] = row(r)
    OBVIOUS
  <2>1. Old(r.id) = {r}
    BY <1>1
  <2>2. (CHOOSE s \in Old(r.id) : TRUE) = r
    BY <2>1
  <2> QED
    BY <1>0, <1>3, <2>1, <2>2
<1>5. \A r \in L : /\ row(r) \in EP!Row /\ row(r).prompt = r.prompt
                   /\ row(r).ts = r.ts
  BY <1>3 DEF EP!Row
<1>6. \A i \in EpisodeId : table[i] # NoRow => \E r \in L : r.id = i
  BY <1>0
<1> HIDE DEF L, row, Old
<1>7. /\ EP!Live = vectors
      /\ \A r \in L : r.id \in EP!RowsOf(r.prompt)
      /\ \A i \in EP!Live : \E r \in L : r.id = i /\ table[i] = row(r)
      /\ \A x : \A i \in EP!RowsOf(x) : \E r \in L :
           r.id = i /\ r.prompt = x /\ table[i].ts = r.ts
  <2>1. \A r \in L : table[r.id] # NoRow
    BY <1>1, <1>4, <1>5
  <2>2. EP!Live = vectors
    <3>1. vectors = {r.id : r \in L}
      BY <1>0
    <3> QED
      BY <1>3, <1>6, <2>1, <3>1 DEF EP!Live
  <2>3. \A r \in L : r.id \in EP!RowsOf(r.prompt)
    BY <1>3, <1>4, <1>5, <2>1 DEF EP!RowsOf, EP!Live
  <2>4. \A i \in EP!Live : \E r \in L : r.id = i /\ table[i] = row(r)
    BY <1>4, <1>6 DEF EP!Live
  <2> QED
    BY <1>5, <2>2, <2>3, <2>4 DEF EP!RowsOf
<1>8. ASSUME NEW x \in Prompt
      PROVE  /\ latest[x] \in Nat
             /\ latest[x] = 0 \/ \E r \in L : r.prompt = x /\ r.ts = latest[x]
             /\ \A r \in L : r.prompt = x => r.ts <= latest[x]
  <2> DEFINE S == {0} \cup times(x)
  <2>1. /\ S \subseteq Nat /\ S # {}
        /\ \A n \in S : n <= clock
    BY <1>1, <1>2, <1>3
  <2>2. EP!Max(S) \in S /\ \A n \in S : n <= EP!Max(S)
    BY <1>2, <2>1, Greatest
  <2>3. latest[x] = EP!Max(S)
    BY <1>0
  <2> QED
    BY <2>1, <2>2, <2>3
<1>9. /\ DOMAIN doing = Proc
      /\ \A p \in Proc : doing[p].pc = "idle" /\ OpOK(doing[p])
  <2>1. EP!Free.pc = "idle" /\ OpOK(EP!Free)
    <3>1. PICK c : c = EP!Free
      OBVIOUS
    <3>2. c = [pc |-> "idle", prompt |-> NoRow, ts |-> 0, id |-> NoRow,
               groups |-> {}, seen |-> {}, del |-> {}, hits |-> <<>>,
               shown |-> <<>>,
               verdict |-> "none", all |-> FALSE]
      BY <3>1 DEF EP!Free
    <3>3. c.pc = "idle" /\ OpOK(c)
      BY <3>2 DEF OpOK
    <3> QED
      BY <3>1, <3>3
  <2> QED
    BY <1>0, <2>1
<1>10. TableInv
  <2>1. \A i \in EP!Live : RowOK(table[i])
    BY <1>1, <1>5, <1>7 DEF RowOK
  <2>2. failures.n = 0 /\ acked \subseteq Prompt
    BY <1>0, <1>3
  <2> QED
    BY <1>0, <1>2, <1>8, <1>9, <2>1, <2>2 DEF TableInv
<1>11. WorkInv
  BY <1>9 DEF WorkInv, EP!Now
<1>12. KeptInv
  <2>1. \A x \in Prompt : Known(x) => EP!RowsOf(x) # {}
    <3>1. ASSUME NEW x \in Prompt, Known(x)
          PROVE  \E r \in L : r.prompt = x
      BY <1>0, <1>8, <1>9, <3>1 DEF Known
    <3> QED
      BY <1>7, <3>1
  <2> QED
    BY <1>9, <2>1 DEF KeptInv, EP!Now
<1>13. PointInv
  BY <1>7, <1>9 DEF PointInv, Pointed, EP!Now
<1>14. SteadyInv
  <2>1. \A x \in acked : EP!RowsOf(x) \cap vectors # {}
    <3>1. \A x \in acked : \E r \in L : r.prompt = x
      BY <1>0
    <3>2. \A x : EP!RowsOf(x) \subseteq EP!Live
      BY DEF EP!RowsOf
    <3> QED
      BY <1>7, <3>1, <3>2
  <2> QED
    BY <1>9, <2>1 DEF SteadyInv
<1>15. SerialInv
  <2>1. ASSUME NEW x \in Prompt, EP!RowsOf(x) # {}
        PROVE  /\ \E i \in EP!RowsOf(x) : table[i].ts = latest[x]
               /\ \A i \in EP!RowsOf(x) : table[i].ts <= latest[x]
    <3>1. PICK i \in EP!RowsOf(x) : TRUE
      BY <2>1
    <3>2. PICK r \in L : r.id = i /\ r.prompt = x /\ table[i].ts = r.ts
      BY <1>7
    <3>3. \A j \in EP!RowsOf(x) : table[j].ts <= latest[x]
      BY <1>7, <1>8
    <3>4. CASE latest[x] = 0
      <4>1. r.ts = 0
        BY <1>3, <1>8, <3>2, <3>4
      <4> QED
        BY <3>2, <3>3, <3>4, <4>1
    <3>5. ASSUME NEW s \in L, s.prompt = x, s.ts = latest[x]
          PROVE  \E j \in EP!RowsOf(x) : table[j].ts = latest[x]
      BY <1>4, <1>5, <1>7, <3>5
    <3> QED
      BY <1>8, <3>3, <3>4, <3>5
  <2> QED
    BY <1>9, <2>1 DEF SerialInv, EP!Now
<1>16. InStepInv
  BY <1>7, <1>9 DEF InStepInv, EP!Now, EP!Idle
<1> QED
  BY <1>10, <1>11, <1>12, <1>13, <1>14, <1>15, <1>16 DEF EpisodesInv

(* No step of the memory layer breaks it, *)
LEMMA EpisodesNext ==
  ASSUME EpisodesInv, [MCNext]_allvars
  PROVE  EpisodesInv'
<1>1. CASE UNCHANGED episodeVars
  <2>1. /\ EP!Live' = EP!Live
        /\ \A y : /\ EP!RowsOf(y)' = EP!RowsOf(y)
                  /\ EP!Hashed(y)' = EP!Hashed(y)
    BY <1>1, SameTable DEF episodeVars
  <2>2. /\ UNCHANGED <<world, table, vectors, doing, acked, latest, clock,
                       failures>>
        /\ EpisodesInv
    BY <1>1 DEF episodeVars
  <2>3. TableInv'
    BY <2>1, <2>2 DEF EpisodesInv, TableInv, RowOK, OpOK
  <2>4. WorkInv'
    BY <2>2 DEF EpisodesInv, WorkInv, EP!Now
  <2>5. KeptInv'
    <3>1. \A x : Known(x)' => Known(x)
      BY <2>2 DEF Known
    <3> QED
      BY <2>1, <2>2, <3>1 DEF EpisodesInv, KeptInv, EP!Now, EP!OneDedupe
  <2>6. PointInv'
    <3>1. \A i : Pointed(i) => Pointed(i)'
      BY <2>2 DEF Pointed, EP!Now
    <3> QED
      BY <2>1, <2>2, <3>1 DEF EpisodesInv, PointInv, EP!Now, EP!OneDedupe
  <2>7. SteadyInv'
    BY <2>1, <2>2 DEF EpisodesInv, SteadyInv
  <2>8. SerialInv'
    BY <2>1, <2>2 DEF EpisodesInv, SerialInv, EP!Now
  <2>9. InStepInv'
    BY <2>1, <2>2 DEF EpisodesInv, InStepInv, EP!Now, EP!Idle
  <2> QED
    BY <2>3, <2>4, <2>5, <2>6, <2>7, <2>8, <2>9 DEF EpisodesInv
<1>2. CASE EP!Next
  <2>1. PICK p \in Proc :
          \/ \E x \in Prompt : \/ \E v \in EP!Verdict : EP!Record(p, x, v)
                               \/ \E all \in BOOLEAN : EP!Search(p, x, all)
          \/ EP!Select(p) \/ EP!Insert(p) \/ EP!Refresh(p) \/ EP!Upsert(p)
          \/ EP!Dedupe(p) \/ EP!Groups(p) \/ EP!First(p) \/ EP!Compact(p)
          \/ EP!Prune(p) \/ EP!ById(p) \/ EP!Reset(p) \/ EP!Unlink(p)
          \/ EP!Die(p)
    BY <1>2 DEF EP!Next
  <2>2. CASE \E x \in Prompt : \/ \E v \in EP!Verdict : EP!Record(p, x, v)
                               \/ \E all \in BOOLEAN : EP!Search(p, x, all)
    BY <2>2, ReadSteps
  <2>3. CASE EP!Select(p) \/ EP!Groups(p) \/ EP!First(p) \/ EP!ById(p)
    BY <2>3, ReadSteps
  <2>4. CASE EP!Die(p)
    BY <2>4, AbortKeeps DEF EP!Die
  <2> QED
    BY <2>1, <2>2, <2>3, <2>4, InsertKeeps, RefreshKeeps, UpsertKeeps,
       DedupeKeeps, CompactKeeps, PruneKeeps, ResetKeeps, UnlinkKeeps
<1> QED
  BY <1>1, <1>2, MemorySteps

(* and it says what is promised. *)
LEMMA EpisodesKeep ==
  ASSUME EpisodesInv
  PROVE  MCEpisodesKept
<1>0. /\ DOMAIN doing = Proc /\ clock \in Nat
      /\ TableInv /\ KeptInv /\ PointInv
      /\ SteadyInv /\ SerialInv /\ InStepInv
  BY DEF EpisodesInv, TableInv
<1>1. EP!RecallableOnceAcked
  <2>1. ASSUME EP!Idle, EP!OneDedupe, ~failures.bare, NEW x \in acked
        PROVE  EP!RowsOf(x) \cap vectors # {}
    <3>1. \A p \in Proc : doing[p].pc = "idle"
      BY <2>1 DEF EP!Idle, EP!Now
    <3>2. EP!RowsOf(x) # {} /\ EP!RowsOf(x) \subseteq EP!Live
      BY <1>0, <2>1 DEF KeptInv, Known, EP!RowsOf, TableInv
    <3>3. \A i \in EP!Live : i \in vectors
      BY <1>0, <2>1, <3>1 DEF PointInv, Pointed, EP!Now
    <3> QED
      BY <3>2, <3>3
  <2> QED
    BY <1>0, <2>1 DEF EP!RecallableOnceAcked, SteadyInv
<1>2. EP!OneDedupeForgetsNothing
  BY <1>0 DEF EP!OneDedupeForgetsNothing, EP!NothingForgotten, KeptInv, Known
<1>3. EP!StoresInStep
  <2>1. ASSUME world.serial, NEW x \in Prompt, EP!RowsOf(x) # {}
        PROVE  EP!Max({table[i].ts : i \in EP!RowsOf(x)}) = latest[x]
    <3> DEFINE S == {table[i].ts : i \in EP!RowsOf(x)}
    <3>1. /\ latest[x] \in S /\ \A n \in S : n <= latest[x]
          /\ latest[x] \in Nat
      BY <1>0, <2>1 DEF SerialInv, TableInv
    <3>2. S \subseteq Nat
      BY <1>0 DEF TableInv, RowOK, EP!Row, EP!RowsOf
    <3>3. EP!Max(S) \in S /\ \A n \in S : n <= EP!Max(S)
      BY <3>1, <3>2, Greatest
    <3> HIDE DEF S
    <3>4. EP!Max(S) = latest[x]
      <4>1. PICK m : m = EP!Max(S)
        OBVIOUS
      <4>2. /\ m \in Nat /\ latest[x] \in Nat
            /\ m <= latest[x] /\ latest[x] <= m
        BY <3>1, <3>2, <3>3, <4>1
      <4> QED
        BY <4>1, <4>2
    <3> QED
      BY <3>4 DEF S
  <2>2. world.serial /\ EP!Idle /\ failures.n = 0 => vectors = EP!Live
    BY <1>0 DEF InStepInv
  <2> QED
    BY <2>1, <2>2 DEF EP!StoresInStep
<1> QED
  BY <1>1, <1>2, <1>3 DEF MCEpisodesKept

(* A recorded prompt can be recalled: always where nobody runs dedupe, and *)
(* with one dedupe at a time as long as no row was left without its point. *)
(* One dedupe at a time forgets no prompt.  And where operations do not    *)
(* overlap, the newest row of a prompt has the time of its last record,    *)
(* and without failures the collection has exactly the points of the rows. *)
(* For any number of processes, prompts, calls and failures.               *)
THEOREM EpisodesRemembered == MCSpec => []MCEpisodesKept
<1>1. MCInit => EpisodesInv
  BY EpisodesInit DEF MCInit
<1>2. EpisodesInv /\ [MCNext]_allvars => EpisodesInv'
  BY EpisodesNext
<1>3. EpisodesInv => MCEpisodesKept
  BY EpisodesKeep
<1> QED
  BY <1>1, <1>2, <1>3, PTL DEF MCSpec, allvars

-----------------------------------------------------------------------------
(***************************************************************************)
(* What retrieve shows.                                                    *)
(***************************************************************************)
LEMMA SameCount ==
  \A S : /\ EP!Cardinality(S) = Cardinality(S)
         /\ EP!IsFiniteSet(S) <=> IsFiniteSet(S)
<1>1. \A S : EP!Cardinality(S) = Cardinality(S)
  BY Zenon DEF EP!Cardinality, Cardinality
<1>2. \A S : EP!IsFiniteSet(S) <=> IsFiniteSet(S)
  BY Zenon DEF EP!IsFiniteSet, IsFiniteSet
<1> QED
  BY <1>1, <1>2

LEMMA Smaller ==
  ASSUME NEW a \in Nat, NEW b \in Nat
  PROVE  EP!Min({a, b}) = IF a <= b THEN a ELSE b
<1>1. CASE a <= b
  <2>1. \A y \in {a, b} : a <= y
    BY <1>1
  <2>2. \A z \in {a, b} : (\A y \in {a, b} : z <= y) => z = a
    BY <1>1
  <2>3. EP!Min({a, b}) = a
    BY <2>1, <2>2 DEF EP!Min
  <2> QED
    BY <1>1, <2>3
<1>2. CASE ~(a <= b)
  <2>1. \A y \in {a, b} : b <= y
    BY <1>2
  <2>2. \A z \in {a, b} : (\A y \in {a, b} : z <= y) => z = b
    BY <1>2
  <2>3. EP!Min({a, b}) = b
    BY <2>1, <2>2 DEF EP!Min
  <2> QED
    BY <1>2, <2>3
<1> QED
  BY <1>1, <1>2

(* Every place in a set of numbers has its rank, and every rank is one's.  *)
LEMMA Ranked ==
  ASSUME NEW N \in Nat, NEW S \in SUBSET (1 .. N)
  PROVE  /\ IsFiniteSet(S) /\ Cardinality(S) \in Nat /\ Cardinality(S) <= N
         /\ \A n \in 1 .. Cardinality(S) : \E j \in S :
              Cardinality({i \in S : i <= j}) = n
<1> DEFINE Upto(j) == {i \in S : i <= j}
           f == [j \in S |-> Cardinality(Upto(j))]
<1>1. IsFiniteSet(1 .. N) /\ Cardinality(1 .. N) = N
  BY FS_Interval
<1>2. IsFiniteSet(S) /\ Cardinality(S) <= N
  BY <1>1, FS_Subset
<1>3. PICK C \in Nat : C = Cardinality(S)
  BY <1>2, FS_CardinalityType
<1>4. ASSUME NEW j \in S
      PROVE  /\ IsFiniteSet(Upto(j)) /\ j \in Upto(j)
             /\ Cardinality(Upto(j)) \in 1 .. C
  <2>1. Upto(j) \in SUBSET S /\ j \in Upto(j)
    OBVIOUS
  <2>2. IsFiniteSet(Upto(j)) /\ Cardinality(Upto(j)) <= C
    BY <1>2, <1>3, <2>1, FS_Subset
  <2>3. Cardinality(Upto(j)) \in Nat
    BY <2>2, FS_CardinalityType
  <2>4. Cardinality(Upto(j)) # 0
    BY <2>1, <2>2, FS_EmptySet
  <2> QED
    BY <2>1, <2>2, <2>3, <2>4
<1>5. ASSUME NEW j \in S, NEW k \in S, j < k
      PROVE  Cardinality(Upto(j)) # Cardinality(Upto(k))
  <2>0. ~(k <= j) /\ \A i \in S : i <= j => i <= k
    BY <1>5
  <2>a. Upto(j) \in SUBSET Upto(k)
    BY <2>0
  <2>b. k \notin Upto(j)
    BY <2>0
  <2>1. Upto(j) \in SUBSET Upto(k) /\ k \notin Upto(j) /\ k \in Upto(k)
    BY <1>4, <2>a, <2>b
  <2>2. Upto(j) # Upto(k)
    BY <2>1
  <2>3. IsFiniteSet(Upto(k))
    BY <1>4
  <2> HIDE DEF Upto
  <2> QED
    BY <2>1, <2>2, <2>3, FS_Subset
<1>6. f \in Injection(S, 1 .. C)
  <2>1. \A j \in S : f[j] = Cardinality(Upto(j))
    OBVIOUS
  <2>2. f \in [S -> 1 .. C]
    BY <1>4
  <2>3. \A j, k \in S : f[j] = f[k] => j = k
    <3> SUFFICES ASSUME NEW j \in S, NEW k \in S, j # k
                 PROVE  f[j] # f[k]
      OBVIOUS
    <3>1. j < k \/ k < j
      OBVIOUS
    <3> HIDE DEF f, Upto
    <3> QED
      BY <1>5, <2>1, <3>1
  <2> HIDE DEF f
  <2> QED
    BY <2>2, <2>3 DEF Injection, IsInjective
<1>7. IsFiniteSet(1 .. C) /\ Cardinality(1 .. C) = C
  BY FS_Interval
<1> HIDE DEF f
<1>8. f \in Surjection(S, 1 .. C)
  BY <1>3, <1>6, <1>7, FS_Injection
<1>9. \A n \in 1 .. C : \E j \in S : f[j] = n
  BY <1>8 DEF Surjection
<1> QED
  BY <1>2, <1>3, <1>9 DEF f

(* The hits are points, none twice, all there are or as many as asked for. *)
Searched(hits) ==
  \E n \in Nat :
    /\ DOMAIN hits = 1 .. n
    /\ \A j \in 1 .. n : hits[j] \in vectors
    /\ \A j, k \in 1 .. n : hits[j] = hits[k] => j = k
    /\ n = 3 * Limit \/ n = Cardinality(vectors)

(* The prompt of an episode, up to case, spaces and its end. *)
KeyAt(i) == KeyOf[table[i].prompt]

(* Of the usable hits with one prompt the first is kept. *)
LEMMA FirstKept ==
  ASSUME NEW n \in Nat, NEW hits, DOMAIN hits = 1 .. n, NEW x, NEW all,
         NEW j \in 1 .. n, EP!Usable(hits[j], x, all)
  PROVE  \E k \in EP!NewPrompts(x, all, hits) :
           KeyAt(hits[k]) = KeyAt(hits[j])
<1> DEFINE S == {k \in 1 .. n : /\ EP!Usable(hits[k], x, all)
                                /\ KeyAt(hits[k]) = KeyAt(hits[j])}
<1>1. S \subseteq Nat /\ S # {}
  OBVIOUS
<1>2. PICK k \in S : \A m \in S : k <= m
  BY <1>1, Least
<1>3. ASSUME NEW i \in 1 .. k - 1, EP!Usable(hits[i], x, all)
      PROVE  KeyAt(hits[i]) # KeyAt(hits[k])
  <2>1. i \in 1 .. n /\ ~(k <= i)
    BY <1>2
  <2>2. i \notin S
    BY <1>2, <2>1
  <2> QED
    BY <1>2, <1>3, <2>1, <2>2
<1>4. k \in EP!NewPrompts(x, all, hits)
  BY <1>2, <1>3 DEF EP!NewPrompts, KeyAt
<1> QED
  BY <1>2, <1>4

(* A prompt there is has a place that is kept, or a point outside the      *)
(* hits: what the hits lack, they lack for so many points.                 *)
LEMMA Covered ==
  ASSUME IsFiniteSet(vectors), NEW n \in Nat,
         NEW hits, DOMAIN hits = 1 .. n,
         \A j \in 1 .. n : hits[j] \in vectors,
         \A j, k \in 1 .. n : hits[j] = hits[k] => j = k,
         NEW x, NEW all,
         NEW kept, kept = EP!NewPrompts(x, all, hits),
         NEW mine, mine = EP!Keys(x, all)
  PROVE  /\ n <= Cardinality(vectors)
         /\ IsFiniteSet(kept) /\ IsFiniteSet(mine)
         /\ Cardinality(kept) <= Cardinality(mine)
         /\ Cardinality(mine) <=
              Cardinality(kept) + (Cardinality(vectors) - n)
<1> DEFINE hit == {hits[j] : j \in 1 .. n}
           left == vectors \ hit
           said == {KeyAt(hits[j]) : j \in kept}
           rest == {KeyAt(i) : i \in left}
<1>1. kept \in SUBSET (1 .. n)
  BY DEF EP!NewPrompts
<1>2. IsFiniteSet(1 .. n) /\ Cardinality(1 .. n) = n
  BY FS_Interval
<1>3. IsFiniteSet(kept)
  BY <1>1, <1>2, FS_Subset
<1>4. Cardinality(hit) = n /\ hit \in SUBSET vectors
  <2> DEFINE h == [j \in 1 .. n |-> hits[j]]
  <2>1. h \in [1 .. n -> hit] /\ \A j \in 1 .. n : h[j] = hits[j]
    OBVIOUS
  <2>2. hit \in SUBSET vectors
    OBVIOUS
  <2>3. IsFiniteSet(hit)
    BY <2>2, FS_Subset
  <2>4. \A i \in hit : \E j \in 1 .. n : h[j] = i
    OBVIOUS
  <2> HIDE DEF h, hit
  <2>5. h \in Injection(1 .. n, hit)
    BY <2>1 DEF Injection, IsInjective
  <2>6. h \in Surjection(1 .. n, hit)
    BY <2>1, <2>4 DEF Surjection
  <2>7. Cardinality(1 .. n) = Cardinality(hit)
    BY <2>3, <2>5, <2>6, FS_Injection
  <2> QED
    BY <1>2, <2>2, <2>7
<1>5. /\ IsFiniteSet(left)
      /\ Cardinality(left) = Cardinality(vectors) - n
      /\ n <= Cardinality(vectors)
  <2> HIDE DEF hit
  <2>1. /\ IsFiniteSet(vectors \ hit)
        /\ Cardinality(vectors \ hit) =
             Cardinality(vectors) - Cardinality(vectors \cap hit)
    BY FS_Difference
  <2>2. vectors \cap hit = hit
    BY <1>4
  <2>3. Cardinality(hit) <= Cardinality(vectors)
    BY <1>4, FS_Subset
  <2> QED
    BY <1>4, <2>1, <2>2, <2>3
<1>6. IsFiniteSet(said) /\ Cardinality(said) <= Cardinality(kept)
  <2> DEFINE h == [j \in kept |-> KeyAt(hits[j])]
  <2>1. h \in Surjection(kept, said)
    BY DEF Surjection
  <2> HIDE DEF h, said
  <2> QED
    BY <1>3, <2>1, FS_Surjection
<1>7. IsFiniteSet(rest) /\ Cardinality(rest) <= Cardinality(left)
  <2> DEFINE h == [i \in left |-> KeyAt(i)]
  <2> HIDE DEF left
  <2>1. h \in Surjection(left, rest)
    BY DEF Surjection
  <2> HIDE DEF h, rest
  <2> QED
    BY <1>5, <2>1, FS_Surjection
<1>8. mine \in SUBSET (said \cup rest)
  <2> SUFFICES ASSUME NEW i \in vectors, EP!Usable(i, x, all)
               PROVE  KeyAt(i) \in said \cup rest
    BY DEF EP!Keys, KeyAt
  <2>1. CASE i \in hit
    <3>1. PICK j \in 1 .. n : hits[j] = i
      BY <2>1
    <3>2. \E k \in kept : KeyAt(hits[k]) = KeyAt(hits[j])
      BY <3>1, FirstKept
    <3> QED
      BY <3>1, <3>2
  <2>2. CASE i \notin hit
    BY <2>2
  <2> QED
    BY <2>1, <2>2
<1>9. said \in SUBSET mine
  BY DEF EP!Keys, EP!NewPrompts, KeyAt
<1>10. Cardinality(said) = Cardinality(kept)
  <2> DEFINE h == [j \in kept |-> KeyAt(hits[j])]
  <2>1. h \in [kept -> said] /\ \A j \in kept : h[j] = KeyAt(hits[j])
    OBVIOUS
  <2>2. \A y \in said : \E j \in kept : h[j] = y
    OBVIOUS
  <2>3. \A j, k \in kept : KeyAt(hits[j]) = KeyAt(hits[k]) => j = k
    <3> SUFFICES ASSUME NEW j \in kept, NEW k \in kept, j # k
                 PROVE  KeyAt(hits[j]) # KeyAt(hits[k])
      OBVIOUS
    <3>1. j \in 1 .. k - 1 \/ k \in 1 .. j - 1
      BY <1>1
    <3> QED
      BY <3>1 DEF EP!NewPrompts, KeyAt
  <2> HIDE DEF h, said
  <2>4. h \in Injection(kept, said)
    BY <2>1, <2>3 DEF Injection, IsInjective
  <2>5. h \in Surjection(kept, said)
    BY <2>1, <2>2 DEF Surjection
  <2> QED
    BY <1>3, <1>6, <2>4, <2>5, FS_Injection
<1> HIDE DEF said, rest, left, hit
<1>11. /\ IsFiniteSet(said \cup rest)
       /\ Cardinality(said \cup rest) =
            Cardinality(said) + Cardinality(rest) - Cardinality(said \cap rest)
  BY <1>6, <1>7, FS_Union
<1>12. Cardinality(said \cap rest) \in Nat
  BY <1>6, FS_Intersection, FS_CardinalityType
<1>13. /\ IsFiniteSet(mine)
       /\ Cardinality(mine) <= Cardinality(said \cup rest)
  BY <1>8, <1>11, FS_Subset
<1>14. Cardinality(said) <= Cardinality(mine)
  BY <1>9, <1>13, FS_Subset
<1>15. /\ Cardinality(said) \in Nat /\ Cardinality(rest) \in Nat
       /\ Cardinality(left) \in Nat /\ Cardinality(mine) \in Nat
       /\ Cardinality(vectors) \in Nat /\ Cardinality(kept) \in Nat
  BY <1>3, <1>5, <1>6, <1>7, <1>13, FS_CardinalityType
<1> QED
  BY <1>3, <1>5, <1>7, <1>10, <1>11, <1>12, <1>13, <1>14, <1>15

(* An answer: usable points, prompts that differ, and how many.            *)
Shown(shown, x, all, n) ==
  /\ \A j \in DOMAIN shown :
       shown[j] \in vectors /\ EP!Usable(shown[j], x, all)
  /\ \A j, k \in DOMAIN shown : KeyAt(shown[j]) = KeyAt(shown[k]) => j = k
  /\ Len(shown) <= Limit /\ Len(shown) <= n
  /\ EP!Cardinality(vectors) - n <= 2 * Limit =>
       Len(shown) = EP!Min({Limit, n})

LEMMA Shows ==
  ASSUME IsFiniteSet(vectors), Limit \in Nat \ {0},
         NEW hits, Searched(hits), NEW x, NEW all,
         NEW shown, shown = EP!filter_episodes(x, all, hits)
  PROVE  Shown(shown, x, all, EP!Cardinality(EP!Keys(x, all)))
<1>1. PICK n \in Nat :
        /\ DOMAIN hits = 1 .. n
        /\ \A j \in 1 .. n : hits[j] \in vectors
        /\ \A j, k \in 1 .. n : hits[j] = hits[k] => j = k
        /\ n = 3 * Limit \/ n = Cardinality(vectors)
  BY DEF Searched
<1> DEFINE kept == EP!NewPrompts(x, all, hits)
           mine == EP!Keys(x, all)
<1>2. /\ kept \in SUBSET (1 .. n)
      /\ \A j \in kept : EP!Usable(hits[j], x, all)
  BY <1>1 DEF EP!NewPrompts
<1>3. \A j, k \in kept : KeyAt(hits[j]) = KeyAt(hits[k]) => j = k
  <2> SUFFICES ASSUME NEW j \in kept, NEW k \in kept, j # k
               PROVE  KeyAt(hits[j]) # KeyAt(hits[k])
    OBVIOUS
  <2>1. j \in 1 .. k - 1 \/ k \in 1 .. j - 1
    BY <1>2
  <2> QED
    BY <2>1 DEF EP!NewPrompts, KeyAt
<1>4. /\ n <= Cardinality(vectors)
      /\ IsFiniteSet(kept) /\ IsFiniteSet(mine)
      /\ Cardinality(kept) <= Cardinality(mine)
      /\ Cardinality(mine) <= Cardinality(kept) + (Cardinality(vectors) - n)
  BY <1>1, Covered
<1> HIDE DEF kept, mine
<1>5. \A m \in 1 .. Cardinality(kept) : \E j \in kept :
        EP!Cardinality({i \in kept : i <= j}) = m
  <2> SUFFICES ASSUME NEW m \in 1 .. Cardinality(kept)
               PROVE  \E j \in kept : EP!Cardinality({i \in kept : i <= j}) = m
    OBVIOUS
  <2>1. PICK j \in kept : Cardinality({i \in kept : i <= j}) = m
    BY <1>2, Ranked
  <2>2. EP!Cardinality({i \in kept : i <= j}) =
          Cardinality({i \in kept : i <= j})
    BY SameCount
  <2> QED
    BY <2>1, <2>2
<1>6. PICK C \in Nat, D \in Nat, V \in Nat :
        C = Cardinality(kept) /\ D = Cardinality(mine)
        /\ V = Cardinality(vectors)
  BY <1>4, FS_CardinalityType
<1>7. PICK M \in Nat : M = EP!Min({Limit, C})
  BY Smaller
<1>8. M <= Limit /\ M <= C /\ (M = Limit \/ M = C)
  BY <1>7, Smaller
<1> DEFINE Nth(m) ==
             CHOOSE j \in kept : EP!Cardinality({i \in kept : i <= j}) = m
<1>9. shown = [m \in 1 .. M |-> hits[Nth(m)]]
  <2>1. EP!filter_episodes(x, all, hits) =
          [m \in 1 .. EP!Min({Limit, EP!Cardinality(kept)}) |->
             hits[CHOOSE j \in kept :
                    EP!Cardinality({i \in kept : i <= j}) = m]]
    BY DEF EP!filter_episodes, kept
  <2>2. EP!Cardinality(kept) = C
    BY <1>6, SameCount
  <2> QED
    BY <1>7, <2>1, <2>2
<1>10. /\ DOMAIN shown = 1 .. M
       /\ \A m \in 1 .. M : shown[m] = hits[Nth(m)]
  BY <1>9
<1>11. ASSUME NEW m \in 1 .. M
       PROVE  /\ Nth(m) \in kept
              /\ EP!Cardinality({i \in kept : i <= Nth(m)}) = m
  <2>1. m \in 1 .. C
    BY <1>8
  <2> QED
    BY <1>5, <1>6, <2>1
<1> HIDE DEF Nth
<1>12. \A m, l \in 1 .. M : KeyAt(shown[m]) = KeyAt(shown[l]) => m = l
  <2> SUFFICES ASSUME NEW m \in 1 .. M, NEW l \in 1 .. M,
                      KeyAt(shown[m]) = KeyAt(shown[l])
               PROVE  m = l
    OBVIOUS
  <2>1. PICK j, k : j = Nth(m) /\ k = Nth(l)
    OBVIOUS
  <2>2. /\ j \in kept /\ k \in kept
        /\ shown[m] = hits[j] /\ shown[l] = hits[k]
    BY <1>10, <1>11, <2>1
  <2>3. Nth(m) = Nth(l)
    BY <1>3, <2>1, <2>2
  <2> QED
    BY <1>11, <2>3
<1>13. \A m \in 1 .. M :
         shown[m] \in vectors /\ EP!Usable(shown[m], x, all)
  BY <1>1, <1>2, <1>10, <1>11
<1>14. Len(shown) = M
  <2>1. PICK f : f = [m \in 1 .. M |-> hits[Nth(m)]]
    OBVIOUS
  <2>2. Len(f) = M
    BY <2>1
  <2> QED
    BY <1>9, <2>1, <2>2, Zenon
<1>15. ASSUME V - D <= 2 * Limit
       PROVE  M = EP!Min({Limit, D})
  <2>1. CASE n = V
    <3>1. C = D
      BY <1>4, <1>6, <2>1
    <3> QED
      BY <1>7, <3>1
  <2>2. CASE n = 3 * Limit
    <3>1. C >= Limit /\ D >= Limit
      BY <1>4, <1>6, <1>15, <2>2
    <3>2. M = Limit
      BY <1>7, <3>1, Smaller
    <3>3. EP!Min({Limit, D}) = Limit
      BY <3>1, Smaller
    <3> QED
      BY <3>2, <3>3
  <2> QED
    BY <1>1, <1>6, <2>1, <2>2
<1>16. EP!Cardinality(mine) = D /\ EP!Cardinality(vectors) = V
  BY <1>6, SameCount
<1>17. M <= D
  BY <1>4, <1>6, <1>8
<1> QED
  BY <1>8, <1>10, <1>12, <1>13, <1>14, <1>15, <1>16, <1>17 DEF Shown, mine

(* A query that was answered knows the points, and they have stayed.       *)
SearchInv ==
  /\ IsFiniteSet(EP!Live) /\ IsFiniteSet(vectors)
  /\ world.serial => \A p \in Proc :
       EP!Now(p, "by_ids") => Searched(doing[p].hits)

LEMMA SearchInit ==
  ASSUME EP!Init
  PROVE  SearchInv
<1> DEFINE L == world.legacy
<1>1. world \in EpisodeScenes /\ vectors = {r.id : r \in L}
  BY DEF EP!Init
<1>2. IsFiniteSet(L)
  BY <1>1, SameCount, MemoryAssumption DEF EP!EpisodesAssumption
<1>3. IsFiniteSet(vectors)
  <2> DEFINE h == [r \in L |-> r.id]
  <2>1. h \in Surjection(L, vectors)
    BY <1>1 DEF Surjection
  <2> QED
    BY <1>2, <2>1, FS_Surjection
<1>4. EP!Live \in SUBSET vectors
  BY <1>1 DEF EP!Init, EP!Live
<1>5. \A p \in Proc : ~EP!Now(p, "by_ids")
  BY DEF EP!Init, EP!Now, EP!Free
<1> QED
  BY <1>3, <1>4, <1>5, FS_Subset DEF SearchInv

(* A step adds a row or a point at most. *)
LEMMA OneMore ==
  ASSUME TableInv, EP!Next
  PROVE  \E i : /\ EP!Live' \subseteq EP!Live \cup {i}
                /\ vectors' \subseteq vectors \cup {i}
<1> USE DEF TableInv, EP!Live
<1>1. PICK p \in Proc :
        \/ \E x \in Prompt : \/ \E v \in EP!Verdict : EP!Record(p, x, v)
                             \/ \E all \in BOOLEAN : EP!Search(p, x, all)
        \/ EP!Select(p) \/ EP!Insert(p) \/ EP!Refresh(p) \/ EP!Upsert(p)
        \/ EP!Dedupe(p) \/ EP!Groups(p) \/ EP!First(p) \/ EP!Compact(p)
        \/ EP!Prune(p) \/ EP!ById(p) \/ EP!Reset(p) \/ EP!Unlink(p)
        \/ EP!Die(p)
  BY DEF EP!Next
<1>2. CASE \/ \E x \in Prompt : \/ \E v \in EP!Verdict : EP!Record(p, x, v)
                                \/ \E all \in BOOLEAN : EP!Search(p, x, all)
           \/ EP!Select(p) \/ EP!Groups(p) \/ EP!First(p) \/ EP!ById(p)
           \/ EP!Die(p)
  BY <1>2 DEF EP!Record, EP!Search, EP!Select, EP!Groups, EP!First,
              EP!ById, EP!Die
<1>3. CASE EP!Insert(p)
  <2>1. PICK r : table' = [table EXCEPT ![doing[p].id] = r]
    BY <1>3 DEF EP!Insert
  <2>2. vectors' = vectors
    BY <1>3 DEF EP!Insert
  <2>3. EP!Live' \subseteq EP!Live \cup {doing[p].id}
    BY <2>1
  <2> QED
    BY <2>2, <2>3
<1>4. CASE EP!Refresh(p) \/ EP!Dedupe(p) \/ EP!Compact(p)
  <2>1. /\ \A i \in EpisodeId : table[i] = NoRow => table'[i] = NoRow
        /\ vectors' = vectors
    BY <1>4 DEF EP!Refresh, EP!Dedupe, EP!Compact
  <2> QED
    BY <2>1
<1>5. CASE EP!Upsert(p) \/ EP!Prune(p) \/ EP!Reset(p) \/ EP!Unlink(p)
  <2>1. /\ \A i \in EpisodeId : table'[i] # NoRow => table[i] # NoRow
        /\ vectors' \subseteq vectors \cup {doing[p].id}
    BY <1>5 DEF EP!Upsert, EP!Prune, EP!Reset, EP!Unlink
  <2> QED
    BY <2>1
<1> QED
  BY <1>1, <1>2, <1>3, <1>4, <1>5

(* One process acts; an answered query is dropped, or shown. *)
LEMMA OneActs ==
  ASSUME TableInv, NEW q \in Proc,
         \/ \E x \in Prompt : \/ \E v \in EP!Verdict : EP!Record(q, x, v)
                              \/ \E all \in BOOLEAN : EP!Search(q, x, all)
         \/ EP!Select(q) \/ EP!Insert(q) \/ EP!Refresh(q) \/ EP!Upsert(q)
         \/ EP!Dedupe(q) \/ EP!Groups(q) \/ EP!First(q) \/ EP!Compact(q)
         \/ EP!Prune(q) \/ EP!ById(q) \/ EP!Reset(q) \/ EP!Unlink(q)
         \/ EP!Die(q)
  PROVE  /\ world' = world
         /\ EP!Now(q, "idle") => (world.serial => EP!Idle)
         /\ \A p \in Proc : p # q => doing'[p] = doing[p]
         /\ doing'[q].pc = "by_ids" =>
              \E x \in Prompt, all \in BOOLEAN : EP!Search(q, x, all)
         /\ EP!Now(q, "by_ids") /\ failures' = failures => EP!ById(q)
<1>0. /\ DOMAIN doing = Proc /\ OpOK(doing[q])
      /\ failures.n \in Nat
  BY DEF TableInv
<1> DEFINE r == doing[q]
<1>r. r = [pc |-> r.pc, prompt |-> r.prompt, ts |-> r.ts, id |-> r.id,
           groups |-> r.groups, seen |-> r.seen, del |-> r.del,
           hits |-> r.hits, shown |-> r.shown,
           verdict |-> r.verdict, all |-> r.all]
  BY <1>0 DEF OpOK
<1>f. EP!Free = [pc |-> "idle", prompt |-> NoRow, ts |-> 0, id |-> NoRow,
                 groups |-> {}, seen |-> {}, del |-> {}, hits |-> <<>>,
                 shown |-> <<>>,
                 verdict |-> "none", all |-> FALSE]
  BY DEF EP!Free
<1>1. ASSUME NEW o, doing' = [doing EXCEPT ![q] = o]
      PROVE  doing'[q] = o /\ \A p \in Proc : p # q => doing'[p] = doing[p]
  BY <1>0, <1>1
<1>2. ASSUME EP!Fails(q) PROVE failures' # failures
  <2>1. failures'.n = failures.n + 1
    BY <1>2 DEF EP!Fails
  <2> QED
    BY <1>0, <2>1
<1> HIDE DEF r
<1>3. CASE \E x \in Prompt, v \in EP!Verdict : EP!Record(q, x, v)
  <2>1. PICK t, x, v : doing' = [doing EXCEPT ![q] =
          [EP!Free EXCEPT !.pc = "select", !.prompt = x, !.ts = t,
                          !.verdict = v]]
    BY <1>3 DEF EP!Record, EP!Goto
  <2>2. [EP!Free EXCEPT !.pc = "select", !.prompt = x, !.ts = t,
                        !.verdict = v].pc = "select"
    BY <1>f
  <2> QED
    BY <1>1, <1>3, <2>1, <2>2 DEF EP!Record, EP!Begin, EP!Now
<1>4. CASE \E x \in Prompt, all \in BOOLEAN : EP!Search(q, x, all)
  <2>1. PICK o : doing' = [doing EXCEPT ![q] = o]
    BY <1>4 DEF EP!Search, EP!Goto
  <2> QED
    BY <1>1, <1>4, <2>1 DEF EP!Search, EP!Begin, EP!Now
<1>5. CASE EP!Select(q)
  <2>1. PICK i \in EpisodeId, l \in {"insert", "refresh"} :
          doing' = [doing EXCEPT ![q] = [r EXCEPT !.id = i, !.pc = l]]
    <3>1. \A i \in EP!Hashed(r.prompt) : i \in EpisodeId
      BY DEF EP!Hashed, EP!RowsOf, EP!Live
    <3> QED
      BY <1>5, <3>1 DEF EP!Select, EP!Goto, r
  <2>2. [r EXCEPT !.id = i, !.pc = l].pc = l
    BY <1>r
  <2> QED
    BY <1>1, <1>5, <2>1, <2>2 DEF EP!Select, EP!Now
<1>6. CASE EP!Insert(q) \/ EP!Refresh(q)
  <2>1. doing' = [doing EXCEPT ![q] = [r EXCEPT !.pc = "embed"]]
    BY <1>6 DEF EP!Insert, EP!Refresh, EP!Goto, r
  <2>2. [r EXCEPT !.pc = "embed"].pc = "embed"
    BY <1>r
  <2> QED
    BY <1>1, <1>6, <2>1, <2>2 DEF EP!Insert, EP!Refresh, EP!Now
<1>7. CASE EP!Upsert(q) \/ EP!Prune(q) \/ EP!ById(q) \/ EP!Unlink(q)
  <2>1. PICK o : doing' = [doing EXCEPT ![q] = o] /\ o.pc = "idle"
    <3>1. CASE EP!ById(q)
      <4>1. PICK s, x : doing' = [doing EXCEPT ![q] =
              [EP!Free EXCEPT !.prompt = x, !.shown = s]]
        BY <3>1 DEF EP!ById, EP!Goto
      <4>2. [EP!Free EXCEPT !.prompt = x, !.shown = s].pc = "idle"
        BY <1>f
      <4> QED
        BY <4>1, <4>2
    <3>2. CASE ~EP!ById(q)
      BY <1>7, <1>f, <3>2
      DEF EP!Upsert, EP!Prune, EP!Unlink, EP!Goto, EP!Abort
    <3> QED
      BY <3>1, <3>2
  <2> QED
    BY <1>1, <1>7, <2>1
    DEF EP!Upsert, EP!Prune, EP!ById, EP!Unlink, EP!Now
<1>8. CASE EP!Dedupe(q) \/ EP!Reset(q)
  <2>1. PICK l \in {"groups", "unlink"} :
          doing' = [doing EXCEPT ![q] = [EP!Free EXCEPT !.pc = l]]
    BY <1>8 DEF EP!Dedupe, EP!Reset, EP!Goto
  <2>2. [EP!Free EXCEPT !.pc = l].pc = l
    BY <1>f
  <2> QED
    BY <1>1, <1>8, <2>1, <2>2
    DEF EP!Dedupe, EP!Reset, EP!Begin, EP!Now
<1>9. CASE EP!Groups(q)
  <2>1. \/ doing' = [doing EXCEPT ![q] = EP!Free]
        \/ \E g : doing' =
             [doing EXCEPT ![q] = [r EXCEPT !.pc = "first", !.groups = g]]
    BY <1>9 DEF EP!Groups, EP!Goto, r
  <2>2. \A g : [r EXCEPT !.pc = "first", !.groups = g].pc = "first"
    BY <1>r
  <2>3. PICK o : /\ doing' = [doing EXCEPT ![q] = o]
                 /\ o.pc \in {"idle", "first"}
    <3>1. CASE doing' = [doing EXCEPT ![q] = EP!Free]
      <4>1. EP!Free.pc = "idle"
        BY <1>f
      <4>2. PICK o : o = EP!Free
        OBVIOUS
      <4> QED
        BY <3>1, <4>1, <4>2
    <3>2. ASSUME NEW g, doing' =
            [doing EXCEPT ![q] = [r EXCEPT !.pc = "first", !.groups = g]]
          PROVE  \E o : /\ doing' = [doing EXCEPT ![q] = o]
                        /\ o.pc \in {"idle", "first"}
      BY <2>2, <3>2
    <3> QED
      BY <2>1, <3>1, <3>2
  <2> QED
    BY <1>1, <1>9, <2>3 DEF EP!Groups, EP!Now
<1>10. CASE EP!First(q)
  <2>1. PICK x, s : doing' = [doing EXCEPT ![q] =
          [r EXCEPT !.pc = "compact", !.prompt = x, !.seen = s]]
    BY <1>10 DEF EP!First, EP!Goto, r
  <2>2. [r EXCEPT !.pc = "compact", !.prompt = x, !.seen = s].pc = "compact"
    BY <1>r
  <2> QED
    BY <1>1, <1>10, <2>1, <2>2 DEF EP!First, EP!Now
<1>11. CASE EP!Compact(q)
  <2>1. \/ doing' = [doing EXCEPT ![q] = EP!Free]
        \/ \E d : doing' =
             [doing EXCEPT ![q] = [r EXCEPT !.pc = "prune", !.del = d]]
    BY <1>11 DEF EP!Compact, EP!Goto, EP!Abort, r
  <2>2. \A d : [r EXCEPT !.pc = "prune", !.del = d].pc = "prune"
    BY <1>r
  <2>3. PICK o : /\ doing' = [doing EXCEPT ![q] = o]
                 /\ o.pc \in {"idle", "prune"}
    <3>1. CASE doing' = [doing EXCEPT ![q] = EP!Free]
      <4>1. EP!Free.pc = "idle"
        BY <1>f
      <4>2. PICK o : o = EP!Free
        OBVIOUS
      <4> QED
        BY <3>1, <4>1, <4>2
    <3>2. ASSUME NEW d, doing' =
            [doing EXCEPT ![q] = [r EXCEPT !.pc = "prune", !.del = d]]
          PROVE  \E o : /\ doing' = [doing EXCEPT ![q] = o]
                        /\ o.pc \in {"idle", "prune"}
      BY <2>2, <3>2
    <3> QED
      BY <2>1, <3>1, <3>2
  <2> QED
    BY <1>1, <1>11, <2>3 DEF EP!Compact, EP!Now
<1>12. CASE EP!Die(q)
  <2>1. doing' = [doing EXCEPT ![q] = EP!Free] /\ EP!Free.pc = "idle"
    BY <1>12, <1>f DEF EP!Die, EP!Goto, EP!Abort
  <2> QED
    BY <1>1, <1>2, <1>12, <2>1 DEF EP!Die, EP!Abort, EP!Now
<1> QED
  BY <1>3, <1>4, <1>5, <1>6, <1>7, <1>8, <1>9, <1>10, <1>11, <1>12

LEMMA Prefix ==
  ASSUME NEW T, NEW s \in Seq(T), NEW n \in Nat, n <= Len(s)
  PROVE  /\ SubSeq(s, 1, n) \in Seq(T) /\ Len(SubSeq(s, 1, n)) = n
         /\ \A j \in 1 .. n : SubSeq(s, 1, n)[j] = s[j]
<1> DEFINE u == SubSeq(s, 1, n)
<1>0. Len(s) \in Nat
  OBVIOUS
<1>1. u \in Seq(T) /\ Len(u) = n /\ \A j \in 1 .. n : u[j] = s[j]
  BY <1>0, SubSeqProperties
<1> QED
  BY <1>1

(* The answer of a query. *)
LEMMA Hits ==
  ASSUME IsFiniteSet(vectors), Limit \in Nat,
         NEW s \in EP!SetToSeqs(vectors), NEW h,
         h = SubSeq(s, 1, EP!Min({EP!Window, Len(s)}))
  PROVE  Searched(h)
<1>1. PICK c \in Nat : c = Cardinality(vectors)
  BY FS_CardinalityType
<1>2. /\ s \in [1 .. c -> vectors]
      /\ \A j, k \in 1 .. c : j # k => s[j] # s[k]
  BY <1>1, SameCount DEF EP!SetToSeqs
<1>3. s \in Seq(vectors) /\ Len(s) = c
  BY <1>2
<1>4. PICK n \in Nat : n = EP!Min({3 * Limit, c})
  BY Smaller
<1>5. n <= c /\ (n = 3 * Limit \/ n = c)
  BY <1>4, Smaller
<1>6. h = SubSeq(s, 1, n)
  BY <1>3, <1>4 DEF EP!Window
<1>7. \A j \in 1 .. n : s[j] \in vectors
  BY <1>2, <1>5
<1>8. /\ h \in Seq(vectors) /\ Len(h) = n
      /\ \A j \in 1 .. n : h[j] = s[j]
  <2>1. n <= Len(s)
    BY <1>3, <1>5
  <2>2. /\ SubSeq(s, 1, n) \in Seq(vectors) /\ Len(SubSeq(s, 1, n)) = n
        /\ \A j \in 1 .. n : SubSeq(s, 1, n)[j] = s[j]
    BY <1>3, <2>1, Prefix
  <2> QED
    BY <1>6, <2>2, Zenon
<1>9. \A j \in 1 .. n : h[j] = s[j]
  BY <1>8
<1>10. DOMAIN h = 1 .. n
  BY <1>8, <1>9
<1>11. \A j, k \in 1 .. n : h[j] = h[k] => j = k
  <2>1. \A j \in 1 .. n : j \in 1 .. c
    BY <1>5
  <2> QED
    BY <1>2, <1>9, <2>1
<1> QED
  BY <1>1, <1>5, <1>7, <1>9, <1>10, <1>11 DEF Searched

LEMMA SearchNext ==
  ASSUME EpisodesInv, SearchInv, EP!Next
  PROVE  SearchInv'
<1>0. TableInv /\ WorkInv
  BY DEF EpisodesInv
<1>1. IsFiniteSet(EP!Live') /\ IsFiniteSet(vectors')
  <2>1. PICK i : /\ EP!Live' \subseteq EP!Live \cup {i}
                 /\ vectors' \subseteq vectors \cup {i}
    BY <1>0, OneMore
  <2>2. /\ IsFiniteSet(EP!Live \cup {i}) /\ IsFiniteSet(vectors \cup {i})
        /\ EP!Live' \in SUBSET (EP!Live \cup {i})
        /\ vectors' \in SUBSET (vectors \cup {i})
    BY <2>1, FS_AddElement DEF SearchInv
  <2> QED
    BY <2>2, FS_Subset
<1>2. PICK q \in Proc :
        \/ \E x \in Prompt : \/ \E v \in EP!Verdict : EP!Record(q, x, v)
                             \/ \E all \in BOOLEAN : EP!Search(q, x, all)
        \/ EP!Select(q) \/ EP!Insert(q) \/ EP!Refresh(q) \/ EP!Upsert(q)
        \/ EP!Dedupe(q) \/ EP!Groups(q) \/ EP!First(q) \/ EP!Compact(q)
        \/ EP!Prune(q) \/ EP!ById(q) \/ EP!Reset(q) \/ EP!Unlink(q)
        \/ EP!Die(q)
  BY DEF EP!Next
<1>3. /\ world' = world
      /\ EP!Now(q, "idle") => (world.serial => EP!Idle)
      /\ \A p \in Proc : p # q => doing'[p] = doing[p]
      /\ doing'[q].pc = "by_ids" =>
              \E x \in Prompt, all \in BOOLEAN : EP!Search(q, x, all)
  BY <1>0, <1>2, OneActs
<1>4. ASSUME world.serial, NEW p \in Proc, doing'[p].pc = "by_ids"
      PROVE  Searched(doing[p].hits)'
  <2>1. p = q
    <3>1. CASE p # q
      <4>1. ~EP!Now(p, "idle")
        BY <1>3, <1>4, <3>1 DEF EP!Now
      <4>2. EP!Now(q, "idle")
        BY <1>0, <1>4, <3>1, <4>1 DEF WorkInv
      <4> QED
        BY <1>3, <1>4, <4>1, <4>2 DEF EP!Idle
    <3> QED
      BY <3>1
  <2>2. PICK x \in Prompt, all \in BOOLEAN : EP!Search(q, x, all)
    BY <1>3, <1>4, <2>1
  <2>s. PICK s \in EP!SetToSeqs(vectors) :
          doing' = [doing EXCEPT ![q] =
            [EP!Free EXCEPT !.pc = "by_ids", !.prompt = x, !.all = all,
               !.hits = SubSeq(s, 1, EP!Min({EP!Window, Len(s)}))]]
    BY <2>2 DEF EP!Search, EP!Goto
  <2>h. PICK h : h = SubSeq(s, 1, EP!Min({EP!Window, Len(s)}))
    OBVIOUS
  <2>3. doing' = [doing EXCEPT ![q] =
          [EP!Free EXCEPT !.pc = "by_ids", !.prompt = x, !.all = all,
             !.hits = h]]
    BY <2>s, <2>h
  <2>4. vectors' = vectors
    BY <2>2 DEF EP!Search
  <2>5. Limit \in Nat
    BY MemoryAssumption DEF EP!EpisodesAssumption
  <2>6. Searched(h)
    BY <2>h, <2>5, Hits DEF SearchInv
  <2>7. doing'[q].hits = h
    BY <1>0, <2>3 DEF EP!Free, TableInv
  <2> QED
    BY <2>1, <2>4, <2>6, <2>7 DEF Searched
<1> QED
  BY <1>1, <1>3, <1>4 DEF SearchInv, EP!Now

LEMMA RecallStep ==
  ASSUME EpisodesInv, SearchInv, EP!Next, NEW p \in Proc,
         EP!Now(p, "by_ids"), doing'[p].pc = "idle", failures' = failures,
         world.serial, NEW x, x = doing[p].prompt, NEW all, all = doing[p].all
  PROVE  Shown(doing'[p].shown, x, all, EP!Cardinality(EP!Keys(x, all)))
<1>0. TableInv
  BY DEF EpisodesInv
<1>1. PICK q \in Proc :
        \/ \E y \in Prompt : \/ \E v \in EP!Verdict : EP!Record(q, y, v)
                             \/ \E b \in BOOLEAN : EP!Search(q, y, b)
        \/ EP!Select(q) \/ EP!Insert(q) \/ EP!Refresh(q) \/ EP!Upsert(q)
        \/ EP!Dedupe(q) \/ EP!Groups(q) \/ EP!First(q) \/ EP!Compact(q)
        \/ EP!Prune(q) \/ EP!ById(q) \/ EP!Reset(q) \/ EP!Unlink(q)
        \/ EP!Die(q)
  BY DEF EP!Next
<1>2. /\ \A r \in Proc : r # q => doing'[r] = doing[r]
      /\ EP!Now(q, "by_ids") /\ failures' = failures => EP!ById(q)
  BY <1>0, <1>1, OneActs
<1>3. p = q
  BY <1>2 DEF EP!Now
<1>4. EP!ById(p)
  BY <1>2, <1>3
<1>5. PICK hits : hits = doing[p].hits
  OBVIOUS
<1>6. PICK shown : shown = EP!filter_episodes(x, all, hits)
  OBVIOUS
<1>7. doing' = [doing EXCEPT ![p] =
                  [EP!Free EXCEPT !.prompt = x, !.shown = shown]]
  BY <1>4, <1>5, <1>6 DEF EP!ById, EP!Goto
<1>8. doing'[p].shown = shown
  BY <1>0, <1>7 DEF TableInv, EP!Free
<1>9. Searched(hits) /\ IsFiniteSet(vectors)
  BY <1>5 DEF SearchInv
<1>10. Limit \in Nat \ {0}
  BY MemoryAssumption DEF EP!EpisodesAssumption
<1>11. Shown(shown, x, all, EP!Cardinality(EP!Keys(x, all)))
  BY <1>6, <1>9, <1>10, Shows
<1> QED
  BY <1>8, <1>11

(* Where operations do not overlap, retrieve shows episodes that may be    *)
(* shown, no prompt twice and never the query, and as many as asked for or *)
(* all there are, unless the points of no use to it are more than twice    *)
(* the limit: it searches three times as many as it shows and filters      *)
(* them afterwards.  For any number of episodes and processes.             *)
THEOREM RecallFills == MCSpec => MCRecallComplete
<1>1. MCInit => EpisodesInv /\ SearchInv
  BY EpisodesInit, SearchInit DEF MCInit
<1>2. EpisodesInv /\ SearchInv /\ [MCNext]_allvars
        => EpisodesInv' /\ SearchInv'
  <2> SUFFICES ASSUME EpisodesInv, SearchInv, [MCNext]_allvars
               PROVE  EpisodesInv' /\ SearchInv'
    OBVIOUS
  <2>1. CASE UNCHANGED episodeVars
    <3>1. SearchInv'
      BY <2>1, SameTable
      DEF episodeVars, SearchInv, Searched, EP!Now
    <3> QED
      BY <3>1, EpisodesNext
  <2>2. CASE EP!Next
    BY <2>2, EpisodesNext, SearchNext
  <2> QED
    BY <2>1, <2>2, MemorySteps
<1>3. EpisodesInv /\ SearchInv /\ [MCNext]_allvars =>
        [\A p \in Proc : EP!Fills(p)]_EP!evars
  <2> SUFFICES ASSUME EpisodesInv, SearchInv, EP!Next, NEW p \in Proc
               PROVE  EP!Fills(p)
    BY MemorySteps DEF EP!evars, episodeVars
  <2>1. PICK x, all : x = doing[p].prompt /\ all = doing[p].all
    OBVIOUS
  <2>2. /\ EP!Now(p, "by_ids") /\ doing'[p].pc = "idle"
        /\ failures' = failures /\ world.serial
        => Shown(doing'[p].shown, x, all, EP!Cardinality(EP!Keys(x, all)))
    BY <2>1, RecallStep
  <2> QED
    BY <2>1, <2>2 DEF EP!Fills, Shown, KeyAt
<1>4. MCSpec => MCInit /\ [][MCNext]_allvars
  BY PTL DEF MCSpec, allvars
<1> QED
  BY <1>1, <1>2, <1>3, <1>4, PTL DEF MCRecallComplete, EP!RecallComplete
=============================================================================
