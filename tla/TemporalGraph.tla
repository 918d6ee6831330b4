---------------------------- MODULE TemporalGraph ----------------------------
(***************************************************************************)
(* graph/falkor_store.py as orchestrator/pipeline.py and                   *)
(* orchestrator/resolver.py write it: nodes and edges with life stamps.    *)
(*                                                                         *)
(* Commits advance HEAD along one branch; an incremental ingest brings the *)
(* live graph from the recorded commit to HEAD file by file and may fail   *)
(* at any step; `vacuum' runs at any time from another process, between    *)
(* the queries of one deletion too.  A full ingest is one step             *)
(* (FullRebuild has its inside).  The worktree is clean, so a file is read *)
(* from the newest commit.                                                 *)
(*                                                                         *)
(* The stamps are ordinals; a SHA is identified with its ordinal, and 0    *)
(* stands for NULL.  Imports, namespaces, arities, modules, partial        *)
(* classes and .NET nodes are left out.                                    *)
(***************************************************************************)
EXTENDS Naturals, Sequences, FiniteSets

CONSTANTS
  File, Name, Line,
  Layer, LayerOf,   \* classify_file_layer: a layer, or None
  None,
  Contents,         \* what a file may hold: [defs, calls]
  Absent,           \* the content of a file that does not exist
  FirstTree,        \* the commit HEAD starts at
  MaxOrd,           \* bound: commits
  MaxFaults,        \* bound: failures of ingests and of the resolver
  Reverts           \* may a file get back a content it had since `base'?

Symbol == [file : File, name : Name, line : Line]
Placeholder == [file : {None}, name : Name, line : {0}]
Call == [from : File, to : Symbol \cup Placeholder]
Ord == 0 .. MaxOrd

ASSUME TemporalGraphAssumption ==
  /\ None \notin File \cup Layer
  /\ Line \subseteq Nat \ {0}
  /\ LayerOf \in [File -> Layer \cup {None}]
  /\ Contents \subseteq [defs : SUBSET (Name \X Line), calls : SUBSET Name]
  /\ Absent \notin Contents
  /\ FirstTree \in [File -> Contents \cup {Absent}]
  /\ MaxOrd \in Nat \ {0}
  /\ MaxFaults \in Nat
  /\ Reverts \in BOOLEAN

VARIABLES
  trees,     \* trees[o]: the files at the commit with ordinal o
  file, symbol, layer,         \* stamps of the nodes
  defines, inLayer, calls,     \* stamps of the edges
  base,      \* the commit of the ingest state, 0 if there is none
  ingest,    \* the incremental ingest in progress
  full,      \* is the graph the one of a full ingest that resolved?
  kept,      \* commits a completed ingest has shown to the graph
  cut,       \* the newest ordinal given to `vacuum --before'
  torn,      \* live symbols may have lost their DEFINES edge: an ingest
             \* stopped before it wrote it, or vacuum took the file first
  faults

nodes == <<file, symbol, layer>>
edges == <<defines, inLayer, calls>>
vars == <<trees, nodes, edges, base, ingest, full, kept, cut, torn, faults>>

head == Len(trees)

Stamp == [in : BOOLEAN, first : Ord, last : Ord, inv : Ord]

Gone == [in |-> FALSE, first |-> 0, last |-> 0, inv |-> 0]
Unstamped == [Gone EXCEPT !.in = TRUE]

Quiet == [pc |-> "idle", to |-> 0, deleted |-> {}, changed |-> {},
          cur |-> None, read |-> Absent, wrote |-> FALSE]

Ingest == [pc : {"idle", "files", "delete", "symbols", "touching", "nodes",
                 "edges", "resolve", "record"},
           to : Ord, deleted : SUBSET File, changed : SUBSET File,
           cur : File \cup {None}, read : Contents \cup {Absent},
           wrote : BOOLEAN]

(* Besides the types: an edge has both its ends. *)
TypeOK ==
  /\ trees \in Seq([File -> Contents \cup {Absent}])
  /\ head \in 1 .. MaxOrd
  /\ file \in [File -> Stamp]
  /\ symbol \in [Symbol -> Stamp]
  /\ layer \in [Layer -> Stamp]
  /\ defines \in [Symbol -> Stamp]
  /\ inLayer \in [File -> Stamp]
  /\ calls \in [Call -> Stamp]
  /\ \A s \in Symbol : defines[s].in => symbol[s].in /\ file[s.file].in
  /\ \A f \in File : inLayer[f].in =>
       file[f].in /\ LayerOf[f] \in Layer /\ layer[LayerOf[f]].in
  /\ \A c \in Call : calls[c].in =>
       file[c.from].in /\ (c.to \in Symbol => symbol[c.to].in)
  /\ base \in 0 .. head
  /\ ingest \in Ingest
  /\ full \in BOOLEAN
  /\ kept \subseteq 1 .. head
  /\ cut \in 0 .. head
  /\ torn \in BOOLEAN
  /\ faults \in 0 .. MaxFaults

Init ==
  /\ trees = <<FirstTree>>
  /\ file = [f \in File |-> Gone]
  /\ symbol = [s \in Symbol |-> Gone]
  /\ layer = [l \in Layer |-> Gone]
  /\ defines = [s \in Symbol |-> Gone]
  /\ inLayer = [f \in File |-> Gone]
  /\ calls = [c \in Call |-> Gone]
  /\ base = 0
  /\ ingest = Quiet
  /\ full = FALSE
  /\ kept = {}
  /\ cut = 0
  /\ torn = FALSE
  /\ faults = 0

-----------------------------------------------------------------------------
(* What the queries of the code use. *)

Live(st) == st.in /\ st.inv = 0

AliveAt(st, o) == st.in /\ st.first <= o /\ (st.inv = 0 \/ st.inv > o)

definitions ==
  {s \in Symbol : defines[s].in /\ Live(symbol[s]) /\ Live(file[s.file])}

(* The edge is not asked whether it is live. *)
callers(n) ==
  {f \in File : /\ Live(file[f])
                /\ \E s \in Symbol : /\ s.name = n /\ Live(symbol[s])
                                     /\ calls[[from |-> f, to |-> s]].in}

at_sha(o) == {s \in Symbol : AliveAt(symbol[s], o)}

layer_of(f) == IF Live(file[f]) /\ Live(inLayer[f]) /\ Live(layer[LayerOf[f]])
               THEN LayerOf[f] ELSE None

-----------------------------------------------------------------------------
(* What the store does to one node or edge. *)

(* Mutant: the element is taken for a new one. *)
Upserted_Refirst(st, o) == [in |-> TRUE, first |-> o, last |-> o, inv |-> 0]

(* upsert_nodes, upsert_edges: ON CREATE, ON MATCH, and the tombstone is   *)
(* cleared.                                                                *)
Upserted(st, o) ==
  [in |-> TRUE, first |-> IF st.first = 0 THEN o ELSE st.first, last |-> o,
   inv |-> 0]

(* A tombstone is set, over an older one too. *)
Invalid(st, o) == IF st.in THEN [st EXCEPT !.inv = o] ELSE st

Eligible(st, o) == st.in /\ st.inv \in 1 .. o

(* What a commit says. *)
Has(tree, f) == tree[f] # Absent
Defined(tree) ==
  {s \in Symbol : Has(tree, s.file)
                  /\ <<s.name, s.line>> \in tree[s.file].defs}
Raw(f, n) == [from |-> f, to |-> [file |-> None, name |-> n, line |-> 0]]
Calls(tree, n) == {f \in File : Has(tree, f) /\ n \in tree[f].calls}

-----------------------------------------------------------------------------
(* _resolve_all: the first definition by line of the calling file, or else *)
(* the only one.  The candidates come from all DEFINES edges, tombstoned   *)
(* or not.                                                                 *)
Target(defs, f, n) ==
  LET named == {s \in Symbol : s.name = n /\ defs[s].in}
      own == {s \in named : s.file = f}
  IN  IF own # {} THEN {s \in own : \A t \in own : s.line <= t.line}
      ELSE IF Cardinality(named) = 1 THEN named ELSE {}

(* _apply_resolutions: the edge to the placeholder is deleted and one to   *)
(* the target merged: a new one has no stamps, an old one keeps its own.   *)
Resolved(defs, cs) ==
  [c \in Call |->
     LET raw == Raw(c.from, c.to.name)
         bound == IF cs[raw].in THEN Target(defs, c.from, c.to.name) ELSE {}
     IN  IF c = raw /\ bound # {} THEN Gone
         ELSE IF c.to \in bound /\ ~cs[c].in THEN Unstamped
         ELSE cs[c]]

-----------------------------------------------------------------------------
(* A commit changes one file; the worktree follows. *)
Commit(f, content) ==
  /\ head < MaxOrd
  /\ content # trees[head][f]
  /\ Reverts \/ \A o \in base .. head : o > 0 => trees[o][f] # content
  /\ trees' = Append(trees, [trees[head] EXCEPT ![f] = content])
  /\ UNCHANGED <<nodes, edges, base, ingest, full, kept, cut, torn, faults>>

(* _ingest_full: a new graph replaces the live one.  The resolver may fail *)
(* without failing the ingest.                                             *)
IngestFull(resolves) ==
  LET tree == trees[head]
      new == Upserted(Gone, head)
      stamp(in) == IF in THEN new ELSE Gone
      defs == [s \in Symbol |-> stamp(s \in Defined(tree))]
      raw == [c \in Call |-> stamp(\E n \in Name :
                 c.from \in Calls(tree, n) /\ c = Raw(c.from, n))]
  IN  /\ ingest.pc = "idle"
      /\ file' = [f \in File |-> stamp(Has(tree, f))]
      /\ symbol' = defs
      /\ defines' = defs
      /\ inLayer' = [f \in File |-> stamp(Has(tree, f) /\ LayerOf[f] # None)]
      /\ layer' = [l \in Layer |-> stamp(\E f \in File :
                                           Has(tree, f) /\ LayerOf[f] = l)]
      /\ calls' = IF resolves THEN Resolved(defs, raw) ELSE raw
      /\ base' = head
      /\ kept' = {head}
      /\ full' = resolves
      /\ torn' = FALSE
      /\ resolves \/ faults < MaxFaults
      /\ faults' = IF resolves THEN faults ELSE faults + 1
      /\ UNCHANGED <<trees, ingest, cut>>

(* Mutant: the new state is recorded before the work. *)
Start_RecordFirst ==
  /\ ingest.pc = "idle"
  /\ base # 0
  /\ LET diff == {f \in File : trees[base][f] # trees[head][f]}
     IN  ingest' = [Quiet EXCEPT !.pc = "files", !.to = head,
                      !.deleted = {f \in diff : ~Has(trees[head], f)},
                      !.changed = {f \in diff : Has(trees[head], f)}]
  /\ base' = head
  /\ full' = FALSE
  /\ UNCHANGED <<trees, nodes, edges, kept, cut, torn, faults>>

(* ingest_repo: HEAD is read, and diffed against the recorded commit. *)
Start ==
  /\ ingest.pc = "idle"
  /\ base # 0
  /\ LET diff == {f \in File : trees[base][f] # trees[head][f]}
     IN  ingest' = [Quiet EXCEPT !.pc = "files", !.to = head,
                      !.deleted = {f \in diff : ~Has(trees[head], f)},
                      !.changed = {f \in diff : Has(trees[head], f)}]
  /\ full' = (full /\ base = head)
  /\ UNCHANGED <<trees, nodes, edges, base, kept, cut, torn, faults>>

(* delete_file with a SHA is three queries.  The first is for the File.    *)
TombstoneFile(f) ==
  /\ file' = [file EXCEPT ![f] = Invalid(@, ingest.to)]
  /\ UNCHANGED <<trees, symbol, layer, edges, base, full, kept, cut, torn,
                 faults>>

(* Mutant: only the File node gets a tombstone. *)
TombstoneSymbols_None ==
  /\ ingest.pc = "symbols"
  /\ ingest' = [ingest EXCEPT !.pc = "touching"]
  /\ UNCHANGED <<trees, nodes, edges, base, full, kept, cut, torn, faults>>

(* The second: the Symbols that the File DEFINES, if it is still there. *)
TombstoneSymbols ==
  /\ ingest.pc = "symbols"
  /\ symbol' = [s \in Symbol |->
       IF s.file = ingest.cur /\ defines[s].in
       THEN Invalid(symbol[s], ingest.to) ELSE symbol[s]]
  /\ ingest' = [ingest EXCEPT !.pc = "touching"]
  /\ UNCHANGED <<trees, file, layer, edges, base, full, kept, cut, torn,
                 faults>>

(* The third: the edges that touch the File. *)
TombstoneEdges ==
  LET of == ingest.cur
      to == ingest.to
  IN  /\ ingest.pc = "touching"
      /\ defines' = [s \in Symbol |->
           IF s.file = of THEN Invalid(defines[s], to) ELSE defines[s]]
      /\ inLayer' = [inLayer EXCEPT ![of] = Invalid(@, to)]
      /\ calls' = [c \in Call |->
           IF c.from = of THEN Invalid(calls[c], to) ELSE calls[c]]
      /\ ingest' = [ingest EXCEPT
           !.pc = IF ingest.read = Absent THEN "files" ELSE "nodes"]
      /\ UNCHANGED <<trees, nodes, base, full, kept, cut, torn, faults>>

DeleteFile(f) ==
  /\ ingest.pc = "files"
  /\ f \in ingest.deleted
  /\ TombstoneFile(f)
  /\ ingest' = [ingest EXCEPT !.deleted = @ \ {f}, !.pc = "symbols",
                              !.cur = f, !.read = Absent]

(* reingest_file parses the file of the worktree; one that has vanished is *)
(* skipped.                                                                *)
Extract(f) ==
  /\ ingest.pc = "files"
  /\ ingest.deleted = {}
  /\ f \in ingest.changed
  /\ ingest' =
       IF Has(trees[head], f)
       THEN [ingest EXCEPT !.changed = @ \ {f}, !.pc = "delete",
                           !.cur = f, !.read = trees[head][f]]
       ELSE [ingest EXCEPT !.changed = @ \ {f}]
  /\ UNCHANGED <<trees, nodes, edges, base, full, kept, cut, torn, faults>>

DeleteOld ==
  /\ ingest.pc = "delete"
  /\ TombstoneFile(ingest.cur)
  /\ ingest' = [ingest EXCEPT !.pc = "symbols"]

Parsed == {s \in Symbol : s.file = ingest.cur
                          /\ <<s.name, s.line>> \in ingest.read.defs}

(* _upsert_graph, first half. *)
UpsertNodes ==
  /\ ingest.pc = "nodes"
  /\ file' = [file EXCEPT ![ingest.cur] = Upserted(@, ingest.to)]
  /\ symbol' = [s \in Symbol |->
       IF s \in Parsed THEN Upserted(symbol[s], ingest.to) ELSE symbol[s]]
  /\ ingest' = [ingest EXCEPT !.pc = "edges"]
  /\ UNCHANGED <<trees, layer, edges, base, full, kept, cut, torn, faults>>

(* _upsert_graph, second half: calls go to the placeholder of their name. *)
UpsertEdges ==
  /\ ingest.pc = "edges"
  /\ defines' = [s \in Symbol |->
       IF s \in Parsed THEN Upserted(defines[s], ingest.to) ELSE defines[s]]
  /\ calls' = [c \in Call |->
       IF \E n \in ingest.read.calls : c = Raw(ingest.cur, n)
       THEN Upserted(calls[c], ingest.to) ELSE calls[c]]
  /\ ingest' = [ingest EXCEPT !.pc = "files", !.wrote = TRUE]
  /\ UNCHANGED <<trees, nodes, inLayer, base, full, kept, cut, torn, faults>>

(* _index_architecture: the layers of the live files are confirmed, and    *)
(* those last confirmed at another commit get a tombstone (sweep_stale).   *)
IndexArchitecture ==
  LET filed == {f \in File : Live(file[f]) /\ LayerOf[f] # None}
      used == {LayerOf[f] : f \in filed}
      stale == {l \in Layer \ used :
                  Live(layer[l]) /\ layer[l].last # ingest.to}
  IN  /\ ingest.pc = "files"
      /\ ingest.deleted = {} /\ ingest.changed = {}
      /\ inLayer' = [f \in File |->
           IF f \in filed THEN Upserted(inLayer[f], ingest.to)
           ELSE inLayer[f]]
      /\ layer' = [l \in Layer |->
           IF l \in used THEN Upserted(layer[l], ingest.to)
           ELSE IF l \in stale THEN Invalid(layer[l], ingest.to)
           ELSE layer[l]]
      /\ ingest' = [ingest EXCEPT
           !.pc = IF ingest.wrote THEN "resolve" ELSE "record"]
      /\ UNCHANGED <<trees, file, symbol, defines, calls, base, full, kept,
                     cut, torn, faults>>

(* _run_resolver: a failure of the resolver is only noted. *)
Resolve ==
  /\ ingest.pc = "resolve"
  /\ \/ /\ calls' = Resolved(defines, calls)
        /\ UNCHANGED faults
     \/ /\ faults < MaxFaults
        /\ faults' = faults + 1
        /\ UNCHANGED calls
  /\ ingest' = [ingest EXCEPT !.pc = "record"]
  /\ UNCHANGED <<trees, nodes, defines, inLayer, base, full, kept, cut, torn>>

(* _record_state: the commit read at the start, wherever HEAD is by now. *)
RecordState ==
  /\ ingest.pc = "record"
  /\ base' = ingest.to
  /\ kept' = IF ingest.to = head THEN kept \cup {head} ELSE kept
  /\ ingest' = Quiet
  /\ UNCHANGED <<trees, nodes, edges, full, cut, torn, faults>>

(* The store fails, or the process dies. *)
Fail ==
  /\ ingest.pc # "idle"
  /\ faults < MaxFaults
  /\ faults' = faults + 1
  /\ ingest' = Quiet
  /\ torn' = (torn \/ ingest.pc = "edges")
  /\ UNCHANGED <<trees, nodes, edges, base, full, kept, cut>>

(* vacuum(before_ord = o), and drop_all for o = HEAD, is three queries too: *)
(* eligible Files go with their edges, ...                                 *)
VacuumFiles(o) ==
  LET dead == {f \in File : Eligible(file[f], o)}
  IN  /\ file' = [f \in File |-> IF f \in dead THEN Gone ELSE file[f]]
      /\ defines' = [s \in Symbol |->
           IF s.file \in dead THEN Gone ELSE defines[s]]
      /\ inLayer' = [f \in File |-> IF f \in dead THEN Gone ELSE inLayer[f]]
      /\ calls' = [c \in Call |-> IF c.from \in dead THEN Gone ELSE calls[c]]
      /\ torn' = (torn \/ \E s \in Symbol : s.file \in dead /\ Live(symbol[s]))
      /\ UNCHANGED symbol

(* ... then eligible Symbols with theirs, ... *)
VacuumSymbols(o) ==
  LET dead == {s \in Symbol : Eligible(symbol[s], o)}
  IN  /\ symbol' = [s \in Symbol |-> IF s \in dead THEN Gone ELSE symbol[s]]
      /\ defines' = [s \in Symbol |-> IF s \in dead THEN Gone ELSE defines[s]]
      /\ calls' = [c \in Call |-> IF c.to \in dead THEN Gone ELSE calls[c]]
      /\ UNCHANGED <<file, inLayer, torn>>

(* ... and the eligible edges that are left. *)
VacuumEdges(o) ==
  LET left(st) == IF Eligible(st, o) THEN Gone ELSE st
  IN  /\ defines' = [s \in Symbol |-> left(defines[s])]
      /\ inLayer' = [f \in File |-> left(inLayer[f])]
      /\ calls' = [c \in Call |-> left(calls[c])]
      /\ UNCHANGED <<file, symbol, torn>>

Vacuum(o) ==
  /\ VacuumFiles(o) \/ VacuumSymbols(o) \/ VacuumEdges(o)
  /\ cut' = IF o > cut THEN o ELSE cut
  /\ UNCHANGED <<trees, layer, base, ingest, full, kept, faults>>

-----------------------------------------------------------------------------
Step ==
  \/ \E f \in File : DeleteFile(f) \/ Extract(f)
  \/ DeleteOld \/ TombstoneSymbols \/ TombstoneEdges
  \/ UpsertNodes \/ UpsertEdges
  \/ IndexArchitecture \/ Resolve \/ RecordState

Next ==
  \/ \E f \in File, content \in Contents \cup {Absent} : Commit(f, content)
  \/ \E resolves \in BOOLEAN : IngestFull(resolves)
  \/ Start \/ Step \/ Fail
  \/ \E o \in 1 .. head : Vacuum(o)

(* Whoever triggers ingests keeps doing so (events, hooks, polls), the     *)
(* first one is full, and a running one goes on.                           *)
Spec == /\ Init /\ [][Next]_vars
        /\ WF_vars(Step) /\ WF_vars(Start)
        /\ WF_vars(base = 0 /\ \E resolves \in BOOLEAN : IngestFull(resolves))

-----------------------------------------------------------------------------
AtRest == ingest.pc = "idle" /\ base = head

(* When HEAD is the recorded commit, the live definitions are the symbols  *)
(* of its files, whatever failed, moved or was vacuumed on the way.  The   *)
(* same are alive at its ordinal, unless since the last full ingest one    *)
(* stopped between the nodes of a file and its edges, or vacuum took a     *)
(* file between the first two queries of its deletion.                     *)
DefinitionsExact ==
  AtRest => /\ definitions = Defined(trees[head])
            /\ ~torn => at_sha(head) = Defined(trees[head])

(* at_sha misses nothing: a symbol of a commit that the graph has seen is  *)
(* alive at it for ever, unless `vacuum' was given a later commit.         *)
HistoryKept ==
  \A o \in kept : o >= cut => Defined(trees[o]) \subseteq at_sha(o)

(* Every live file is in its layer, and a layer without files is dead as   *)
(* soon as an ingest has seen a later commit than the one that last        *)
(* confirmed it.                                                           *)
LayersSettled ==
  AtRest =>
    /\ \A f \in File : Has(trees[head], f) => layer_of(f) = LayerOf[f]
    /\ \A l \in Layer : Live(layer[l]) /\ layer[l].last # head =>
         \E f \in File : layer_of(f) = l

(* After a full ingest a call whose name the file defines itself, or only  *)
(* one file defines, is found, and no other is.                            *)
FullResolves ==
  full /\ AtRest =>
    \A n \in Name :
      LET named == {s \in Defined(trees[head]) : s.name = n}
      IN  callers(n) = {f \in Calls(trees[head], n) :
                          \/ \E s \in named : s.file = f
                          \/ Cardinality(named) = 1}

(* All that the graph answers about HEAD: definitions, layers and calls.   *)
GraphExact == DefinitionsExact /\ LayersSettled /\ FullResolves

(* Once commits and failures end, the live definitions become those of     *)
(* HEAD and stay so.                                                       *)
DefinitionsConverge == <>[](definitions = Defined(trees[head]))

(* "Files that call a symbol (impact analysis: what breaks if I rename     *)
(* X?)": a file that calls the only symbol of a name is a caller of it.    *)
CallersFound ==
  AtRest =>
    \A n \in Name :
      Cardinality({s \in Defined(trees[head]) : s.name = n}) = 1 =>
        Calls(trees[head], n) \subseteq callers(n)
=============================================================================
