------------------------ MODULE TemporalGraphProofs ------------------------
(***************************************************************************)
(* Proofs about module TemporalGraph: type correctness, that the history   *)
(* keeps every symbol of the commits the graph has seen, and that what the *)
(* graph answers about HEAD is right, for every set of files, names, lines *)
(* and layers, every number of commits and every number of failures.       *)
(***************************************************************************)
EXTENDS TemporalGraph, FiniteSetTheorems, WellFoundedInduction, TLAPS

(* The file has had one content since commit o. *)
Steady(o, f) == \A i \in o .. head : trees[i][f] = trees[o][f]

(* A file that has the content of a commit since base has never left it.   *)
NoReturn ==
  \A f \in File : \A i \in 1 .. head :
    i >= base /\ trees[i][f] = trees[head][f] => Steady(i, f)

(* The file and its definitions are those of the tree. *)
Exact(f, tree) ==
  /\ Live(file[f]) <=> Has(tree, f)
  /\ \A s \in Symbol : s.file = f =>
       IF s \in Defined(tree) THEN Live(symbol[s]) /\ Live(defines[s])
       ELSE ~(defines[s].in /\ Live(symbol[s]))

(* The file in hand, and the files an ingest has still to bring to `to'. *)
InHand == IF ingest.pc \in {"delete", "symbols", "touching", "nodes", "edges"}
          THEN {ingest.cur} ELSE {}
Pending == ingest.deleted \cup ingest.changed \cup InHand

(* An ingest goes from the recorded commit to a later one; between the     *)
(* nodes and the edges of a file, the nodes the edges need are live.       *)
IngestOK ==
  /\ ingest.pc = "idle" => ingest = Quiet
  /\ ingest.pc # "idle" => 0 < base /\ base <= ingest.to /\ ingest.to <= head
  /\ ingest.pc \in {"delete", "symbols", "touching", "nodes", "edges"} =>
       ingest.cur \in File
  /\ ingest.pc \in {"delete", "nodes", "edges"} => ingest.read # Absent
  /\ ingest.pc = "edges" =>
       /\ Live(file[ingest.cur])
       /\ \A s \in Parsed : Live(symbol[s])

(* What an ingest has not to touch, or has brought, is exact, unless the   *)
(* file has changed again.                                                 *)
DefinitionsOK ==
  /\ ingest.pc = "idle" /\ base > 0 =>
       \A f \in File : Steady(base, f) => Exact(f, trees[base])
  /\ ingest.pc # "idle" =>
       /\ \A f \in Pending : trees[base][f] # trees[ingest.to][f]
       /\ \A f \in File \ Pending :
            Steady(ingest.to, f) => Exact(f, trees[ingest.to])
       /\ \A f \in ingest.deleted : ~Has(trees[ingest.to], f)
       /\ \A f \in ingest.changed : Has(trees[ingest.to], f)

(* The file in hand: the File dies first, then its definitions, before the *)
(* new ones are written.                                                   *)
ReadOK ==
  /\ ingest.pc \in {"delete", "symbols", "touching", "nodes", "edges"}
  /\ ingest.read # Absent
  /\ Steady(ingest.to, ingest.cur)
  => ingest.read = trees[ingest.to][ingest.cur]

InHandOK ==
  /\ ingest.pc \in {"idle", "resolve", "record"} => Pending = {}
  /\ ReadOK
  /\ ingest.pc \in {"symbols", "touching"} =>
       /\ ~Live(file[ingest.cur])
       /\ ingest.read = Absent => ~Has(trees[ingest.to], ingest.cur)
  /\ ingest.pc \in {"touching", "nodes"} =>
       \A s \in Symbol : s.file = ingest.cur =>
         ~(defines[s].in /\ Live(symbol[s]))
  /\ ingest.pc = "edges" =>
       \A s \in Symbol \ Parsed : s.file = ingest.cur =>
         ~(defines[s].in /\ Live(symbol[s]))

(* Stamps are those of commits there are. *)
StampsOK ==
  \A s \in Symbol : /\ symbol[s].first <= head /\ symbol[s].inv <= head
                    /\ symbol[s].in => symbol[s].first > 0

HistoryOK ==
  /\ kept \subseteq 1 .. base
  /\ HistoryKept

(* A live symbol is found by its edge, or gets one next, unless it lost it. *)
TornOK ==
  ~torn =>
    \A s \in Symbol : Live(symbol[s]) =>
      Live(defines[s]) \/ (ingest.pc = "edges" /\ s \in Parsed)

(* The layers are confirmed at the end of an ingest. *)
InItsLayer(f) ==
  Live(file[f]) /\ LayerOf[f] # None =>
    Live(inLayer[f]) /\ Live(layer[LayerOf[f]])

LayersOK ==
  IF ingest.pc \in {"resolve", "record"}
  THEN /\ \A f \in File : InItsLayer(f)
       /\ \A l \in Layer : Live(layer[l]) => layer[l].last = ingest.to
  ELSE base > 0 =>
         /\ \A f \in File : Steady(base, f) => InItsLayer(f)
         /\ \A l \in Layer :
              Live(layer[l]) => layer[l].last \in base .. head

(* The graph of a full ingest has no tombstones, and nothing touches it. *)
CallersExact(tree) ==
  \A n \in Name :
    LET named == {s \in Defined(tree) : s.name = n}
    IN  callers(n) = {f \in Calls(tree, n) : \/ \E s \in named : s.file = f
                                             \/ Cardinality(named) = 1}

FullOK ==
  full =>
    /\ base > 0
    /\ ingest.pc \in {"idle", "files", "record"}
    /\ ingest.pc # "idle" => ingest.to = base
    /\ Pending = {} /\ ~ingest.wrote
    /\ \A f \in File : file[f].inv = 0
    /\ \A s \in Symbol : symbol[s].inv = 0
    /\ \A c \in Call : calls[c].inv = 0
    /\ CallersExact(trees[base])

GraphInv ==
  /\ IngestOK /\ NoReturn /\ DefinitionsOK /\ InHandOK /\ StampsOK /\ HistoryOK
  /\ TornOK /\ LayersOK /\ FullOK

-----------------------------------------------------------------------------
(* What the store does to one node or edge. *)
LEMMA GoneIs ==
  /\ Gone \in Stamp /\ Gone.in = FALSE /\ Gone.inv = 0 /\ Gone.first = 0
  /\ Unstamped \in Stamp /\ Unstamped.in = TRUE /\ Unstamped.inv = 0
<1>1. 0 \in Ord
  BY TemporalGraphAssumption DEF Ord
<1>. QED
  BY <1>1 DEF Gone, Unstamped, Stamp

LEMMA UpsertedIs ==
  ASSUME NEW st \in Stamp, NEW o \in Ord
  PROVE  /\ Upserted(st, o) \in Stamp
         /\ Upserted(st, o).in = TRUE /\ Upserted(st, o).inv = 0
         /\ Upserted(st, o).last = o
         /\ Upserted(st, o).first = IF st.first = 0 THEN o ELSE st.first
         /\ Live(Upserted(st, o))
BY TemporalGraphAssumption DEF Upserted, Stamp, Live, Ord

LEMMA InvalidIs ==
  ASSUME NEW st \in Stamp, NEW o \in Ord
  PROVE  /\ Invalid(st, o) \in Stamp
         /\ Invalid(st, o).in = st.in
         /\ Invalid(st, o).first = st.first
         /\ Invalid(st, o).last = st.last
         /\ Invalid(st, o).inv = IF st.in THEN o ELSE st.inv
BY DEF Invalid, Stamp

LEMMA Placeholders ==
  ASSUME NEW f \in File, NEW n \in Name
  PROVE  Raw(f, n) \in Call /\ Raw(f, n).from = f /\ Raw(f, n).to \notin Symbol
BY TemporalGraphAssumption DEF Raw, Call, Placeholder, Symbol

LEMMA CallFields ==
  ASSUME NEW c \in Call
  PROVE  /\ c.from \in File /\ c.to \in Symbol \cup Placeholder
         /\ c.to.name \in Name
BY DEF Call, Symbol, Placeholder

(* The newest commit. *)
LEMMA HeadIs ==
  ASSUME TypeOK
  PROVE  /\ head \in Nat \ {0} /\ head <= MaxOrd /\ head \in Ord
         /\ DOMAIN trees = 1 .. head
         /\ trees[head] \in [File -> Contents \cup {Absent}]
<1>1. /\ trees \in Seq([File -> Contents \cup {Absent}])
      /\ head \in 1 .. MaxOrd /\ MaxOrd \in Nat
  BY TemporalGraphAssumption DEF TypeOK
<1>2. DOMAIN trees = 1 .. head
  BY <1>1 DEF head
<1>3. trees[head] \in [File -> Contents \cup {Absent}]
  BY <1>1 DEF head
<1>4. head \in Nat \ {0} /\ head <= MaxOrd
  BY <1>1
<1>5. head \in Ord
  BY <1>4 DEF Ord
<1>. QED
  BY <1>2, <1>3, <1>4, <1>5

LEMMA ParsedIs ==
  ASSUME NEW s \in Parsed
  PROVE  s \in Symbol /\ s.file = ingest.cur
BY DEF Parsed

-----------------------------------------------------------------------------
LEMMA InitTyped == Init => TypeOK /\ IngestOK
<1>. SUFFICES ASSUME Init PROVE TypeOK /\ IngestOK
  OBVIOUS
<1>0. MaxOrd \in Nat \ {0} /\ MaxFaults \in Nat
  BY TemporalGraphAssumption
<1>1. trees \in Seq([File -> Contents \cup {Absent}]) /\ head = 1
  BY TemporalGraphAssumption DEF Init, head
<1>2. ingest \in Ingest
  BY <1>0 DEF Init, Quiet, Ingest, Ord
<1>3. /\ file \in [File -> Stamp] /\ symbol \in [Symbol -> Stamp]
      /\ layer \in [Layer -> Stamp] /\ defines \in [Symbol -> Stamp]
      /\ inLayer \in [File -> Stamp] /\ calls \in [Call -> Stamp]
  BY GoneIs DEF Init
<1>4. /\ \A s \in Symbol : ~defines[s].in
      /\ \A f \in File : ~inLayer[f].in
      /\ \A c \in Call : ~calls[c].in
  BY GoneIs DEF Init
<1>5. /\ base \in 0 .. head /\ head \in 1 .. MaxOrd /\ full \in BOOLEAN
      /\ kept \subseteq 1 .. head /\ cut \in 0 .. head
      /\ torn \in BOOLEAN /\ faults \in 0 .. MaxFaults
  <2>1. /\ base = 0 /\ full = FALSE /\ kept = {} /\ cut = 0 /\ faults = 0
        /\ torn = FALSE
    BY DEF Init
  <2>2. full \in BOOLEAN /\ torn \in BOOLEAN
    BY <2>1
  <2>3. base \in 0 .. head /\ head \in 1 .. MaxOrd
    BY <1>0, <1>1, <2>1
  <2>4. cut \in 0 .. head /\ faults \in 0 .. MaxFaults
    BY <1>0, <1>1, <2>1
  <2>5. kept \subseteq 1 .. head
    BY <2>1
  <2>. QED
    BY <2>2, <2>3, <2>4, <2>5
<1>7. TypeOK
  BY <1>1, <1>2, <1>3, <1>4, <1>5, Zenon DEF TypeOK
<1>6. IngestOK
  BY DEF Init, IngestOK, Quiet
<1>. QED
  BY <1>6, <1>7

-----------------------------------------------------------------------------
(* Besides the types: an edge has both its ends. *)
EndsOK ==
  /\ \A s \in Symbol : defines[s].in => symbol[s].in /\ file[s.file].in
  /\ \A f \in File : inLayer[f].in =>
       file[f].in /\ LayerOf[f] \in Layer /\ layer[LayerOf[f]].in
  /\ \A c \in Call : calls[c].in =>
       file[c.from].in /\ (c.to \in Symbol => symbol[c.to].in)

(* A step that adds or removes no element. *)
LEMMA EndsKept ==
  ASSUME EndsOK, layer' = layer,
         \A f \in File : /\ file'[f].in = file[f].in
                         /\ inLayer'[f].in = inLayer[f].in,
         \A s \in Symbol : /\ symbol'[s].in = symbol[s].in
                           /\ defines'[s].in = defines[s].in,
         \A c \in Call : calls'[c].in = calls[c].in
  PROVE  EndsOK'
<1>1. \A s \in Symbol : s.file \in File
  BY DEF Symbol
<1>2. \A s \in Symbol : defines'[s].in => symbol'[s].in /\ file'[s.file].in
  BY <1>1 DEF EndsOK
<1>3. \A f \in File : inLayer'[f].in =>
        file'[f].in /\ LayerOf[f] \in Layer /\ layer'[LayerOf[f]].in
  BY DEF EndsOK
<1>4. \A c \in Call : calls'[c].in =>
        file'[c.from].in /\ (c.to \in Symbol => symbol'[c.to].in)
  BY CallFields DEF EndsOK
<1>. QED
  BY <1>2, <1>3, <1>4 DEF EndsOK

(* The types of what is not a stamp. *)
RestTyped ==
  /\ trees \in Seq([File -> Contents \cup {Absent}])
  /\ head \in 1 .. MaxOrd
  /\ base \in 0 .. head
  /\ ingest \in Ingest
  /\ full \in BOOLEAN
  /\ kept \subseteq 1 .. head
  /\ cut \in 0 .. head
  /\ torn \in BOOLEAN
  /\ faults \in 0 .. MaxFaults

StampsTyped ==
  /\ file \in [File -> Stamp] /\ symbol \in [Symbol -> Stamp]
  /\ layer \in [Layer -> Stamp] /\ defines \in [Symbol -> Stamp]
  /\ inLayer \in [File -> Stamp] /\ calls \in [Call -> Stamp]

LEMMA TypeParts == TypeOK <=> RestTyped /\ StampsTyped /\ EndsOK
BY DEF TypeOK, RestTyped, StampsTyped, EndsOK

LEMMA SameStamps ==
  ASSUME TypeOK, UNCHANGED <<nodes, edges>>
  PROVE  StampsTyped' /\ EndsOK'
<1>1. StampsTyped /\ EndsOK
  BY TypeParts
<1>2. /\ file' = file /\ symbol' = symbol /\ layer' = layer
      /\ defines' = defines /\ inLayer' = inLayer /\ calls' = calls
  BY DEF nodes, edges
<1>. QED
  BY <1>1, <1>2 DEF StampsTyped, EndsOK

LEMMA CommitTyped ==
  ASSUME TypeOK, IngestOK, NEW f \in File,
         NEW content \in Contents \cup {Absent}, Commit(f, content)
  PROVE  /\ TypeOK' /\ IngestOK' /\ head' = head + 1
         /\ \A o \in 1 .. head : trees'[o] = trees[o]
         /\ trees'[head + 1] = [trees[head] EXCEPT ![f] = content]
<1>. DEFINE next == [trees[head] EXCEPT ![f] = content]
<1>1. /\ trees' = Append(trees, next) /\ head < MaxOrd
      /\ UNCHANGED <<nodes, edges, base, ingest, full, kept, cut, torn,
                     faults>>
  BY DEF Commit
<1>2. next \in [File -> Contents \cup {Absent}]
  BY HeadIs
<1>. HIDE DEF next
<1>3. trees \in Seq([File -> Contents \cup {Absent}])
  BY DEF TypeOK
<1>4. /\ trees' \in Seq([File -> Contents \cup {Absent}])
      /\ Len(trees') = Len(trees) + 1
      /\ \A o \in 1 .. Len(trees) : trees'[o] = trees[o]
      /\ trees'[Len(trees) + 1] = next
  BY <1>1, <1>2, <1>3
<1>5. /\ head' = head + 1 /\ head \in 1 .. MaxOrd /\ MaxOrd \in Nat
      /\ base \in 0 .. head /\ kept \subseteq 1 .. head /\ cut \in 0 .. head
  BY <1>4, HeadIs, TemporalGraphAssumption DEF head, TypeOK
<1>6. /\ head' \in 1 .. MaxOrd /\ base \in 0 .. head' /\ cut \in 0 .. head'
      /\ kept \subseteq 1 .. head'
  BY <1>1, <1>5
<1>7. RestTyped'
  BY <1>1, <1>4, <1>6 DEF RestTyped, TypeOK
<1>8. TypeOK'
  BY <1>1, <1>7, SameStamps, TypeParts
  DEF TypeOK, RestTyped, StampsTyped, EndsOK
<1>9. ingest.to \in Nat
  BY DEF TypeOK, Ingest, Ord
<1>10. IngestOK'
  BY <1>1, <1>5, <1>9 DEF IngestOK, Live, Parsed, nodes
<1>. QED
  BY <1>4, <1>5, <1>8, <1>10 DEF head, next

-----------------------------------------------------------------------------
(* The resolver binds to symbols that are defined. *)
LEMMA TargetIs ==
  ASSUME NEW defs, NEW f, NEW n, NEW t \in Target(defs, f, n)
  PROVE  t \in Symbol /\ t.name = n /\ defs[t].in
BY DEF Target

(* What the call is bound to. *)
Bound(defs, cs, c) ==
  IF cs[Raw(c.from, c.to.name)].in THEN Target(defs, c.from, c.to.name) ELSE {}

LEMMA ResolvedIs ==
  ASSUME NEW defs, NEW cs \in [Call -> Stamp]
  PROVE  /\ Resolved(defs, cs) \in [Call -> Stamp]
         /\ \A c \in Call :
              Resolved(defs, cs)[c] =
                IF c = Raw(c.from, c.to.name) /\ Bound(defs, cs, c) # {}
                THEN Gone
                ELSE IF c.to \in Bound(defs, cs, c) /\ ~cs[c].in
                THEN Unstamped
                ELSE cs[c]
BY GoneIs DEF Resolved, Bound

LEMMA ResolvedEnds ==
  ASSUME NEW defs, NEW cs \in [Call -> Stamp], NEW c \in Call,
         Resolved(defs, cs)[c].in
  PROVE  \/ cs[c].in
         \/ /\ cs[Raw(c.from, c.to.name)].in
            /\ c.to \in Symbol /\ defs[c.to].in
<1>. DEFINE raw == Raw(c.from, c.to.name)
<1>1. Resolved(defs, cs)[c] = IF c = raw /\ Bound(defs, cs, c) # {} THEN Gone
                              ELSE IF c.to \in Bound(defs, cs, c) /\ ~cs[c].in
                              THEN Unstamped
                              ELSE cs[c]
  BY ResolvedIs
<1>2. CASE c = raw /\ Bound(defs, cs, c) # {}
  BY <1>1, <1>2, GoneIs
<1>3. CASE ~(c = raw /\ Bound(defs, cs, c) # {}) /\ c.to \in Bound(defs, cs, c)
           /\ ~cs[c].in
  BY <1>3, TargetIs DEF Bound
<1>4. CASE ~(c = raw /\ Bound(defs, cs, c) # {})
           /\ ~(c.to \in Bound(defs, cs, c) /\ ~cs[c].in)
  BY <1>1, <1>4
<1>. QED
  BY <1>2, <1>3, <1>4

(* What a full ingest leaves: the stamps of the newest commit, nothing     *)
(* dead.                                                                   *)
FullCalls(tree) ==
  [c \in Call |-> IF \E n \in Name : c.from \in Calls(tree, n)
                                     /\ c = Raw(c.from, n)
                  THEN Upserted(Gone, head) ELSE Gone]

FullDefs(tree) ==
  [s \in Symbol |-> IF s \in Defined(tree) THEN Upserted(Gone, head) ELSE Gone]

LEMMA FullIs ==
  ASSUME TypeOK, NEW resolves \in BOOLEAN, IngestFull(resolves)
  PROVE  LET tree == trees[head]
             raw == FullCalls(tree)
             new == Upserted(Gone, head)
         IN  /\ symbol' = FullDefs(tree) /\ defines' = FullDefs(tree)
             /\ calls' = IF resolves
                         THEN Resolved(FullDefs(tree), raw) ELSE raw
             /\ \A f \in File :
                  /\ file'[f] = IF Has(tree, f) THEN new ELSE Gone
                  /\ inLayer'[f] = IF Has(tree, f) /\ LayerOf[f] # None
                                   THEN new ELSE Gone
             /\ \A l \in Layer :
                  layer'[l] = IF \E f \in File : Has(tree, f) /\ LayerOf[f] = l
                              THEN new ELSE Gone
             /\ FullDefs(tree) \in [Symbol -> Stamp] /\ raw \in [Call -> Stamp]
             /\ file' \in [File -> Stamp] /\ layer' \in [Layer -> Stamp]
             /\ inLayer' \in [File -> Stamp] /\ calls' \in [Call -> Stamp]
<1>1. Upserted(Gone, head) \in Stamp /\ Gone \in Stamp
  BY GoneIs, UpsertedIs, HeadIs
<1>2. FullCalls(trees[head]) \in [Call -> Stamp]
  BY <1>1 DEF FullCalls
<1>3. FullDefs(trees[head]) \in [Symbol -> Stamp]
  BY <1>1 DEF FullDefs
<1>4. symbol' = FullDefs(trees[head]) /\ defines' = FullDefs(trees[head])
  BY DEF IngestFull, FullDefs
<1>5. calls' = IF resolves
               THEN Resolved(FullDefs(trees[head]), FullCalls(trees[head]))
               ELSE FullCalls(trees[head])
  BY DEF IngestFull, FullDefs, FullCalls
<1>6. /\ file' = [f \in File |-> IF Has(trees[head], f)
                                 THEN Upserted(Gone, head) ELSE Gone]
      /\ inLayer' = [f \in File |->
                       IF Has(trees[head], f) /\ LayerOf[f] # None
                       THEN Upserted(Gone, head) ELSE Gone]
      /\ layer' = [l \in Layer |->
                     IF \E f \in File : Has(trees[head], f) /\ LayerOf[f] = l
                     THEN Upserted(Gone, head) ELSE Gone]
  BY DEF IngestFull
<1>7. calls' \in [Call -> Stamp]
  BY <1>2, <1>5, ResolvedIs
<1>8. /\ \A f \in File :
           /\ file'[f] = IF Has(trees[head], f)
                         THEN Upserted(Gone, head) ELSE Gone
           /\ inLayer'[f] = IF Has(trees[head], f) /\ LayerOf[f] # None
                            THEN Upserted(Gone, head) ELSE Gone
      /\ file' \in [File -> Stamp] /\ inLayer' \in [File -> Stamp]
  BY <1>1, <1>6
<1>9. /\ \A l \in Layer :
           layer'[l] = IF \E f \in File : Has(trees[head], f) /\ LayerOf[f] = l
                       THEN Upserted(Gone, head) ELSE Gone
      /\ layer' \in [Layer -> Stamp]
  BY <1>1, <1>6
<1>. QED
  BY <1>2, <1>3, <1>4, <1>5, <1>7, <1>8, <1>9

LEMMA FullTyped ==
  ASSUME TypeOK, IngestOK, NEW resolves \in BOOLEAN, IngestFull(resolves)
  PROVE  TypeOK' /\ IngestOK'
<1>. DEFINE tree == trees[head]
            new == Upserted(Gone, head)
<1>1. new.in = TRUE /\ Gone.in = FALSE
  BY GoneIs, UpsertedIs, HeadIs
<1>2. StampsTyped'
  BY FullIs DEF StampsTyped
<1>3. RestTyped'
  <2>1. /\ trees' = trees /\ ingest' = ingest /\ cut' = cut /\ base' = head
        /\ full' = resolves /\ kept' = {head} /\ head' = head
        /\ torn' = FALSE
        /\ faults' = faults \/ (faults < MaxFaults /\ faults' = faults + 1)
    BY DEF IngestFull, head
  <2>2. head \in 1 .. MaxOrd /\ MaxOrd \in Nat /\ MaxFaults \in Nat
        /\ faults \in 0 .. MaxFaults /\ cut \in 0 .. head /\ ingest \in Ingest
        /\ trees \in Seq([File -> Contents \cup {Absent}])
    BY TemporalGraphAssumption DEF TypeOK
  <2>3. faults' \in 0 .. MaxFaults
    BY <2>1, <2>2
  <2>4. base' \in 0 .. head /\ kept' \subseteq 1 .. head
    BY <2>1, <2>2
  <2>5. full' \in BOOLEAN /\ torn' \in BOOLEAN
    BY <2>1
  <2>. QED
    BY <2>1, <2>2, <2>3, <2>4, <2>5 DEF RestTyped
<1>4. \A s \in Symbol :
        s \in Defined(tree) => Has(tree, s.file) /\ s.file \in File
  BY DEF Defined, Symbol
<1>5. \A s \in Symbol : defines'[s].in <=> s \in Defined(tree)
  BY <1>1, FullIs DEF FullDefs
<1>6. \A f \in File : file'[f].in <=> Has(tree, f)
  BY <1>1, FullIs
<1>7. \A s \in Symbol : defines'[s].in => symbol'[s].in /\ file'[s.file].in
  BY <1>4, <1>5, <1>6, FullIs
<1>8. \A f \in File : inLayer'[f].in =>
        file'[f].in /\ LayerOf[f] \in Layer /\ layer'[LayerOf[f]].in
  <2>1. SUFFICES ASSUME NEW f \in File, inLayer'[f].in
                 PROVE  /\ file'[f].in /\ LayerOf[f] \in Layer
                        /\ layer'[LayerOf[f]].in
    OBVIOUS
  <2>2. Has(tree, f) /\ LayerOf[f] # None
    BY <1>1, <2>1, FullIs
  <2>3. LayerOf[f] \in Layer
    BY <2>2, TemporalGraphAssumption
  <2>. QED
    BY <1>1, <1>6, <2>2, <2>3, FullIs
<1>9. \A c \in Call : calls'[c].in =>
        file'[c.from].in /\ (c.to \in Symbol => symbol'[c.to].in)
  <2>1. SUFFICES ASSUME NEW c \in Call, calls'[c].in
                 PROVE  /\ file'[c.from].in
                        /\ c.to \in Symbol => symbol'[c.to].in
    OBVIOUS
  <2>. DEFINE cs == FullCalls(tree)
  <2>2. cs \in [Call -> Stamp]
    BY FullIs
  <2>3. \A d \in Call : cs[d].in =>
          /\ d.to \notin Symbol
          /\ Has(tree, d.from)
    <3>1. SUFFICES ASSUME NEW d \in Call, cs[d].in
                   PROVE  d.to \notin Symbol /\ Has(tree, d.from)
      OBVIOUS
    <3>2. PICK n \in Name : d.from \in Calls(tree, n) /\ d = Raw(d.from, n)
      BY <1>1, <3>1 DEF FullCalls
    <3>. QED
      BY <3>2, Placeholders, CallFields DEF Calls
  <2>4. \/ cs[c].in
        \/ /\ cs[Raw(c.from, c.to.name)].in
           /\ c.to \in Symbol /\ FullDefs(tree)[c.to].in
    BY <2>1, <2>2, FullIs, ResolvedEnds
  <2>5. CASE cs[c].in
    BY <1>6, <2>3, <2>5, CallFields
  <2>6. CASE /\ cs[Raw(c.from, c.to.name)].in
             /\ c.to \in Symbol /\ FullDefs(tree)[c.to].in
    <3>1. c.from \in File /\ c.to.name \in Name
      BY CallFields
    <3>2. Has(tree, c.from)
      BY <2>3, <2>6, <3>1, Placeholders
    <3>. QED
      BY <1>6, <2>6, <3>1, <3>2, FullIs
  <2>. QED
    BY <2>4, <2>5, <2>6
<1>10. IngestOK'
  <2>1. ingest' = ingest /\ ingest.pc = "idle"
    BY DEF IngestFull
  <2>. QED
    BY <2>1 DEF IngestOK
<1>. QED
  BY <1>2, <1>3, <1>7, <1>8, <1>9, <1>10, TypeParts
  DEF EndsOK, TypeOK, RestTyped, StampsTyped

-----------------------------------------------------------------------------
(* The steps of an ingest. *)
LEMMA SameRest ==
  ASSUME TypeOK, UNCHANGED <<trees, base, full, kept, cut, torn, faults>>,
         ingest' \in Ingest
  PROVE  RestTyped'
BY DEF TypeOK, RestTyped, head

LEMMA StartTyped ==
  ASSUME TypeOK, IngestOK, Start
  PROVE  /\ TypeOK' /\ IngestOK'
         /\ ingest'.pc = "files" /\ ingest'.to = head /\ ~ingest'.wrote
         /\ ingest'.deleted = {f \in File : trees[base][f] # trees[head][f]
                                            /\ ~Has(trees[head], f)}
         /\ ingest'.changed = {f \in File : trees[base][f] # trees[head][f]
                                            /\ Has(trees[head], f)}
<1>1. /\ head \in Ord /\ base \in 0 .. head /\ head \in Nat /\ base # 0
      /\ 0 \in Ord
  BY HeadIs, TemporalGraphAssumption DEF TypeOK, Start, Ord
<1>2. Quiet \in Ingest
  BY <1>1 DEF Quiet, Ingest
<1>3. /\ ingest' \in Ingest
      /\ ingest'.pc = "files" /\ ingest'.to = head /\ ~ingest'.wrote
      /\ ingest'.deleted = {f \in File : trees[base][f] # trees[head][f]
                                         /\ ~Has(trees[head], f)}
      /\ ingest'.changed = {f \in File : trees[base][f] # trees[head][f]
                                         /\ Has(trees[head], f)}
  BY <1>1, <1>2 DEF Start, Quiet, Ingest
<1>4. /\ trees' = trees /\ base' = base /\ kept' = kept /\ cut' = cut
      /\ faults' = faults /\ torn' = torn /\ full' \in BOOLEAN
      /\ UNCHANGED <<nodes, edges>>
      /\ head' = head
  BY DEF Start, head
<1>5. RestTyped'
  BY <1>3, <1>4 DEF TypeOK, RestTyped
<1>6. TypeOK'
  BY <1>4, <1>5, SameStamps DEF TypeOK, RestTyped, StampsTyped, EndsOK
<1>7. IngestOK'
  BY <1>1, <1>3, <1>4 DEF IngestOK
<1>. QED
  BY <1>3, <1>6, <1>7

(* The first query of a deletion kills the File. *)
LEMMA TombstoneFileIs ==
  ASSUME TypeOK, NEW f \in File, TombstoneFile(f)
  PROVE  /\ \A g \in File : file'[g] = IF g = f
                                        THEN Invalid(file[g], ingest.to)
                                        ELSE file[g]
         /\ UNCHANGED <<symbol, layer, defines, inLayer, calls, torn, trees,
                        base, full, kept, cut, faults>>
         /\ head' = head /\ StampsTyped' /\ EndsOK'
<1>1. ingest.to \in Ord /\ StampsTyped /\ EndsOK
  BY TypeParts DEF TypeOK, Ingest
<1>2. \A st \in Stamp : /\ Invalid(st, ingest.to) \in Stamp
                        /\ Invalid(st, ingest.to).in = st.in
  BY <1>1, InvalidIs
<1>3. /\ UNCHANGED <<symbol, layer, defines, inLayer, calls, torn, trees,
                     base, full, kept, cut, faults>>
      /\ head' = head
  BY DEF TombstoneFile, edges, head
<1>4. /\ file' \in [File -> Stamp]
      /\ \A g \in File : file'[g] = IF g = f THEN Invalid(file[g], ingest.to)
                                    ELSE file[g]
  BY <1>1, <1>2 DEF TombstoneFile, StampsTyped
<1>5. \A g \in File : file'[g].in = file[g].in
  BY <1>1, <1>2, <1>4 DEF StampsTyped
<1>6. EndsOK'
  BY <1>1, <1>3, <1>5, EndsKept
<1>7. StampsTyped'
  BY <1>1, <1>3, <1>4 DEF StampsTyped
<1>. QED
  BY <1>3, <1>4, <1>6, <1>7

LEMMA DeleteFileTyped ==
  ASSUME TypeOK, IngestOK, NEW f \in File, DeleteFile(f)
  PROVE  /\ TypeOK' /\ IngestOK' /\ f \in ingest.deleted
         /\ ingest.pc = "files" /\ ingest'.pc = "symbols"
         /\ ingest'.to = ingest.to /\ ingest'.wrote = ingest.wrote
         /\ ingest'.deleted = ingest.deleted \ {f}
         /\ ingest'.changed = ingest.changed
         /\ ingest'.cur = f /\ ingest'.read = Absent
<1>1. /\ ingest' \in Ingest /\ ingest.pc = "files" /\ ingest'.pc = "symbols"
      /\ ingest'.to = ingest.to /\ ingest'.wrote = ingest.wrote
      /\ ingest'.deleted = ingest.deleted \ {f} /\ f \in ingest.deleted
      /\ ingest'.changed = ingest.changed
      /\ ingest'.cur = f /\ ingest'.read = Absent
  BY DEF TypeOK, DeleteFile, Ingest
<1>2. /\ StampsTyped' /\ EndsOK' /\ head' = head
      /\ UNCHANGED <<trees, base, full, kept, cut, torn, faults>>
  BY TombstoneFileIs DEF DeleteFile
<1>3. RestTyped'
  BY <1>1, <1>2, SameRest
<1>4. TypeOK'
  BY <1>2, <1>3 DEF TypeOK, RestTyped, StampsTyped, EndsOK
<1>5. IngestOK'
  BY <1>1, <1>2 DEF IngestOK
<1>. QED
  BY <1>1, <1>4, <1>5

LEMMA ExtractTyped ==
  ASSUME TypeOK, IngestOK, NEW f \in File, Extract(f)
  PROVE  /\ TypeOK' /\ IngestOK'
         /\ ingest.pc = "files" /\ ingest.deleted = {}
         /\ ingest'.to = ingest.to /\ ingest'.wrote = ingest.wrote
         /\ ingest'.deleted = {} /\ ingest'.changed = ingest.changed \ {f}
         /\ f \in ingest.changed
         /\ IF Has(trees[head], f)
            THEN /\ ingest'.pc = "delete" /\ ingest'.cur = f
                 /\ ingest'.read = trees[head][f]
            ELSE ingest'.pc = "files"
<1>1. trees[head][f] \in Contents \cup {Absent}
  BY HeadIs
<1>2. /\ ingest' \in Ingest
      /\ ingest.pc = "files" /\ ingest.deleted = {} /\ f \in ingest.changed
      /\ ingest'.to = ingest.to /\ ingest'.wrote = ingest.wrote
      /\ ingest'.deleted = {} /\ ingest'.changed = ingest.changed \ {f}
      /\ IF Has(trees[head], f)
         THEN /\ ingest'.pc = "delete" /\ ingest'.cur = f
              /\ ingest'.read = trees[head][f]
         ELSE ingest'.pc = "files"
  BY <1>1 DEF TypeOK, Extract, Ingest
<1>3. /\ UNCHANGED <<nodes, edges>> /\ head' = head
      /\ UNCHANGED <<trees, base, full, kept, cut, torn, faults>>
  BY DEF Extract, head
<1>4. TypeOK'
  BY <1>2, <1>3, SameRest, SameStamps
  DEF TypeOK, RestTyped, StampsTyped, EndsOK
<1>5. IngestOK'
  BY <1>2, <1>3 DEF IngestOK, Has
<1>. QED
  BY <1>2, <1>4, <1>5

(* A step of the deletion of the file in hand. *)
LEMMA DeleteOldTyped ==
  ASSUME TypeOK, IngestOK, DeleteOld
  PROVE  /\ TypeOK' /\ IngestOK'
         /\ ingest.cur \in File /\ ingest.read # Absent
         /\ ingest.pc = "delete" /\ ingest'.pc = "symbols"
         /\ ingest'.to = ingest.to /\ ingest'.wrote = ingest.wrote
         /\ ingest'.deleted = ingest.deleted
         /\ ingest'.changed = ingest.changed
         /\ ingest'.cur = ingest.cur /\ ingest'.read = ingest.read
<1>1. /\ ingest' \in Ingest /\ ingest.pc = "delete" /\ ingest'.pc = "symbols"
      /\ ingest'.to = ingest.to /\ ingest'.wrote = ingest.wrote
      /\ ingest'.deleted = ingest.deleted
      /\ ingest'.changed = ingest.changed
      /\ ingest'.cur = ingest.cur /\ ingest'.read = ingest.read
  BY DEF TypeOK, DeleteOld, Ingest
<1>2. ingest.cur \in File /\ ingest.read # Absent
  BY <1>1 DEF IngestOK
<1>3. /\ StampsTyped' /\ EndsOK' /\ head' = head
      /\ UNCHANGED <<trees, base, full, kept, cut, torn, faults>>
  BY <1>2, TombstoneFileIs DEF DeleteOld
<1>4. TypeOK'
  BY <1>1, <1>3, SameRest DEF TypeOK, RestTyped, StampsTyped, EndsOK
<1>5. IngestOK'
  BY <1>1, <1>2, <1>3 DEF IngestOK
<1>. QED
  BY <1>1, <1>2, <1>4, <1>5

(* The second query kills the Symbols that are found. *)
LEMMA TombstoneSymbolsTyped ==
  ASSUME TypeOK, IngestOK, TombstoneSymbols
  PROVE  /\ TypeOK' /\ IngestOK' /\ ingest.cur \in File
         /\ ingest.pc = "symbols" /\ ingest'.pc = "touching"
         /\ ingest'.to = ingest.to /\ ingest'.wrote = ingest.wrote
         /\ ingest'.deleted = ingest.deleted
         /\ ingest'.changed = ingest.changed
         /\ ingest'.cur = ingest.cur /\ ingest'.read = ingest.read
         /\ UNCHANGED <<trees, file, layer, defines, inLayer, calls, base,
                        full, kept, cut, torn, faults>>
         /\ head' = head
         /\ \A s \in Symbol : symbol'[s] =
              IF s.file = ingest.cur /\ defines[s].in
              THEN Invalid(symbol[s], ingest.to) ELSE symbol[s]
<1>1. /\ ingest' \in Ingest
      /\ ingest.pc = "symbols" /\ ingest'.pc = "touching"
      /\ ingest'.to = ingest.to /\ ingest'.wrote = ingest.wrote
      /\ ingest'.deleted = ingest.deleted
      /\ ingest'.changed = ingest.changed
      /\ ingest'.cur = ingest.cur /\ ingest'.read = ingest.read
  BY DEF TypeOK, TombstoneSymbols, Ingest
<1>2. /\ UNCHANGED <<trees, file, layer, defines, inLayer, calls, base, full,
                     kept, cut, torn, faults>>
      /\ head' = head
  BY DEF TombstoneSymbols, edges, head
<1>3. ingest.cur \in File
  BY <1>1 DEF IngestOK
<1>4. ingest.to \in Ord /\ StampsTyped /\ EndsOK
  BY TypeParts DEF TypeOK, Ingest
<1>5. \A st \in Stamp : /\ Invalid(st, ingest.to) \in Stamp
                        /\ Invalid(st, ingest.to).in = st.in
  BY <1>4, InvalidIs
<1>6. /\ symbol' \in [Symbol -> Stamp]
      /\ \A s \in Symbol : symbol'[s] =
           IF s.file = ingest.cur /\ defines[s].in
           THEN Invalid(symbol[s], ingest.to) ELSE symbol[s]
  BY <1>4, <1>5 DEF TombstoneSymbols, StampsTyped
<1>7. \A s \in Symbol : symbol'[s].in = symbol[s].in
  BY <1>4, <1>5, <1>6 DEF StampsTyped
<1>8. EndsOK'
  BY <1>2, <1>4, <1>7, EndsKept
<1>9. StampsTyped'
  BY <1>2, <1>4, <1>6 DEF StampsTyped
<1>10. TypeOK'
  BY <1>1, <1>2, <1>8, <1>9, SameRest
  DEF TypeOK, RestTyped, StampsTyped, EndsOK
<1>11. IngestOK'
  BY <1>1, <1>2, <1>3 DEF IngestOK
<1>. QED
  BY <1>1, <1>2, <1>3, <1>6, <1>10, <1>11

(* The third kills the edges of the File. *)
LEMMA TombstoneEdgesTyped ==
  ASSUME TypeOK, IngestOK, TombstoneEdges
  PROVE  /\ TypeOK' /\ IngestOK' /\ ingest.cur \in File
         /\ ingest.pc = "touching"
         /\ ingest'.pc = IF ingest.read = Absent THEN "files" ELSE "nodes"
         /\ ingest'.to = ingest.to /\ ingest'.wrote = ingest.wrote
         /\ ingest'.deleted = ingest.deleted
         /\ ingest'.changed = ingest.changed
         /\ ingest'.cur = ingest.cur /\ ingest'.read = ingest.read
         /\ UNCHANGED <<trees, file, symbol, layer, base, full, kept, cut,
                        torn, faults>>
         /\ head' = head
         /\ \A s \in Symbol : defines'[s] =
              IF s.file = ingest.cur THEN Invalid(defines[s], ingest.to)
              ELSE defines[s]
         /\ \A f \in File : inLayer'[f] =
              IF f = ingest.cur THEN Invalid(inLayer[f], ingest.to)
              ELSE inLayer[f]
<1>1. /\ ingest' \in Ingest
      /\ ingest.pc = "touching"
      /\ ingest'.pc = IF ingest.read = Absent THEN "files" ELSE "nodes"
      /\ ingest'.to = ingest.to /\ ingest'.wrote = ingest.wrote
      /\ ingest'.deleted = ingest.deleted
      /\ ingest'.changed = ingest.changed
      /\ ingest'.cur = ingest.cur /\ ingest'.read = ingest.read
  BY DEF TypeOK, TombstoneEdges, Ingest
<1>2. /\ UNCHANGED <<trees, file, symbol, layer, base, full, kept, cut, torn,
                     faults>>
      /\ head' = head
  BY DEF TombstoneEdges, nodes, head
<1>3. ingest.cur \in File
  BY <1>1 DEF IngestOK
<1>4. ingest.to \in Ord /\ StampsTyped /\ EndsOK
  BY TypeParts DEF TypeOK, Ingest
<1>5. \A st \in Stamp : /\ Invalid(st, ingest.to) \in Stamp
                        /\ Invalid(st, ingest.to).in = st.in
  BY <1>4, InvalidIs
<1>6. /\ defines' \in [Symbol -> Stamp]
      /\ \A s \in Symbol : defines'[s] =
           IF s.file = ingest.cur THEN Invalid(defines[s], ingest.to)
           ELSE defines[s]
  BY <1>4, <1>5 DEF TombstoneEdges, StampsTyped
<1>7. /\ inLayer' \in [File -> Stamp]
      /\ \A f \in File : inLayer'[f] =
           IF f = ingest.cur THEN Invalid(inLayer[f], ingest.to)
           ELSE inLayer[f]
  BY <1>4, <1>5 DEF TombstoneEdges, StampsTyped
<1>8. /\ calls' \in [Call -> Stamp]
      /\ \A c \in Call : calls'[c] =
           IF c.from = ingest.cur THEN Invalid(calls[c], ingest.to)
           ELSE calls[c]
  BY <1>4, <1>5 DEF TombstoneEdges, StampsTyped
<1>9. /\ \A s \in Symbol : defines'[s].in = defines[s].in
      /\ \A f \in File : inLayer'[f].in = inLayer[f].in
      /\ \A c \in Call : calls'[c].in = calls[c].in
  BY <1>4, <1>5, <1>6, <1>7, <1>8 DEF StampsTyped
<1>10. EndsOK'
  BY <1>2, <1>4, <1>9, EndsKept
<1>11. StampsTyped'
  BY <1>2, <1>4, <1>6, <1>7, <1>8 DEF StampsTyped
<1>12. TypeOK'
  BY <1>1, <1>2, <1>10, <1>11, SameRest
  DEF TypeOK, RestTyped, StampsTyped, EndsOK
<1>13. IngestOK'
  BY <1>1, <1>2, <1>3 DEF IngestOK
<1>. QED
  BY <1>1, <1>2, <1>3, <1>6, <1>7, <1>12, <1>13

LEMMA UpsertNodesTyped ==
  ASSUME TypeOK, IngestOK, UpsertNodes
  PROVE  /\ TypeOK' /\ IngestOK' /\ Parsed' = Parsed
         /\ ingest.cur \in File /\ ingest.pc = "nodes" /\ ingest'.pc = "edges"
         /\ ingest'.to = ingest.to /\ ingest'.wrote = ingest.wrote
         /\ ingest'.deleted = ingest.deleted
         /\ ingest'.changed = ingest.changed
         /\ ingest'.cur = ingest.cur /\ ingest'.read = ingest.read
         /\ \A g \in File : file'[g] = IF g = ingest.cur
                                       THEN Upserted(file[g], ingest.to)
                                       ELSE file[g]
         /\ \A s \in Symbol : symbol'[s] = IF s \in Parsed
                                           THEN Upserted(symbol[s], ingest.to)
                                           ELSE symbol[s]
<1>1. /\ ingest' \in Ingest /\ ingest.pc = "nodes" /\ ingest'.pc = "edges"
      /\ ingest'.to = ingest.to /\ ingest'.wrote = ingest.wrote
      /\ ingest'.deleted = ingest.deleted
      /\ ingest'.changed = ingest.changed
      /\ ingest'.cur = ingest.cur /\ ingest'.read = ingest.read
  BY DEF TypeOK, UpsertNodes, Ingest
<1>2. /\ UNCHANGED <<trees, base, full, kept, cut, torn, faults>>
      /\ head' = head
      /\ layer' = layer /\ defines' = defines /\ inLayer' = inLayer
      /\ calls' = calls
  BY DEF UpsertNodes, head, edges
<1>3. ingest.cur \in File /\ ingest.read # Absent
  BY <1>1 DEF IngestOK
<1>4. ingest.to \in Ord /\ StampsTyped /\ EndsOK
  BY TypeParts DEF TypeOK, Ingest
<1>5. Parsed' = Parsed
  BY <1>1 DEF Parsed
<1>6. /\ file' \in [File -> Stamp]
      /\ \A g \in File : file'[g] = IF g = ingest.cur
                                    THEN Upserted(file[g], ingest.to)
                                    ELSE file[g]
  BY <1>3, <1>4, UpsertedIs DEF UpsertNodes, StampsTyped
<1>7. /\ symbol' \in [Symbol -> Stamp]
      /\ \A s \in Symbol : symbol'[s] = IF s \in Parsed
                                        THEN Upserted(symbol[s], ingest.to)
                                        ELSE symbol[s]
  BY <1>4, UpsertedIs DEF UpsertNodes, StampsTyped
<1>8. StampsTyped'
  BY <1>2, <1>4, <1>6, <1>7 DEF StampsTyped
<1>0. \A st \in Stamp : /\ Upserted(st, ingest.to).in = TRUE
                         /\ Live(Upserted(st, ingest.to))
  BY <1>4, UpsertedIs
<1>9. /\ \A g \in File : file[g].in => file'[g].in
      /\ \A s \in Symbol : symbol[s].in => symbol'[s].in
  <2>1. ASSUME NEW g \in File, file[g].in PROVE file'[g].in
    BY <1>0, <1>4, <1>6, <2>1 DEF StampsTyped
  <2>2. ASSUME NEW s \in Symbol, symbol[s].in PROVE symbol'[s].in
    BY <1>0, <1>4, <1>7, <2>2 DEF StampsTyped
  <2>. QED
    BY <2>1, <2>2
<1>10. \A s \in Symbol : s.file \in File
  BY DEF Symbol
<1>11. EndsOK'
  BY <1>2, <1>4, <1>9, <1>10, CallFields DEF EndsOK
<1>12. TypeOK'
  BY <1>1, <1>2, <1>8, <1>11, SameRest
  DEF TypeOK, RestTyped, StampsTyped, EndsOK
<1>13. Live(file'[ingest.cur]) /\ \A s \in Parsed : Live(symbol'[s])
  <2>1. Live(file'[ingest.cur])
    BY <1>0, <1>3, <1>4, <1>6 DEF StampsTyped
  <2>2. ASSUME NEW s \in Parsed PROVE Live(symbol'[s])
    BY <1>0, <1>4, <1>7, ParsedIs DEF StampsTyped
  <2>. QED
    BY <2>1, <2>2
<1>14. IngestOK'
  BY <1>1, <1>2, <1>3, <1>5, <1>13 DEF IngestOK
<1>. QED
  BY <1>1, <1>3, <1>5, <1>6, <1>7, <1>12, <1>14

LEMMA ReadIs ==
  ASSUME TypeOK, ingest.read # Absent
  PROVE  ingest.read.calls \subseteq Name
<1>1. ingest.read \in Contents
  BY DEF TypeOK, Ingest
<1>. QED
  BY <1>1, TemporalGraphAssumption

LEMMA UpsertEdgesTyped ==
  ASSUME TypeOK, IngestOK, UpsertEdges
  PROVE  /\ TypeOK' /\ IngestOK'
         /\ ingest.cur \in File /\ ingest.pc = "edges" /\ ingest'.pc = "files"
         /\ ingest'.to = ingest.to /\ ingest'.wrote
         /\ ingest'.deleted = ingest.deleted
         /\ ingest'.changed = ingest.changed
         /\ \A s \in Symbol :
              defines'[s] = IF s \in Parsed
                            THEN Upserted(defines[s], ingest.to)
                            ELSE defines[s]
<1>1. /\ ingest' \in Ingest /\ ingest.pc = "edges" /\ ingest'.pc = "files"
      /\ ingest'.to = ingest.to /\ ingest'.wrote
      /\ ingest'.deleted = ingest.deleted
      /\ ingest'.changed = ingest.changed
  BY DEF TypeOK, UpsertEdges, Ingest
<1>2. /\ UNCHANGED <<trees, base, full, kept, cut, torn, faults>>
      /\ head' = head
      /\ layer' = layer /\ file' = file /\ symbol' = symbol
      /\ inLayer' = inLayer
  BY DEF UpsertEdges, head, nodes
<1>3. /\ ingest.cur \in File /\ ingest.read # Absent
      /\ Live(file[ingest.cur]) /\ \A s \in Parsed : Live(symbol[s])
  BY <1>1 DEF IngestOK
<1>4. ingest.to \in Ord /\ StampsTyped /\ EndsOK
  BY TypeParts DEF TypeOK, Ingest
<1>5. /\ defines' \in [Symbol -> Stamp]
      /\ \A s \in Symbol : defines'[s] = IF s \in Parsed
                                         THEN Upserted(defines[s], ingest.to)
                                         ELSE defines[s]
  BY <1>4, UpsertedIs DEF UpsertEdges, StampsTyped
<1>6. /\ calls' \in [Call -> Stamp]
      /\ \A c \in Call :
           calls'[c] = IF \E n \in ingest.read.calls : c = Raw(ingest.cur, n)
                       THEN Upserted(calls[c], ingest.to) ELSE calls[c]
  BY <1>4, UpsertedIs DEF UpsertEdges, StampsTyped
<1>7. StampsTyped'
  BY <1>2, <1>4, <1>5, <1>6 DEF StampsTyped
<1>8. \A s \in Symbol : defines'[s].in => symbol'[s].in /\ file'[s.file].in
  BY <1>2, <1>3, <1>4, <1>5, ParsedIs DEF EndsOK, Live
<1>9. \A c \in Call : calls'[c].in =>
        file'[c.from].in /\ (c.to \in Symbol => symbol'[c.to].in)
  <2>1. SUFFICES ASSUME NEW c \in Call, calls'[c].in
                 PROVE  file[c.from].in /\ (c.to \in Symbol => symbol[c.to].in)
    BY <1>2
  <2>2. CASE \E n \in ingest.read.calls : c = Raw(ingest.cur, n)
    <3>1. PICK n \in ingest.read.calls : c = Raw(ingest.cur, n)
      BY <2>2
    <3>2. n \in Name
      BY <1>3, ReadIs
    <3>. QED
      BY <1>3, <3>1, <3>2, Placeholders DEF Live
  <2>3. CASE ~\E n \in ingest.read.calls : c = Raw(ingest.cur, n)
    BY <1>4, <1>6, <2>1, <2>3 DEF EndsOK
  <2>. QED
    BY <2>2, <2>3
<1>10. EndsOK'
  BY <1>2, <1>4, <1>8, <1>9 DEF EndsOK
<1>11. TypeOK'
  BY <1>1, <1>2, <1>7, <1>10, SameRest
  DEF TypeOK, RestTyped, StampsTyped, EndsOK
<1>12. IngestOK'
  BY <1>1, <1>2 DEF IngestOK
<1>. QED
  BY <1>1, <1>3, <1>5, <1>11, <1>12

(* The live files that have a layer, and the layers of them. *)
Filed == {f \in File : Live(file[f]) /\ LayerOf[f] # None}
Used == {LayerOf[f] : f \in Filed}

LEMMA ArchitectureTyped ==
  ASSUME TypeOK, IngestOK, IndexArchitecture
  PROVE  /\ TypeOK' /\ IngestOK'
         /\ ingest.pc = "files" /\ ingest.deleted = {} /\ ingest.changed = {}
         /\ ingest'.pc = IF ingest.wrote THEN "resolve" ELSE "record"
         /\ ingest'.to = ingest.to /\ ingest'.wrote = ingest.wrote
         /\ ingest'.deleted = {} /\ ingest'.changed = {}
         /\ \A f \in File : inLayer'[f] = IF f \in Filed
                                          THEN Upserted(inLayer[f], ingest.to)
                                          ELSE inLayer[f]
         /\ \A l \in Layer :
              layer'[l] = IF l \in Used THEN Upserted(layer[l], ingest.to)
                          ELSE IF Live(layer[l]) /\ layer[l].last # ingest.to
                          THEN Invalid(layer[l], ingest.to)
                          ELSE layer[l]
<1>1. /\ ingest' \in Ingest
      /\ ingest.pc = "files" /\ ingest.deleted = {} /\ ingest.changed = {}
      /\ ingest'.pc = IF ingest.wrote THEN "resolve" ELSE "record"
      /\ ingest'.to = ingest.to /\ ingest'.wrote = ingest.wrote
      /\ ingest'.deleted = {} /\ ingest'.changed = {}
  BY DEF TypeOK, IndexArchitecture, Ingest
<1>2. /\ UNCHANGED <<trees, base, full, kept, cut, torn, faults>>
      /\ head' = head
      /\ file' = file /\ symbol' = symbol /\ defines' = defines
      /\ calls' = calls
  BY DEF IndexArchitecture, head
<1>3. ingest.to \in Ord /\ StampsTyped /\ EndsOK
  BY TypeParts DEF TypeOK, Ingest
<1>4. /\ \A st \in Stamp : /\ Upserted(st, ingest.to) \in Stamp
                           /\ Upserted(st, ingest.to).in = TRUE
      /\ \A st \in Stamp : /\ Invalid(st, ingest.to) \in Stamp
                           /\ Invalid(st, ingest.to).in = st.in
  BY <1>3, UpsertedIs, InvalidIs
<1>5. /\ inLayer' \in [File -> Stamp]
      /\ \A f \in File : inLayer'[f] = IF f \in Filed
                                       THEN Upserted(inLayer[f], ingest.to)
                                       ELSE inLayer[f]
  BY <1>3, <1>4 DEF IndexArchitecture, Filed, StampsTyped
<1>6. /\ layer' \in [Layer -> Stamp]
      /\ \A l \in Layer :
           layer'[l] = IF l \in Used THEN Upserted(layer[l], ingest.to)
                       ELSE IF Live(layer[l]) /\ layer[l].last # ingest.to
                       THEN Invalid(layer[l], ingest.to)
                       ELSE layer[l]
  BY <1>3, <1>4 DEF IndexArchitecture, Used, Filed, StampsTyped
<1>7. \A l \in Layer : (l \in Used \/ layer[l].in) => layer'[l].in
  BY <1>3, <1>4, <1>6 DEF StampsTyped
<1>8. \A f \in File : inLayer'[f].in =>
        file'[f].in /\ LayerOf[f] \in Layer /\ layer'[LayerOf[f]].in
  <2>1. SUFFICES ASSUME NEW f \in File, inLayer'[f].in
                 PROVE  /\ file[f].in /\ LayerOf[f] \in Layer
                        /\ layer'[LayerOf[f]].in
    BY <1>2
  <2>2. CASE f \in Filed
    <3>1. file[f].in /\ LayerOf[f] \in Used
      BY <2>2 DEF Filed, Used, Live
    <3>2. LayerOf[f] \in Layer
      BY <2>2, TemporalGraphAssumption DEF Filed
    <3>. QED
      BY <1>7, <3>1, <3>2
  <2>3. CASE f \notin Filed
    BY <1>3, <1>5, <1>7, <2>1, <2>3 DEF EndsOK
  <2>. QED
    BY <2>2, <2>3
<1>9. StampsTyped'
  BY <1>2, <1>3, <1>5, <1>6 DEF StampsTyped
<1>10. EndsOK'
  BY <1>2, <1>3, <1>8 DEF EndsOK
<1>11. TypeOK'
  BY <1>1, <1>2, <1>9, <1>10, SameRest
  DEF TypeOK, RestTyped, StampsTyped, EndsOK
<1>12. IngestOK'
  BY <1>1, <1>2 DEF IngestOK
<1>. QED
  BY <1>1, <1>5, <1>6, <1>11, <1>12

LEMMA ResolveTyped ==
  ASSUME TypeOK, IngestOK, Resolve
  PROVE  /\ TypeOK' /\ IngestOK'
         /\ ingest.pc = "resolve" /\ ingest'.pc = "record"
         /\ ingest'.to = ingest.to /\ ingest'.wrote = ingest.wrote
         /\ ingest'.deleted = ingest.deleted
         /\ ingest'.changed = ingest.changed
<1>1. /\ ingest' \in Ingest
      /\ ingest.pc = "resolve" /\ ingest'.pc = "record"
      /\ ingest'.to = ingest.to /\ ingest'.wrote = ingest.wrote
      /\ ingest'.deleted = ingest.deleted
      /\ ingest'.changed = ingest.changed
  BY DEF TypeOK, Resolve, Ingest
<1>2. /\ UNCHANGED <<trees, base, full, kept, cut, torn>> /\ head' = head
      /\ file' = file /\ symbol' = symbol /\ layer' = layer
      /\ defines' = defines /\ inLayer' = inLayer
  BY DEF Resolve, head, nodes
<1>3. StampsTyped /\ EndsOK /\ calls \in [Call -> Stamp]
  BY TypeParts DEF TypeOK
<1>4. calls' = calls \/ calls' = Resolved(defines, calls)
  BY DEF Resolve
<1>5. calls' \in [Call -> Stamp]
  BY <1>3, <1>4, ResolvedIs
<1>6. faults' \in 0 .. MaxFaults
  <2>1. MaxFaults \in Nat /\ faults \in 0 .. MaxFaults
    BY TemporalGraphAssumption DEF TypeOK
  <2>2. faults' = faults \/ (faults < MaxFaults /\ faults' = faults + 1)
    BY DEF Resolve
  <2>. QED
    BY <2>1, <2>2
<1>7. \A c \in Call : calls'[c].in =>
        file'[c.from].in /\ (c.to \in Symbol => symbol'[c.to].in)
  <2>1. SUFFICES ASSUME NEW c \in Call, calls'[c].in
                 PROVE  file[c.from].in /\ (c.to \in Symbol => symbol[c.to].in)
    BY <1>2
  <2>2. CASE calls[c].in
    BY <1>3, <2>2 DEF EndsOK
  <2>3. CASE ~calls[c].in
    <3>1. /\ calls[Raw(c.from, c.to.name)].in
          /\ c.to \in Symbol /\ defines[c.to].in
      BY <1>3, <1>4, <2>1, <2>3, ResolvedEnds
    <3>2. c.from \in File /\ c.to.name \in Name
      BY CallFields
    <3>3. file[c.from].in
      BY <1>3, <3>1, <3>2, Placeholders DEF EndsOK
    <3>. QED
      BY <1>3, <3>1, <3>3 DEF EndsOK
  <2>. QED
    BY <2>2, <2>3
<1>8. StampsTyped' /\ EndsOK'
  BY <1>2, <1>3, <1>5, <1>7 DEF StampsTyped, EndsOK
<1>9. RestTyped'
  BY <1>1, <1>2, <1>6 DEF TypeOK, RestTyped
<1>10. TypeOK'
  BY <1>8, <1>9 DEF TypeOK, RestTyped, StampsTyped, EndsOK
<1>11. IngestOK'
  BY <1>1, <1>2 DEF IngestOK
<1>. QED
  BY <1>1, <1>10, <1>11

LEMMA QuietIs ==
  /\ Quiet \in Ingest /\ Quiet.pc = "idle" /\ ~Quiet.wrote
  /\ Quiet.deleted = {} /\ Quiet.changed = {}
<1>1. 0 \in Ord
  BY TemporalGraphAssumption DEF Ord
<1>. QED
  BY <1>1 DEF Quiet, Ingest

LEMMA RecordStateTyped ==
  ASSUME TypeOK, IngestOK, RecordState
  PROVE  TypeOK' /\ IngestOK'
<1>1. /\ ingest.pc = "record" /\ ingest' = Quiet /\ base' = ingest.to
      /\ kept' = IF ingest.to = head THEN kept \cup {head} ELSE kept
      /\ UNCHANGED <<trees, nodes, edges, full, cut, torn, faults>>
      /\ head' = head
  BY DEF RecordState, head
<1>2. /\ ingest.to \in Nat /\ base \in 0 .. head /\ head \in Nat \ {0}
      /\ kept \subseteq 1 .. head
  BY HeadIs DEF TypeOK, Ingest, Ord
<1>3. 0 < base /\ base <= ingest.to /\ ingest.to <= head
  BY <1>1 DEF IngestOK
<1>4. base' \in 0 .. head /\ kept' \subseteq 1 .. head
  BY <1>1, <1>2, <1>3
<1>5. RestTyped'
  BY <1>1, <1>4, QuietIs DEF TypeOK, RestTyped
<1>6. TypeOK'
  BY <1>1, <1>5, SameStamps DEF TypeOK, RestTyped, StampsTyped, EndsOK
<1>7. IngestOK'
  BY <1>1, QuietIs DEF IngestOK
<1>. QED
  BY <1>6, <1>7

LEMMA FailTyped ==
  ASSUME TypeOK, IngestOK, Fail
  PROVE  TypeOK' /\ IngestOK'
<1>1. /\ ingest' = Quiet /\ faults < MaxFaults /\ faults' = faults + 1
      /\ UNCHANGED <<trees, nodes, edges, base, full, kept, cut>>
      /\ head' = head
  BY DEF Fail, head
<1>2. MaxFaults \in Nat /\ faults \in 0 .. MaxFaults
  BY TemporalGraphAssumption DEF TypeOK
<1>3. faults' \in 0 .. MaxFaults
  BY <1>1, <1>2
<1>4. torn' \in BOOLEAN
  BY DEF Fail
<1>5. RestTyped'
  BY <1>1, <1>3, <1>4, QuietIs DEF TypeOK, RestTyped
<1>6. TypeOK'
  BY <1>1, <1>5, SameStamps DEF TypeOK, RestTyped, StampsTyped, EndsOK
<1>7. IngestOK'
  BY <1>1, QuietIs DEF IngestOK
<1>. QED
  BY <1>6, <1>7

(* Each query of vacuum removes only what is dead, or hangs from it. *)
VacuumIs(o) ==
  /\ \A f \in File :
       /\ file'[f] = file[f] \/ (file'[f] = Gone /\ Eligible(file[f], o))
       /\ \/ inLayer'[f] = inLayer[f]
          \/ /\ inLayer'[f] = Gone
             /\ Eligible(file[f], o) \/ Eligible(inLayer[f], o)
  /\ \A s \in Symbol :
       /\ \/ symbol'[s] = symbol[s]
          \/ symbol'[s] = Gone /\ Eligible(symbol[s], o)
       /\ \/ defines'[s] = defines[s]
          \/ /\ defines'[s] = Gone
             /\ \/ Eligible(file[s.file], o) \/ Eligible(symbol[s], o)
                \/ Eligible(defines[s], o)
  /\ \A c \in Call :
       \/ calls'[c] = calls[c]
       \/ /\ calls'[c] = Gone
          /\ \/ Eligible(file[c.from], o)
             \/ c.to \in Symbol /\ Eligible(symbol[c.to], o)
             \/ Eligible(calls[c], o)

(* Only an edge of a file that goes can leave a live symbol without it. *)
TornBy ==
  /\ torn' \in BOOLEAN
  /\ ~torn' => /\ ~torn
               /\ \A s \in Symbol : Live(symbol'[s]) /\ Live(defines[s]) =>
                                      Live(defines'[s])

StampsNext ==
  /\ file' \in [File -> Stamp] /\ symbol' \in [Symbol -> Stamp]
  /\ defines' \in [Symbol -> Stamp] /\ inLayer' \in [File -> Stamp]
  /\ calls' \in [Call -> Stamp]

LEMMA VacuumFilesIs ==
  ASSUME TypeOK, NEW o \in 1 .. head, VacuumFiles(o), layer' = layer
  PROVE  VacuumIs(o) /\ TornBy /\ StampsNext /\ EndsOK'
<1>0. StampsTyped /\ EndsOK /\ Gone \in Stamp /\ ~Gone.in
  BY TypeParts, GoneIs
<1>1. symbol' = symbol
  BY DEF VacuumFiles
<1>2. /\ file' \in [File -> Stamp]
      /\ \A f \in File :
           file'[f] = IF Eligible(file[f], o) THEN Gone ELSE file[f]
  BY <1>0 DEF VacuumFiles, StampsTyped
<1>3. \A s \in Symbol : s.file \in File
  BY DEF Symbol
<1>4. /\ defines' \in [Symbol -> Stamp]
      /\ \A s \in Symbol : defines'[s] =
           IF Eligible(file[s.file], o) THEN Gone ELSE defines[s]
  BY <1>0, <1>3 DEF VacuumFiles, StampsTyped
<1>5. /\ inLayer' \in [File -> Stamp]
      /\ \A f \in File : inLayer'[f] =
           IF Eligible(file[f], o) THEN Gone ELSE inLayer[f]
  BY <1>0 DEF VacuumFiles, StampsTyped
<1>6. /\ calls' \in [Call -> Stamp]
      /\ \A c \in Call : calls'[c] =
           IF Eligible(file[c.from], o) THEN Gone ELSE calls[c]
  BY <1>0, CallFields DEF VacuumFiles, StampsTyped
<1>7. VacuumIs(o)
  BY <1>1, <1>2, <1>4, <1>5, <1>6 DEF VacuumIs
<1>8. TornBy
  <2>1. /\ torn \in BOOLEAN
        /\ torn' = (torn \/ \E s \in Symbol : Eligible(file[s.file], o)
                                            /\ Live(symbol[s]))
    BY <1>3 DEF VacuumFiles, TypeOK
  <2>2. ASSUME ~torn', NEW s \in Symbol, Live(symbol'[s]), Live(defines[s])
        PROVE  Live(defines'[s])
    BY <1>1, <1>4, <2>1, <2>2
  <2>. QED
    BY <2>1, <2>2 DEF TornBy
<1>9. EndsOK'
  BY <1>0, <1>1, <1>2, <1>3, <1>4, <1>5, <1>6, CallFields DEF EndsOK
<1>. QED
  BY <1>1, <1>0, <1>2, <1>4, <1>5, <1>6, <1>7, <1>8, <1>9
  DEF StampsNext, StampsTyped

LEMMA VacuumSymbolsIs ==
  ASSUME TypeOK, NEW o \in 1 .. head, VacuumSymbols(o), layer' = layer
  PROVE  VacuumIs(o) /\ TornBy /\ StampsNext /\ EndsOK'
<1>0. StampsTyped /\ EndsOK /\ Gone \in Stamp /\ ~Gone.in /\ ~Live(Gone)
  BY TypeParts, GoneIs DEF Live
<1>1. UNCHANGED <<file, inLayer, torn>>
  BY DEF VacuumSymbols
<1>2. /\ symbol' \in [Symbol -> Stamp]
      /\ \A s \in Symbol :
           symbol'[s] = IF Eligible(symbol[s], o) THEN Gone ELSE symbol[s]
  BY <1>0 DEF VacuumSymbols, StampsTyped
<1>3. \A s \in Symbol : s.file \in File
  BY DEF Symbol
<1>4. /\ defines' \in [Symbol -> Stamp]
      /\ \A s \in Symbol : defines'[s] =
           IF Eligible(symbol[s], o) THEN Gone ELSE defines[s]
  BY <1>0 DEF VacuumSymbols, StampsTyped
<1>6. /\ calls' \in [Call -> Stamp]
      /\ \A c \in Call : calls'[c] =
           IF c.to \in Symbol /\ Eligible(symbol[c.to], o)
           THEN Gone ELSE calls[c]
  BY <1>0 DEF VacuumSymbols, StampsTyped
<1>7. VacuumIs(o)
  BY <1>1, <1>2, <1>4, <1>6 DEF VacuumIs
<1>8. TornBy
  <2>1. torn \in BOOLEAN
    BY DEF TypeOK
  <2>2. ASSUME NEW s \in Symbol, Live(symbol'[s]), Live(defines[s])
        PROVE  Live(defines'[s])
    BY <1>0, <1>2, <1>4, <2>2
  <2>. QED
    BY <1>1, <2>1, <2>2 DEF TornBy
<1>9. EndsOK'
  BY <1>0, <1>1, <1>2, <1>3, <1>4, <1>6, CallFields DEF EndsOK
<1>. QED
  BY <1>0, <1>1, <1>2, <1>4, <1>6, <1>7, <1>8, <1>9
  DEF StampsNext, StampsTyped

LEMMA VacuumEdgesIs ==
  ASSUME TypeOK, NEW o \in 1 .. head, VacuumEdges(o), layer' = layer
  PROVE  VacuumIs(o) /\ TornBy /\ StampsNext /\ EndsOK'
<1>0. StampsTyped /\ EndsOK /\ Gone \in Stamp /\ ~Gone.in
  BY TypeParts, GoneIs
<1>1. UNCHANGED <<file, symbol, torn>>
  BY DEF VacuumEdges
<1>2. /\ inLayer' \in [File -> Stamp]
      /\ \A f \in File : inLayer'[f] =
           IF Eligible(inLayer[f], o) THEN Gone ELSE inLayer[f]
  BY <1>0 DEF VacuumEdges, StampsTyped
<1>3. \A s \in Symbol : s.file \in File
  BY DEF Symbol
<1>4. /\ defines' \in [Symbol -> Stamp]
      /\ \A s \in Symbol : defines'[s] =
           IF Eligible(defines[s], o) THEN Gone ELSE defines[s]
  BY <1>0 DEF VacuumEdges, StampsTyped
<1>6. /\ calls' \in [Call -> Stamp]
      /\ \A c \in Call : calls'[c] =
           IF Eligible(calls[c], o) THEN Gone ELSE calls[c]
  BY <1>0 DEF VacuumEdges, StampsTyped
<1>7. VacuumIs(o)
  BY <1>1, <1>2, <1>4, <1>6 DEF VacuumIs
<1>8. TornBy
  <2>1. torn \in BOOLEAN
    BY DEF TypeOK
  <2>2. ASSUME NEW s \in Symbol, Live(defines[s]) PROVE Live(defines'[s])
    BY <1>4, <2>2 DEF Live, Eligible
  <2>. QED
    BY <1>1, <2>1, <2>2 DEF TornBy
<1>9. EndsOK'
  BY <1>0, <1>1, <1>2, <1>3, <1>4, <1>6, CallFields DEF EndsOK
<1>. QED
  BY <1>0, <1>1, <1>2, <1>4, <1>6, <1>7, <1>8, <1>9
  DEF StampsNext, StampsTyped

LEMMA VacuumKeeps ==
  ASSUME TypeOK, NEW o \in 1 .. head, Vacuum(o)
  PROVE  VacuumIs(o) /\ TornBy /\ StampsNext /\ EndsOK'
<1>1. layer' = layer
  BY DEF Vacuum
<1>2. VacuumFiles(o) \/ VacuumSymbols(o) \/ VacuumEdges(o)
  BY DEF Vacuum
<1>. QED
  BY <1>1, <1>2, VacuumFilesIs, VacuumSymbolsIs, VacuumEdgesIs

LEMMA VacuumTyped ==
  ASSUME TypeOK, IngestOK, NEW o \in 1 .. head, Vacuum(o)
  PROVE  TypeOK' /\ IngestOK'
<1>1. /\ UNCHANGED <<trees, layer, base, ingest, full, kept, faults>>
      /\ head' = head /\ cut' = IF o > cut THEN o ELSE cut
  BY DEF Vacuum, head
<1>2. cut' \in 0 .. head
  BY <1>1, HeadIs DEF TypeOK
<1>3. VacuumIs(o) /\ TornBy /\ StampsNext /\ EndsOK'
  BY VacuumKeeps
<1>4. RestTyped'
  BY <1>1, <1>2, <1>3 DEF TypeOK, RestTyped, TornBy
<1>5. StampsTyped'
  BY <1>1, <1>3 DEF TypeOK, StampsTyped, StampsNext
<1>6. TypeOK'
  BY <1>3, <1>4, <1>5 DEF TypeOK, RestTyped, StampsTyped, EndsOK
<1>7. IngestOK'
  <2>1. \A st : Live(st) => ~Eligible(st, o)
    BY DEF Live, Eligible
  <2>2. \A f \in File : Live(file[f]) => Live(file'[f])
    BY <1>3, <2>1 DEF VacuumIs
  <2>3. \A s \in Symbol : Live(symbol[s]) => Live(symbol'[s])
    BY <1>3, <2>1 DEF VacuumIs
  <2>4. Parsed' = Parsed
    BY <1>1 DEF Parsed
  <2>. QED
    BY <1>1, <2>2, <2>3, <2>4, ParsedIs DEF IngestOK
<1>. QED
  BY <1>6, <1>7

-----------------------------------------------------------------------------
LEMMA NextTyped ==
  ASSUME TypeOK, IngestOK, [Next]_vars
  PROVE  TypeOK' /\ IngestOK'
<1>1. CASE \E f \in File, content \in Contents \cup {Absent} :
             Commit(f, content)
  BY <1>1, CommitTyped
<1>2. CASE \E resolves \in BOOLEAN : IngestFull(resolves)
  BY <1>2, FullTyped
<1>3. CASE Start
  BY <1>3, StartTyped
<1>4. CASE \E f \in File : DeleteFile(f)
  BY <1>4, DeleteFileTyped
<1>5. CASE \E f \in File : Extract(f)
  BY <1>5, ExtractTyped
<1>6. CASE DeleteOld
  BY <1>6, DeleteOldTyped
<1>15. CASE TombstoneSymbols
  BY <1>15, TombstoneSymbolsTyped
<1>16. CASE TombstoneEdges
  BY <1>16, TombstoneEdgesTyped
<1>7. CASE UpsertNodes
  BY <1>7, UpsertNodesTyped
<1>8. CASE UpsertEdges
  BY <1>8, UpsertEdgesTyped
<1>9. CASE IndexArchitecture
  BY <1>9, ArchitectureTyped
<1>10. CASE Resolve
  BY <1>10, ResolveTyped
<1>11. CASE RecordState
  BY <1>11, RecordStateTyped
<1>12. CASE Fail
  BY <1>12, FailTyped
<1>13. CASE \E o \in 1 .. head : Vacuum(o)
  BY <1>13, VacuumTyped
<1>14. CASE UNCHANGED vars
  BY <1>14
  DEF vars, nodes, edges, TypeOK, IngestOK, head, Live, Parsed
<1>. QED
  BY <1>1, <1>2, <1>3, <1>4, <1>5, <1>6, <1>7, <1>8, <1>9, <1>10, <1>11,
     <1>12, <1>13, <1>14, <1>15, <1>16
  DEF Next, Step

(* Every stamp is that of a commit there is room for, no edge ever hangs   *)
(* from a node that was vacuumed or never written, and the ingest state is *)
(* never ahead of HEAD: whatever fails, moves or is vacuumed on the way.   *)
THEOREM GraphTypeCorrect == Spec => []TypeOK
<1>1. Init => TypeOK /\ IngestOK
  BY InitTyped
<1>2. TypeOK /\ IngestOK /\ [Next]_vars => TypeOK' /\ IngestOK'
  BY NextTyped
<1>. QED
  BY <1>1, <1>2, PTL DEF Spec

-----------------------------------------------------------------------------
(* Commits only come on top; the recorded commit only moves forward.       *)
LEMMA TreesStay ==
  ASSUME TypeOK, IngestOK, [Next]_vars,
         ~ \E f \in File, content \in Contents \cup {Absent} :
             Commit(f, content)
  PROVE  trees' = trees /\ head' = head /\ base' \in base .. head
<1>1. base \in 0 .. head /\ head \in Nat /\ ingest.to \in Nat
  BY HeadIs DEF TypeOK, Ingest, Ord
<1>2. CASE \E resolves \in BOOLEAN : IngestFull(resolves)
  BY <1>1, <1>2 DEF IngestFull, head
<1>3. CASE RecordState
  <2>1. base <= ingest.to /\ ingest.to <= head
    BY <1>3 DEF IngestOK, RecordState
  <2>2. base' = ingest.to /\ trees' = trees
    BY <1>3 DEF RecordState
  <2>. QED
    BY <1>1, <2>1, <2>2 DEF head
<1>4. CASE UNCHANGED <<trees, base>>
  BY <1>1, <1>4 DEF head
<1>5. \/ \E resolves \in BOOLEAN : IngestFull(resolves)
      \/ RecordState
      \/ UNCHANGED <<trees, base>>
  BY DEF Next, Step, Start, DeleteFile, Extract, DeleteOld, TombstoneFile,
         TombstoneSymbols, TombstoneEdges, UpsertNodes, UpsertEdges,
         IndexArchitecture, Resolve, Fail, Vacuum, vars
<1>. QED
  BY <1>2, <1>3, <1>4, <1>5

LEMMA InitNoReturn == Init => NoReturn
<1>. SUFFICES ASSUME Init PROVE NoReturn
  OBVIOUS
<1>1. head = 1
  BY DEF Init, head
<1>. QED
  BY <1>1 DEF NoReturn, Steady

LEMMA NextNoReturn ==
  ASSUME ~Reverts, TypeOK, IngestOK, NoReturn, [Next]_vars
  PROVE  NoReturn'
<1>1. base \in 0 .. head /\ head \in Nat \ {0}
  BY HeadIs DEF TypeOK
<1>2. CASE ~ \E f \in File, content \in Contents \cup {Absent} :
              Commit(f, content)
  <2>1. trees' = trees /\ head' = head /\ base' \in base .. head
    BY <1>2, TreesStay
  <2>. QED
    BY <1>1, <2>1 DEF NoReturn, Steady
<1>3. ASSUME NEW f \in File, NEW content \in Contents \cup {Absent},
             Commit(f, content)
      PROVE  NoReturn'
  <2>1. /\ head' = head + 1 /\ base' = base
        /\ \A o \in 1 .. head : trees'[o] = trees[o]
        /\ trees'[head + 1] = [trees[head] EXCEPT ![f] = content]
    BY <1>3, CommitTyped DEF Commit
  <2>2. \A o \in base .. head : o > 0 => trees[o][f] # content
    BY <1>3 DEF Commit
  <2>3. trees[head] \in [File -> Contents \cup {Absent}]
    BY HeadIs
  <2>4. SUFFICES ASSUME NEW g \in File, NEW i \in 1 .. head + 1, i >= base,
                        trees'[i][g] = trees'[head + 1][g],
                        NEW j \in i .. head + 1
                 PROVE  trees'[j][g] = trees'[i][g]
    BY <1>1, <2>1 DEF NoReturn, Steady
  <2>5. CASE i = head + 1
    BY <1>1, <2>5
  <2>6. CASE i # head + 1
    <3>1. i \in 1 .. head /\ i \in base .. head /\ i > 0
      BY <1>1, <2>4, <2>6
    <3>2. g # f
      BY <1>3, <2>1, <2>2, <2>3, <2>4, <3>1
    <3>3. trees[i][g] = trees[head][g] /\ trees'[head + 1][g] = trees[head][g]
      BY <1>1, <2>1, <2>3, <2>4, <3>1, <3>2
    <3>4. \A k \in i .. head : trees[k][g] = trees[i][g]
      BY <2>4, <3>1, <3>3 DEF NoReturn, Steady
    <3>5. CASE j = head + 1
      BY <2>4, <3>5
    <3>6. CASE j # head + 1
      <4>1. j \in i .. head /\ j \in 1 .. head
        BY <1>1, <3>1, <3>6
      <4>. QED
        BY <2>1, <3>1, <3>4, <4>1
    <3>. QED
      BY <3>5, <3>6
  <2>. QED
    BY <2>5, <2>6
<1>. QED
  BY <1>2, <1>3

-----------------------------------------------------------------------------
(* The definitions of one file, before and after a step. *)
ExactNext(f, tree) ==
  /\ Live(file'[f]) <=> Has(tree, f)
  /\ \A s \in Symbol : s.file = f =>
       IF s \in Defined(tree) THEN Live(symbol'[s]) /\ Live(defines'[s])
       ELSE ~(defines'[s].in /\ Live(symbol'[s]))

(* A step that leaves what is live of a file, and brings nothing back. *)
Untouched(f) ==
  /\ Live(file'[f]) <=> Live(file[f])
  /\ \A s \in Symbol : s.file = f =>
       /\ Live(file[f]) /\ Live(symbol[s]) /\ Live(defines[s]) =>
            Live(symbol'[s]) /\ Live(defines'[s])
       /\ defines'[s].in /\ Live(symbol'[s]) =>
            defines[s].in /\ Live(symbol[s])

LEMMA ExactStays ==
  ASSUME NEW f \in File, NEW tree, NEW next,
         Untouched(f), Exact(f, tree), next[f] = tree[f]
  PROVE  ExactNext(f, next)
<1>1. \A s \in Symbol : s.file = f =>
        /\ s \in Defined(next) <=> s \in Defined(tree)
        /\ s \in Defined(tree) => Has(tree, f)
  BY DEF Defined, Has
<1>2. Has(next, f) <=> Has(tree, f)
  BY DEF Has
<1>. QED
  BY <1>1, <1>2 DEF Exact, ExactNext, Untouched

LEMMA UnchangedUntouched ==
  ASSUME UNCHANGED <<file, symbol, defines>>, NEW f \in File
  PROVE  Untouched(f)
BY DEF Untouched

LEMMA IngestSpan ==
  ASSUME TypeOK, IngestOK, ingest.pc # "idle"
  PROVE  /\ base \in 1 .. head /\ ingest.to \in base .. head
         /\ ingest.to \in 1 .. head /\ ingest.to > 0
<1>1. base \in 0 .. head /\ head \in Nat /\ ingest.to \in Nat
  BY HeadIs DEF TypeOK, Ingest, Ord
<1>. QED
  BY <1>1 DEF IngestOK

(* No query of delete_file touches what is live of another file. *)
LEMMA TombstoneFileUntouched ==
  ASSUME TypeOK, NEW f \in File, TombstoneFile(f), ingest.to > 0
  PROVE  ~Live(file'[f]) /\ \A g \in File \ {f} : Untouched(g)
<1>1. ingest.to \in Ord /\ ingest.to # 0 /\ file \in [File -> Stamp]
  BY DEF TypeOK, Ingest, Ord
<1>2. ~Live(file'[f])
  BY <1>1, TombstoneFileIs, InvalidIs DEF Live
<1>3. \A g \in File \ {f} : Untouched(g)
  BY TombstoneFileIs DEF Untouched
<1>. QED
  BY <1>2, <1>3

LEMMA TombstoneSymbolsUntouched ==
  ASSUME TypeOK, IngestOK, TombstoneSymbols
  PROVE  /\ \A s \in Symbol : s.file = ingest.cur =>
              ~(defines'[s].in /\ Live(symbol'[s]))
         /\ \A g \in File \ {ingest.cur} : Untouched(g)
<1>1. /\ ingest.to \in Ord /\ ingest.to # 0 /\ symbol \in [Symbol -> Stamp]
      /\ UNCHANGED <<file, defines>>
      /\ \A s \in Symbol : symbol'[s] =
           IF s.file = ingest.cur /\ defines[s].in
           THEN Invalid(symbol[s], ingest.to) ELSE symbol[s]
  BY TombstoneSymbolsTyped, IngestSpan DEF TypeOK, Ingest, Ord
<1>2. \A st \in Stamp : ~Live(Invalid(st, ingest.to))
  BY <1>1, InvalidIs DEF Live
<1>3. ASSUME NEW s \in Symbol, s.file = ingest.cur
      PROVE  ~(defines'[s].in /\ Live(symbol'[s]))
  BY <1>1, <1>2, <1>3
<1>4. ASSUME NEW g \in File \ {ingest.cur} PROVE Untouched(g)
  BY <1>1, <1>4 DEF Untouched
<1>. QED
  BY <1>3, <1>4

LEMMA TombstoneEdgesUntouched ==
  ASSUME TypeOK, IngestOK, TombstoneEdges
  PROVE  /\ \A s \in Symbol : defines'[s].in = defines[s].in
         /\ \A g \in File \ {ingest.cur} : Untouched(g)
<1>1. /\ ingest.to \in Ord /\ defines \in [Symbol -> Stamp]
      /\ UNCHANGED <<file, symbol>>
      /\ \A s \in Symbol : defines'[s] =
           IF s.file = ingest.cur THEN Invalid(defines[s], ingest.to)
           ELSE defines[s]
  BY TombstoneEdgesTyped DEF TypeOK, Ingest
<1>2. \A s \in Symbol : defines'[s].in = defines[s].in
  BY <1>1, InvalidIs
<1>3. ASSUME NEW g \in File \ {ingest.cur} PROVE Untouched(g)
  BY <1>1, <1>3 DEF Untouched
<1>. QED
  BY <1>2, <1>3

LEMMA VacuumUntouched ==
  ASSUME TypeOK, NEW o \in 1 .. head, Vacuum(o), NEW f \in File
  PROVE  Untouched(f)
<1>1. /\ \A st : Live(st) => ~Eligible(st, o)
      /\ ~Live(Gone) /\ ~Gone.in
  BY GoneIs DEF Live, Eligible
<1>2. VacuumIs(o)
  BY VacuumKeeps
<1>3. Live(file'[f]) <=> Live(file[f])
  BY <1>1, <1>2 DEF VacuumIs
<1>4. ASSUME NEW s \in Symbol, s.file = f
      PROVE  /\ Live(file[f]) /\ Live(symbol[s]) /\ Live(defines[s]) =>
                  Live(symbol'[s]) /\ Live(defines'[s])
             /\ defines'[s].in /\ Live(symbol'[s]) =>
                  defines[s].in /\ Live(symbol[s])
  BY <1>1, <1>2, <1>4 DEF VacuumIs
<1>. QED
  BY <1>3, <1>4 DEF Untouched

-----------------------------------------------------------------------------
(* Lemmas on the commits between the recorded one and HEAD. *)
LEMMA SteadyIs ==
  ASSUME TypeOK, NEW o \in 1 .. head, NEW f \in File, Steady(o, f)
  PROVE  \A i \in o .. head : trees[i][f] = trees[o][f] /\ Steady(i, f)
BY HeadIs DEF Steady

LEMMA SteadyBack ==
  ASSUME TypeOK, IngestOK, NEW f \in File,
         NEW content \in Contents \cup {Absent}, Commit(f, content),
         NEW o \in 1 .. head, NEW g \in File, Steady(o, g)'
  PROVE  Steady(o, g) /\ trees'[o] = trees[o]
<1>1. /\ head' = head + 1 /\ head \in Nat
      /\ \A i \in 1 .. head : trees'[i] = trees[i]
  BY CommitTyped, HeadIs
<1>. QED
  BY <1>1 DEF Steady

DefsOK == DefinitionsOK /\ InHandOK

LEMMA InitDefs == Init => DefsOK
BY QuietIs DEF Init, DefsOK, DefinitionsOK, InHandOK, ReadOK, Pending,
                InHand

LEMMA CommitDefs ==
  ASSUME TypeOK, IngestOK, DefsOK, NEW f \in File,
         NEW content \in Contents \cup {Absent}, Commit(f, content)
  PROVE  DefsOK'
<1>1. /\ UNCHANGED <<nodes, edges, base, ingest>>
      /\ UNCHANGED <<file, symbol, defines>>
  BY DEF Commit, nodes, edges
<1>2. \A o \in 1 .. head : trees'[o] = trees[o]
  BY CommitTyped
<1>3. base \in 0 .. head /\ head \in Nat
  BY HeadIs DEF TypeOK
<1>4. Pending' = Pending /\ Parsed' = Parsed
  BY <1>1 DEF Pending, InHand, Parsed
<1>5. \A o \in 1 .. head, g \in File : Steady(o, g)' => Steady(o, g)
  BY SteadyBack
<1>6. CASE ingest.pc = "idle"
  <2>1. base > 0 => \A g \in File : Steady(base, g) => Exact(g, trees[base])
    BY <1>6 DEF DefsOK, DefinitionsOK
  <2>2. base' > 0 =>
          \A g \in File : Steady(base, g)' => Exact(g, trees[base])'
    <3>1. SUFFICES ASSUME base > 0, NEW g \in File, Steady(base, g)'
                   PROVE  Exact(g, trees[base])'
      BY <1>1
    <3>2. base \in 1 .. head
      BY <1>3, <3>1
    <3>3. trees'[base] = trees[base] /\ Steady(base, g)
      BY <1>1, <1>2, <1>5, <3>1, <3>2 DEF Steady
    <3>4. Exact(g, trees[base])
      BY <2>1, <3>1, <3>3
    <3>. QED
      BY <1>1, <3>3, <3>4 DEF Exact
  <2>3. DefinitionsOK'
    BY <1>1, <1>6, <2>2 DEF DefinitionsOK
  <2>4. InHandOK'
    BY <1>1, <1>4, <1>6 DEF DefsOK, InHandOK, ReadOK
  <2>. QED
    BY <2>3, <2>4 DEF DefsOK
<1>7. CASE ingest.pc # "idle"
  <2>1. base \in 1 .. head /\ ingest.to \in 1 .. head
    BY <1>7, IngestSpan
  <2>2. trees'[base] = trees[base] /\ trees'[ingest.to] = trees[ingest.to]
    BY <1>2, <2>1
  <2>3. \A g \in File : Steady(ingest.to, g)' => Steady(ingest.to, g)
    BY <1>1, <1>5, <2>1 DEF Steady
  <2>4. /\ \A g \in Pending : trees[base][g] # trees[ingest.to][g]
        /\ \A g \in File \ Pending :
             Steady(ingest.to, g) => Exact(g, trees[ingest.to])
        /\ \A g \in ingest.deleted : ~Has(trees[ingest.to], g)
        /\ \A g \in ingest.changed : Has(trees[ingest.to], g)
    BY <1>7 DEF DefsOK, DefinitionsOK
  <2>5. \A g \in File \ Pending :
          Steady(ingest.to, g)' => Exact(g, trees[ingest.to])'
    BY <1>1, <2>2, <2>3, <2>4 DEF Exact
  <2>6. DefinitionsOK'
    BY <1>1, <1>4, <1>7, <2>2, <2>4, <2>5 DEF DefinitionsOK
  <2>7. ReadOK'
    <3>1. SUFFICES ASSUME ingest.pc \in {"delete", "symbols", "touching",
                                          "nodes", "edges"},
                          ingest.read # Absent,
                          Steady(ingest.to, ingest.cur)'
                   PROVE  ingest.read = trees[ingest.to][ingest.cur]
      BY <1>1, <2>2 DEF ReadOK
    <3>2. ingest.cur \in File
      BY <3>1 DEF IngestOK
    <3>3. Steady(ingest.to, ingest.cur)
      BY <1>1, <2>3, <3>1, <3>2 DEF Steady
    <3>. QED
      BY <3>1, <3>3 DEF DefsOK, InHandOK, ReadOK
  <2>8. InHandOK'
    BY <1>1, <1>4, <2>2, <2>7 DEF DefsOK, InHandOK
  <2>. QED
    BY <2>6, <2>8 DEF DefsOK
<1>. QED
  BY <1>6, <1>7

LEMMA FullDefsOK ==
  ASSUME TypeOK, IngestOK, DefsOK, NEW resolves \in BOOLEAN,
         IngestFull(resolves)
  PROVE  DefsOK' /\ \A f \in File : ExactNext(f, trees[head])
<1>1. /\ ingest.pc = "idle" /\ ingest' = ingest /\ base' = head
      /\ trees' = trees
  BY DEF IngestFull
<1>2. ~Live(Gone) /\ Live(Upserted(Gone, head))
  BY GoneIs, UpsertedIs, HeadIs DEF Live
<1>3. ASSUME NEW f \in File PROVE ExactNext(f, trees[head])
  BY <1>2, FullIs, GoneIs DEF ExactNext, FullDefs
<1>4. DefinitionsOK'
  BY <1>1, <1>3 DEF DefinitionsOK, ExactNext, Exact
<1>5. InHandOK'
  BY <1>1 DEF DefsOK, InHandOK, ReadOK, Pending, InHand
<1>. QED
  BY <1>3, <1>4, <1>5 DEF DefsOK

LEMMA StartDefs ==
  ASSUME TypeOK, IngestOK, NoReturn, DefsOK, Start
  PROVE  DefsOK'
<1>1. /\ ingest'.pc = "files" /\ ingest'.to = head
      /\ ingest'.deleted = {f \in File : trees[base][f] # trees[head][f]
                                         /\ ~Has(trees[head], f)}
      /\ ingest'.changed = {f \in File : trees[base][f] # trees[head][f]
                                         /\ Has(trees[head], f)}
  BY StartTyped
<1>2. /\ ingest.pc = "idle" /\ base \in 1 .. head /\ head \in Nat \ {0}
      /\ base' = base /\ trees' = trees /\ head' = head
      /\ UNCHANGED <<file, symbol, defines>>
  BY HeadIs DEF TypeOK, Start, head, nodes, edges
<1>3. Pending' = {f \in File : trees[base][f] # trees[head][f]}
  BY <1>1 DEF Pending, InHand
<1>4. ASSUME NEW f \in File \ Pending' PROVE ExactNext(f, trees[head])
  <2>1. trees[base][f] = trees[head][f]
    BY <1>3, <1>4
  <2>2. Steady(base, f)
    BY <1>2, <2>1 DEF NoReturn
  <2>3. Exact(f, trees[base])
    BY <1>2, <2>2 DEF DefsOK, DefinitionsOK
  <2>4. Untouched(f)
    BY <1>2, UnchangedUntouched
  <2>. QED
    BY <2>1, <2>3, <2>4, ExactStays
<1>5. DefinitionsOK'
  BY <1>1, <1>2, <1>3, <1>4 DEF DefinitionsOK, ExactNext, Exact
<1>6. InHandOK'
  BY <1>1 DEF InHandOK, ReadOK
<1>. QED
  BY <1>5, <1>6 DEF DefsOK

(* What holds while an ingest runs. *)
LEMMA RunningDefs ==
  ASSUME TypeOK, IngestOK, DefsOK, ingest.pc # "idle"
  PROVE  /\ \A f \in Pending : trees[base][f] # trees[ingest.to][f]
         /\ \A f \in File \ Pending :
              Steady(ingest.to, f) => Exact(f, trees[ingest.to])
         /\ \A f \in ingest.deleted : ~Has(trees[ingest.to], f)
         /\ \A f \in ingest.changed : Has(trees[ingest.to], f)
         /\ ingest.deleted \subseteq File /\ ingest.changed \subseteq File
         /\ Pending \subseteq File
BY DEF DefsOK, DefinitionsOK, TypeOK, Ingest, Pending, InHand, IngestOK

(* A step that brings some files up to date and leaves the others.         *)
LEMMA StepDefs ==
  ASSUME TypeOK, IngestOK, DefsOK, ingest.pc # "idle", ingest'.pc # "idle",
         UNCHANGED <<trees, base>>, ingest'.to = ingest.to,
         ingest'.deleted \subseteq ingest.deleted,
         ingest'.changed \subseteq ingest.changed, Pending' \subseteq Pending,
         \A f \in File \ Pending : Untouched(f),
         \A f \in Pending \ Pending' :
           Steady(ingest.to, f) => ExactNext(f, trees[ingest.to])
  PROVE  DefinitionsOK'
<1>1. \A f \in File \ Pending' :
        Steady(ingest.to, f) => ExactNext(f, trees[ingest.to])
  <2>1. SUFFICES ASSUME NEW f \in File \ Pending, Steady(ingest.to, f)
                 PROVE  ExactNext(f, trees[ingest.to])
    OBVIOUS
  <2>2. Exact(f, trees[ingest.to]) /\ Untouched(f)
    BY <2>1, RunningDefs
  <2>. QED
    BY <2>2, ExactStays
<1>2. \A f \in File : Steady(ingest.to, f)' => Steady(ingest.to, f)
  BY DEF Steady, head
<1>3. \A f \in File \ Pending' :
        Steady(ingest.to, f)' => Exact(f, trees[ingest.to])'
  BY <1>1, <1>2 DEF ExactNext, Exact
<1>4. /\ \A f \in Pending' : trees[base][f] # trees[ingest.to][f]
      /\ \A f \in ingest'.deleted : ~Has(trees[ingest.to], f)
      /\ \A f \in ingest'.changed : Has(trees[ingest.to], f)
  BY RunningDefs
<1>. QED
  BY <1>3, <1>4 DEF DefinitionsOK

LEMMA DeleteFileDefs ==
  ASSUME TypeOK, IngestOK, DefsOK, NEW f \in File, DeleteFile(f)
  PROVE  DefsOK'
<1>1. /\ ingest.pc = "files" /\ ingest'.pc = "symbols" /\ f \in ingest.deleted
      /\ ingest'.to = ingest.to /\ ingest'.deleted = ingest.deleted \ {f}
      /\ ingest'.changed = ingest.changed
      /\ ingest'.cur = f /\ ingest'.read = Absent
  BY DeleteFileTyped
<1>2. TombstoneFile(f) /\ UNCHANGED <<trees, base>>
  BY TombstoneFileIs DEF DeleteFile
<1>3. ~Has(trees[ingest.to], f)
  BY <1>1, RunningDefs
<1>4. Pending' = Pending /\ f \in Pending
  BY <1>1 DEF Pending, InHand
<1>5. ingest.to > 0
  BY <1>1, IngestSpan
<1>6. ~Live(file'[f]) /\ \A g \in File \ Pending : Untouched(g)
  BY <1>2, <1>4, <1>5, TombstoneFileUntouched
<1>7. DefinitionsOK'
  BY <1>1, <1>2, <1>4, <1>6, StepDefs
<1>8. InHandOK'
  BY <1>1, <1>2, <1>3, <1>6 DEF InHandOK, ReadOK
<1>. QED
  BY <1>7, <1>8 DEF DefsOK

LEMMA ExtractDefs ==
  ASSUME TypeOK, IngestOK, DefsOK, NEW f \in File, Extract(f)
  PROVE  DefsOK'
<1>1. /\ ingest.pc = "files" /\ f \in ingest.changed /\ ingest.deleted = {}
      /\ ingest'.to = ingest.to
      /\ ingest'.deleted = {} /\ ingest'.changed = ingest.changed \ {f}
      /\ IF Has(trees[head], f)
         THEN /\ ingest'.pc = "delete" /\ ingest'.cur = f
              /\ ingest'.read = trees[head][f]
         ELSE ingest'.pc = "files"
  BY ExtractTyped
<1>2. /\ UNCHANGED <<trees, base, file, symbol, defines>> /\ head' = head
      /\ \A g \in File : Untouched(g)
  BY UnchangedUntouched DEF Extract, nodes, edges, head
<1>3. /\ Has(trees[ingest.to], f) /\ ingest.to \in 1 .. head
      /\ head \in Nat /\ Pending \subseteq File
  BY <1>1, RunningDefs, IngestSpan, HeadIs
<1>4. Steady(ingest.to, f) => trees[head][f] = trees[ingest.to][f]
  BY <1>3 DEF Steady
<1>5. CASE Has(trees[head], f)
  <2>1. Pending' = Pending
    BY <1>1, <1>5 DEF Pending, InHand
  <2>2. DefinitionsOK'
    BY <1>1, <1>2, <1>5, <2>1, StepDefs
  <2>3. InHandOK'
    BY <1>1, <1>2, <1>4, <1>5 DEF InHandOK, ReadOK, Steady
  <2>. QED
    BY <2>2, <2>3 DEF DefsOK
<1>6. CASE ~Has(trees[head], f)
  <2>1. Pending' = Pending \ {f} /\ f \in Pending
    BY <1>1, <1>6 DEF Pending, InHand
  <2>2. ~Steady(ingest.to, f)
    BY <1>3, <1>4, <1>6 DEF Has
  <2>3. DefinitionsOK'
    BY <1>1, <1>2, <1>6, <2>1, <2>2, StepDefs
  <2>4. InHandOK'
    BY <1>1, <1>6 DEF InHandOK, ReadOK
  <2>. QED
    BY <2>3, <2>4 DEF DefsOK
<1>. QED
  BY <1>5, <1>6

LEMMA DeleteOldDefs ==
  ASSUME TypeOK, IngestOK, DefsOK, DeleteOld
  PROVE  DefsOK'
<1>1. /\ ingest.cur \in File /\ ingest.read # Absent
      /\ ingest.pc = "delete" /\ ingest'.pc = "symbols"
      /\ ingest'.to = ingest.to /\ ingest'.deleted = ingest.deleted
      /\ ingest'.changed = ingest.changed
      /\ ingest'.cur = ingest.cur /\ ingest'.read = ingest.read
  BY DeleteOldTyped
<1>2. TombstoneFile(ingest.cur) /\ UNCHANGED <<trees, base>> /\ head' = head
  BY <1>1, TombstoneFileIs DEF DeleteOld
<1>3. Pending' = Pending /\ ingest.cur \in Pending
  BY <1>1 DEF Pending, InHand
<1>4. ingest.to > 0
  BY <1>1, IngestSpan
<1>5. /\ ~Live(file'[ingest.cur])
      /\ \A g \in File \ Pending : Untouched(g)
  BY <1>1, <1>2, <1>3, <1>4, TombstoneFileUntouched
<1>6. DefinitionsOK'
  BY <1>1, <1>2, <1>3, <1>5, StepDefs
<1>7. ReadOK'
  BY <1>1, <1>2 DEF DefsOK, InHandOK, ReadOK, Steady
<1>8. InHandOK'
  BY <1>1, <1>5, <1>7 DEF InHandOK
<1>. QED
  BY <1>6, <1>8 DEF DefsOK

LEMMA TombstoneSymbolsDefs ==
  ASSUME TypeOK, IngestOK, DefsOK, TombstoneSymbols
  PROVE  DefsOK'
<1>1. /\ ingest.cur \in File
      /\ ingest.pc = "symbols" /\ ingest'.pc = "touching"
      /\ ingest'.to = ingest.to /\ ingest'.deleted = ingest.deleted
      /\ ingest'.changed = ingest.changed
      /\ ingest'.cur = ingest.cur /\ ingest'.read = ingest.read
      /\ UNCHANGED <<trees, base, file>> /\ head' = head
  BY TombstoneSymbolsTyped
<1>2. Pending' = Pending /\ ingest.cur \in Pending
  BY <1>1 DEF Pending, InHand
<1>3. /\ \A s \in Symbol : s.file = ingest.cur =>
           ~(defines'[s].in /\ Live(symbol'[s]))
      /\ \A g \in File \ Pending : Untouched(g)
  BY <1>2, TombstoneSymbolsUntouched
<1>4. DefinitionsOK'
  BY <1>1, <1>2, <1>3, StepDefs
<1>5. ReadOK'
  BY <1>1 DEF DefsOK, InHandOK, ReadOK, Steady
<1>6. /\ ~Live(file[ingest.cur])
      /\ ingest.read = Absent => ~Has(trees[ingest.to], ingest.cur)
  BY <1>1 DEF DefsOK, InHandOK
<1>7. InHandOK'
  BY <1>1, <1>3, <1>5, <1>6 DEF InHandOK
<1>. QED
  BY <1>4, <1>7 DEF DefsOK

LEMMA TombstoneEdgesDefs ==
  ASSUME TypeOK, IngestOK, DefsOK, TombstoneEdges
  PROVE  DefsOK'
<1>1. /\ ingest.cur \in File /\ ingest.pc = "touching"
      /\ ingest'.pc = IF ingest.read = Absent THEN "files" ELSE "nodes"
      /\ ingest'.to = ingest.to /\ ingest'.deleted = ingest.deleted
      /\ ingest'.changed = ingest.changed
      /\ ingest'.cur = ingest.cur /\ ingest'.read = ingest.read
      /\ UNCHANGED <<trees, base, file, symbol>> /\ head' = head
  BY TombstoneEdgesTyped
<1>2. /\ Pending' \subseteq Pending
      /\ Pending \ Pending' \subseteq {ingest.cur}
      /\ ingest.cur \in Pending
      /\ ingest.read # Absent => Pending' = Pending
  BY <1>1 DEF Pending, InHand
<1>3. /\ ~Live(file[ingest.cur])
      /\ ingest.read = Absent => ~Has(trees[ingest.to], ingest.cur)
      /\ \A s \in Symbol : s.file = ingest.cur =>
           ~(defines[s].in /\ Live(symbol[s]))
  BY <1>1 DEF DefsOK, InHandOK
<1>4. /\ \A s \in Symbol : s.file = ingest.cur =>
           ~(defines'[s].in /\ Live(symbol'[s]))
      /\ \A g \in File \ Pending : Untouched(g)
  BY <1>1, <1>2, <1>3, TombstoneEdgesUntouched
<1>5. ingest.read = Absent => ExactNext(ingest.cur, trees[ingest.to])
  BY <1>1, <1>3, <1>4 DEF ExactNext, Defined
<1>6. DefinitionsOK'
  BY <1>1, <1>2, <1>4, <1>5, StepDefs
<1>7. ReadOK'
  BY <1>1 DEF DefsOK, InHandOK, ReadOK, Steady
<1>8. InHandOK'
  BY <1>1, <1>4, <1>7 DEF InHandOK
<1>. QED
  BY <1>6, <1>8 DEF DefsOK

LEMMA UpsertNodesDefs ==
  ASSUME TypeOK, IngestOK, DefsOK, UpsertNodes
  PROVE  DefsOK'
<1>1. /\ ingest.cur \in File /\ ingest.pc = "nodes" /\ ingest'.pc = "edges"
      /\ ingest'.to = ingest.to /\ ingest'.deleted = ingest.deleted
      /\ ingest'.changed = ingest.changed /\ Parsed' = Parsed
      /\ ingest'.cur = ingest.cur /\ ingest'.read = ingest.read
      /\ \A g \in File \ {ingest.cur} : file'[g] = file[g]
      /\ \A s \in Symbol \ Parsed : symbol'[s] = symbol[s]
  BY UpsertNodesTyped
<1>2. UNCHANGED <<trees, base, defines>> /\ head' = head
  BY DEF UpsertNodes, edges, head
<1>3. Pending' = Pending /\ ingest.cur \in Pending
  BY <1>1 DEF Pending, InHand
<1>4. ASSUME NEW g \in File \ Pending PROVE Untouched(g)
  <2>1. g # ingest.cur
    BY <1>3
  <2>2. \A s \in Symbol : s.file = g => symbol'[s] = symbol[s]
    BY <1>1, <2>1, ParsedIs
  <2>. QED
    BY <1>1, <1>2, <2>1, <2>2 DEF Untouched
<1>5. DefinitionsOK'
  BY <1>1, <1>2, <1>3, <1>4, StepDefs
<1>6. \A s \in Symbol \ Parsed : s.file = ingest.cur =>
        ~(defines'[s].in /\ Live(symbol'[s]))
  BY <1>1, <1>2 DEF DefsOK, InHandOK
<1>7. ReadOK'
  BY <1>1, <1>2 DEF DefsOK, InHandOK, ReadOK, Steady
<1>8. InHandOK'
  BY <1>1, <1>6, <1>7 DEF InHandOK
<1>. QED
  BY <1>5, <1>8 DEF DefsOK

LEMMA UpsertEdgesDefs ==
  ASSUME TypeOK, IngestOK, DefsOK, UpsertEdges
  PROVE  DefsOK'
<1>1. /\ ingest.cur \in File /\ ingest.pc = "edges" /\ ingest'.pc = "files"
      /\ ingest'.to = ingest.to /\ ingest'.deleted = ingest.deleted
      /\ ingest'.changed = ingest.changed
      /\ \A s \in Symbol : defines'[s] = IF s \in Parsed
                                         THEN Upserted(defines[s], ingest.to)
                                         ELSE defines[s]
  BY UpsertEdgesTyped
<1>2. UNCHANGED <<trees, base, file, symbol>>
  BY DEF UpsertEdges, nodes
<1>3. /\ Pending' \subseteq Pending
      /\ Pending \ Pending' \subseteq {ingest.cur}
      /\ ingest.cur \in Pending
  BY <1>1 DEF Pending, InHand
<1>4. ASSUME NEW g \in File \ Pending PROVE Untouched(g)
  <2>1. \A s \in Symbol : s.file = g => defines'[s] = defines[s]
    BY <1>1, <1>3, ParsedIs
  <2>. QED
    BY <1>2, <2>1 DEF Untouched
<1>5. ASSUME Steady(ingest.to, ingest.cur)
      PROVE  ExactNext(ingest.cur, trees[ingest.to])
  <2>1. /\ ingest.read = trees[ingest.to][ingest.cur]
        /\ ingest.read # Absent /\ Live(file[ingest.cur])
        /\ \A s \in Parsed : Live(symbol[s])
        /\ \A s \in Symbol \ Parsed : s.file = ingest.cur =>
             ~(defines[s].in /\ Live(symbol[s]))
    BY <1>1, <1>5 DEF DefsOK, InHandOK, ReadOK, IngestOK
  <2>2. ingest.to \in Ord /\ defines \in [Symbol -> Stamp]
    BY DEF TypeOK, Ingest
  <2>3. \A s \in Symbol : s.file = ingest.cur =>
          (s \in Parsed <=> s \in Defined(trees[ingest.to]))
    BY <2>1 DEF Parsed, Defined, Has
  <2>4. ASSUME NEW s \in Parsed PROVE Live(defines'[s])
    <3>1. s \in Symbol
      BY ParsedIs
    <3>2. defines'[s] = Upserted(defines[s], ingest.to)
      BY <1>1, <3>1
    <3>. QED
      BY <2>2, <3>1, <3>2, UpsertedIs
  <2>. QED
    BY <1>1, <1>2, <2>1, <2>3, <2>4 DEF ExactNext, Has
<1>6. DefinitionsOK'
  BY <1>1, <1>2, <1>3, <1>4, <1>5, StepDefs
<1>7. InHandOK'
  BY <1>1 DEF InHandOK, ReadOK
<1>. QED
  BY <1>6, <1>7 DEF DefsOK

(* Steps that change no definition and bring no file up to date. *)
LEMMA OtherDefs ==
  ASSUME TypeOK, IngestOK, DefsOK, ingest.pc # "idle",
         ingest'.pc \in {"resolve", "record"},
         UNCHANGED <<trees, base, file, symbol, defines>>,
         ingest'.to = ingest.to,
         ingest.deleted = {}, ingest.changed = {}, InHand = {},
         ingest'.deleted = {}, ingest'.changed = {}
  PROVE  DefsOK'
<1>1. Pending = {} /\ Pending' = {}
  BY DEF Pending, InHand
<1>2. DefinitionsOK'
  BY <1>1, StepDefs, UnchangedUntouched
<1>3. InHandOK'
  BY <1>1 DEF InHandOK, ReadOK
<1>. QED
  BY <1>2, <1>3 DEF DefsOK

LEMMA RecordStateDefs ==
  ASSUME TypeOK, IngestOK, DefsOK, RecordState
  PROVE  /\ DefsOK'
         /\ \A f \in File : Steady(ingest.to, f) => Exact(f, trees[ingest.to])
<1>1. /\ ingest.pc = "record" /\ ingest' = Quiet /\ base' = ingest.to
      /\ UNCHANGED <<trees, file, symbol, defines>> /\ head' = head
  BY DEF RecordState, nodes, edges, head
<1>2. Pending = {}
  BY <1>1 DEF DefsOK, InHandOK
<1>3. \A f \in File : Steady(ingest.to, f) => Exact(f, trees[ingest.to])
  BY <1>1, <1>2, RunningDefs
<1>4. DefinitionsOK'
  BY <1>1, <1>3, QuietIs DEF DefinitionsOK, Steady, Exact
<1>5. InHandOK'
  BY <1>1, QuietIs DEF InHandOK, ReadOK, Pending, InHand
<1>. QED
  BY <1>3, <1>4, <1>5 DEF DefsOK

LEMMA FailDefs ==
  ASSUME TypeOK, IngestOK, DefsOK, Fail
  PROVE  DefsOK'
<1>1. /\ ingest.pc # "idle" /\ ingest' = Quiet
      /\ UNCHANGED <<trees, base, file, symbol, defines>> /\ head' = head
  BY DEF Fail, nodes, edges, head
<1>2. base \in 1 .. head /\ ingest.to \in base .. head
  BY <1>1, IngestSpan
<1>3. ASSUME NEW f \in File, Steady(base, f)
      PROVE  ExactNext(f, trees[base])
  <2>1. Steady(ingest.to, f) /\ trees[ingest.to][f] = trees[base][f]
    BY <1>2, <1>3, SteadyIs
  <2>2. f \notin Pending
    BY <1>1, <2>1, RunningDefs
  <2>3. Exact(f, trees[ingest.to])
    BY <1>1, <2>1, <2>2, RunningDefs
  <2>. QED
    BY <1>1, <2>1, <2>3, ExactStays, UnchangedUntouched
<1>4. DefinitionsOK'
  BY <1>1, <1>3, QuietIs DEF DefinitionsOK, Steady, Exact, ExactNext
<1>5. InHandOK'
  BY <1>1, QuietIs DEF InHandOK, ReadOK, Pending, InHand
<1>. QED
  BY <1>4, <1>5 DEF DefsOK

LEMMA VacuumDefs ==
  ASSUME TypeOK, IngestOK, DefsOK, NEW o \in 1 .. head, Vacuum(o)
  PROVE  DefsOK'
<1>1. /\ UNCHANGED <<trees, base, ingest>> /\ head' = head
      /\ \A f \in File : Untouched(f)
  BY VacuumUntouched DEF Vacuum, head
<1>2. Pending' = Pending /\ Parsed' = Parsed
  BY <1>1 DEF Pending, InHand, Parsed
<1>3. ASSUME ingest.pc = "idle", base > 0 PROVE DefinitionsOK'
  <2>1. \A f \in File : Steady(base, f) => ExactNext(f, trees[base])
    BY <1>1, <1>3, ExactStays DEF DefsOK, DefinitionsOK
  <2>. QED
    BY <1>1, <1>3, <2>1 DEF DefinitionsOK, Steady, Exact, ExactNext
<1>4. ASSUME ingest.pc = "idle", ~(base > 0) PROVE DefinitionsOK'
  BY <1>1, <1>4 DEF DefinitionsOK
<1>5. ASSUME ingest.pc # "idle" PROVE DefinitionsOK'
  BY <1>1, <1>2, <1>5, StepDefs
<1>6. ASSUME NEW s \in Symbol, ~(defines[s].in /\ Live(symbol[s]))
      PROVE  ~(defines'[s].in /\ Live(symbol'[s]))
  BY <1>1, <1>6 DEF Untouched, Symbol
<1>7. \A f \in File : Live(file'[f]) => Live(file[f])
  BY <1>1 DEF Untouched
<1>8. InHandOK'
  <2>1. InHandOK
    BY DEF DefsOK
  <2>2. ingest.pc \in {"idle", "resolve", "record"} => Pending' = {}
    BY <1>2, <2>1 DEF InHandOK
  <2>3. ReadOK'
    BY <1>1, <2>1 DEF InHandOK, ReadOK, Steady
  <2>4. ingest.pc \in {"symbols", "touching"} =>
          /\ ~Live(file'[ingest.cur])
          /\ ingest.read = Absent => ~Has(trees[ingest.to], ingest.cur)
    <3>1. ingest.pc \in {"symbols", "touching"} => ingest.cur \in File
      BY DEF IngestOK
    <3>. QED
      BY <1>7, <2>1, <3>1 DEF InHandOK
  <2>5. ingest.pc \in {"touching", "nodes"} =>
          \A s \in Symbol : s.file = ingest.cur =>
            ~(defines'[s].in /\ Live(symbol'[s]))
    BY <1>6, <2>1 DEF InHandOK
  <2>6. ingest.pc = "edges" =>
          \A s \in Symbol \ Parsed : s.file = ingest.cur =>
            ~(defines'[s].in /\ Live(symbol'[s]))
    BY <1>6, <2>1 DEF InHandOK
  <2>. QED
    BY <1>1, <1>2, <2>2, <2>3, <2>4, <2>5, <2>6 DEF InHandOK
<1>. QED
  BY <1>3, <1>4, <1>5, <1>8 DEF DefsOK

LEMMA NextDefs ==
  ASSUME TypeOK, IngestOK, NoReturn, DefsOK, [Next]_vars
  PROVE  DefsOK'
<1>1. CASE \E f \in File, content \in Contents \cup {Absent} :
             Commit(f, content)
  BY <1>1, CommitDefs
<1>2. CASE \E resolves \in BOOLEAN : IngestFull(resolves)
  BY <1>2, FullDefsOK
<1>3. CASE Start
  BY <1>3, StartDefs
<1>4. CASE \E f \in File : DeleteFile(f)
  BY <1>4, DeleteFileDefs
<1>5. CASE \E f \in File : Extract(f)
  BY <1>5, ExtractDefs
<1>6. CASE DeleteOld
  BY <1>6, DeleteOldDefs
<1>15. CASE TombstoneSymbols
  BY <1>15, TombstoneSymbolsDefs
<1>16. CASE TombstoneEdges
  BY <1>16, TombstoneEdgesDefs
<1>7. CASE UpsertNodes
  BY <1>7, UpsertNodesDefs
<1>8. CASE UpsertEdges
  BY <1>8, UpsertEdgesDefs
<1>9. CASE IndexArchitecture
  <2>1. UNCHANGED <<trees, base, file, symbol, defines>>
    BY <1>9 DEF IndexArchitecture
  <2>2. InHand = {}
    BY <1>9, ArchitectureTyped DEF InHand
  <2>. QED
    BY <1>9, <2>1, <2>2, ArchitectureTyped, OtherDefs
<1>10. CASE Resolve
  <2>1. UNCHANGED <<trees, base, file, symbol, defines>>
    BY <1>10 DEF Resolve, nodes
  <2>2. /\ ingest.pc = "resolve" /\ ingest'.pc = "record"
        /\ ingest'.to = ingest.to /\ ingest'.deleted = ingest.deleted
        /\ ingest'.changed = ingest.changed
    BY <1>10, ResolveTyped
  <2>3. InHand = {} /\ ingest.deleted = {} /\ ingest.changed = {}
    BY <2>2 DEF DefsOK, InHandOK, Pending, InHand
  <2>. QED
    BY <2>1, <2>2, <2>3, OtherDefs
<1>11. CASE RecordState
  BY <1>11, RecordStateDefs
<1>12. CASE Fail
  BY <1>12, FailDefs
<1>13. CASE \E o \in 1 .. head : Vacuum(o)
  BY <1>13, VacuumDefs
<1>14. CASE UNCHANGED vars
  BY <1>14
  DEF vars, nodes, edges, DefsOK, DefinitionsOK, InHandOK, ReadOK, Pending,
      InHand, Parsed, Exact, Steady, head, Live
<1>. QED
  BY <1>1, <1>2, <1>3, <1>4, <1>5, <1>6, <1>7, <1>8, <1>9, <1>10, <1>11,
     <1>12, <1>13, <1>14, <1>15, <1>16
  DEF Next, Step

-----------------------------------------------------------------------------
(* The stamps of the symbols. *)
StampOK(st, o) == st.first <= o /\ st.inv <= o /\ (st.in => st.first > 0)

LEMMA StampOKKept ==
  ASSUME NEW st \in Stamp, NEW o \in Ord, NEW h \in Nat, o > 0, o <= h,
         StampOK(st, h)
  PROVE  /\ StampOK(Upserted(st, o), h) /\ StampOK(Invalid(st, o), h)
         /\ StampOK(Gone, h)
         /\ st.in => Upserted(st, o).first = st.first
<1>1. /\ st.first \in Nat /\ st.inv \in Nat /\ o \in Nat
      /\ st.first <= h /\ st.inv <= h /\ (st.in => st.first > 0)
  BY DEF Stamp, Ord, StampOK
<1>2. StampOK(Upserted(st, o), h)
  <2>1. /\ Upserted(st, o).inv = 0
        /\ Upserted(st, o).first = IF st.first = 0 THEN o ELSE st.first
    BY UpsertedIs
  <2>2. Upserted(st, o).first > 0 /\ Upserted(st, o).first <= h
    BY <1>1, <2>1
  <2>3. Upserted(st, o).inv <= h
    BY <1>1, <2>1
  <2>. QED
    BY <2>2, <2>3 DEF StampOK
<1>3. StampOK(Invalid(st, o), h)
  <2>1. /\ Invalid(st, o).in = st.in /\ Invalid(st, o).first = st.first
        /\ Invalid(st, o).inv = IF st.in THEN o ELSE st.inv
    BY InvalidIs
  <2>2. Invalid(st, o).inv <= h
    BY <1>1, <2>1
  <2>. QED
    BY <1>1, <2>1, <2>2 DEF StampOK
<1>4. StampOK(Gone, h)
  <2>1. Gone.first <= h /\ Gone.inv <= h
    BY GoneIs
  <2>2. ~Gone.in
    BY GoneIs
  <2>. QED
    BY <2>1, <2>2 DEF StampOK
<1>5. ASSUME st.in PROVE Upserted(st, o).first = st.first
  <2>1. st.first # 0
    BY <1>1, <1>5
  <2>. QED
    BY <2>1, UpsertedIs
<1>. QED
  BY <1>2, <1>3, <1>4, <1>5

LEMMA StampsAre == StampsOK <=> \A s \in Symbol : StampOK(symbol[s], head)
BY DEF StampsOK, StampOK

LEMMA InitStamps == Init => StampsOK
<1>. SUFFICES ASSUME Init PROVE StampsOK
  OBVIOUS
<1>1. head = 1 /\ \A s \in Symbol : symbol[s] = Gone
  BY DEF Init, head
<1>. QED
  BY <1>1, GoneIs DEF StampsOK

LEMMA NextStamps ==
  ASSUME TypeOK, IngestOK, StampsOK, [Next]_vars
  PROVE  StampsOK'
<1>0. /\ symbol \in [Symbol -> Stamp] /\ head \in Nat \ {0} /\ head \in Ord
      /\ \A s \in Symbol : StampOK(symbol[s], head)
  BY HeadIs, StampsAre DEF TypeOK
<1>1. ingest.pc # "idle" =>
        ingest.to \in Ord /\ ingest.to > 0 /\ ingest.to <= head
  BY IngestSpan DEF TypeOK, Ingest
<1>2. CASE \E f \in File, content \in Contents \cup {Absent} :
             Commit(f, content)
  <2>1. head' = head + 1 /\ symbol' = symbol
    BY <1>2, CommitTyped DEF Commit, nodes
  <2>2. ASSUME NEW s \in Symbol PROVE StampOK(symbol[s], head + 1)
    <3>1. symbol[s].first \in Nat /\ symbol[s].inv \in Nat
      BY <1>0 DEF Stamp, Ord
    <3>2. /\ symbol[s].first <= head /\ symbol[s].inv <= head
          /\ symbol[s].in => symbol[s].first > 0
      BY <1>0 DEF StampOK
    <3>3. symbol[s].first <= head + 1 /\ symbol[s].inv <= head + 1
      BY <1>0, <3>1, <3>2
    <3>. QED
      BY <3>2, <3>3 DEF StampOK
  <2>. QED
    BY <2>1, <2>2 DEF StampsOK, StampOK
<1>3. ASSUME head' = head, \A s \in Symbol : StampOK(symbol'[s], head)
      PROVE  StampsOK'
  BY <1>3 DEF StampsOK, StampOK
<1>4. CASE \E resolves \in BOOLEAN : IngestFull(resolves)
  <2>1. head' = head
    BY <1>4 DEF IngestFull, head
  <2>2. \A s \in Symbol :
          symbol'[s] = IF s \in Defined(trees[head])
                       THEN Upserted(Gone, head) ELSE Gone
    BY <1>4, FullIs DEF FullDefs
  <2>3. StampOK(Gone, head) /\ Gone \in Stamp
    BY GoneIs, <1>0 DEF StampOK
  <2>4. StampOK(Upserted(Gone, head), head)
    BY <1>0, <2>3, StampOKKept
  <2>. QED
    BY <1>3, <2>1, <2>2, <2>3, <2>4
<1>5. CASE TombstoneSymbols
  <2>1. ASSUME NEW s \in Symbol PROVE StampOK(symbol'[s], head)
    <3>1. ingest.pc # "idle"
      BY <1>5 DEF TombstoneSymbols
    <3>2. StampOK(Invalid(symbol[s], ingest.to), head)
      BY <1>0, <1>1, <3>1, StampOKKept
    <3>. QED
      BY <1>0, <1>5, <3>2, TombstoneSymbolsTyped
  <2>. QED
    BY <1>3, <1>5, <2>1, TombstoneSymbolsTyped
<1>8. CASE UpsertNodes
  <2>1. /\ head' = head /\ ingest.pc # "idle"
        /\ \A s \in Symbol : symbol'[s] = IF s \in Parsed
                                          THEN Upserted(symbol[s], ingest.to)
                                          ELSE symbol[s]
    BY <1>8, UpsertNodesTyped DEF UpsertNodes, head
  <2>2. ASSUME NEW s \in Symbol PROVE StampOK(symbol'[s], head)
    <3>1. StampOK(Upserted(symbol[s], ingest.to), head)
      BY <1>0, <1>1, <2>1, StampOKKept
    <3>. QED
      BY <1>0, <2>1, <3>1
  <2>. QED
    BY <1>3, <2>1, <2>2
<1>9. CASE \E o \in 1 .. head : Vacuum(o)
  <2>1. PICK o \in 1 .. head : Vacuum(o)
    BY <1>9
  <2>2. StampOK(Gone, head)
    BY GoneIs, <1>0 DEF StampOK
  <2>3. \A s \in Symbol : StampOK(symbol'[s], head)
    BY <1>0, <2>1, <2>2, VacuumKeeps DEF VacuumIs
  <2>4. head' = head
    BY <2>1 DEF Vacuum, head
  <2>. QED
    BY <1>3, <2>3, <2>4
<1>10. CASE UNCHANGED <<trees, symbol>>
  BY <1>10 DEF StampsOK, head
<1>11. \/ \E f \in File, content \in Contents \cup {Absent} :
            Commit(f, content)
       \/ \E resolves \in BOOLEAN : IngestFull(resolves)
       \/ TombstoneSymbols \/ UpsertNodes
       \/ \E o \in 1 .. head : Vacuum(o)
       \/ UNCHANGED <<trees, symbol>>
  BY DEF Next, Step, Start, DeleteFile, Extract, DeleteOld, TombstoneFile,
         TombstoneEdges, UpsertEdges, IndexArchitecture, Resolve,
         RecordState, Fail, vars, nodes
<1>. QED
  BY <1>2, <1>4, <1>5, <1>8, <1>9, <1>10, <1>11

-----------------------------------------------------------------------------
(* What the graph remembers. *)
LEMMA InitHistory == Init => HistoryOK
BY DEF Init, HistoryOK, HistoryKept

(* A symbol that was alive at a commit still is. *)
AliveKept(o) ==
  \A s \in Symbol : AliveAt(symbol[s], o) => AliveAt(symbol'[s], o)

LEMMA HistoryStep ==
  ASSUME HistoryOK, kept' = kept, cut' \in Nat, cut \in Nat, cut' >= cut,
         base \in Nat, base' \in Nat, base' >= base,
         \A o \in kept : o \in Nat /\ trees'[o] = trees[o],
         \A o \in kept : o >= cut' => AliveKept(o)
  PROVE  HistoryOK'
<1>1. kept' \subseteq 1 .. base'
  BY DEF HistoryOK
<1>2. ASSUME NEW o \in kept, o >= cut', NEW s \in Defined(trees[o])
      PROVE  s \in Symbol /\ AliveAt(symbol'[s], o)
  <2>1. o >= cut
    BY <1>2
  <2>2. s \in Symbol /\ AliveAt(symbol[s], o)
    BY <1>2, <2>1 DEF HistoryOK, HistoryKept, at_sha
  <2>. QED
    BY <1>2, <2>2 DEF AliveKept
<1>3. HistoryKept'
  BY <1>2 DEF HistoryKept, at_sha, Defined
<1>. QED
  BY <1>1, <1>3 DEF HistoryOK

(* The tombstones of an ingest are later than every commit the graph has   *)
(* seen.                                                                   *)
LEMMA TombstoneAlive ==
  ASSUME TypeOK, IngestOK, DefsOK, HistoryOK, TombstoneSymbols, NEW o \in kept
  PROVE  AliveKept(o)
<1>0. ingest.pc # "idle" /\ ingest.cur \in Pending
  BY DEF TombstoneSymbols, Pending, InHand
<1>1. /\ ingest.to \in Ord /\ symbol \in [Symbol -> Stamp]
      /\ base \in Nat /\ ingest.to \in Nat /\ base <= ingest.to
  BY <1>0, HeadIs, IngestSpan DEF TypeOK, Ingest, Ord
<1>2. trees[base][ingest.cur] # trees[ingest.to][ingest.cur]
  BY <1>0, RunningDefs
<1>3. o \in Nat /\ o <= base /\ o < ingest.to
  <2>1. base # ingest.to
    BY <1>2
  <2>2. o \in Nat /\ o <= base
    BY <1>1 DEF HistoryOK
  <2>. QED
    BY <1>1, <2>1, <2>2
<1>4. ASSUME NEW s \in Symbol, AliveAt(symbol[s], o)
      PROVE  AliveAt(symbol'[s], o)
  <2>. DEFINE dead == Invalid(symbol[s], ingest.to)
  <2>1. /\ dead.in = symbol[s].in /\ dead.first = symbol[s].first
        /\ symbol[s].in => dead.inv = ingest.to
    BY <1>1, InvalidIs
  <2>2. symbol[s].in
    BY <1>4 DEF AliveAt
  <2>. HIDE DEF dead
  <2>3. AliveAt(dead, o)
    BY <1>3, <1>4, <2>1, <2>2 DEF AliveAt
  <2>. QED
    BY <1>4, <2>3, TombstoneSymbolsTyped DEF dead
<1>. QED
  BY <1>4 DEF AliveKept

LEMMA NextHistory ==
  ASSUME TypeOK, IngestOK, DefsOK, StampsOK, HistoryOK, [Next]_vars
  PROVE  HistoryOK'
<1>0. /\ symbol \in [Symbol -> Stamp] /\ head \in Nat \ {0} /\ head \in Ord
      /\ \A s \in Symbol : StampOK(symbol[s], head)
      /\ base \in 0 .. head /\ base \in Nat /\ cut \in Nat
      /\ kept \subseteq 1 .. base /\ kept \subseteq 1 .. head
  BY HeadIs, StampsAre DEF TypeOK, HistoryOK
<1>1. CASE \E f \in File, content \in Contents \cup {Absent} :
             Commit(f, content)
  <2>1. \A o \in 1 .. head : trees'[o] = trees[o]
    BY <1>1, CommitTyped
  <2>2. UNCHANGED <<symbol, base, kept, cut>>
    BY <1>1 DEF Commit, nodes
  <2>3. \A o \in kept : AliveKept(o)
    BY <2>2 DEF AliveKept
  <2>4. \A o \in kept : o \in Nat /\ trees'[o] = trees[o]
    BY <1>0, <2>1
  <2>5. cut' \in Nat /\ cut' >= cut /\ base' \in Nat /\ base' >= base
    BY <1>0, <2>2
  <2>. QED
    BY <1>0, <2>2, <2>3, <2>4, <2>5, HistoryStep
<1>2. CASE \E resolves \in BOOLEAN : IngestFull(resolves)
  <2>1. /\ base' = head /\ kept' = {head} /\ trees' = trees
        /\ \A s \in Symbol :
             symbol'[s] = IF s \in Defined(trees[head])
                          THEN Upserted(Gone, head) ELSE Gone
    BY <1>2, FullIs DEF FullDefs, IngestFull
  <2>2. AliveAt(Upserted(Gone, head), head)
    <3>0. Upserted(Gone, head).first = head /\ Upserted(Gone, head).inv = 0
      BY <1>0, GoneIs, UpsertedIs
    <3>1. Upserted(Gone, head).first <= head /\ Upserted(Gone, head).inv = 0
      BY <1>0, <3>0
    <3>2. Upserted(Gone, head).in
      BY <1>0, GoneIs, UpsertedIs
    <3>. QED
      BY <3>1, <3>2 DEF AliveAt
  <2>3. Defined(trees[head])
          \subseteq {s \in Symbol : AliveAt(symbol'[s], head)}
    BY <2>1, <2>2 DEF Defined
  <2>4. HistoryKept'
    BY <2>1, <2>3 DEF HistoryKept, at_sha
  <2>5. kept' \subseteq 1 .. base'
    BY <1>0, <2>1
  <2>. QED
    BY <2>4, <2>5 DEF HistoryOK
<1>3. ASSUME UNCHANGED <<trees, base, kept, cut>>,
             \A o \in kept : AliveKept(o)
      PROVE  HistoryOK'
  BY <1>0, <1>3, HistoryStep
<1>5. CASE TombstoneSymbols
  <2>1. \A o \in kept : AliveKept(o)
    BY <1>5, TombstoneAlive
  <2>. QED
    BY <1>3, <1>5, <2>1, TombstoneSymbolsTyped
<1>6. CASE UpsertNodes
  <2>1. /\ ingest.to \in Ord /\ ingest.to > 0 /\ ingest.to <= head
        /\ UNCHANGED <<trees, base, kept, cut>>
        /\ \A s \in Symbol : symbol'[s] = IF s \in Parsed
                                          THEN Upserted(symbol[s], ingest.to)
                                          ELSE symbol[s]
    BY <1>6, UpsertNodesTyped, IngestSpan DEF UpsertNodes, TypeOK, Ingest
  <2>2. ASSUME NEW o \in kept, NEW s \in Symbol, AliveAt(symbol[s], o)
        PROVE  AliveAt(symbol'[s], o)
    <3>1. /\ Upserted(symbol[s], ingest.to).first = symbol[s].first
          /\ Upserted(symbol[s], ingest.to).inv = 0
          /\ Upserted(symbol[s], ingest.to).in
      BY <1>0, <2>1, <2>2, StampOKKept, UpsertedIs DEF AliveAt
    <3>2. AliveAt(Upserted(symbol[s], ingest.to), o)
      BY <2>2, <3>1 DEF AliveAt
    <3>. QED
      BY <2>1, <2>2, <3>2
  <2>. QED
    BY <1>3, <2>1, <2>2 DEF AliveKept
<1>7. CASE RecordState
  <2>1. /\ base' = ingest.to /\ UNCHANGED <<trees, symbol, cut>>
        /\ head' = head /\ ingest.pc # "idle"
        /\ kept' = IF ingest.to = head THEN kept \cup {head} ELSE kept
    BY <1>7 DEF RecordState, nodes, head
  <2>2. ingest.to \in base .. head
    BY <2>1, IngestSpan
  <2>3. CASE ingest.to # head
    <3>1. \A o \in kept : AliveKept(o)
      BY <2>1 DEF AliveKept
    <3>. QED
      BY <1>0, <2>1, <2>2, <2>3, <3>1, HistoryStep
  <2>4. CASE ingest.to = head
    <3>1. \A f \in File : Exact(f, trees[head])
      BY <1>0, <1>7, <2>4, RecordStateDefs DEF Steady
    <3>2. \A s \in Defined(trees[head]) :
            s \in Symbol /\ s.file \in File /\ Live(symbol[s])
      BY <3>1 DEF Exact, Defined, Symbol
    <3>3. \A s \in Defined(trees[head]) : AliveAt(symbol[s], head)
      BY <1>0, <3>2 DEF AliveAt, Live, StampOK
    <3>4. Defined(trees[head]) \subseteq at_sha(head)
      BY <3>2, <3>3 DEF at_sha
    <3>5. HistoryKept'
      BY <2>1, <2>4, <3>4 DEF HistoryOK, HistoryKept, at_sha
    <3>6. kept' \subseteq 1 .. base'
      BY <1>0, <2>1, <2>4
    <3>. QED
      BY <3>5, <3>6 DEF HistoryOK
  <2>. QED
    BY <2>3, <2>4
<1>8. ASSUME NEW v \in 1 .. head, Vacuum(v) PROVE HistoryOK'
  <2>1. /\ UNCHANGED <<trees, base, kept>>
        /\ cut' = IF v > cut THEN v ELSE cut
    BY <1>8 DEF Vacuum
  <2>2. cut' \in Nat /\ cut' >= cut /\ cut' >= v
    BY <1>0, <2>1
  <2>3. ASSUME NEW o \in kept, o >= cut', NEW s \in Symbol,
               AliveAt(symbol[s], o)
        PROVE  AliveAt(symbol'[s], o)
    <3>1. symbol[s].inv \in Nat /\ o \in Nat /\ o >= v
      BY <1>0, <2>2, <2>3 DEF Stamp, Ord
    <3>2. symbol[s].inv = 0 \/ symbol[s].inv > o
      BY <2>3 DEF AliveAt
    <3>3. symbol[s].inv \notin 1 .. v
      BY <3>1, <3>2
    <3>4. ~Eligible(symbol[s], v)
      BY <3>3 DEF Eligible
    <3>. QED
      BY <1>8, <2>3, <3>4, VacuumKeeps DEF VacuumIs
  <2>4. \A o \in kept : o >= cut' => AliveKept(o)
    BY <2>3 DEF AliveKept
  <2>. QED
    BY <1>0, <2>1, <2>2, <2>4, HistoryStep
<1>9. CASE UNCHANGED <<trees, symbol, base, kept, cut>>
  BY <1>9 DEF HistoryOK, HistoryKept, at_sha
<1>10. \/ \E f \in File, content \in Contents \cup {Absent} :
            Commit(f, content)
       \/ \E resolves \in BOOLEAN : IngestFull(resolves)
       \/ TombstoneSymbols \/ UpsertNodes \/ RecordState
       \/ \E o \in 1 .. head : Vacuum(o)
       \/ UNCHANGED <<trees, symbol, base, kept, cut>>
  BY DEF Next, Step, Start, DeleteFile, Extract, DeleteOld, TombstoneFile,
         TombstoneEdges, UpsertEdges, IndexArchitecture, Resolve, Fail, vars,
         nodes
<1>. QED
  BY <1>1, <1>2, <1>5, <1>6, <1>7, <1>8, <1>9, <1>10

-----------------------------------------------------------------------------
(* Unless something tore it, there is no live symbol that delete_file       *)
(* cannot find.                                                            *)
FoundNext(s) ==
  Live(defines'[s]) \/ (ingest'.pc = "edges" /\ s \in Parsed')

LEMMA TornNext ==
  ASSUME torn' \/ \A s \in Symbol : Live(symbol'[s]) => FoundNext(s)
  PROVE  TornOK'
BY DEF TornOK, FoundNext

LEMMA NextTorn ==
  ASSUME TypeOK, IngestOK, DefsOK, TornOK, [Next]_vars
  PROVE  TornOK'
<1>0. /\ symbol \in [Symbol -> Stamp] /\ defines \in [Symbol -> Stamp]
      /\ ingest.to \in Ord
  BY DEF TypeOK, Ingest
<1>1. CASE UNCHANGED <<symbol, defines, ingest, torn>>
  BY <1>1 DEF TornOK, Live, Parsed
<1>2. ASSUME UNCHANGED <<symbol, defines, torn>>, ingest.pc # "edges"
      PROVE  TornOK'
  BY <1>2 DEF TornOK, Live
<1>3. CASE \E resolves \in BOOLEAN : IngestFull(resolves)
  <2>1. ~Live(Gone) /\ Live(Upserted(Gone, head))
    BY GoneIs, UpsertedIs, HeadIs DEF Live
  <2>2. ASSUME NEW s \in Symbol, Live(symbol'[s]) PROVE FoundNext(s)
    BY <1>3, <2>1, <2>2, FullIs DEF FullDefs, FoundNext
  <2>. QED
    BY <2>2, TornNext
<1>4. CASE Start \/ RecordState \/ \E f \in File : DeleteFile(f) \/ Extract(f)
  <2>1. UNCHANGED <<symbol, defines, torn>> /\ ingest.pc # "edges"
    BY <1>4
    DEF Start, RecordState, DeleteFile, TombstoneFile, Extract, nodes, edges
  <2>. QED
    BY <1>2, <2>1
<1>5. CASE DeleteOld
  <2>1. UNCHANGED <<symbol, defines, torn>> /\ ingest.pc # "edges"
    BY <1>5 DEF DeleteOld, TombstoneFile, edges
  <2>. QED
    BY <1>2, <2>1
<1>6. CASE TombstoneSymbols
  <2>1. /\ ingest.pc = "symbols" /\ UNCHANGED <<defines, torn>>
        /\ \A s \in Symbol : symbol'[s] =
             IF s.file = ingest.cur /\ defines[s].in
             THEN Invalid(symbol[s], ingest.to) ELSE symbol[s]
    BY <1>6, TombstoneSymbolsTyped
  <2>2. \A s \in Symbol : Live(symbol'[s]) => symbol'[s] = symbol[s]
    <3>1. ingest.to # 0
      BY <2>1, IngestSpan
    <3>2. \A st \in Stamp : ~Live(Invalid(st, ingest.to))
      BY <1>0, <3>1, InvalidIs DEF Live
    <3>. QED
      BY <1>0, <2>1, <3>2
  <2>3. ~torn => \A s \in Symbol : Live(symbol[s]) => Live(defines[s])
    BY <2>1 DEF TornOK
  <2>. QED
    BY <2>1, <2>2, <2>3, TornNext DEF FoundNext
<1>7. CASE TombstoneEdges
  <2>1. /\ ingest.pc = "touching" /\ UNCHANGED <<symbol, torn>>
        /\ \A s \in Symbol : defines'[s] =
             IF s.file = ingest.cur THEN Invalid(defines[s], ingest.to)
             ELSE defines[s]
    BY <1>7, TombstoneEdgesTyped
  <2>2. \A s \in Symbol : s.file = ingest.cur =>
          ~(defines[s].in /\ Live(symbol[s]))
    BY <2>1 DEF DefsOK, InHandOK
  <2>3. ~torn => \A s \in Symbol : Live(symbol[s]) =>
                   Live(defines[s]) /\ defines[s].in
    BY <2>1 DEF TornOK, Live
  <2>4. ~torn => \A s \in Symbol : Live(symbol[s]) => s.file # ingest.cur
    BY <2>2, <2>3
  <2>. QED
    BY <2>1, <2>3, <2>4, TornNext DEF FoundNext
<1>8. CASE UpsertNodes
  <2>1. /\ ingest.pc = "nodes" /\ ingest'.pc = "edges" /\ Parsed' = Parsed
        /\ \A s \in Symbol \ Parsed : symbol'[s] = symbol[s]
        /\ UNCHANGED <<defines, torn>>
    BY <1>8, UpsertNodesTyped DEF UpsertNodes, edges
  <2>2. SUFFICES ASSUME ~torn, NEW s \in Symbol, Live(symbol'[s])
                 PROVE  FoundNext(s)
    BY <2>1, TornNext
  <2>3. CASE s \in Parsed
    BY <2>1, <2>3 DEF FoundNext
  <2>4. CASE s \notin Parsed
    BY <2>1, <2>2, <2>4 DEF TornOK, FoundNext
  <2>. QED
    BY <2>3, <2>4
<1>9. CASE UpsertEdges
  <2>1. /\ UNCHANGED <<symbol, torn>>
        /\ \A s \in Symbol : defines'[s] = IF s \in Parsed
                                           THEN Upserted(defines[s], ingest.to)
                                           ELSE defines[s]
    BY <1>9, UpsertEdgesTyped DEF UpsertEdges, nodes
  <2>2. \A st \in Stamp : Live(Upserted(st, ingest.to))
    BY <1>0, UpsertedIs
  <2>3. SUFFICES ASSUME ~torn, NEW s \in Symbol, Live(symbol[s])
                 PROVE  FoundNext(s)
    BY <2>1, TornNext
  <2>4. s \notin Parsed => Live(defines[s])
    BY <2>3 DEF TornOK
  <2>5. Live(defines'[s])
    BY <1>0, <2>1, <2>2, <2>4
  <2>. QED
    BY <2>5 DEF FoundNext
<1>10. CASE Fail
  <2>1. torn' = (torn \/ ingest.pc = "edges") /\ UNCHANGED <<symbol, defines>>
    BY <1>10 DEF Fail, nodes, edges
  <2>2. CASE ingest.pc = "edges"
    BY <2>1, <2>2, TornNext
  <2>3. CASE ingest.pc # "edges"
    BY <2>1, <2>3, TornNext DEF TornOK, FoundNext
  <2>. QED
    BY <2>2, <2>3
<1>11. CASE \E o \in 1 .. head : Vacuum(o)
  <2>1. PICK o \in 1 .. head : Vacuum(o)
    BY <1>11
  <2>2. ingest' = ingest /\ Parsed' = Parsed
    BY <2>1 DEF Vacuum, Parsed
  <2>3. VacuumIs(o) /\ TornBy
    BY <2>1, VacuumKeeps
  <2>4. SUFFICES ASSUME ~torn', NEW s \in Symbol, Live(symbol'[s])
                 PROVE  FoundNext(s)
    BY TornNext
  <2>5. ~torn /\ (Live(defines[s]) => Live(defines'[s]))
    BY <2>3, <2>4 DEF TornBy
  <2>6. Live(symbol[s])
    BY <2>3, <2>4, GoneIs DEF VacuumIs, Live
  <2>. QED
    BY <2>2, <2>5, <2>6 DEF TornOK, FoundNext
<1>12. CASE Resolve
  BY <1>2, <1>12 DEF Resolve, nodes
<1>13. CASE IndexArchitecture
  BY <1>2, <1>13 DEF IndexArchitecture
<1>14. CASE \E f \in File, content \in Contents \cup {Absent} :
              Commit(f, content)
  BY <1>1, <1>14 DEF Commit, nodes, edges
<1>15. CASE UNCHANGED vars
  BY <1>1, <1>15 DEF vars, nodes, edges
<1>. QED
  BY <1>3, <1>4, <1>5, <1>6, <1>7, <1>8, <1>9, <1>10, <1>11, <1>12, <1>13,
     <1>14, <1>15
  DEF Next, Step

-----------------------------------------------------------------------------
(* The layers. *)
InItsLayerNext(f) ==
  Live(file'[f]) /\ LayerOf[f] # None =>
    Live(inLayer'[f]) /\ Live(layer'[LayerOf[f]])

LayersBefore ==
  base > 0 =>
    /\ \A f \in File : Steady(base, f) => InItsLayer(f)
    /\ \A l \in Layer : Live(layer[l]) => layer[l].last \in base .. head

LayersAfter ==
  /\ \A f \in File : InItsLayer(f)
  /\ \A l \in Layer : Live(layer[l]) => layer[l].last = ingest.to

LEMMA LayersAre ==
  LayersOK <=> IF ingest.pc \in {"resolve", "record"}
               THEN LayersAfter ELSE LayersBefore
BY DEF LayersOK, LayersAfter, LayersBefore

LEMMA InitLayers == Init => LayersOK
BY QuietIs DEF Init, LayersOK

(* A step before the layers are confirmed. *)
LEMMA LayersBeforeStep ==
  ASSUME TypeOK, LayersOK,
         ingest.pc \notin {"resolve", "record"},
         ingest'.pc \notin {"resolve", "record"},
         UNCHANGED <<trees, base, layer>>,
         \A f \in File : Steady(base, f) /\ InItsLayer(f) => InItsLayerNext(f)
  PROVE  LayersOK'
<1>1. LayersBefore
  BY LayersAre
<1>2. \A f \in File : Steady(base, f)' => Steady(base, f)
  BY DEF Steady, head
<1>3. \A f \in File : InItsLayerNext(f) => InItsLayer(f)'
  BY DEF InItsLayer, InItsLayerNext
<1>4. base > 0 => \A f \in File : Steady(base, f)' => InItsLayer(f)'
  BY <1>1, <1>2, <1>3 DEF LayersBefore
<1>5. LayersBefore'
  BY <1>1, <1>4 DEF LayersBefore, head
<1>. QED
  BY <1>5 DEF LayersOK, LayersBefore

LEMMA TombstoneFileLayers ==
  ASSUME TypeOK, NEW f \in File, TombstoneFile(f), ingest.to > 0,
         NEW g \in File, InItsLayer(g)
  PROVE  InItsLayerNext(g)
<1>1. CASE g = f
  BY <1>1, TombstoneFileUntouched DEF InItsLayerNext
<1>2. CASE g # f
  BY <1>2, TombstoneFileIs DEF InItsLayer, InItsLayerNext
<1>. QED
  BY <1>1, <1>2

LEMMA NextLayers ==
  ASSUME TypeOK, IngestOK, DefsOK, LayersOK, [Next]_vars
  PROVE  LayersOK'
<1>0. /\ file \in [File -> Stamp] /\ inLayer \in [File -> Stamp]
      /\ layer \in [Layer -> Stamp] /\ ingest.to \in Ord
      /\ head \in Nat \ {0} /\ head \in Ord /\ base \in 0 .. head
      /\ LayerOf \in [File -> Layer \cup {None}] /\ None \notin Layer
  BY HeadIs, TemporalGraphAssumption DEF TypeOK, Ingest
<1>1. CASE \E f \in File, content \in Contents \cup {Absent} :
             Commit(f, content)
  <2>1. /\ UNCHANGED <<file, inLayer, layer, base, ingest>>
        /\ head' = head + 1
    BY <1>1, CommitTyped DEF Commit, nodes, edges
  <2>2. CASE ingest.pc \in {"resolve", "record"}
    <3>1. LayersAfter
      BY <2>2, LayersAre
    <3>2. LayersAfter'
      BY <2>1, <3>1 DEF LayersAfter, InItsLayer
    <3>. QED
      BY <2>1, <2>2, <3>2 DEF LayersOK, LayersAfter
  <2>3. CASE ingest.pc \notin {"resolve", "record"}
    <3>1. LayersBefore
      BY <2>3, LayersAre
    <3>2. ASSUME base > 0, NEW f \in File, Steady(base, f)'
          PROVE  InItsLayer(f)'
      <4>1. base \in 1 .. head
        BY <1>0, <3>2
      <4>2. Steady(base, f)
        BY <1>1, <2>1, <3>2, <4>1, SteadyBack DEF Steady
      <4>3. InItsLayer(f)
        BY <3>1, <3>2, <4>2 DEF LayersBefore
      <4>. QED
        BY <2>1, <4>3 DEF InItsLayer
    <3>3. ASSUME base > 0, NEW l \in Layer, Live(layer[l])
          PROVE  layer[l].last \in base .. head + 1
      BY <1>0, <3>1, <3>3 DEF LayersBefore
    <3>4. LayersBefore'
      BY <2>1, <3>2, <3>3 DEF LayersBefore
    <3>. QED
      BY <2>1, <2>3, <3>4 DEF LayersOK, LayersBefore
  <2>. QED
    BY <2>2, <2>3
<1>2. CASE \E resolves \in BOOLEAN : IngestFull(resolves)
  <2>1. /\ ingest.pc = "idle" /\ ingest' = ingest /\ base' = head
        /\ head' = head
    BY <1>2 DEF IngestFull, head
  <2>2. /\ ~Live(Gone) /\ Live(Upserted(Gone, head))
        /\ Upserted(Gone, head).last = head
    BY <1>0, GoneIs, UpsertedIs DEF Live
  <2>3. ASSUME NEW f \in File, Live(file'[f]), LayerOf[f] # None
        PROVE  Live(inLayer'[f]) /\ Live(layer'[LayerOf[f]])
    <3>1. Has(trees[head], f) /\ LayerOf[f] \in Layer
      BY <1>0, <1>2, <2>2, <2>3, FullIs
    <3>. QED
      BY <1>2, <2>2, <2>3, <3>1, FullIs
  <2>4. ASSUME NEW l \in Layer, Live(layer'[l])
        PROVE  layer'[l].last = head
    BY <1>2, <2>2, <2>4, FullIs
  <2>5. ASSUME NEW l \in Layer, Live(layer'[l])
        PROVE  layer'[l].last \in head .. head
    BY <1>0, <2>4, <2>5
  <2>6. LayersBefore'
    BY <2>1, <2>3, <2>5 DEF LayersBefore, InItsLayer
  <2>. QED
    BY <2>1, <2>6 DEF LayersOK, LayersBefore
<1>3. CASE Start \/ \E f \in File : Extract(f)
  <2>1. /\ UNCHANGED <<trees, base, layer, file, inLayer>>
        /\ ingest.pc \in {"idle", "files"}
    BY <1>3 DEF Start, Extract, nodes, edges
  <2>2. ingest'.pc \notin {"resolve", "record"}
    BY <1>3, StartTyped, ExtractTyped
  <2>3. \A f \in File : InItsLayer(f) => InItsLayerNext(f)
    BY <2>1 DEF InItsLayer, InItsLayerNext
  <2>. QED
    BY <2>1, <2>2, <2>3, LayersBeforeStep
<1>4. CASE \E f \in File : DeleteFile(f)
  <2>1. PICK f \in File : DeleteFile(f)
    BY <1>4
  <2>2. /\ UNCHANGED <<trees, base, layer>> /\ ingest.pc = "files"
        /\ TombstoneFile(f)
    BY <2>1, TombstoneFileIs DEF DeleteFile
  <2>3. ingest'.pc = "symbols" /\ ingest.to > 0
    BY <2>1, <2>2, DeleteFileTyped, IngestSpan
  <2>. QED
    BY <2>2, <2>3, TombstoneFileLayers, LayersBeforeStep
<1>5. CASE DeleteOld
  <2>1. /\ ingest.pc = "delete" /\ ingest'.pc = "symbols" /\ ingest.to > 0
        /\ ingest.cur \in File
    BY <1>5, DeleteOldTyped, IngestSpan
  <2>2. UNCHANGED <<trees, base, layer>> /\ TombstoneFile(ingest.cur)
    BY <1>5, <2>1, TombstoneFileIs DEF DeleteOld
  <2>. QED
    BY <2>1, <2>2, TombstoneFileLayers, LayersBeforeStep
<1>15. CASE TombstoneSymbols
  <2>1. /\ ingest.pc = "symbols" /\ ingest'.pc = "touching"
        /\ UNCHANGED <<trees, base, layer, file, inLayer>>
    BY <1>15, TombstoneSymbolsTyped
  <2>2. \A f \in File : InItsLayer(f) => InItsLayerNext(f)
    BY <2>1 DEF InItsLayer, InItsLayerNext
  <2>. QED
    BY <2>1, <2>2, LayersBeforeStep
<1>16. CASE TombstoneEdges
  <2>1. /\ ingest.pc = "touching" /\ ingest'.pc \in {"files", "nodes"}
        /\ UNCHANGED <<trees, base, layer, file>>
        /\ \A f \in File \ {ingest.cur} : inLayer'[f] = inLayer[f]
    BY <1>16, TombstoneEdgesTyped
  <2>2. ~Live(file[ingest.cur])
    BY <2>1 DEF DefsOK, InHandOK
  <2>3. \A f \in File : InItsLayer(f) => InItsLayerNext(f)
    BY <2>1, <2>2 DEF InItsLayer, InItsLayerNext
  <2>. QED
    BY <2>1, <2>3, LayersBeforeStep
<1>6. CASE UpsertNodes
  <2>1. /\ ingest.cur \in File /\ ingest.pc = "nodes"
        /\ ingest'.pc = "edges" /\ UNCHANGED <<trees, base, layer, inLayer>>
        /\ \A f \in File \ {ingest.cur} : file'[f] = file[f]
    BY <1>6, UpsertNodesTyped DEF UpsertNodes, edges
  <2>2. ingest.cur \in Pending
    BY <2>1 DEF Pending, InHand
  <2>3. ~Steady(base, ingest.cur)
    BY <2>1, <2>2, RunningDefs, IngestSpan DEF Steady
  <2>4. \A f \in File : Steady(base, f) /\ InItsLayer(f) => InItsLayerNext(f)
    BY <2>1, <2>3 DEF InItsLayer, InItsLayerNext
  <2>. QED
    BY <2>1, <2>4, LayersBeforeStep
<1>7. CASE UpsertEdges
  <2>1. UNCHANGED <<trees, base, layer, inLayer, file>>
    BY <1>7 DEF UpsertEdges, nodes
  <2>2. ingest.pc = "edges" /\ ingest'.pc = "files"
    BY <1>7, UpsertEdgesTyped
  <2>3. \A f \in File : InItsLayer(f) => InItsLayerNext(f)
    BY <2>1 DEF InItsLayer, InItsLayerNext
  <2>. QED
    BY <2>1, <2>2, <2>3, LayersBeforeStep
<1>8. CASE IndexArchitecture
  <2>1. /\ ingest.pc = "files" /\ ingest'.pc \in {"resolve", "record"}
        /\ ingest'.to = ingest.to /\ file' = file
        /\ \A f \in File : inLayer'[f] = IF f \in Filed
                                         THEN Upserted(inLayer[f], ingest.to)
                                         ELSE inLayer[f]
        /\ \A l \in Layer :
             layer'[l] = IF l \in Used THEN Upserted(layer[l], ingest.to)
                         ELSE IF Live(layer[l]) /\ layer[l].last # ingest.to
                         THEN Invalid(layer[l], ingest.to)
                         ELSE layer[l]
    BY <1>8, ArchitectureTyped DEF IndexArchitecture
  <2>2. ingest.to # 0
    BY <2>1, IngestSpan
  <2>3. \A st \in Stamp : /\ Live(Upserted(st, ingest.to))
                          /\ Upserted(st, ingest.to).last = ingest.to
    BY <1>0, UpsertedIs
  <2>4. \A st \in Stamp : Live(st) => ~Live(Invalid(st, ingest.to))
    BY <1>0, <2>2, InvalidIs DEF Live
  <2>5. ASSUME NEW f \in File, Live(file'[f]), LayerOf[f] # None
        PROVE  Live(inLayer'[f]) /\ Live(layer'[LayerOf[f]])
    <3>1. f \in Filed /\ LayerOf[f] \in Used
      BY <2>1, <2>5 DEF Filed, Used
    <3>2. LayerOf[f] \in Layer
      BY <1>0, <2>5
    <3>. QED
      BY <1>0, <2>1, <2>3, <3>1, <3>2
  <2>6. ASSUME NEW l \in Layer, Live(layer'[l])
        PROVE  layer'[l].last = ingest.to
    BY <1>0, <2>1, <2>3, <2>4, <2>6
  <2>7. LayersAfter'
    BY <2>1, <2>5, <2>6 DEF LayersAfter, InItsLayer
  <2>. QED
    BY <2>1, <2>7 DEF LayersOK, LayersAfter
<1>9. CASE Resolve
  <2>1. UNCHANGED <<file, inLayer, layer>>
    BY <1>9 DEF Resolve, nodes
  <2>2. /\ ingest.pc = "resolve" /\ ingest'.pc = "record"
        /\ ingest'.to = ingest.to
    BY <1>9, ResolveTyped
  <2>3. LayersAfter
    BY <2>2, LayersAre
  <2>4. LayersAfter'
    BY <2>1, <2>2, <2>3 DEF LayersAfter, InItsLayer
  <2>. QED
    BY <2>2, <2>4 DEF LayersOK, LayersAfter
<1>10. ASSUME UNCHANGED <<trees, file, inLayer, layer>>, ingest' = Quiet,
              ingest.pc \in {"resolve", "record"},
              base' = base \/ base' = ingest.to
       PROVE  LayersOK'
  <2>1. LayersAfter
    BY <1>10, LayersAre
  <2>2. ingest.to \in base .. head /\ head' = head /\ base \in Nat
    BY <1>0, <1>10, IngestSpan DEF head
  <2>3. \A f \in File : InItsLayer(f)'
    BY <1>10, <2>1 DEF LayersAfter, InItsLayer
  <2>4. ingest.to \in base' .. head'
    BY <1>0, <1>10, <2>2
  <2>5. \A l \in Layer : Live(layer'[l]) => layer'[l].last \in base' .. head'
    BY <1>10, <2>1, <2>4 DEF LayersAfter
  <2>6. LayersBefore'
    BY <2>3, <2>5 DEF LayersBefore
  <2>. QED
    BY <1>10, <2>6, QuietIs DEF LayersOK, LayersBefore
<1>11. CASE RecordState
  BY <1>10, <1>11 DEF RecordState, nodes, edges
<1>12. CASE Fail
  <2>1. UNCHANGED <<trees, base, file, inLayer, layer>> /\ ingest' = Quiet
    BY <1>12 DEF Fail, nodes, edges
  <2>2. CASE ingest.pc \in {"resolve", "record"}
    BY <1>10, <2>1, <2>2
  <2>3. CASE ingest.pc \notin {"resolve", "record"}
    <3>1. \A f \in File : InItsLayer(f) => InItsLayerNext(f)
      BY <2>1 DEF InItsLayer, InItsLayerNext
    <3>. QED
      BY <2>1, <2>3, <3>1, QuietIs, LayersBeforeStep
  <2>. QED
    BY <2>2, <2>3
<1>13. CASE \E o \in 1 .. head : Vacuum(o)
  <2>1. PICK o \in 1 .. head : Vacuum(o)
    BY <1>13
  <2>2. UNCHANGED <<trees, base, layer, ingest>>
    BY <2>1 DEF Vacuum
  <2>3. /\ \A st : Live(st) => ~Eligible(st, o)
        /\ ~Live(Gone)
    BY GoneIs DEF Live, Eligible
  <2>4. \A f \in File : InItsLayer(f) => InItsLayerNext(f)
    BY <2>1, <2>2, <2>3, VacuumKeeps
    DEF VacuumIs, InItsLayer, InItsLayerNext
  <2>5. CASE ingest.pc \in {"resolve", "record"}
    <3>1. LayersAfter
      BY <2>5, LayersAre
    <3>2. LayersAfter'
      BY <2>2, <2>4, <3>1 DEF LayersAfter, InItsLayer, InItsLayerNext
    <3>. QED
      BY <2>2, <2>5, <3>2 DEF LayersOK, LayersAfter
  <2>6. CASE ingest.pc \notin {"resolve", "record"}
    BY <2>2, <2>4, <2>6, LayersBeforeStep
  <2>. QED
    BY <2>5, <2>6
<1>14. CASE UNCHANGED vars
  BY <1>14
  DEF vars, nodes, edges, LayersOK, InItsLayer, Steady, head, Live
<1>. QED
  BY <1>1, <1>2, <1>3, <1>4, <1>5, <1>6, <1>7, <1>8, <1>9, <1>11, <1>12,
     <1>13, <1>14, <1>15, <1>16
  DEF Next, Step

-----------------------------------------------------------------------------
(* The calls of a full ingest. *)

(* The first definition by line, or the only one: there is a target when   *)
(* the file defines the name or one file does.                             *)
LEMMA TargetExists ==
  ASSUME NEW defs, NEW f \in File, NEW n \in Name
  PROVE  LET named == {s \in Symbol : s.name = n /\ defs[s].in}
         IN  Target(defs, f, n) # {} <=> \/ \E s \in named : s.file = f
                                         \/ Cardinality(named) = 1
<1>. DEFINE named == {s \in Symbol : s.name = n /\ defs[s].in}
            own == {s \in named : s.file = f}
<1>1. Target(defs, f, n) = IF own # {}
                           THEN {s \in own : \A t \in own : s.line <= t.line}
                           ELSE IF Cardinality(named) = 1 THEN named ELSE {}
  BY DEF Target
<1>2. own # {} <=> \E s \in named : s.file = f
  OBVIOUS
<1>3. ASSUME own # {}
      PROVE  \E s \in own : \A t \in own : s.line <= t.line
  <2>. DEFINE lines == {s.line : s \in own}
              less == OpToRel(<, Nat)
  <2>1. IsWellFoundedOn(less, Nat)
    BY NatLessThanWellFounded
  <2>2. \A s \in own : s.line \in Nat
    BY TemporalGraphAssumption DEF Symbol
  <2>3. lines \subseteq Nat /\ lines # {}
    BY <1>3, <2>2
  <2>4. \A i \in Nat, j \in Nat : <<i, j>> \in less <=> i < j
    BY DEF OpToRel
  <2>. HIDE DEF less, lines
  <2>5. PICK m \in lines : \A k \in lines : ~(<<k, m>> \in less)
    BY <2>1, <2>3, WFMin, Zenon
  <2>6. ASSUME NEW k \in lines PROVE m <= k
    <3>1. k \in Nat /\ m \in Nat /\ ~(<<k, m>> \in less)
      BY <2>3, <2>5
    <3>2. ~(k < m)
      BY <2>4, <3>1
    <3>. QED
      BY <3>1, <3>2
  <2>7. PICK s \in own : s.line = m
    BY DEF lines
  <2>8. \A t \in own : t.line \in lines
    BY DEF lines
  <2>. QED
    BY <2>6, <2>7, <2>8
<1>4. Cardinality(named) = 1 => named # {}
  BY FS_EmptySet
<1>. HIDE DEF own, named
<1>5. CASE own # {}
  BY <1>1, <1>2, <1>3, <1>5 DEF own, named
<1>6. CASE own = {}
  BY <1>1, <1>2, <1>4, <1>6 DEF named
<1>. QED
  BY <1>5, <1>6

(* callers, after a step. *)
CallersNext(n) ==
  {f \in File : /\ Live(file'[f])
                /\ \E s \in Symbol :
                     /\ s.name = n /\ Live(symbol'[s])
                     /\ calls'[[from |-> f, to |-> s]].in}

LEMMA FullCallers ==
  ASSUME TypeOK, IngestFull(TRUE)
  PROVE  \A n \in Name :
           LET named == {s \in Defined(trees[head]) : s.name = n}
           IN  CallersNext(n)
                 = {f \in Calls(trees[head], n) :
                      \/ \E s \in named : s.file = f
                      \/ Cardinality(named) = 1}
<1>. DEFINE tree == trees[head]
            defs == FullDefs(tree)
            raw == FullCalls(tree)
<1>1. /\ symbol' = defs /\ calls' = Resolved(defs, raw)
      /\ raw \in [Call -> Stamp]
      /\ \A f \in File : file'[f] = IF Has(tree, f)
                                    THEN Upserted(Gone, head) ELSE Gone
  BY FullIs
<1>2. /\ ~Live(Gone) /\ Live(Upserted(Gone, head)) /\ ~Gone.in
      /\ Upserted(Gone, head).in /\ Unstamped.in
  BY GoneIs, UpsertedIs, HeadIs DEF Live
<1>3. \A s \in Symbol :
        /\ defs[s].in <=> s \in Defined(tree)
        /\ Live(defs[s]) <=> s \in Defined(tree)
  BY <1>2 DEF FullDefs
<1>4. SUFFICES ASSUME NEW n \in Name, NEW f \in File
               PROVE  LET named == {s \in Defined(tree) : s.name = n}
                      IN  /\ Live(file'[f])
                          /\ \E s \in Symbol :
                               /\ s.name = n /\ Live(symbol'[s])
                               /\ calls'[[from |-> f, to |-> s]].in
                          <=> /\ f \in Calls(tree, n)
                              /\ \/ \E s \in named : s.file = f
                                 \/ Cardinality(named) = 1
  BY DEF Calls, CallersNext
<1>. DEFINE named == {s \in Defined(tree) : s.name = n}
<1>5. named = {s \in Symbol : s.name = n /\ defs[s].in}
  BY <1>3 DEF Defined
<1>6. Target(defs, f, n) # {} <=> \/ \E s \in named : s.file = f
                                  \/ Cardinality(named) = 1
  <2>. HIDE DEF defs, named
  <2>. QED
    BY <1>5, TargetExists
<1>7. raw[Raw(f, n)].in <=> f \in Calls(tree, n)
  <2>1. Raw(f, n) \in Call
    BY Placeholders
  <2>2. \A m \in Name : Raw(f, n).from = f /\ (Raw(f, n) = Raw(f, m) => m = n)
    BY DEF Raw
  <2>. QED
    BY <1>2, <2>1, <2>2 DEF FullCalls
<1>8. ASSUME NEW s \in Symbol, s.name = n
      PROVE  calls'[[from |-> f, to |-> s]].in <=>
               f \in Calls(tree, n) /\ s \in Target(defs, f, n)
  <2>. DEFINE c == [from |-> f, to |-> s]
  <2>1. c \in Call /\ c.from = f /\ c.to = s /\ c.to.name = n
    BY <1>8 DEF Call
  <2>2. \A m \in Name : c # Raw(f, m)
    BY <2>1, Placeholders
  <2>3. ~raw[c].in
    BY <1>2, <2>1, <2>2 DEF FullCalls
  <2>. HIDE DEF c, raw, defs
  <2>4. calls'[c] = IF s \in Bound(defs, raw, c) THEN Unstamped ELSE raw[c]
    BY <1>1, <2>1, <2>2, <2>3, ResolvedIs
  <2>5. Bound(defs, raw, c) = IF f \in Calls(tree, n)
                              THEN Target(defs, f, n) ELSE {}
    BY <1>7, <2>1 DEF Bound
  <2>6. calls'[c].in <=> f \in Calls(tree, n) /\ s \in Target(defs, f, n)
    BY <1>2, <2>3, <2>4, <2>5
  <2>. QED
    BY <2>6 DEF c
<1>9. \A s \in Target(defs, f, n) :
        s \in Symbol /\ s.name = n /\ Live(defs[s])
  BY <1>3, TargetIs
<1>10. Live(file'[f]) <=> Has(tree, f)
  BY <1>1, <1>2
<1>11. f \in Calls(tree, n) => Has(tree, f)
  BY DEF Calls
<1>12. (\E s \in Symbol : /\ s.name = n /\ Live(symbol'[s])
                          /\ calls'[[from |-> f, to |-> s]].in)
         <=> f \in Calls(tree, n) /\ Target(defs, f, n) # {}
  <2>. HIDE DEF defs
  <2>. QED
    BY <1>1, <1>8, <1>9
<1>. QED
  BY <1>6, <1>10, <1>11, <1>12

FullParts ==
  /\ base > 0
  /\ ingest.pc \in {"idle", "files", "record"}
  /\ ingest.pc # "idle" => ingest.to = base
  /\ Pending = {} /\ ~ingest.wrote
  /\ \A f \in File : file[f].inv = 0
  /\ \A s \in Symbol : symbol[s].inv = 0
  /\ \A c \in Call : calls[c].inv = 0
  /\ CallersExact(trees[base])

LEMMA FullOKIs == FullOK <=> (full => FullParts)
BY DEF FullOK, FullParts

(* A step that leaves the graph of a full ingest alone. *)
LEMMA FullStays ==
  ASSUME TypeOK, FullParts, base' = base, trees'[base] = trees[base],
         \A f \in File : file'[f] = file[f],
         \A s \in Symbol : symbol'[s] = symbol[s],
         \A c \in Call : calls'[c] = calls[c],
         ingest'.pc \in {"idle", "files", "record"},
         ingest'.pc # "idle" => ingest'.to = base,
         ingest'.deleted = {}, ingest'.changed = {}, ~ingest'.wrote
  PROVE  FullParts'
<1>1. \A f \in File, s \in Symbol : [from |-> f, to |-> s] \in Call
  BY DEF Call
<1>2. \A n \in Name : CallersNext(n) = callers(n)
  BY <1>1 DEF callers, CallersNext
<1>3. CallersExact(trees[base])'
  BY <1>2 DEF FullParts, CallersExact, callers, CallersNext
<1>4. Pending' = {}
  BY DEF Pending, InHand
<1>. QED
  BY <1>3, <1>4 DEF FullParts

LEMMA FullNext ==
  ASSUME full' => full /\ FullParts'
  PROVE  FullOK'
BY DEF FullOK, FullParts

LEMMA IngestFullIs ==
  ASSUME TypeOK, IngestOK, IngestFull(TRUE)
  PROVE  FullOK'
<1>1. /\ ingest.pc = "idle" /\ ingest' = ingest /\ base' = head
      /\ trees' = trees
  BY DEF IngestFull
<1>2. head > 0 /\ ingest = Quiet
  BY <1>1, HeadIs DEF IngestOK
<1>3. /\ Upserted(Gone, head).inv = 0 /\ Unstamped.inv = 0 /\ Gone.inv = 0
      /\ Gone \in Stamp
  BY GoneIs, UpsertedIs, HeadIs
<1>4. \A f \in File : file'[f].inv = 0
  BY <1>3, FullIs
<1>5. \A s \in Symbol : symbol'[s].inv = 0
  BY <1>3, FullIs DEF FullDefs
<1>6. \A c \in Call : calls'[c].inv = 0
  <2>. DEFINE raw == FullCalls(trees[head])
              defs == FullDefs(trees[head])
  <2>1. raw \in [Call -> Stamp] /\ calls' = Resolved(defs, raw)
    BY FullIs
  <2>2. \A c \in Call : raw[c].inv = 0
    BY <1>3 DEF FullCalls
  <2>. HIDE DEF raw, defs
  <2>. QED
    BY <1>3, <2>1, <2>2, ResolvedIs
<1>7. CallersExact(trees[base])'
  BY <1>1, FullCallers DEF CallersExact, callers, CallersNext
<1>8. Pending' = {} /\ ~ingest'.wrote /\ ingest'.pc = "idle"
  BY <1>1, <1>2, QuietIs DEF Pending, InHand
<1>. QED
  BY <1>1, <1>2, <1>4, <1>5, <1>6, <1>7, <1>8 DEF FullOK

LEMMA NextFull ==
  ASSUME TypeOK, IngestOK, FullOK, [Next]_vars
  PROVE  FullOK'
<1>0. full => /\ FullParts /\ base \in 1 .. head
              /\ ingest.deleted = {} /\ ingest.changed = {}
  <2>1. base \in 0 .. head /\ head \in Nat
    BY HeadIs DEF TypeOK
  <2>2. full => FullParts
    BY DEF FullOK, FullParts
  <2>. QED
    BY <2>1, <2>2 DEF FullParts, Pending
<1>1. CASE \E resolves \in BOOLEAN : IngestFull(resolves)
  <2>1. CASE IngestFull(FALSE)
    BY <2>1 DEF IngestFull, FullOK
  <2>. QED
    BY <1>1, <2>1, IngestFullIs
<1>2. ASSUME full' => full, base' = base, trees'[base] = trees[base],
             UNCHANGED <<file, symbol, calls>>,
             full => /\ ingest'.pc \in {"idle", "files", "record"}
                     /\ ingest'.pc # "idle" => ingest'.to = base
                     /\ ingest'.deleted = {} /\ ingest'.changed = {}
                     /\ ~ingest'.wrote
      PROVE  FullOK'
  BY <1>0, <1>2, FullStays, FullNext
<1>3. CASE \E f \in File, content \in Contents \cup {Absent} :
             Commit(f, content)
  <2>1. UNCHANGED <<full, base, file, symbol, calls, ingest>>
    BY <1>3 DEF Commit, nodes, edges
  <2>2. full => trees'[base] = trees[base]
    BY <1>0, <1>3, CommitTyped
  <2>3. CASE full
    BY <1>0, <1>2, <2>1, <2>2, <2>3 DEF FullParts
  <2>4. CASE ~full
    BY <2>1, <2>4 DEF FullOK
  <2>. QED
    BY <2>3, <2>4
<1>4. CASE Start
  <2>1. /\ UNCHANGED <<base, trees, file, symbol, calls>>
        /\ full' <=> full /\ base = head
    BY <1>4 DEF Start, nodes, edges, TypeOK
  <2>2. CASE base = head
    <3>1. /\ ingest'.pc = "files" /\ ingest'.to = base /\ ~ingest'.wrote
          /\ ingest'.deleted = {} /\ ingest'.changed = {}
      BY <1>4, <2>2, StartTyped
    <3>. QED
      BY <1>2, <2>1, <3>1
  <2>3. CASE base # head
    BY <2>1, <2>3 DEF FullOK
  <2>. QED
    BY <2>2, <2>3
<1>5. ASSUME full' = full, ~full PROVE FullOK'
  BY <1>5 DEF FullOK
<1>6. CASE \E f \in File : DeleteFile(f) \/ Extract(f)
  BY <1>0, <1>5, <1>6 DEF DeleteFile, TombstoneFile, Extract
<1>7. CASE \/ DeleteOld \/ TombstoneSymbols \/ TombstoneEdges
           \/ UpsertNodes \/ UpsertEdges \/ Resolve
  BY <1>0, <1>5, <1>7
  DEF DeleteOld, TombstoneFile, TombstoneSymbols, TombstoneEdges, UpsertNodes,
      UpsertEdges, Resolve, FullParts, TypeOK
<1>8. CASE IndexArchitecture
  <2>1. UNCHANGED <<full, base, trees, file, symbol, calls>>
    BY <1>8 DEF IndexArchitecture
  <2>2. /\ ingest.pc = "files"
        /\ ingest'.pc = IF ingest.wrote THEN "resolve" ELSE "record"
        /\ ingest'.to = ingest.to /\ ingest'.wrote = ingest.wrote
        /\ ingest'.deleted = {} /\ ingest'.changed = {}
    BY <1>8, ArchitectureTyped
  <2>3. full => ~ingest.wrote /\ ingest.to = base
    BY <1>0, <2>2 DEF FullParts
  <2>. QED
    BY <1>2, <2>1, <2>2, <2>3
<1>9. CASE RecordState
  <2>1. /\ UNCHANGED <<full, trees, file, symbol, calls>>
        /\ base' = ingest.to /\ ingest' = Quiet /\ ingest.pc = "record"
    BY <1>9 DEF RecordState, nodes, edges
  <2>2. CASE full
    <3>1. base' = base
      BY <1>0, <2>1, <2>2 DEF FullParts
    <3>. QED
      BY <1>2, <2>1, <3>1, QuietIs
  <2>3. CASE ~full
    BY <2>1, <2>3 DEF FullOK
  <2>. QED
    BY <2>2, <2>3
<1>10. CASE Fail
  <2>1. UNCHANGED <<full, base, trees, file, symbol, calls>> /\ ingest' = Quiet
    BY <1>10 DEF Fail, nodes, edges
  <2>. QED
    BY <1>2, <2>1, QuietIs
<1>11. CASE \E o \in 1 .. head : Vacuum(o)
  <2>1. PICK o \in 1 .. head : Vacuum(o)
    BY <1>11
  <2>2. UNCHANGED <<full, base, trees, ingest>>
    BY <2>1 DEF Vacuum
  <2>3. CASE full
    <3>1. /\ \A f \in File : ~Eligible(file[f], o)
          /\ \A s \in Symbol : ~Eligible(symbol[s], o)
          /\ \A c \in Call : ~Eligible(calls[c], o)
      BY <1>0, <2>3 DEF FullParts, Eligible
    <3>2. /\ \A f \in File : file'[f] = file[f]
          /\ \A s \in Symbol : symbol'[s] = symbol[s]
          /\ \A c \in Call : calls'[c] = calls[c]
      BY <2>1, <3>1, VacuumKeeps, CallFields DEF VacuumIs
    <3>3. /\ ingest'.pc \in {"idle", "files", "record"}
          /\ ingest'.pc # "idle" => ingest'.to = base
          /\ ingest'.deleted = {} /\ ingest'.changed = {} /\ ~ingest'.wrote
      BY <1>0, <2>2, <2>3 DEF FullParts
    <3>4. FullParts'
      BY <1>0, <2>2, <2>3, <3>2, <3>3, FullStays
    <3>. QED
      BY <2>3, <3>4, FullNext
  <2>4. CASE ~full
    BY <2>2, <2>4 DEF FullOK
  <2>. QED
    BY <2>3, <2>4
<1>12. CASE UNCHANGED vars
  <2>1. UNCHANGED <<full, base, trees, file, symbol, calls, ingest>>
    BY <1>12 DEF vars, nodes, edges
  <2>2. CASE full
    BY <1>0, <1>2, <2>1, <2>2 DEF FullParts
  <2>3. CASE ~full
    BY <2>1, <2>3 DEF FullOK
  <2>. QED
    BY <2>2, <2>3
<1>. QED
  BY <1>1, <1>3, <1>4, <1>6, <1>7, <1>8, <1>9, <1>10, <1>11, <1>12
  DEF Next, Step

-----------------------------------------------------------------------------
LEMMA GraphInvInductive ==
  ASSUME ~Reverts
  PROVE  /\ Init => TypeOK /\ GraphInv
         /\ TypeOK /\ GraphInv /\ [Next]_vars => TypeOK' /\ GraphInv'
<1>1. Init => TypeOK /\ GraphInv
  <2>1. Init => TornOK
    BY GoneIs DEF Init, TornOK, Live
  <2>2. Init => FullOK
    BY DEF Init, FullOK
  <2>. QED
    BY <2>1, <2>2, InitTyped, InitNoReturn, InitDefs, InitStamps, InitHistory,
       InitLayers
    DEF GraphInv, DefsOK
<1>2. TypeOK /\ GraphInv /\ [Next]_vars => TypeOK' /\ GraphInv'
  <2>1. SUFFICES ASSUME TypeOK, GraphInv, [Next]_vars
                 PROVE  TypeOK' /\ GraphInv'
    OBVIOUS
  <2>2. /\ IngestOK /\ NoReturn /\ DefsOK /\ StampsOK /\ HistoryOK
        /\ TornOK /\ LayersOK /\ FullOK
    BY <2>1 DEF GraphInv, DefsOK
  <2>3. TypeOK' /\ IngestOK'
    BY <2>1, <2>2, NextTyped
  <2>4. NoReturn' /\ DefsOK'
    BY <2>1, <2>2, NextNoReturn, NextDefs
  <2>5. StampsOK' /\ HistoryOK'
    BY <2>1, <2>2, NextStamps, NextHistory
  <2>6. TornOK' /\ LayersOK' /\ FullOK'
    BY <2>1, <2>2, NextTorn, NextLayers, NextFull
  <2>. QED
    BY <2>3, <2>4, <2>5, <2>6 DEF GraphInv, DefsOK
<1>. QED
  BY <1>1, <1>2

(* at_sha misses nothing: when no file gets back a content it had since    *)
(* the recorded commit, a symbol of a commit the graph has seen stays      *)
(* alive at it, through failures, later ingests and tombstones, unless     *)
(* `vacuum' was given a later commit.                                      *)
THEOREM HistoryIsKept ==
  ASSUME ~Reverts
  PROVE  Spec => []HistoryKept
<1>1. GraphInv => HistoryKept
  BY DEF GraphInv, HistoryOK
<1>. QED
  BY <1>1, GraphInvInductive, PTL DEF Spec

LEMMA RestIsExact ==
  ASSUME TypeOK, GraphInv
  PROVE  GraphExact
<1>1. SUFFICES ASSUME AtRest PROVE GraphExact
  BY DEF GraphExact, DefinitionsExact, LayersSettled, FullResolves
<1>2. /\ ingest.pc = "idle" /\ base = head /\ head \in Nat \ {0}
      /\ symbol \in [Symbol -> Stamp]
  BY <1>1, HeadIs DEF AtRest, TypeOK
<1>. DEFINE tree == trees[head]
<1>3. \A f \in File : Exact(f, tree)
  BY <1>2 DEF GraphInv, DefinitionsOK, Steady
<1>4. \A s \in Symbol : s.file \in File
  BY DEF Symbol
<1>5. ASSUME NEW s \in Symbol
      PROVE  s \in definitions <=> s \in Defined(tree)
  <2>1. Exact(s.file, tree)
    BY <1>3, <1>4
  <2>2. s \in Defined(tree) => Has(tree, s.file)
    BY DEF Defined
  <2>. QED
    BY <2>1, <2>2 DEF definitions, Exact, Live
<1>6. ASSUME ~torn, NEW s \in Symbol
      PROVE  s \in at_sha(head) <=> s \in Defined(tree)
  <2>1. symbol[s].inv <= head /\ symbol[s].first <= head
    BY DEF GraphInv, StampsOK
  <2>2. symbol[s].inv \in Nat
    BY <1>2 DEF Stamp, Ord
  <2>3. symbol[s].inv = 0 \/ symbol[s].inv > head <=> symbol[s].inv = 0
    BY <1>2, <2>1, <2>2
  <2>4. s \in at_sha(head) <=> Live(symbol[s])
    BY <2>1, <2>3 DEF at_sha, AliveAt, Live
  <2>5. Exact(s.file, tree)
    BY <1>3, <1>4
  <2>6. Live(symbol[s]) => Live(defines[s])
    BY <1>2, <1>6 DEF GraphInv, TornOK
  <2>7. Live(symbol[s]) <=> s \in Defined(tree)
    BY <2>5, <2>6 DEF Exact, Live
  <2>. QED
    BY <2>4, <2>7
<1>7. DefinitionsExact
  <2>1. definitions \subseteq Symbol /\ Defined(tree) \subseteq Symbol
    BY DEF definitions, Defined
  <2>2. at_sha(head) \subseteq Symbol
    BY DEF at_sha
  <2>3. definitions = Defined(tree)
    BY <1>5, <2>1
  <2>4. ~torn => at_sha(head) = Defined(tree)
    BY <1>6, <2>1, <2>2
  <2>. QED
    BY <2>3, <2>4 DEF DefinitionsExact
<1>8. LayersSettled
  <2>1. /\ \A f \in File : InItsLayer(f)
        /\ \A l \in Layer : Live(layer[l]) => layer[l].last \in base .. head
    BY <1>2 DEF GraphInv, LayersOK, Steady
  <2>2. ASSUME NEW f \in File, Has(tree, f) PROVE layer_of(f) = LayerOf[f]
    <3>1. Live(file[f])
      BY <1>3, <2>2 DEF Exact
    <3>. QED
      BY <2>1, <3>1 DEF layer_of, InItsLayer
  <2>3. ASSUME NEW l \in Layer, Live(layer[l]), layer[l].last # head
        PROVE  FALSE
    BY <1>2, <2>1, <2>3
  <2>. QED
    BY <2>2, <2>3 DEF LayersSettled
<1>9. FullResolves
  BY <1>2 DEF GraphInv, FullOK, CallersExact, FullResolves
<1>. QED
  BY <1>7, <1>8, <1>9 DEF GraphExact

(* What the graph answers about HEAD is right: when the recorded commit is *)
(* HEAD and no file got back a content it had since the commit recorded    *)
(* then, the live definitions, the layers and, after a full ingest, the    *)
(* callers are those of its files.  `at_sha' agrees, unless since the last *)
(* full ingest one stopped between the nodes of a file and its edges, or   *)
(* vacuum took a file between the first two queries of its deletion.       *)
THEOREM GraphIsExact ==
  ASSUME ~Reverts
  PROVE  Spec => []GraphExact
<1>1. TypeOK /\ GraphInv => GraphExact
  BY RestIsExact
<1>. QED
  BY <1>1, GraphInvInductive, PTL DEF Spec
=============================================================================
