------------------------------ MODULE Resolver ------------------------------
(***************************************************************************)
(* orchestrator/resolver.py: the pass that binds the calls, injections and *)
(* type references of a project to what they mean, run after every ingest  *)
(* and by `resolve', beside re-ingests of files and other passes.          *)
(*                                                                         *)
(* An extracted file points at one placeholder node per name.  The pass    *)
(* loads the graph, decides on what it loaded, and writes with up to six   *)
(* queries and two more.  It reads no life stamps, so what a re-ingest     *)
(* only stamps stays in the sets below; module TemporalGraph has the       *)
(* stamps, of which only those of IMPORTS edges are kept here.             *)
(***************************************************************************)
EXTENDS ProgramText, SequencesExt, FiniteSets, FiniteSetsExt

CONSTANTS
  Pass,          \* processes that run the resolver
  ResolverScenes

Kind == {"CALLS", "INJECTS", "REFERENCES"}

ResolverScene ==
  [versions : [File -> SUBSET Extracted],     \* what a file may hold
   exposed : SUBSET [file : File, type : SymbolKey],
   ingests : Nat, passes : Nat, faults : Nat]   \* bounds

(* Where a file's own namespace is known, its imports are namespaces: none *)
(* of the languages with namespaces has relative imports.                  *)
OneLanguage(versions) ==
  \A f \in File :
    /\ \A v \in versions[f] : \A d \in v.defs : d.key.file = f
    /\ (\E v \in versions[f] : \E d \in v.defs : d.space # None) =>
         \A v \in versions[f] : \A k \in v.imports : k.kind # "relative"

ResolverAssumption ==
  /\ None \notin File \cup Name \cup Assembly
  /\ ResolverScenes \subseteq ResolverScene
  /\ \A s \in ResolverScenes : OneLanguage(s.versions)

VARIABLES
  setting,      \* versions and exposed types of the scene, its bounds
  holds,        \* holds[f]: what was last ingested of a file, or None
  defs,         \* the symbols with a DEFINES edge
  imports,      \* IMPORTS edges: [from, key, live]
  raw,          \* edges to placeholders: [kind, from, name, arity, recv]
  bound,        \* edges to symbols and types: [kind, from, to, conf]
  placeholders, \* the names with a placeholder node
  pass,         \* pass[p]: what it loaded and has left to write
  settled,      \* has a whole pass run on what the graph says by now?
  spent         \* ingests, passes and faults so far

graphVars == <<holds, defs, imports, raw, bound, placeholders>>
resolverVars == <<setting, graphVars, pass, settled, spent>>

NoPass == [pc |-> "idle"]

ResolverTypeOK ==
  /\ setting \in ResolverScenes
  /\ holds \in [File -> Extracted \cup {None}]
  /\ defs \subseteq Symbol
  /\ imports \subseteq [from : File, key : Import, live : BOOLEAN]
  /\ \A e \in raw : e \in [kind : Kind, from : File, name : Name,
                           arity : Nat \cup {-1}, recv : Name \cup {None}]
  /\ \A b \in bound :
       b.kind \in Kind /\ b.from \in File /\ b.to \in SymbolKey
  /\ placeholders \subseteq Name
  /\ DOMAIN pass = Pass

Init ==
  /\ setting \in ResolverScenes
  /\ holds = [f \in File |-> None]
  /\ defs = {} /\ imports = {} /\ raw = {} /\ bound = {}
  /\ placeholders = {}
  /\ pass = [p \in Pass |-> NoPass]
  /\ settled = FALSE
  /\ spent = [ingests |-> 0, passes |-> 0, faults |-> 0]

Spend(k) == /\ spent[k] < setting[k]
            /\ spent' = [spent EXCEPT ![k] = @ + 1]

-----------------------------------------------------------------------------
(* The decision, on a loaded graph g = [defs, imports, raw, placeholders]. *)

Named(g, n) == {d \in g.defs : d.key.name = n}

(* _resolve_relative_import: the first probe that is a project file.       *)
Reached(g, key) ==
  LET hits == {i \in DOMAIN key.to :
                 \E d \in g.defs : d.key.file = key.to[i]}
  IN  IF key.kind # "relative" \/ hits = {} THEN None ELSE key.to[Min(hits)]

(* file_namespace: the one namespace of what a file defines, if it is one. *)
HomeOf(g, f) ==
  LET seen == {d.space : d \in {x \in g.defs : x.key.file = f}} \ {None}
  IN  IF Cardinality(seen) = 1 THEN CHOOSE s \in seen : TRUE ELSE None

(* A candidate is a symbol with the import it came through: a symbol that  *)
(* two imports reach is listed twice.                                      *)
Listed(symbols) == {[via |-> None, sym |-> d] : d \in symbols}

(* _imported_symbols                                                       *)
Imported(g, f, n) ==
  {c \in [via : {i.key : i \in {x \in g.imports : x.from = f}},
          sym : Named(g, n)] : Reached(g, c.via) = c.sym.key.file}

Alone(candidates) == \E c \in candidates : candidates = {c}

(* _pick_by_arity                                                          *)
ByArity(candidates, arity) ==
  LET fit == {c \in candidates : c.sym.params = arity}
      spaces == {c.sym.space : c \in candidates} \ {None}
  IN  IF arity < 0 \/ Cardinality(spaces) > 1 \/ ~Alone(fit)
      THEN {} ELSE fit

(* The only candidate, or else the only one of that arity.                 *)
Pick(candidates, arity) ==
  IF Alone(candidates) THEN candidates
  ELSE ByArity(candidates, arity)

(* _pick_target: the first by line of those that fit, or else of all.      *)
Earliest(own, arity) ==
  LET fit == {d \in own : arity >= 0 /\ d.params = arity}
      among == IF fit = {} THEN own ELSE fit
  IN  {d \in among : \A x \in among : d.key.line <= x.key.line}

(* Receiver narrowing: symbols of a file that defines the receiver's type. *)
OfReceiver(g, e, named) ==
  {d \in named : \E t \in Named(g, e.recv) : t.key.file = d.key.file}

(* _resolve_via_assembly                                                   *)
Exposed(e) ==
  {x.type : x \in {y \in setting.exposed :
                     y.file = e.from /\ y.type.name = e.name}}

To(candidates, conf) == {[to |-> c.sym.key, conf |-> conf] : c \in candidates}

(* The caller's own namespace, and the ones it imports by name.            *)
Home(g, e, named) ==
  {d \in named : d.space # None /\ d.space = HomeOf(g, e.from)}
Used(g, e, named) ==
  {d \in named : \E i \in g.imports : i.from = e.from /\ i.key = Bare(d.space)}

(* _resolve_all for one edge: no or one binding.  A tier with candidates   *)
(* it cannot tell apart ends the search, unless it is the receiver's.      *)
Resolution(g, e) ==
  LET named == Named(g, e.name)
      own == {d \in named : d.key.file = e.from}
      imported == Imported(g, e.from, e.name)
      typed == Pick(Listed(OfReceiver(g, e, named)), e.arity)
      home == Home(g, e, named)
      used == Used(g, e, named)
  IN  IF e.name \notin g.placeholders THEN {}
      ELSE IF own # {} THEN To(Listed(Earliest(own, e.arity)), "high")
      ELSE IF imported # {} THEN To(Pick(imported, e.arity), "high")
      ELSE IF typed # {} THEN To(typed, "high")
      ELSE IF home # {} THEN To(Pick(Listed(home), e.arity), "high")
      ELSE IF Cardinality(used) = 1 THEN To(Listed(used), "high")
      ELSE IF named # {} THEN To(Pick(Listed(named), e.arity), "medium")
      ELSE IF Cardinality(Exposed(e)) = 1
        THEN {[to |-> t, conf |-> "external"] : t \in Exposed(e)}
      ELSE {}

(* The rows of the queries.                                                *)
Rows(g) == {[edge |-> e, to |-> (CHOOSE b \in Resolution(g, e) : TRUE).to,
             conf |-> (CHOOSE b \in Resolution(g, e) : TRUE).conf] :
              e \in {x \in g.raw : Resolution(g, x) # {}}}

-----------------------------------------------------------------------------
(* The graph changes: reingest_file with a SHA.  An edge has one set of    *)
(* properties per pair of nodes: the calls of a name leave the arity of    *)
(* the last and the receiver of the last that has one.                     *)
Merged(f, content) ==
  LET old(k, n) == {e \in raw : e.kind = k /\ e.from = f /\ e.name = n}
      bare(k, n) == IF old(k, n) # {} THEN CHOOSE e \in old(k, n) : TRUE
                    ELSE [kind |-> k, from |-> f, name |-> n,
                          arity |-> -1, recv |-> None]
      sites(n) == SelectSeq(content.calls, LAMBDA c : c.name = n)
      receivers(n) == SelectSeq(sites(n), LAMBDA c : c.recv # None)
  IN  {[bare("CALLS", n) EXCEPT
          !.arity = Last(sites(n)).arity,
          !.recv = IF receivers(n) = <<>> THEN @
                   ELSE Last(receivers(n)).recv] :
         n \in {c.name : c \in ToSet(content.calls)}}
      \cup {bare("INJECTS", n) : n \in content.injects}
      \cup {bare("REFERENCES", n) : n \in content.refs}

SameEdge(d, e) == d.kind = e.kind /\ d.from = e.from /\ d.name = e.name

(* What the passes loaded is not what the graph says any more.             *)
Outdated == [p \in Pass |-> IF pass[p].pc = "idle" THEN NoPass
                            ELSE [pass[p] EXCEPT !.fresh = FALSE]]

Reingest(f, content) ==
  LET new == Merged(f, content)
  IN  /\ Spend("ingests")
      /\ holds' = [holds EXCEPT ![f] = content]
      /\ defs' = {d \in defs : \A c \in content.defs : c.key # d.key}
                   \cup content.defs
      /\ imports' = {IF i.from = f THEN [i EXCEPT !.live = FALSE] ELSE i :
                       i \in {x \in imports :
                                x.from # f \/ x.key \notin content.imports}}
                      \cup {[from |-> f, key |-> k, live |-> TRUE] :
                              k \in content.imports}
      /\ raw' = {e \in raw : \A n \in new : ~SameEdge(e, n)} \cup new
      /\ placeholders' = placeholders \cup {e.name : e \in new}
      /\ settled' = FALSE
      /\ pass' = Outdated
      /\ UNCHANGED <<setting, bound>>

Batches == <<<<"CALLS", "Symbol">>, <<"CALLS", "Type">>,
             <<"INJECTS", "Symbol">>, <<"INJECTS", "Type">>,
             <<"REFERENCES", "Symbol">>, <<"REFERENCES", "Type">>>>
Label(key) == IF key.file \in Assembly THEN "Type" ELSE "Symbol"
InBatch(row, b) == row.edge.kind = b[1] /\ Label(row.to) = b[2]

(* _GraphState.load, and the decisions taken on it.                        *)
graph == [defs |-> defs, raw |-> raw, placeholders |-> placeholders,
          imports |-> {[from |-> i.from, key |-> i.key] : i \in imports}]

Load(p) ==
  /\ pass[p].pc = "idle" /\ raw # {}
  /\ Spend("passes")
  /\ pass' = [pass EXCEPT ![p] =
       [pc |-> "apply", loaded |-> graph, rows |-> Rows(graph),
        fresh |-> TRUE,
        left |-> {i \in DOMAIN Batches :
                    \E r \in Rows(graph) : InBatch(r, Batches[i])}]]
  /\ UNCHANGED <<setting, graphVars, settled>>

(* Mutant: the references to types of assemblies are not written.          *)
Apply_NoTypeReferences(p) ==
  LET b == Batches[Min(pass[p].left)]
      met == {r \in pass[p].rows :
                InBatch(r, b) /\ b # <<"REFERENCES", "Type">>
                /\ \E e \in raw : SameEdge(e, r.edge)}
      merged == {[kind |-> r.edge.kind, from |-> r.edge.from, to |-> r.to,
                  conf |-> r.conf] : r \in met}
  IN  /\ pass[p].pc = "apply" /\ pass[p].left # {}
      /\ raw' = {e \in raw : \A r \in met : ~SameEdge(e, r.edge)}
      /\ bound' = {e \in bound : \A m \in merged :
                     ~(e.kind = m.kind /\ e.from = m.from /\ e.to = m.to)}
                    \cup merged
      /\ pass' = [pass EXCEPT ![p].left = @ \ {Min(@)}]
      /\ UNCHANGED <<setting, holds, defs, imports, placeholders, settled,
                     spent>>

(* _apply_resolutions, one query: rows whose edge is gone match nothing;   *)
(* the others are found by file and name, whatever the edge says by now.   *)
Apply(p) ==
  LET b == Batches[Min(pass[p].left)]
      met == {r \in pass[p].rows :
                InBatch(r, b) /\ \E e \in raw : SameEdge(e, r.edge)}
      merged == {[kind |-> r.edge.kind, from |-> r.edge.from, to |-> r.to,
                  conf |-> r.conf] : r \in met}
  IN  /\ pass[p].pc = "apply" /\ pass[p].left # {}
      /\ raw' = {e \in raw : \A r \in met : ~SameEdge(e, r.edge)}
      /\ bound' = {e \in bound : \A m \in merged :
                     ~(e.kind = m.kind /\ e.from = m.from /\ e.to = m.to)}
                    \cup merged
      /\ pass' = [pass EXCEPT ![p].left = @ \ {Min(@)}]
      /\ UNCHANGED <<setting, holds, defs, imports, placeholders, settled,
                     spent>>

(* Mutant: a placeholder nobody calls is deleted, with what points at it.  *)
Cleanup_CallsOnly(p) ==
  LET called == {e.name : e \in {x \in raw : x.kind = "CALLS"}}
  IN  /\ pass[p].pc = "apply" /\ pass[p].left = {}
      /\ placeholders' = placeholders \cap called
      /\ raw' = {e \in raw : e.name \in called}
      /\ pass' = [pass EXCEPT ![p].pc = "alias"]
      /\ UNCHANGED <<setting, holds, defs, imports, bound, settled, spent>>

(* _cleanup_orphans: on the graph as it is by now.                         *)
Cleanup(p) ==
  /\ pass[p].pc = "apply" /\ pass[p].left = {}
  /\ placeholders' = {n \in placeholders : \E e \in raw : e.name = n}
  /\ pass' = [pass EXCEPT ![p].pc = "alias"]
  /\ UNCHANGED <<setting, holds, defs, imports, raw, bound, settled, spent>>

(* _emit_import_aliases: the file a relative import reaches is imported    *)
(* under its path and its dotted name too.  A merged edge keeps its stamp. *)
Names(t) == {Path(<<t>>), Bare(t)}
Aliases(g) ==
  UNION {{[from |-> i.from, key |-> k] :
            k \in Names(Reached(g, i.key)) \ {i.key}} :
           i \in {x \in g.imports : Reached(g, x.key) # None}}

(* A pass that loaded the graph before the last ingest adds what imports   *)
(* meant then, and later passes read it: nobody has seen the graph as it   *)
(* is now.                                                                 *)
EmitAliases(p) ==
  LET new == {a \in Aliases(pass[p].loaded) : \A i \in imports :
                ~(i.from = a.from /\ i.key = a.key)}
  IN  /\ pass[p].pc = "alias"
      /\ imports' = imports \cup
           {[from |-> a.from, key |-> a.key, live |-> TRUE] : a \in new}
      /\ settled' = (pass[p].fresh \/ (settled /\ new = {}))
      /\ pass' = IF pass[p].fresh \/ new = {}
                 THEN [pass EXCEPT ![p] = NoPass]
                 ELSE [Outdated EXCEPT ![p] = NoPass]
      /\ UNCHANGED <<setting, holds, defs, raw, bound, placeholders, spent>>

(* A query fails and the ingest goes on without the rest of the pass, or   *)
(* the process dies.                                                       *)
Abandon(p) ==
  /\ pass[p].pc # "idle"
  /\ Spend("faults")
  /\ pass' = [pass EXCEPT ![p] = NoPass]
  /\ UNCHANGED <<setting, graphVars, settled>>

Next ==
  \/ \E f \in File : \E content \in setting.versions[f] : Reingest(f, content)
  \/ \E p \in Pass :
       Load(p) \/ Apply(p) \/ Cleanup(p) \/ EmitAliases(p) \/ Abandon(p)

Spec == Init /\ [][Next]_resolverVars

-----------------------------------------------------------------------------
Ingested == {f \in File : holds[f] # None}
Wanted(f) ==
  {[kind |-> "CALLS", name |-> c.name] : c \in ToSet(holds[f].calls)}
  \cup {[kind |-> "INJECTS", name |-> n] : n \in holds[f].injects}
  \cup {[kind |-> "REFERENCES", name |-> n] : n \in holds[f].refs}

(* No reference is lost: whatever passes overlap with it or die, what a    *)
(* file was last seen to call, inject or refer to has an edge, to the      *)
(* placeholder or to a definition of that name, and no edge hangs on a     *)
(* placeholder that is gone.                                               *)
ReferencesKept ==
  /\ \A e \in raw : e.name \in placeholders
  /\ \A f \in Ingested : \A w \in Wanted(f) :
       \/ \E e \in raw : e.kind = w.kind /\ e.from = f /\ e.name = w.name
       \/ \E b \in bound : b.kind = w.kind /\ b.from = f /\ b.to.name = w.name

(* Bounded contexts do not meet: where the namespace of a file defines the *)
(* name it uses, the decision is the one taken if there were no other      *)
(* namespace in the project.  (A receiver's type is found before.)         *)
ContextsApart ==
  \A p \in Pass : pass[p].pc # "idle" =>
    LET g == pass[p].loaded
    IN  \A e \in g.raw :
          LET home == HomeOf(g, e.from)
              near == {d \in g.defs : d.space = home \/ d.key.file = e.from}
          IN  e.recv = None /\ home # None
              /\ (\E d \in Named(g, e.name) : d.space = home) =>
                Resolution(g, e) = Resolution([g EXCEPT !.defs = near], e)

(* The first pass that sees the graph as the last ingest left it, and goes *)
(* through, leaves nothing that it could bind, so a second one is idle;    *)
(* until a pass that began before that ingest adds its aliases.            *)
PassSettles == settled => Rows(graph) = {}

Reaches(f, t) ==
  holds[f] # None /\ \E k \in holds[f].imports : Reached(graph, k) = t
(* "imported - F imports a file/module that defines X -> link to that":    *)
(* after a pass, no reference to a name that the imported files define     *)
(* once, and the file itself does not, is left at its placeholder.         *)
ImportedBound ==
  settled => \A e \in raw :
    LET named == Named(graph, e.name)
    IN  \/ \E d \in named : d.key.file = e.from
        \/ Cardinality({d \in named : Reaches(e.from, d.key.file)}) # 1

(* "so canonical-name lookups find every importer": after a pass, who      *)
(* imports a file by a relative path imports it by its dotted name.        *)
ImportersFound ==
  settled => \A f \in Ingested, t \in File :
    Reaches(f, t) => \E i \in imports :
                        i.from = f /\ i.key = Bare(t) /\ i.live
=============================================================================
