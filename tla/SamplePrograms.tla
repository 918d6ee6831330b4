--------------------------- MODULE SamplePrograms ---------------------------
(* Small programs, and the edits they go through, for model checking the   *)
(* resolver: files a to d, names g, h, t, namespaces S, T.                *)
EXTENDS ProgramText

Sym(f, n, l, p, s) ==
  [key |-> [file |-> f, name |-> n, line |-> l], params |-> p, space |-> s]
Site(n, a, r) == [name |-> n, arity |-> a, recv |-> r]
Holds(d, i, c, j, r) ==
  [defs |-> d, imports |-> i, calls |-> c, injects |-> j, refs |-> r]

(* A program with relative imports: `b' imports `a', which is one of two   *)
(* files of that stem, and starts to call it.                              *)
Relative ==
  LET defines(f) == Holds({Sym(f, "g", 1, 1, None)}, {}, <<>>, {}, {})
      here == {Path(<<"a", "c">>)}
      uses(cs) == Holds({}, here, cs, {"g"}, {"g"})
  IN  [versions |-> [f \in File |->
         CASE f = "a" -> {defines("a")}
           [] f = "b" -> {uses(<<>>), uses(<<Site("g", 1, None)>>),
                          uses(<<Site("g", 1, None), Site("g", 2, "h")>>)}
           [] f = "c" -> {defines("c"),
                Holds({Sym("c", "h", 1, None, None), Sym("c", "g", 2, 0, None),
                       Sym("c", "g", 3, 2, None)}, {}, <<>>, {}, {"h"})}
           [] OTHER -> {}],
       exposed |-> {}, ingests |-> 3, passes |-> 2, faults |-> 1]

(* A program with namespaces: `a' and `c' are contexts with overloads of   *)
(* one name; `b' lives in the first or uses the second by name.            *)
Contexts ==
  LET both(f, s) == {Sym(f, "g", 1, 1, s), Sym(f, "g", 2, 2, s)}
      empty(d) == Holds(d, {}, <<>>, {}, {})
      h == Sym("b", "h", 1, None, "S")
  IN  [versions |-> [f \in File |->
         CASE f = "a" -> {empty(both("a", "S")),
                          empty({Sym("a", "g", 1, 1, "S")})}
           [] f = "b" -> {Holds({h}, {}, <<Site("g", 1, None)>>, {"t"}, {"g"}),
                          Holds({}, {Bare("T")}, <<Site("g", 2, None)>>,
                                {}, {"g", "t"})}
           [] f = "c" -> {empty({Sym("c", "g", 1, 1, "T")}),
                          empty(both("c", "T")),
                          empty({Sym("c", "g", 1, 1, "T"),
                                 Sym("c", "g", 2, 1, "S")})}
           [] OTHER -> {}],
       exposed |-> {[file |-> "b",
                     type |-> [file |-> "dll", name |-> "t", line |-> 0]]},
       ingests |-> 3, passes |-> 2, faults |-> 0]

(* A program whose imports change their meaning: `b' imports `a' once it is*)
(* there, and `c' until then; `b' starts to call what `c' and `d' define.  *)
Shadowed ==
  LET defines(f, n) == Holds({Sym(f, n, 1, None, None)}, {}, <<>>, {}, {})
      here == {Path(<<"a", "c">>)}
  IN  [versions |-> [f \in File |->
         CASE f = "a" -> {defines("a", "t")}
           [] f = "b" -> {Holds({}, here, <<>>, {"h"}, {}),
                          Holds({}, here, <<Site("g", -1, None)>>, {}, {})}
           [] OTHER -> {defines(f, "g")}],
       exposed |-> {}, ingests |-> 5, passes |-> 2, faults |-> 0]

(* An edit of a file that calls what it imports.                           *)
Edited ==
  LET uses(cs) == Holds({}, {Path(<<"a", "c">>)}, cs, {}, {})
  IN  [versions |-> [f \in File |->
         CASE f = "a" -> {Holds({Sym("a", "g", 1, 0, None)}, {}, <<>>, {}, {})}
           [] f = "b" -> {uses(<<Site("h", 0, None)>>),
                          uses(<<Site("h", 0, None), Site("g", 0, None)>>)}
           [] OTHER -> {}],
       exposed |-> {}, ingests |-> 3, passes |-> 2, faults |-> 0]
Programs == {Relative, Contexts, Shadowed}
=============================================================================
