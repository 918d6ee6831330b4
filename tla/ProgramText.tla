---------------------------- MODULE ProgramText ----------------------------
(* What the extractor hands on of a source file: the parts of              *)
(* ExtractedFile (extractor/treesitter.py) that the resolver tells apart.  *)
EXTENDS Integers, Sequences

CONSTANTS
  File, Name, Space, Assembly,   \* Space: namespaces
  None

(* The node key of a symbol is its file, name and line.  A type of an      *)
(* assembly has that assembly for a file.                                  *)
Line == Nat
SymbolKey == [file : File \cup Assembly, name : Name, line : Line]
Symbol == [key : SymbolKey, params : Nat \cup {None},
           space : Space \cup {None}]

(* An import is a path, known by the files it may mean in the order they   *)
(* are probed, or a text: a namespace, a package, the dotted name of a     *)
(* file.                                                                   *)
Path(probes) == [kind |-> "relative", to |-> probes]
Bare(t) == [kind |-> "bare", to |-> <<t>>]
Import == [kind : {"relative"}, to : Seq(File)]
          \cup [kind : {"bare"}, to : Seq(Space \cup File)]

(* An arity of -1 is unknown; `recv' is the type of a receiver this.<field>. *)
CallSite == [name : Name, arity : Nat \cup {-1}, recv : Name \cup {None}]

Extracted == [defs : SUBSET Symbol, imports : SUBSET Import,
              calls : Seq(CallSite), injects : SUBSET Name,
              refs : SUBSET Name]
=============================================================================
