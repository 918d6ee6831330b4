----------------------------- MODULE Gitignore -----------------------------
(* extractor/gitignore.py: which paths the .gitignore files of a repository*)
(* keep out of the index; beside it, what git itself makes of those files. *)
(* A path is the sequence of names below the root.                         *)
EXTENDS Integers, Sequences

(* A segment of a pattern: a word, a star, a star with a suffix, whose    *)
(* names are those that end in it, or a globstar.                          *)
Segment(names) ==
  [kind : {"word", "suffix"}, names : SUBSET names]
  \cup [kind : {"star", "globstar"}, names : {names}]

Rule(names, dirs) ==
  [base : dirs, pattern : Seq(Segment(names)), negate : BOOLEAN,
   dirOnly : BOOLEAN, anchored : BOOLEAN]

(* A path cut into one run per segment of the pattern. *)
Cuts(pattern, path) ==
  {cut \in [0 .. Len(pattern) -> 0 .. Len(path)] :
     /\ cut[0] = 0 /\ cut[Len(pattern)] = Len(path)
     /\ \A i \in DOMAIN pattern : cut[i - 1] <= cut[i]}

Run(path, cut, i) == SubSeq(path, cut[i - 1] + 1, cut[i])

(* The regular expression: every star is `.*', which crosses slashes; one  *)
(* that leads the pattern may stand for nothing.                           *)
_compile(pattern, i, run) ==
  \/ run # <<>> /\ CASE pattern[i].kind = "word" ->
                          Len(run) = 1 /\ run[1] \in pattern[i].names
                     [] pattern[i].kind = "suffix" ->
                          run[Len(run)] \in pattern[i].names
                     [] OTHER -> TRUE
  \/ /\ run = <<>> /\ i = 1 /\ Len(pattern) > 1
     /\ pattern[1].kind \in {"star", "globstar"}

(* git: a star stays in its segment, a globstar before a slash may stand   *)
(* for nothing.                                                            *)
GitCovers(pattern, i, run) ==
  IF pattern[i].kind = "globstar"
  THEN run # <<>> \/ i < Len(pattern)
  ELSE Len(run) = 1 /\ run[1] \in pattern[i].names

Below(base, path) ==
  Len(base) < Len(path) /\ SubSeq(path, 1, Len(base)) = base
From(base, path) == SubSeq(path, Len(base) + 1, Len(path))

Hit(rule, path, isDir) ==
  LET rel == From(rule.base, path)
      fits(p) == \E cut \in Cuts(rule.pattern, p) :
                   \A i \in DOMAIN rule.pattern :
                     _compile(rule.pattern, i, Run(p, cut, i))
  IN  /\ rule.dirOnly => isDir
      /\ Below(rule.base, path)
      /\ \/ fits(rel)
         \/ ~rule.anchored /\ \E i \in DOMAIN rel : fits(<<rel[i]>>)

GitHit(rule, path, isDir) ==
  LET rel == From(rule.base, path)
      fits(p) == \E cut \in Cuts(rule.pattern, p) :
                   \A i \in DOMAIN rule.pattern :
                     GitCovers(rule.pattern, i, Run(p, cut, i))
  IN  /\ rule.dirOnly => isDir
      /\ Below(rule.base, path)
      /\ IF rule.anchored \/ Len(rule.pattern) > 1 THEN fits(rel)
         ELSE fits(<<rel[Len(rel)]>>)

(* The .git directory comes first, then the files from the root downwards. *)
from_root(rules) ==
  <<[base |-> <<>>, pattern |-> <<[kind |-> "word", names |-> {".git"}]>>,
     negate |-> FALSE, dirOnly |-> TRUE, anchored |-> FALSE]>> \o rules

(* The chain from the root to the path, every rule for each of its links;  *)
(* the last hit decides.                                                   *)
match(rules, path) ==
  LET all == from_root(rules)
      hits == {h \in (DOMAIN path) \X (DOMAIN all) :
                 Hit(all[h[2]], SubSeq(path, 1, h[1]), h[1] < Len(path))}
      last(h) == \A g \in hits :
                   g[1] < h[1] \/ (g[1] = h[1] /\ g[2] <= h[2])
  IN  \E h \in hits : last(h) /\ ~all[h[2]].negate

(* git: what is below an ignored directory is ignored, whatever later      *)
(* rules say.                                                              *)
GitIgnores(rules, path) ==
  \E k \in DOMAIN path :
    LET hits == {i \in DOMAIN rules :
                   GitHit(rules[i], SubSeq(path, 1, k), k < Len(path))}
    IN  \E i \in hits : ~rules[i].negate /\ \A j \in hits : j <= i
=============================================================================
