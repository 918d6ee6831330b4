------------------------- MODULE SnapshotStoreProofs -------------------------
(***************************************************************************)
(* What holds of the snapshot branch for any clones, commits and bounds,   *)
(* and what a single publisher can rely on.                                *)
(***************************************************************************)
EXTENDS SnapshotStore, SequenceTheorems, TLAPS

-----------------------------------------------------------------------------
(* Sequences without repetition. *)

LEMMA Injective ==
  ASSUME NEW q
  PROVE  IsInjective(q) <=>
           \A i, k \in DOMAIN q : q[i] = q[k] => i = k
  BY DEF IsInjective

(* What lies between two positions of a sequence. *)
LEMMA Slice ==
  ASSUME NEW S, NEW q \in Seq(S),
         NEW n \in 1 .. Len(q) + 1, NEW m \in n - 1 .. Len(q)
  PROVE  /\ SubSeq(q, n, m) \in Seq(S)
         /\ Len(SubSeq(q, n, m)) = m - n + 1
         /\ \A k \in 1 .. m - n + 1 : SubSeq(q, n, m)[k] = q[n + k - 1]
<1>1. n \in Int /\ m \in Int /\ \A k \in n .. m : q[k] \in S
  OBVIOUS
<1>2. /\ SubSeq(q, n, m) \in Seq(S)
      /\ Len(SubSeq(q, n, m)) = IF n <= m THEN m - n + 1 ELSE 0
      /\ \A k \in 1 .. m - n + 1 : SubSeq(q, n, m)[k] = q[n + k - 1]
  BY <1>1, SubSeqProperties
<1> QED
  BY <1>1, <1>2

(* An entry that occurs at most once is taken out. *)
LEMMA Removed ==
  ASSUME NEW q \in Index, NEW s \in Sha
  PROVE  /\ RemoveFirst(q, s) \in Index
         /\ ToSet(RemoveFirst(q, s)) = ToSet(q) \ {s}
<1> DEFINE r == RemoveFirst(q, s)
<1>1. /\ q \in Seq(Sha) /\ Len(q) \in Nat /\ DOMAIN q = 1 .. Len(q)
      /\ \A i, k \in 1 .. Len(q) : q[i] = q[k] => i = k
      /\ \A i \in 1 .. Len(q) : q[i] \in Sha
  BY Injective DEF Index
<1>2. CASE ~\E i \in 1 .. Len(q) : q[i] = s
  BY <1>1, <1>2 DEF RemoveFirst, ToSet
<1>3. CASE \E i \in 1 .. Len(q) : q[i] = s
  <2>1. PICK i \in 1 .. Len(q) : q[i] = s
    BY <1>3
  <2>2. SelectInSeq(q, LAMBDA v : v = s) = i
    <3>1. {k \in 1 .. Len(q) : q[k] = s} = {i}
      BY <1>1, <2>1
    <3>2. Min({i}) = i
      BY <1>1 DEF Min
    <3> QED
      BY <3>1, <3>2 DEF SelectInSeq
  <2>3. r = SubSeq(q, 1, i - 1) \o SubSeq(q, i + 1, Len(q))
    BY <1>3, <2>2 DEF RemoveFirst, RemoveAt
  <2> DEFINE x == SubSeq(q, 1, i - 1)
             y == SubSeq(q, i + 1, Len(q))
  <2>4. /\ x \in Seq(Sha) /\ Len(x) = i - 1
        /\ \A k \in 1 .. i - 1 : x[k] = q[k]
    <3>1. 1 \in 1 .. Len(q) + 1 /\ i - 1 \in 1 - 1 .. Len(q)
      BY <1>1
    <3> QED
      BY <1>1, <3>1, Slice
  <2>5. /\ y \in Seq(Sha) /\ Len(y) = Len(q) - i
        /\ \A k \in 1 .. Len(q) - i : y[k] = q[i + k]
    <3>1. PICK n \in 1 .. Len(q) + 1 : n = i + 1
      BY <1>1
    <3>2. Len(q) \in n - 1 .. Len(q)
      BY <1>1, <3>1
    <3>3. /\ SubSeq(q, n, Len(q)) \in Seq(Sha)
          /\ Len(SubSeq(q, n, Len(q))) = Len(q) - n + 1
          /\ \A k \in 1 .. Len(q) - n + 1 :
               SubSeq(q, n, Len(q))[k] = q[n + k - 1]
      BY <1>1, <3>2, Slice
    <3>4. SubSeq(q, n, Len(q)) = y
      BY <3>1
    <3> HIDE DEF y
    <3>5. Len(q) - n + 1 = Len(q) - i
          /\ \A k \in 1 .. Len(q) - i : n + k - 1 = i + k
      BY <1>1, <3>1
    <3> QED
      BY <3>3, <3>4, <3>5
  <2>9. r = x \o y
    BY <2>3
  <2> HIDE DEF x, y, r
  <2>10. /\ r \in Seq(Sha) /\ Len(r) = Len(x) + Len(y)
         /\ \A k \in 1 .. Len(x) + Len(y) :
              r[k] = IF k <= Len(x) THEN x[k] ELSE y[k - Len(x)]
    <3>1. /\ x \o y \in Seq(Sha)
          /\ Len(x \o y) = Len(x) + Len(y)
          /\ \A k \in 1 .. Len(x) + Len(y) :
               (x \o y)[k] = IF k <= Len(x) THEN x[k] ELSE y[k - Len(x)]
      BY <2>4, <2>5, ConcatProperties
    <3> QED
      BY <2>9, <3>1
  <2>6. /\ r \in Seq(Sha) /\ Len(r) = Len(q) - 1 /\ DOMAIN r = 1 .. Len(q) - 1
        /\ \A k \in 1 .. Len(q) - 1 : r[k] = IF k < i THEN q[k] ELSE q[k + 1]
    <3>1. Len(x) + Len(y) = Len(q) - 1
      BY <1>1, <2>4, <2>5
    <3>2. ASSUME NEW k \in 1 .. Len(q) - 1
          PROVE  r[k] = IF k < i THEN q[k] ELSE q[k + 1]
      <4>1. CASE k < i
        BY <1>1, <2>4, <2>10, <3>1, <4>1
      <4>2. CASE ~(k < i)
        <5>1. /\ k - Len(x) \in 1 .. Len(q) - i /\ i + (k - Len(x)) = k + 1
              /\ ~(k <= Len(x))
          BY <1>1, <2>4, <4>2
        <5>2. r[k] = y[k - Len(x)]
          BY <2>10, <3>1, <5>1
        <5> QED
          BY <2>5, <4>2, <5>1, <5>2
      <4> QED
        BY <4>1, <4>2
    <3>3. /\ r \in Seq(Sha) /\ DOMAIN r = 1 .. Len(r)
          /\ Len(r) = Len(q) - 1
      BY <2>10, <3>1, LenProperties
    <3> QED
      BY <3>2, <3>3
  <2>7. IsInjective(r)
    BY <1>1, <2>6, Injective
  <2>8. ToSet(r) = ToSet(q) \ {s}
    <3>1. ASSUME NEW e \in ToSet(r) PROVE e \in ToSet(q) \ {s}
      BY <1>1, <2>1, <2>6 DEF ToSet
    <3>2. ASSUME NEW e \in ToSet(q) \ {s} PROVE e \in ToSet(r)
      <4>1. PICK k \in 1 .. Len(q) : q[k] = e
        BY <1>1, <3>2 DEF ToSet
      <4>2. k # i
        BY <2>1, <3>2, <4>1
      <4>3. CASE k < i
        BY <1>1, <2>6, <4>1, <4>3 DEF ToSet
      <4>4. CASE k > i
        <5>1. k - 1 \in 1 .. Len(q) - 1 /\ r[k - 1] = q[k]
          BY <1>1, <2>6, <4>1, <4>4
        <5> QED
          BY <2>6, <4>1, <5>1 DEF ToSet
      <4> QED
        BY <4>2, <4>3, <4>4
    <3> QED
      BY <3>1, <3>2
  <2> QED
    BY <2>6, <2>7, <2>8 DEF Index, r
<1> QED
  BY <1>2, <1>3

LEMMA Appended ==
  ASSUME NEW q \in Index, NEW s \in Sha, s \notin ToSet(q)
  PROVE  /\ Append(q, s) \in Index
         /\ ToSet(Append(q, s)) = ToSet(q) \cup {s}
<1>1. /\ q \in Seq(Sha) /\ Len(q) \in Nat /\ DOMAIN q = 1 .. Len(q)
      /\ \A i, k \in 1 .. Len(q) : q[i] = q[k] => i = k
      /\ \A i \in 1 .. Len(q) : q[i] \in Sha /\ q[i] # s
  BY Injective DEF Index, ToSet
<1>2. /\ Append(q, s) \in Seq(Sha)
      /\ DOMAIN Append(q, s) = 1 .. Len(q) + 1
      /\ Append(q, s)[Len(q) + 1] = s
      /\ \A i \in 1 .. Len(q) : Append(q, s)[i] = q[i]
  BY <1>1
<1> DEFINE r == Append(q, s)
<1> HIDE DEF r
<1>3. IsInjective(r)
  <2>1. /\ DOMAIN r = 1 .. Len(q) + 1 /\ r[Len(q) + 1] = s
        /\ \A i \in 1 .. Len(q) : r[i] = q[i]
    BY <1>2 DEF r
  <2> QED
    BY <1>1, <2>1, Injective
<1> QED
  BY <1>1, <1>2, <1>3 DEF Index, ToSet, r

(* The most recent entries of an index with more than Keep. *)
LEMMA KeptType ==
  ASSUME NEW tree \in Tree, Len(tree.index) > Keep
  PROVE  /\ Kept(tree) \in Index
         /\ ToSet(Kept(tree)) \subseteq ToSet(tree.index)
<1> DEFINE q == tree.index
           n == Len(q) - Keep
<1>1. /\ q \in Seq(Sha) /\ Len(q) \in Nat /\ DOMAIN q = 1 .. Len(q)
      /\ \A i, k \in 1 .. Len(q) : q[i] = q[k] => i = k
      /\ Keep \in Nat \ {0} /\ n \in Nat /\ n > 0
  BY Injective, SnapshotStoreAssumption DEF Tree, Index
<1>2. /\ Kept(tree) \in Seq(Sha) /\ DOMAIN Kept(tree) = 1 .. Keep
      /\ \A i \in 1 .. Keep : Kept(tree)[i] = q[n + i]
  <2>1. /\ n + 1 \in 1 .. Len(q) + 1 /\ Len(q) \in n + 1 - 1 .. Len(q)
        /\ Len(q) - (n + 1) + 1 = Keep
    BY <1>1
  <2> DEFINE s == SubSeq(q, n + 1, Len(q))
  <2>2. Kept(tree) = s
    BY DEF Kept
  <2>3. /\ s \in Seq(Sha) /\ Len(s) = Len(q) - (n + 1) + 1
        /\ \A i \in 1 .. Len(q) - (n + 1) + 1 : s[i] = q[n + 1 + i - 1]
    BY <1>1, <2>1, Slice
  <2> HIDE DEF s, q, n
  <2>4. Len(s) = Keep /\ \A i \in 1 .. Keep : s[i] = q[n + 1 + i - 1]
    BY <2>1, <2>3
  <2>5. \A i \in 1 .. Keep : s[i] = q[n + i]
    <3>1. n \in Nat /\ Keep \in Nat
      BY <1>1
    <3>2. \A i \in 1 .. Keep : n + 1 + i - 1 = n + i
      BY <3>1
    <3> QED
      BY <2>4, <3>2
  <2>6. DOMAIN s = 1 .. Keep
    BY <2>3, <2>4
  <2> QED
    BY <2>2, <2>3, <2>5, <2>6
<1> DEFINE k == Kept(tree)
<1> HIDE DEF k, q, n
<1>3. IsInjective(k)
  <2>1. /\ DOMAIN k = 1 .. Keep /\ \A i \in 1 .. Keep : k[i] = q[n + i]
        /\ \A i \in 1 .. Keep : n + i \in 1 .. Len(q)
    BY <1>1, <1>2 DEF k, n
  <2> QED
    BY <1>1, <2>1, Injective
<1>4. /\ k \in Seq(Sha) /\ DOMAIN k = 1 .. Keep
      /\ \A i \in 1 .. Keep : k[i] = q[n + i] /\ n + i \in 1 .. Len(q)
  BY <1>1, <1>2 DEF k, n
<1>5. k \in Index
  BY <1>3, <1>4 DEF Index
<1>6. ToSet(k) \subseteq ToSet(q)
  BY <1>1, <1>4 DEF ToSet
<1> QED
  BY <1>5, <1>6 DEF k, q

-----------------------------------------------------------------------------
(* Histories.  A prefix agrees with the longer one position by position.   *)

LEMMA PrefixOf ==
  ASSUME NEW S, NEW g \in Seq(S), NEW h \in Seq(S)
  PROVE  IsPrefix(g, h) <=>
           /\ Len(g) <= Len(h)
           /\ \A i \in 1 .. Len(g) : g[i] = h[i]
<1>1. /\ Len(g) \in Nat /\ Len(h) \in Nat
      /\ SubSeq(g, 1, Len(g)) = g
  BY SubSeqFull
<1>2. ASSUME Len(g) <= Len(h)
      PROVE  /\ SubSeq(h, 1, Len(g)) \in Seq(S)
             /\ Len(SubSeq(h, 1, Len(g))) = Len(g)
             /\ \A k \in 1 .. Len(g) : SubSeq(h, 1, Len(g))[k] = h[k]
  <2>1. 1 \in 1 .. Len(h) + 1 /\ Len(g) \in 1 - 1 .. Len(h)
    BY <1>1, <1>2
  <2> QED
    BY <1>1, <2>1, Slice
<1>3. ASSUME Len(g) <= Len(h)
      PROVE  g = SubSeq(h, 1, Len(g)) <=> \A i \in 1 .. Len(g) : g[i] = h[i]
  BY <1>1, <1>2, <1>3, SeqEqual
<1> QED
  BY <1>1, <1>3 DEF IsPrefix

LEMMA PrefixTransitive ==
  ASSUME NEW S, NEW f \in Seq(S), NEW g \in Seq(S), NEW h \in Seq(S),
         IsPrefix(f, g), IsPrefix(g, h)
  PROVE  IsPrefix(f, h)
<1>1. /\ Len(f) <= Len(g) /\ \A i \in 1 .. Len(f) : f[i] = g[i]
      /\ Len(g) <= Len(h) /\ \A i \in 1 .. Len(g) : g[i] = h[i]
      /\ Len(f) \in Nat /\ Len(g) \in Nat /\ Len(h) \in Nat
  BY PrefixOf
<1>2. Len(f) <= Len(h) /\ \A i \in 1 .. Len(f) : f[i] = h[i]
  BY <1>1
<1> QED
  BY <1>2, PrefixOf

LEMMA PrefixReflexive ==
  ASSUME NEW S, NEW h \in Seq(S)
  PROVE  IsPrefix(h, h) /\ IsPrefix(<<>>, h)
         /\ (IsPrefix(h, <<>>) => h = <<>>)
<1>1. PICK z \in Seq(S) : z = <<>> /\ Len(z) = 0
  BY EmptySeq
<1>2. Len(h) \in Nat /\ \A i \in 1 .. Len(z) : z[i] = h[i]
  BY <1>1
<1>3. Len(z) <= Len(h) /\ Len(h) <= Len(h)
  BY <1>1, <1>2
<1>5. IsPrefix(h, h)
  BY <1>3, PrefixOf
<1>6. IsPrefix(z, h)
  BY <1>2, <1>3, PrefixOf
<1>4. ASSUME IsPrefix(h, z) PROVE Len(h) = 0
  <2>1. Len(h) <= Len(z)
    BY <1>4, PrefixOf
  <2> QED
    BY <1>1, <1>2, <2>1
<1> QED
  BY <1>1, <1>4, <1>5, <1>6, EmptySeq

LEMMA PrefixAppend ==
  ASSUME NEW S, NEW h \in Seq(S), NEW e \in S
  PROVE  IsPrefix(h, Append(h, e))
<1> DEFINE r == Append(h, e)
<1>1. /\ r \in Seq(S) /\ Len(h) \in Nat /\ Len(r) = Len(h) + 1
      /\ \A i \in 1 .. Len(h) : r[i] = h[i]
  BY AppendProperties
<1> HIDE DEF r
<1>2. IsPrefix(h, r)
  BY <1>1, PrefixOf
<1> QED
  BY <1>2 DEF r

-----------------------------------------------------------------------------
(* Types. *)

LEMMA TreeTypes ==
  /\ EmptyTree \in Tree /\ ToSet(EmptyTree.index) = {}
  /\ Idle \in Write
  /\ \A h \in Seq(Tree) : Tip(h) \in Tree
  /\ \A h \in Seq(Tree), t \in Tree :
       Append(h, t) \in Seq(Tree) /\ Tip(Append(h, t)) = t
<1>1. <<>> \in Index /\ ToSet(<<>>) = {}
  BY DEF Index, IsInjective, ToSet
<1>2. EmptyTree \in Tree /\ ToSet(EmptyTree.index) = {}
  BY <1>1 DEF EmptyTree, Tree
<1>3. Idle \in Write
  BY DEF Idle, Write
<1>4. ASSUME NEW h \in Seq(Tree) PROVE Tip(h) \in Tree
  BY <1>2 DEF Tip, Last
<1>5. ASSUME NEW h \in Seq(Tree), NEW t \in Tree
      PROVE  Append(h, t) \in Seq(Tree) /\ Tip(Append(h, t)) = t
  BY DEF Tip, Last
<1> QED
  BY <1>2, <1>3, <1>4, <1>5

(* A snapshot is added, or the oldest are pruned: the index stays one      *)
(* without repetition, and gains or loses exactly the SHAs it should.      *)
LEMMA WithSnapshotType ==
  ASSUME NEW tree \in Tree, NEW s \in Sha, NEW p \in Publisher
  PROVE  /\ WithSnapshot(tree, s, p) \in Tree
         /\ ToSet(WithSnapshot(tree, s, p).index) = ToSet(tree.index) \cup {s}
         /\ WithSnapshot(tree, s, p).blobs = [tree.blobs EXCEPT ![s] = p]
<1>1. /\ RemoveFirst(tree.index, s) \in Index
      /\ ToSet(RemoveFirst(tree.index, s)) = ToSet(tree.index) \ {s}
  BY Removed DEF Tree
<1>2. /\ Append(RemoveFirst(tree.index, s), s) \in Index
      /\ ToSet(Append(RemoveFirst(tree.index, s), s))
           = ToSet(tree.index) \cup {s}
  BY <1>1, Appended
<1>3. [tree.blobs EXCEPT ![s] = p] \in [Sha -> Publisher \cup {NoBlob}]
  BY DEF Tree
<1> QED
  BY <1>2, <1>3 DEF WithSnapshot, Tree

LEMMA PrunedType ==
  ASSUME NEW tree \in Tree, Len(tree.index) > Keep
  PROVE  /\ Pruned(tree) \in Tree
         /\ ToSet(Pruned(tree).index) \subseteq ToSet(tree.index)
         /\ \A s \in Sha : Pruned(tree).blobs[s]
              = IF s \in ToSet(Pruned(tree).index) THEN tree.blobs[s]
                ELSE NoBlob
  BY KeptType DEF Pruned, Tree

(* What the steps of a publication do to it. *)
LEMMA PubSteps ==
  ASSUME TypeOK, NEW p \in Publisher, PublishStep(p) \/ Crash(p)
  PROVE  \E r \in Write : /\ pub' = [pub EXCEPT ![p] = r]
                         /\ r.new \in {pub[p].new, Idle.new}
<1>1. pub[p] \in Write /\ Idle \in Write
  BY TreeTypes DEF TypeOK
<1>2. CASE pub' = [pub EXCEPT ![p] = Idle]
  BY <1>1, <1>2
<1>3. ASSUME NEW l \in {"push", "force", "refetch"},
             pub' = [pub EXCEPT ![p].pc = l]
      PROVE  \E r \in Write : /\ pub' = [pub EXCEPT ![p] = r]
                             /\ r.new = pub[p].new
  <2> DEFINE r == [pub[p] EXCEPT !.pc = l]
  <2>1. r \in Write /\ r.new = pub[p].new
    BY <1>1 DEF Write
  <2>2. pub' = [pub EXCEPT ![p] = r]
    BY <1>3
  <2> QED
    BY <2>1, <2>2
<1>4. \/ \E l \in {"push", "force", "refetch"} :
           pub' = [pub EXCEPT ![p].pc = l]
      \/ pub' = [pub EXCEPT ![p] = Idle]
  <2>1. CASE UpdateRef(p)
    <3>1. CASE pub[p].op = "write"
      BY <2>1, <3>1 DEF UpdateRef
    <3>2. CASE pub[p].op # "write"
      BY <2>1, <3>2 DEF UpdateRef
    <3> QED
      BY <3>1, <3>2
  <2>2. CASE ~UpdateRef(p)
    BY <2>2 DEF PublishStep, Push, PushFails, Refetch, ForcePush, Crash,
                Accepted
  <2> QED
    BY <2>1, <2>2
<1> QED
  BY <1>2, <1>3, <1>4

LEMMA InitTypeOK == Init => TypeOK
  BY TreeTypes, EmptySeq, SnapshotStoreAssumption DEF Init, TypeOK

LEMMA NextTypeOK == TypeOK /\ [Next]_vars => TypeOK'
<1> SUFFICES ASSUME TypeOK, [Next]_vars PROVE TypeOK'
  OBVIOUS
<1>0. /\ server \in Seq(Tree) /\ local \in [Clone -> Seq(Tree)]
      /\ track \in [Clone -> Seq(Tree)] /\ pub \in [Publisher -> Write]
      /\ writes \in 0 .. MaxWrites /\ faults \in 0 .. MaxFaults
      /\ Publisher \subseteq Clone /\ MaxWrites \in Nat /\ MaxFaults \in Nat
      /\ Idle \in Write
  BY TreeTypes, SnapshotStoreAssumption DEF TypeOK
<1>1. ASSUME NEW c \in Clone, Fetch(c) PROVE TypeOK'
  BY <1>0, <1>1 DEF Fetch, TypeOK
<1>2. ASSUME NEW p \in Publisher, NEW op \in {"write", "gc"},
             NEW new \in Seq(Tree), MayStart(p), Begin(p, op, new)
      PROVE  TypeOK'
  <2>1. pub' \in [Publisher -> Write]
    BY <1>0, <1>2 DEF Begin, Write
  <2>2. writes' \in 0 .. MaxWrites
    BY <1>0, <1>2 DEF Begin, MayStart
  <2> QED
    BY <1>0, <1>2, <2>1, <2>2 DEF Begin, TypeOK
<1>3. ASSUME NEW p \in Publisher, NEW s \in Sha, WriteCommit(p, s)
      PROVE  TypeOK'
  <2> DEFINE parent == IF local[p] # <<>> THEN local[p] ELSE track[p]
  <2>1. parent \in Seq(Tree)
    BY <1>0
  <2>2. Append(parent, WithSnapshot(Tip(parent), s, p)) \in Seq(Tree)
    BY <2>1, TreeTypes, WithSnapshotType
  <2> QED
    BY <1>2, <1>3, <2>2 DEF WriteCommit
<1>4. ASSUME NEW p \in Publisher, GcCommit(p) PROVE TypeOK'
  <2>1. local[p] \in Seq(Tree) /\ Len(Tip(local[p]).index) > Keep
    BY <1>0, <1>4 DEF GcCommit
  <2>2. Append(local[p], Pruned(Tip(local[p]))) \in Seq(Tree)
    BY <2>1, TreeTypes, PrunedType
  <2> DEFINE new == Append(local[p], Pruned(Tip(local[p])))
  <2>3. MayStart(p) /\ Begin(p, "gc", new)
    BY <1>4 DEF GcCommit
  <2>4. new \in Seq(Tree)
    BY <2>2
  <2> HIDE DEF new
  <2> QED
    BY <1>2, <2>3, <2>4
<1>5. ASSUME NEW p \in Publisher, PublishStep(p) \/ Crash(p) PROVE TypeOK'
  <2>1. pub' \in [Publisher -> Write]
    BY <1>0, <1>5, PubSteps
  <2>2. local' \in [Clone -> Seq(Tree)] /\ pub[p].new \in Seq(Tree)
    BY <1>0, <1>5 DEF PublishStep, UpdateRef, Push, PushFails, Refetch,
                      ForcePush, Crash, Accepted, Write
  <2>3. server' \in Seq(Tree) /\ track' \in [Clone -> Seq(Tree)]
    BY <1>0, <1>5 DEF PublishStep, UpdateRef, Push, PushFails, Refetch,
                      ForcePush, Crash, Accepted
  <2>4. \/ faults' = faults
        \/ faults < MaxFaults /\ faults' = faults + 1
    BY <1>5 DEF PublishStep, UpdateRef, Push, PushFails, Refetch,
                ForcePush, Crash, Accepted
  <2>5. faults' \in 0 .. MaxFaults
    BY <1>0, <2>4
  <2>6. writes' = writes
    BY <1>5 DEF PublishStep, UpdateRef, Push, PushFails, Refetch,
                ForcePush, Crash, Accepted
  <2> QED
    BY <1>0, <2>1, <2>2, <2>3, <2>5, <2>6 DEF TypeOK
<1>6. CASE UNCHANGED vars
  BY <1>0, <1>6 DEF vars, TypeOK
<1> QED
  BY <1>1, <1>3, <1>4, <1>5, <1>6 DEF Next

(* Every reachable state has the types; an index.json, in particular,      *)
(* names no SHA twice.                                                     *)
THEOREM SnapshotTypeCorrect == Spec => []TypeOK
  BY InitTypeOK, NextTypeOK, PTL DEF Spec

-----------------------------------------------------------------------------
(* Every tree of every branch, the commits in the making included, has the *)
(* blob of each SHA its index.json lists.                                  *)

Backed(t) == \A s \in ToSet(t.index) : t.blobs[s] # NoBlob

AllBacked(h) == \A i \in 1 .. Len(h) : Backed(h[i])

BackedInv ==
  /\ AllBacked(server)
  /\ \A c \in Clone : AllBacked(local[c]) /\ AllBacked(track[c])
  /\ \A p \in Publisher : AllBacked(pub[p].new)

LEMMA BackedTip ==
  ASSUME NEW h \in Seq(Tree), AllBacked(h)
  PROVE  Backed(Tip(h))
<1>1. CASE h = <<>>
  BY <1>1, TreeTypes DEF Tip, Backed
<1>2. CASE h # <<>>
  BY <1>2 DEF Tip, Last, AllBacked
<1> QED
  BY <1>1, <1>2

LEMMA BackedAppend ==
  ASSUME NEW h \in Seq(Tree), NEW t \in Tree, AllBacked(h), Backed(t)
  PROVE  AllBacked(Append(h, t))
<1> DEFINE r == Append(h, t)
<1>1. /\ Len(h) \in Nat /\ Len(r) = Len(h) + 1 /\ r[Len(h) + 1] = t
      /\ \A i \in 1 .. Len(h) : r[i] = h[i]
  BY AppendProperties
<1> HIDE DEF r
<1>2. AllBacked(r)
  BY <1>1 DEF AllBacked
<1> QED
  BY <1>2 DEF r

LEMMA BackedWrite ==
  ASSUME NEW t \in Tree, Backed(t), NEW s \in Sha, NEW p \in Publisher
  PROVE  Backed(WithSnapshot(t, s, p))
<1>1. /\ ToSet(WithSnapshot(t, s, p).index) = ToSet(t.index) \cup {s}
      /\ WithSnapshot(t, s, p).blobs = [t.blobs EXCEPT ![s] = p]
  BY WithSnapshotType
<1>2. \A x \in ToSet(t.index) : x \in Sha /\ t.blobs[x] # NoBlob
  BY DEF Backed, Tree, Index, ToSet
<1>3. \A x \in ToSet(t.index) \cup {s} : [t.blobs EXCEPT ![s] = p][x] # NoBlob
  BY <1>2, SnapshotStoreAssumption DEF Tree
<1> QED
  BY <1>1, <1>3 DEF Backed

LEMMA BackedPruned ==
  ASSUME NEW t \in Tree, Backed(t), Len(t.index) > Keep
  PROVE  Backed(Pruned(t))
<1>1. \A s \in ToSet(Pruned(t).index) : s \in ToSet(t.index)
  BY PrunedType
<1>2. \A s \in ToSet(t.index) : s \in Sha
  BY DEF Tree, Index, ToSet
<1> QED
  BY <1>1, <1>2, PrunedType DEF Backed

LEMMA NextBacked == TypeOK /\ BackedInv /\ [Next]_vars => BackedInv'
<1> SUFFICES ASSUME TypeOK, BackedInv, [Next]_vars PROVE BackedInv'
  OBVIOUS
<1>0. /\ local \in [Clone -> Seq(Tree)] /\ track \in [Clone -> Seq(Tree)]
      /\ pub \in [Publisher -> Write]
      /\ Publisher \subseteq Clone
      /\ AllBacked(Idle.new)
  BY SnapshotStoreAssumption DEF TypeOK, Idle, AllBacked
<1>1. ASSUME NEW c \in Clone, Fetch(c) PROVE BackedInv'
  BY <1>0, <1>1 DEF Fetch, BackedInv, AllBacked
<1>2. ASSUME NEW p \in Publisher, NEW op \in {"write", "gc"},
             NEW new \in Seq(Tree), AllBacked(new), Begin(p, op, new)
      PROVE  BackedInv'
  <2>1. \A q \in Publisher : pub'[q].new = pub[q].new \/ pub'[q].new = new
    BY <1>0, <1>2 DEF Begin
  <2> QED
    BY <1>2, <2>1 DEF Begin, BackedInv, AllBacked
<1>3. ASSUME NEW p \in Publisher, NEW s \in Sha, WriteCommit(p, s)
      PROVE  BackedInv'
  <2> DEFINE parent == IF local[p] # <<>> THEN local[p] ELSE track[p]
             t == WithSnapshot(Tip(parent), s, p)
             new == Append(parent, t)
  <2>1. parent \in Seq(Tree) /\ AllBacked(parent)
    BY <1>0 DEF BackedInv
  <2>2. Tip(parent) \in Tree /\ Backed(Tip(parent))
    BY <2>1, BackedTip, TreeTypes
  <2>3. t \in Tree /\ Backed(t)
    BY <2>2, BackedWrite, WithSnapshotType
  <2>4. new \in Seq(Tree) /\ AllBacked(new)
    BY <2>1, <2>3, BackedAppend, TreeTypes
  <2>5. Begin(p, "write", new)
    BY <1>3 DEF WriteCommit
  <2> HIDE DEF new
  <2> QED
    BY <1>2, <2>4, <2>5
<1>4. ASSUME NEW p \in Publisher, GcCommit(p) PROVE BackedInv'
  <2> DEFINE t == Pruned(Tip(local[p]))
             new == Append(local[p], t)
  <2>1. /\ local[p] \in Seq(Tree) /\ AllBacked(local[p])
        /\ Len(Tip(local[p]).index) > Keep
    BY <1>0, <1>4 DEF BackedInv, GcCommit
  <2>2. Tip(local[p]) \in Tree /\ Backed(Tip(local[p]))
    BY <2>1, BackedTip, TreeTypes
  <2>3. t \in Tree /\ Backed(t)
    BY <2>1, <2>2, BackedPruned, PrunedType
  <2>4. new \in Seq(Tree) /\ AllBacked(new)
    BY <2>1, <2>3, BackedAppend, TreeTypes
  <2>5. Begin(p, "gc", new)
    BY <1>4 DEF GcCommit
  <2> HIDE DEF new
  <2> QED
    BY <1>2, <2>4, <2>5
<1>5. ASSUME NEW p \in Publisher, PublishStep(p) \/ Crash(p)
      PROVE  BackedInv'
  <2>1. \A q \in Publisher : \/ pub'[q].new = pub[q].new
                           \/ pub'[q].new = Idle.new
    BY <1>0, <1>5, PubSteps
  <2>2. server' = server \/ server' = local[p]
    BY <1>5 DEF PublishStep, UpdateRef, Push, PushFails, Refetch,
                ForcePush, Crash, Accepted
  <2>3. \A c \in Clone : \/ local'[c] = local[c]
                       \/ local'[c] = pub[p].new
    BY <1>0, <1>5 DEF PublishStep, UpdateRef, Push, PushFails, Refetch,
                      ForcePush, Crash, Accepted
  <2>4. \A c \in Clone : \/ track'[c] = track[c]
                       \/ track'[c] = server
                       \/ track'[c] = local[p]
    BY <1>0, <1>5 DEF PublishStep, UpdateRef, Push, PushFails, Refetch,
                      ForcePush, Crash, Accepted
  <2> QED
    BY <1>0, <2>1, <2>2, <2>3, <2>4 DEF BackedInv, AllBacked
<1>6. CASE UNCHANGED vars
  BY <1>6 DEF vars, BackedInv, AllBacked
<1> QED
  BY <1>1, <1>3, <1>4, <1>5, <1>6 DEF Next

LEMMA InitBacked == Init => BackedInv
  BY SnapshotStoreAssumption DEF Init, BackedInv, AllBacked, Idle

(* However many publishers there are and whatever they overwrite: what the *)
(* index of a clone's two branches lists can be read there.                *)
THEOREM ListedCanBeRead == Spec => []ListedIsReadable
<1>1. TypeOK /\ BackedInv => ListedIsReadable
  <2> SUFFICES ASSUME TypeOK, BackedInv, NEW c \in Clone, NEW s \in listed(c)
               PROVE  has(c, s) /\ read(c, s) # NoBlob
    BY DEF ListedIsReadable
  <2>1. Backed(Tip(local[c])) /\ Backed(Tip(track[c]))
    BY BackedTip DEF TypeOK, BackedInv
  <2> QED
    BY <2>1 DEF listed, has, read, Holds, Backed
<1> QED
  BY <1>1, InitBacked, NextBacked, SnapshotTypeCorrect, PTL DEF Spec

-----------------------------------------------------------------------------
(* One publisher.  What it is about to put on its branch continues that    *)
(* branch; a clone has seen a part of what the server has, the server has  *)
(* a part of what the publisher has.                                       *)

LineInv ==
  /\ Linear
  /\ \A p \in Publisher :
       pub[p].pc = "update" => IsPrefix(local[p], pub[p].new)

LEMMA NextLine ==
  ASSUME NEW ci, Publisher = {ci}
  PROVE  TypeOK /\ LineInv /\ [Next]_vars => LineInv'
<1> SUFFICES ASSUME TypeOK, LineInv, [Next]_vars PROVE LineInv'
  OBVIOUS
<1>0. /\ server \in Seq(Tree) /\ local \in [Clone -> Seq(Tree)]
      /\ track \in [Clone -> Seq(Tree)] /\ pub \in [Publisher -> Write]
      /\ ci \in Clone /\ ci \in Publisher
      /\ pub[ci].new \in Seq(Tree) /\ pub[ci] \in Write
      /\ IsPrefix(server, local[ci])
      /\ \A c \in Clone : IsPrefix(track[c], server)
      /\ pub[ci].pc = "update" => IsPrefix(local[ci], pub[ci].new)
  BY SnapshotStoreAssumption DEF TypeOK, LineInv, Linear, Write
<1> SUFFICES /\ IsPrefix(server', local'[ci])
             /\ \A c \in Clone : IsPrefix(track'[c], server')
             /\ pub'[ci].pc = "update" => IsPrefix(local'[ci], pub'[ci].new)
  BY DEF LineInv, Linear
<1>1. CASE \E c \in Clone : Fetch(c)
  BY <1>0, <1>1, PrefixReflexive DEF Fetch
<1>2. ASSUME NEW op \in {"write", "gc"}, NEW new \in Seq(Tree),
             Begin(ci, op, new), IsPrefix(local[ci], new)
      PROVE  /\ IsPrefix(server', local'[ci])
             /\ \A c \in Clone : IsPrefix(track'[c], server')
             /\ IsPrefix(local'[ci], pub'[ci].new)
  <2>1. pub'[ci].new = new
    BY <1>0, <1>2 DEF Begin
  <2> QED
    BY <1>0, <1>2, <2>1 DEF Begin
<1>3. ASSUME NEW s \in Sha, WriteCommit(ci, s)
      PROVE  /\ IsPrefix(server', local'[ci])
             /\ \A c \in Clone : IsPrefix(track'[c], server')
             /\ IsPrefix(local'[ci], pub'[ci].new)
  <2> DEFINE parent == IF local[ci] # <<>> THEN local[ci] ELSE track[ci]
             t == WithSnapshot(Tip(parent), s, ci)
             new == Append(parent, t)
  <2>1. parent = local[ci]
    <3>1. CASE local[ci] = <<>>
      <4>1. IsPrefix(track[ci], local[ci])
        BY <1>0, PrefixTransitive
      <4> QED
        BY <1>0, <3>1, <4>1, PrefixReflexive
    <3>2. CASE local[ci] # <<>>
      BY <3>2
    <3> QED
      BY <3>1, <3>2
  <2>2. parent \in Seq(Tree) /\ t \in Tree
    BY <1>0, TreeTypes, WithSnapshotType
  <2>3. new \in Seq(Tree) /\ IsPrefix(parent, new)
    BY <2>2, TreeTypes, PrefixAppend
  <2>4. Begin(ci, "write", new)
    BY <1>3 DEF WriteCommit
  <2> HIDE DEF new, parent
  <2> QED
    BY <1>2, <2>1, <2>3, <2>4
<1>4. ASSUME GcCommit(ci)
      PROVE  /\ IsPrefix(server', local'[ci])
             /\ \A c \in Clone : IsPrefix(track'[c], server')
             /\ IsPrefix(local'[ci], pub'[ci].new)
  <2> DEFINE t == Pruned(Tip(local[ci]))
             new == Append(local[ci], t)
  <2>1. local[ci] \in Seq(Tree) /\ t \in Tree
    BY <1>0, <1>4, TreeTypes, PrunedType DEF GcCommit
  <2>2. new \in Seq(Tree) /\ IsPrefix(local[ci], new)
    BY <2>1, TreeTypes, PrefixAppend
  <2>3. Begin(ci, "gc", new)
    BY <1>4 DEF GcCommit
  <2> HIDE DEF new
  <2> QED
    BY <1>2, <2>2, <2>3
<1>5. CASE UpdateRef(ci)
  <2>1. /\ IsPrefix(local[ci], pub[ci].new) /\ local'[ci] = pub[ci].new
        /\ UNCHANGED <<server, track>> /\ pub'[ci].pc # "update"
    BY <1>0, <1>5 DEF UpdateRef, Write
  <2>2. IsPrefix(server, pub[ci].new)
    BY <1>0, <2>1, PrefixTransitive
  <2> QED
    BY <1>0, <2>1, <2>2
<1>6. ASSUME Accepted(ci)
      PROVE  /\ IsPrefix(server', local'[ci])
             /\ \A c \in Clone : IsPrefix(track'[c], server')
             /\ pub'[ci].pc # "update"
  <2>1. /\ server' = local[ci] /\ local' = local /\ pub'[ci].pc = "idle"
        /\ \A c \in Clone : track'[c] \in {track[c], local[ci]}
    BY <1>0, <1>6 DEF Accepted, Idle
  <2>2. IsPrefix(local[ci], local[ci])
    BY <1>0, PrefixReflexive
  <2>3. \A c \in Clone : IsPrefix(track[c], local[ci])
    BY <1>0, PrefixTransitive
  <2> QED
    BY <2>1, <2>2, <2>3
<1>7. CASE PushFails(ci) \/ Refetch(ci) \/ Crash(ci)
           \/ (ForcePush(ci) /\ ~Accepted(ci))
  <2>1. /\ UNCHANGED <<server, local>> /\ pub'[ci].pc # "update"
        /\ \A c \in Clone : track'[c] \in {track[c], server}
    BY <1>0, <1>7 DEF PushFails, Refetch, Crash, ForcePush, Idle, Write
  <2> QED
    BY <1>0, <2>1, PrefixReflexive
<1>8. CASE UNCHANGED vars
  BY <1>0, <1>8 DEF vars
<1> QED
  BY <1>1, <1>3, <1>4, <1>5, <1>6, <1>7, <1>8
     DEF Next, PublishStep, Push, ForcePush

LEMMA InitLine == Init => LineInv
<1> SUFFICES ASSUME Init PROVE LineInv
  OBVIOUS
<1>1. <<>> \in Seq(Tree) /\ IsPrefix(<<>>, <<>>)
  BY EmptySeq, PrefixReflexive
<1> QED
  BY <1>1, SnapshotStoreAssumption DEF Init, LineInv, Linear, Idle

(* With one publisher the branch is a line, whatever crashes and network   *)
(* failures leave behind, and everything listed can be read.               *)
THEOREM OnePublisherSound ==
  ASSUME NEW ci, Publisher = {ci}
  PROVE  Spec => []BranchSound
<1>1. TypeOK /\ LineInv /\ [Next]_vars => LineInv'
  BY NextLine
<1>2. LineInv => Linear
  BY DEF LineInv
<1>3. Spec => []Linear
  BY <1>1, <1>2, InitLine, SnapshotTypeCorrect, PTL DEF Spec
<1>4. Linear /\ ListedIsReadable => BranchSound
  BY DEF BranchSound
<1> QED
  BY <1>3, <1>4, ListedCanBeRead, PTL

(* ... so nothing it publishes, not even with --force-with-lease, takes a  *)
(* snapshot off the server but by a commit on top of the branch.           *)
THEOREM OnePublisherKeeps ==
  ASSUME NEW ci, Publisher = {ci}
  PROVE  Spec => PublishedStays
<1> DEFINE Stays == \A s \in Sha : Holds(server, s) /\ ~Holds(server', s)
                                   => IsPrefix(server, server')
<1>1. TypeOK /\ LineInv /\ [Next]_vars => LineInv'
  BY NextLine
<1>2. LineInv /\ [Next]_vars => [Stays]_vars
  <2> SUFFICES ASSUME LineInv, Next, server' # server
               PROVE  IsPrefix(server, server')
    BY DEF vars
  <2>1. PICK p \in Publisher : server' = local[p]
    BY DEF Next, Fetch, WriteCommit, GcCommit, Begin, PublishStep, UpdateRef,
           Push, PushFails, Refetch, ForcePush, Crash, Accepted
  <2> QED
    BY <2>1 DEF LineInv, Linear
<1>3. Spec => [][Stays]_vars
  BY <1>1, <1>2, InitLine, SnapshotTypeCorrect, PTL DEF Spec
<1> QED
  BY <1>3 DEF PublishedStays
=============================================================================
