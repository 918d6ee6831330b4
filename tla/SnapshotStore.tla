--------------------------- MODULE SnapshotStore ---------------------------
(***************************************************************************)
(* sync/store.py: the orphan branch codemem-snapshots, as several clones   *)
(* and the server hold it.  Each git command of write and gc is a step.    *)
(*                                                                         *)
(* A commit is the sequence of trees from the root to it: two commits are  *)
(* equal iff they have the same history, and A is an ancestor of B iff A   *)
(* is a prefix of B.  A tree has the blobs and index.json, the list of the *)
(* published SHAs by age.  A blob stands for its publisher: two builds of  *)
(* one SHA never have equal bytes (the manifest has the time and host), so *)
(* write's "identical content" exit (187-190) is never taken.              *)
(***************************************************************************)
EXTENDS Naturals, Sequences, SequencesExt

CONSTANTS
  Clone,       \* working copies
  Publisher,   \* the clones whose users or CI publish and gc
  Sha,         \* commits of the repository that get a snapshot
  NoBlob,      \* no snapshot of this SHA
  Keep,        \* gc's keep_last
  Alternate,   \* does one publication end before the next starts?
  MaxWrites,   \* bound: publications and gcs
  MaxFaults    \* bound: network failures and crashes

ASSUME SnapshotStoreAssumption ==
  /\ Publisher \subseteq Clone
  /\ NoBlob \notin Publisher
  /\ Keep \in Nat \ {0}
  /\ Alternate \in BOOLEAN
  /\ MaxWrites \in Nat
  /\ MaxFaults \in Nat

VARIABLES
  server,   \* the branch on origin: a commit, or <<>> if it does not exist
  local,    \* local[c]: refs/heads/codemem-snapshots
  track,    \* track[c]: refs/remotes/origin/codemem-snapshots
  pub,      \* pub[p]: the write or gc in progress
  writes, faults

vars == <<server, local, track, pub, writes, faults>>

(* index.json is a dictionary: a SHA occurs once. *)
Index == {q \in Seq(Sha) : IsInjective(q)}

Tree == [blobs : [Sha -> Publisher \cup {NoBlob}], index : Index]

Write == [pc : {"idle", "update", "push", "refetch", "force"},
          op : {"write", "gc"}, new : Seq(Tree)]

Idle == [pc |-> "idle", op |-> "write", new |-> <<>>]

TypeOK ==
  /\ server \in Seq(Tree)
  /\ local \in [Clone -> Seq(Tree)]
  /\ track \in [Clone -> Seq(Tree)]
  /\ pub \in [Publisher -> Write]
  /\ writes \in 0 .. MaxWrites
  /\ faults \in 0 .. MaxFaults

Init ==
  /\ server = <<>>
  /\ local = [c \in Clone |-> <<>>]
  /\ track = [c \in Clone |-> <<>>]
  /\ pub = [p \in Publisher |-> Idle]
  /\ writes = 0
  /\ faults = 0

-----------------------------------------------------------------------------
EmptyTree == [blobs |-> [s \in Sha |-> NoBlob], index |-> <<>>]

Tip(commit) == IF commit = <<>> THEN EmptyTree ELSE Last(commit)

Holds(commit, s) == Tip(commit).blobs[s] # NoBlob

(* _blob_oid: the local branch first, then the tracking branch. *)
has(c, s) == Holds(local[c], s) \/ Holds(track[c], s)

read(c, s) == IF Holds(local[c], s) THEN Tip(local[c]).blobs[s]
                                    ELSE Tip(track[c]).blobs[s]

(* list_local and list_remote, as _find_ancestor_snapshot joins them. *)
listed(c) == ToSet(Tip(local[c]).index) \cup ToSet(Tip(track[c]).index)

WithSnapshot(tree, s, blob) ==
  [blobs |-> [tree.blobs EXCEPT ![s] = blob],
   index |-> Append(RemoveFirst(tree.index, s), s)]

(* The keep_last most recent entries of the index. *)
Kept(tree) ==
  SubSeq(tree.index, Len(tree.index) - Keep + 1, Len(tree.index))

Pruned(tree) ==
  [blobs |-> [s \in Sha |-> IF s \in ToSet(Kept(tree)) THEN tree.blobs[s]
                                                       ELSE NoBlob],
   index |-> Kept(tree)]

-----------------------------------------------------------------------------
(* Mutant: a branch that was fetched before is not updated. *)
Fetch_Once(c) ==
  /\ server # <<>>
  /\ track[c] = <<>>
  /\ track' = [track EXCEPT ![c] = server]
  /\ UNCHANGED <<server, local, pub, writes, faults>>

(* Every sync, and `snapshot list`, fetches first. *)
Fetch(c) ==
  /\ server # <<>>
  /\ track[c] # server
  /\ track' = [track EXCEPT ![c] = server]
  /\ UNCHANGED <<server, local, pub, writes, faults>>

MayStart(p) ==
  /\ pub[p].pc = "idle"
  /\ writes < MaxWrites
  /\ Alternate => \A q \in Publisher : pub[q].pc = "idle" /\ track[p] = server

Begin(p, op, new) ==
  /\ pub' = [pub EXCEPT ![p] = [pc |-> "update", op |-> op, new |-> new]]
  /\ writes' = writes + 1
  /\ UNCHANGED <<server, local, track, faults>>

(* Mutant: the new commit is put on the empty branch. *)
WriteCommit_Orphan(p, s) ==
  /\ MayStart(p)
  /\ Begin(p, "write", <<WithSnapshot(EmptyTree, s, p)>>)

(* write, up to commit-tree: the parent is the local branch, if there is   *)
(* one, or else the tracking branch.                                       *)
WriteCommit(p, s) ==
  /\ MayStart(p)
  /\ LET parent == IF local[p] # <<>> THEN local[p] ELSE track[p]
     IN  Begin(p, "write", Append(parent, WithSnapshot(Tip(parent), s, p)))

(* Mutant: commit-tree without -p. *)
GcCommit_NoParent(p) ==
  /\ MayStart(p)
  /\ Len(Tip(local[p]).index) > Keep
  /\ Begin(p, "gc", <<Pruned(Tip(local[p]))>>)

(* gc, up to commit-tree. *)
GcCommit(p) ==
  /\ MayStart(p)
  /\ Len(Tip(local[p]).index) > Keep
  /\ Begin(p, "gc", Append(local[p], Pruned(Tip(local[p]))))

(* update-ref, without an expected old value. *)
UpdateRef(p) ==
  /\ pub[p].pc = "update"
  /\ local' = [local EXCEPT ![p] = pub[p].new]
  /\ pub' = [pub EXCEPT
       ![p].pc = IF pub[p].op = "write" THEN "push" ELSE "force"]
  /\ UNCHANGED <<server, track, writes, faults>>

FastForward(p) == IsPrefix(server, local[p])

Accepted(p) ==
  /\ server' = local[p]
  /\ track' = [track EXCEPT ![p] = local[p]]
  /\ pub' = [pub EXCEPT ![p] = Idle]
  /\ UNCHANGED <<local, writes, faults>>

(* git push: the server accepts a fast-forward only. *)
Push(p) ==
  /\ pub[p].pc = "push"
  /\ FastForward(p)
  /\ Accepted(p)

(* The push is rejected, or the network fails. *)
PushFails(p) ==
  /\ pub[p].pc = "push"
  /\ \/ ~FastForward(p) /\ UNCHANGED faults
     \/ faults < MaxFaults /\ faults' = faults + 1
  /\ pub' = [pub EXCEPT ![p].pc = "refetch"]
  /\ UNCHANGED <<server, local, track, writes>>

(* self.fetch() before the second attempt; its failure is swallowed. *)
Refetch(p) ==
  /\ pub[p].pc = "refetch"
  /\ \/ /\ server # <<>>
        /\ track' = [track EXCEPT ![p] = server]
        /\ UNCHANGED faults
     \/ server = <<>> /\ UNCHANGED <<track, faults>>
     \/ faults < MaxFaults /\ faults' = faults + 1 /\ UNCHANGED track
  /\ pub' = [pub EXCEPT ![p].pc = "force"]
  /\ UNCHANGED <<server, local, writes>>

(* push --force-with-lease: the lease is the tracking branch.  Whatever    *)
(* the outcome, the call returns.                                          *)
ForcePush(p) ==
  /\ pub[p].pc = "force"
  /\ \/ /\ track[p] = server
        /\ Accepted(p)
     \/ /\ track[p] # server \/ faults < MaxFaults
        /\ faults' = IF track[p] # server THEN faults ELSE faults + 1
        /\ pub' = [pub EXCEPT ![p] = Idle]
        /\ UNCHANGED <<server, local, track, writes>>

(* The publishing process dies between two git commands. *)
Crash(p) ==
  /\ pub[p].pc # "idle"
  /\ faults < MaxFaults
  /\ faults' = faults + 1
  /\ pub' = [pub EXCEPT ![p] = Idle]
  /\ UNCHANGED <<server, local, track, writes>>

-----------------------------------------------------------------------------
PublishStep(p) ==
  UpdateRef(p) \/ Push(p) \/ PushFails(p) \/ Refetch(p) \/ ForcePush(p)

Next ==
  \/ \E c \in Clone : Fetch(c)
  \/ \E p \in Publisher :
       \/ \E s \in Sha : WriteCommit(p, s)
       \/ GcCommit(p) \/ PublishStep(p) \/ Crash(p)

Spec == Init /\ [][Next]_vars

(* Clones sync again and again; a git command that was started returns. *)
FairSpec ==
  /\ Spec
  /\ \A c \in Clone : WF_vars(Fetch(c))
  /\ \A p \in Publisher : WF_vars(PublishStep(p))

-----------------------------------------------------------------------------
(* A snapshot that others can pull goes away only by a commit on top of    *)
(* the branch that drops it (a gc), never because the branch on the server *)
(* is overwritten: "concurrent publishes converge instead of conflicting". *)
PublishedStays ==
  [][\A s \in Sha : Holds(server, s) /\ ~Holds(server', s) =>
                      IsPrefix(server, server')]_vars

(* With one publisher the branch is a line, whatever crashes and network   *)
(* failures leave behind: each clone has seen a part of what the server    *)
(* has, and that is a part of what the publisher has.  So the second push, *)
(* the forced one, never overwrites anything.                              *)
Linear ==
  \A p \in Publisher :
    /\ IsPrefix(server, local[p])
    /\ \A c \in Clone : IsPrefix(track[c], server)

(* What _find_ancestor_snapshot picks from index.json, read can deliver,   *)
(* whichever of the two branches it was listed in.                         *)
ListedIsReadable ==
  \A c \in Clone : \A s \in listed(c) : has(c, s) /\ read(c, s) # NoBlob

(* Both, in every state.                                                   *)
BranchSound == Linear /\ ListedIsReadable

(* Once the publishers rest, every clone reads what the server has. *)
ReadersCatchUp ==
  <>[](\A c \in Clone \ Publisher, s \in Sha :
         Holds(server, s) => has(c, s) /\ read(c, s) = Tip(server).blobs[s])
=============================================================================
