----------------------------- MODULE MCSyncRepo -----------------------------
(* SyncRepo for TLC: two files, and four commits with a branch:            *)
(*     c0 --- c1 --- c2        c1 edits f; c2 reverts that and edits g     *)
(*        \-- c3               c3 removes f                                *)
EXTENDS SyncRepo, TLC

CONSTANTS f, g, a, b, c0, c1, c2, c3

MCTree == c0 :> (f :> a @@ g :> a) @@ c1 :> (f :> b @@ g :> a)
          @@ c2 :> (f :> a @@ g :> b) @@ c3 :> (f :> Absent @@ g :> a)

MCHistory == c0 :> <<c0>> @@ c1 :> <<c1, c0>> @@ c2 :> <<c2, c1, c0>>
             @@ c3 :> <<c3, c0>>

(* One clone on its own, with checkouts that carry local changes. *)
Local == [env |-> {"watch", "carry", "prune"}, ops |-> 4, faults |-> 2]

(* A team that shares snapshots. *)
Shared == [env |-> {"watch", "remote", "publish", "prune"},
           ops |-> 3, faults |-> 2]

(* Everything at once. *)
Chaos == [env |-> Freedoms, ops |-> 2, faults |-> 1]

MCScenarios == {Local, Shared, Chaos}

(* A dirty edit that is thrown away after it was indexed. *)
MCDiscard == {[env |-> {"watch", "discard"}, ops |-> 2, faults |-> 0]}

(* No watcher; queries find the index stale. *)
MCGuard == {[env |-> {"guard"}, ops |-> 1, faults |-> 0]}
=============================================================================
