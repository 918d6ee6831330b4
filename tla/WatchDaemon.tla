---------------------------- MODULE WatchDaemon ----------------------------
(***************************************************************************)
(* sync/watcher.py: run_daemon and MultiRootWatcher, the one process that  *)
(* watches every root of the on-disk registry (sync/registry.py).          *)
(*                                                                         *)
(* A reconcile brings the watches in line with the registry.  It runs in   *)
(* the main thread at boot and when SIGHUP arrives, and in the timer       *)
(* threads of the registry's Debouncer, so several may be under way.  Only *)
(* the single additions and removals hold MultiRootWatcher._lock, which is *)
(* not reentrant; a signal handler runs on top of whatever the main thread *)
(* was doing.                                                              *)
(***************************************************************************)
EXTENDS Naturals, FiniteSets

CONSTANTS
  Root,        \* directories that may be registered
  Slug,        \* projects
  None,        \* not registered, not watched, nobody
  MaxTimer,    \* bound: timers of the registry's debouncer
  Scenarios    \* the Freedoms taken, and bounds on registry changes,
               \* signals and crashes

Freedoms ==
  {"gap",      \* the registry changes before it is watched
   "overlap",  \* ... or while a reconcile is under way
   "nest",     \* SIGHUP arrives while the handler of another one runs
   "fault"}    \* scheduling a watch fails

ASSUME WatchDaemonAssumption ==
  /\ None \notin Slug \cup Root
  /\ MaxTimer \in Nat
  /\ Scenarios \subseteq [env : SUBSET Freedoms, changes : Nat, hups : Nat,
                          crashes : Nat]

VARIABLES
  scene,       \* the scenario; it never changes
  registry,    \* registry[r]: the slug r is registered with, or None
  watched,     \* watched[r]: the slug r is watched for (_watches, _slugs)
  stateFile,   \* the roots the state file lists
  boot,        \* "reconcile" or "run"
  timer, dirty,\* the registry's Debouncer
  lock,        \* who holds _lock
  th,          \* th[t]: the reconcile of thread t
  unseen,      \* the registry changed after its last load (history)
  changes, hups, crashes

debouncer == <<timer, dirty>>
bounds == <<changes, hups, crashes>>
vars == <<scene, registry, watched, stateFile, boot, debouncer, lock, th,
          unseen, bounds>>

Registry == INSTANCE Debouncer

Main == 0

Nested == MaxTimer + 1

Thread == 0 .. MaxTimer + 1

Bindings == [Root -> Slug \cup {None}]

Unbound == [r \in Root |-> None]

Roots(b) == {r \in Root : b[r] # None}

Quiet == [pc |-> "idle", want |-> Unbound, gone |-> {}, rebind |-> {},
          new |-> {}, again |-> None, list |-> {}]

TypeOK ==
  /\ scene \in Scenarios
  /\ registry \in Bindings
  /\ watched \in Bindings
  /\ stateFile \subseteq Root
  /\ boot \in {"reconcile", "run"}
  /\ Registry!TypeOK
  /\ lock \in Thread \cup {None}
  /\ th \in [Thread -> [pc : {"idle", "load", "plan", "apply", "list",
                             "write"},
                        want : Bindings, gone : SUBSET Root,
                        rebind : SUBSET Root, new : SUBSET Root,
                        again : Root \cup {None}, list : SUBSET Root]]
  /\ unseen \in BOOLEAN
  /\ changes \in 0 .. scene.changes
  /\ hups \in 0 .. scene.hups
  /\ crashes \in 0 .. scene.crashes

Init ==
  /\ scene \in Scenarios
  /\ registry \in Bindings
  /\ watched = Unbound
  /\ stateFile = {}
  /\ boot = "reconcile"
  /\ Registry!Init
  /\ lock = None
  /\ th = [t \in Thread |-> IF t = Main THEN [Quiet EXCEPT !.pc = "load"]
                                        ELSE Quiet]
  /\ unseen = TRUE
  /\ changes = 0 /\ hups = 0 /\ crashes = 0

-----------------------------------------------------------------------------
(* The users' sessions: registry.add and registry.remove, each an atomic   *)
(* replacement of the file.  The file's event bumps the debouncer.         *)

MayChange ==
  /\ changes < scene.changes
  /\ \/ boot = "run"
     \/ boot = "reconcile" /\ th[Main].pc = "load"
     \/ "gap" \in scene.env
  /\ \/ \A t \in Thread : th[t].pc = "idle"
     \/ boot = "reconcile" /\ th[Main].pc = "load"
     \/ "overlap" \in scene.env

Register(r, s) ==
  /\ MayChange
  /\ registry[r] # s
  /\ registry' = [registry EXCEPT ![r] = s]
  /\ IF boot = "run" THEN Registry!bump ELSE UNCHANGED debouncer
  /\ unseen' = TRUE
  /\ changes' = changes + 1
  /\ UNCHANGED <<scene, watched, stateFile, boot, lock, th, hups, crashes>>

-----------------------------------------------------------------------------
(* The threads that reconcile. *)

Start(t) == th' = [th EXCEPT ![t] = [Quiet EXCEPT !.pc = "load"]]

Elapse(i) ==
  /\ Registry!Elapse(i)
  /\ UNCHANGED <<scene, registry, watched, stateFile, boot, lock, th, unseen,
                 bounds>>

(* The timer thread calls _safe_reconcile, unless another timer did. *)
EnterFire(i) ==
  /\ Registry!EnterFire(i)
  /\ IF dirty THEN Start(i) ELSE UNCHANGED th
  /\ UNCHANGED <<scene, registry, watched, stateFile, boot, lock, unseen,
                 bounds>>

Flushed(i) ==
  /\ th[i].pc = "idle"
  /\ Registry!Flushed(i)
  /\ UNCHANGED <<scene, registry, watched, stateFile, boot, lock, th, unseen,
                 bounds>>

(* SIGHUP: the handler runs in the main thread, perhaps inside another one *)
(* that is thereby suspended.                                              *)
Hup ==
  /\ boot = "run"
  /\ hups < scene.hups
  /\ hups' = hups + 1
  /\ \/ th[Main].pc = "idle" /\ Start(Main)
     \/ /\ th[Main].pc # "idle" /\ th[Nested].pc = "idle"
        /\ "nest" \in scene.env
        /\ Start(Nested)
  /\ UNCHANGED <<scene, registry, watched, stateFile, boot, debouncer, lock,
                 unseen, changes, crashes>>

Runs(t) == t = Main => th[Nested].pc = "idle"

(* registry.load, without a lock. *)
Load(t) ==
  /\ Runs(t)
  /\ th[t].pc = "load"
  /\ th' = [th EXCEPT ![t].pc = "plan", ![t].want = registry]
  /\ unseen' = FALSE
  /\ UNCHANGED <<scene, registry, watched, stateFile, boot, debouncer, lock,
                 bounds>>

(* Watches that this reconcile has yet to remove or to add. *)
Pending(t) ==
  \/ th[t].gone \cup th[t].rebind \cup th[t].new # {}
  \/ th[t].again # None

(* `with self._lock`, before each of the steps that follow. *)
Acquire(t) ==
  /\ Runs(t)
  /\ th[t].pc \in {"plan", "list"} \/ (th[t].pc = "apply" /\ Pending(t))
  /\ lock = None
  /\ lock' = t
  /\ UNCHANGED <<scene, registry, watched, stateFile, boot, debouncer, th,
                 unseen, bounds>>

Locked(t, label) ==
  /\ Runs(t)
  /\ lock = t
  /\ th[t].pc = label
  /\ lock' = None
  /\ UNCHANGED <<scene, registry, stateFile, boot, debouncer, unseen, bounds>>

(* Mutant: a root that is watched for another project is left as it is. *)
Plan_NoRebind(t) ==
  /\ Locked(t, "plan")
  /\ th' = [th EXCEPT
       ![t].pc = "apply",
       ![t].gone = Roots(watched) \ Roots(th[t].want),
       ![t].new = Roots(th[t].want) \ Roots(watched)]
  /\ UNCHANGED watched

(* reconcile compares the wanted bindings with a copy of the present ones. *)
Plan(t) ==
  /\ Locked(t, "plan")
  /\ th' = [th EXCEPT
       ![t].pc = "apply",
       ![t].gone = Roots(watched) \ Roots(th[t].want),
       ![t].rebind = {r \in Roots(watched) \cap Roots(th[t].want) :
                        watched[r] # th[t].want[r]},
       ![t].new = Roots(th[t].want) \ Roots(watched)]
  /\ UNCHANGED watched

(* remove_root for the roots that go, then for one that is rebound. *)
remove_root(t, r) ==
  /\ Locked(t, "apply")
  /\ th[t].again = None
  /\ \/ /\ r \in th[t].gone
        /\ th' = [th EXCEPT ![t].gone = @ \ {r}]
     \/ /\ th[t].gone = {} /\ r \in th[t].rebind
        /\ th' = [th EXCEPT ![t].rebind = @ \ {r}, ![t].again = r]
  /\ watched' = [watched EXCEPT ![r] = None]

(* add_root for the rebound root, then for the new ones: a no-op when the  *)
(* root is watched by now.                                                 *)
add_root(t, r) ==
  /\ Locked(t, "apply")
  /\ \/ /\ r = th[t].again
        /\ th' = [th EXCEPT ![t].again = None]
     \/ /\ th[t].again = None /\ th[t].gone = {} /\ th[t].rebind = {}
        /\ r \in th[t].new
        /\ th' = [th EXCEPT ![t].new = @ \ {r}]
  /\ watched' = IF watched[r] # None THEN watched
                ELSE [watched EXCEPT ![r] = th[t].want[r]]

(* Mutant: the lock is not released on the way out. *)
add_root_fails_KeepsLock(t) ==
  /\ "fault" \in scene.env
  /\ Runs(t) /\ lock = t /\ th[t].pc = "apply"
  /\ \/ th[t].again # None
     \/ th[t].gone = {} /\ th[t].rebind = {} /\ th[t].new # {}
  /\ th' = [th EXCEPT ![t] = Quiet]
  /\ UNCHANGED <<scene, registry, watched, stateFile, boot, debouncer, lock,
                 unseen, bounds>>

(* observer.schedule raises: _safe_reconcile logs it and gives up. *)
add_root_fails(t) ==
  /\ "fault" \in scene.env
  /\ Locked(t, "apply")
  /\ \/ th[t].again # None
     \/ th[t].gone = {} /\ th[t].rebind = {} /\ th[t].new # {}
  /\ th' = [th EXCEPT ![t] = Quiet]
  /\ UNCHANGED watched

Applied(t) ==
  /\ Runs(t)
  /\ th[t].pc = "apply" /\ ~Pending(t)
  /\ th' = [th EXCEPT ![t].pc = "list"]
  /\ UNCHANGED <<scene, registry, watched, stateFile, boot, debouncer, lock,
                 unseen, bounds>>

watched_roots(t) ==
  /\ Locked(t, "list")
  /\ th' = [th EXCEPT ![t].pc = "write", ![t].list = Roots(watched)]
  /\ UNCHANGED watched

write_daemon_state(t) ==
  /\ Runs(t)
  /\ th[t].pc = "write"
  /\ stateFile' = th[t].list
  /\ th' = [th EXCEPT ![t] = Quiet]
  /\ UNCHANGED <<scene, registry, watched, boot, debouncer, lock, unseen,
                 bounds>>

-----------------------------------------------------------------------------
(* run_daemon: watch_registry follows the first reconcile. *)
watch_registry ==
  /\ boot = "reconcile"
  /\ th[Main].pc = "idle"
  /\ boot' = "run"
  /\ UNCHANGED <<scene, registry, watched, stateFile, debouncer, lock, th,
                 unseen, bounds>>

(* The daemon dies and its service manager starts it again. *)
Crash ==
  /\ crashes < scene.crashes
  /\ crashes' = crashes + 1
  /\ watched' = Unbound
  /\ boot' = "reconcile"
  /\ timer' = [i \in Registry!Timer |->
                IF timer[i] = "none" THEN "none" ELSE "done"]
  /\ dirty' = FALSE
  /\ lock' = None
  /\ th' = [t \in Thread |-> IF t = Main THEN [Quiet EXCEPT !.pc = "load"]
                                         ELSE Quiet]
  /\ UNCHANGED <<scene, registry, stateFile, unseen, changes, hups>>

-----------------------------------------------------------------------------
ReconcileStep(t) ==
  \/ Load(t) \/ Acquire(t) \/ Plan(t) \/ Applied(t)
  \/ \E r \in Root : remove_root(t, r) \/ add_root(t, r)
  \/ add_root_fails(t) \/ watched_roots(t) \/ write_daemon_state(t)

Next ==
  \/ \E r \in Root, s \in Slug \cup {None} : Register(r, s)
  \/ \E i \in Registry!Timer : Elapse(i) \/ EnterFire(i) \/ Flushed(i)
  \/ \E t \in Thread : ReconcileStep(t)
  \/ Hup \/ watch_registry \/ Crash

Spec == Init /\ [][Next]_vars

(* Timers fire, threads are scheduled, and a lock that is free is handed   *)
(* out: a reconcile is kept from it by finitely many others only.          *)
FairSpec ==
  /\ Spec
  /\ \A i \in Registry!Timer :
       WF_vars(Elapse(i)) /\ WF_vars(EnterFire(i)) /\ WF_vars(Flushed(i))
  /\ \A t \in Thread : WF_vars(ReconcileStep(t))
  /\ WF_vars(watch_registry)

-----------------------------------------------------------------------------
(* Nothing is registered while a reconcile or the boot is under way, no    *)
(* signal meets the handler of another one, no watch fails.                *)
Calm == scene.env = {}

(* Whatever is registered, removed or registered for another project ends  *)
(* up being watched for just that project (run_daemon: "newly-registered/  *)
(* removed roots are picked up without a restart").                        *)
AlwaysSettles == <>[](watched = registry)

(* Watches settle, through debounced bursts, overlapping reconciles of the *)
(* signal handler and a timer, crashes and restarts, if things are calm;   *)
(* and with the debouncer as the only trigger, the state file, which the   *)
(* server asks whether the daemon covers a repository, ends up true.       *)
Settles ==
  /\ Calm => AlwaysSettles
  /\ Calm /\ scene.hups = 0 => <>[](stateFile = Roots(watched))

(* Every reconcile comes to an end, failing watches and overlapping ones   *)
(* included: _lock is never kept.                                          *)
ReconcilesReturn ==
  "nest" \notin scene.env =>
    \A t \in Thread : []<>(th[t].pc = "idle")

(* No change of the registry is swallowed: the debouncer calls a reconcile *)
(* that reads it, and the reconcile returns.  Only a change before the     *)
(* file is watched, or a daemon that is deadlocked, escapes.               *)
ChangesAreLoaded ==
  /\ scene.env \cap {"gap", "nest"} = {} => []<>~unseen
  /\ ReconcilesReturn
=============================================================================
