---------------------------- MODULE SingleFlight ----------------------------
(***************************************************************************)
(* sync/single_flight.py for one (root, project) key: try_acquire and      *)
(* release as they are called by the threads of several processes (the     *)
(* MCP server, the watch daemon, `code-memory ingest`, `sync`).            *)
(*                                                                         *)
(* Inside a process the slot is guarded by _registry_lock and _held;       *)
(* between processes by a PID lock file.  Every system call on the lock    *)
(* file (stat, read, kill, unlink, open, write) is a step of its own, so   *)
(* the steps of two processes interleave as the kernel allows.  The file   *)
(* is modelled with the identity of the inode: a write through a           *)
(* descriptor whose path was unlinked meanwhile is lost.                   *)
(***************************************************************************)
EXTENDS Naturals, FiniteSets

CONSTANTS
  Proc,          \* processes; a process stands for its PID
  Thread,        \* threads that ask for the slot
  ProcOf,        \* the process a thread runs in
  None,          \* no thread, no process, no content
  MaxCrashes,    \* bound: processes that may die
  Overlap,       \* may attempts of different processes overlap in time?
  SlowHolders    \* may a live rebuild outlast _LOCK_TTL_SECONDS?

ASSUME SingleFlightAssumption ==
  /\ ProcOf \in [Thread -> Proc]
  /\ None \notin Thread
  /\ None \notin Proc
  /\ MaxCrashes \in Nat
  /\ Overlap \in BOOLEAN
  /\ SlowHolders \in BOOLEAN

VARIABLES
  proc,       \* proc[p]: "up", "dead", or "reused" (another program's PID)
  registry,   \* registry[p]: the thread inside p's _registry_lock, or None
  held,       \* processes whose _held contains the key
  file,       \* the lock file: creating thread, PID written, older than TTL
  pc,         \* pc[t]: the next system call of t
  attempt,    \* attempt[t]: 1 before the first os.open, 2 after it failed
  seen        \* seen[t]: PID that t read from the lock file

vars == <<proc, registry, held, file, pc, attempt, seen>>

Labels == {"idle", "exists", "stat", "read", "kill", "unlink", "create",
           "write", "hold"}

NoFile == [creator |-> None, pid |-> None, old |-> FALSE]

TypeOK ==
  /\ proc \in [Proc -> {"up", "dead", "reused"}]
  /\ registry \in [Proc -> Thread \cup {None}]
  /\ held \in SUBSET Proc
  /\ file \in [creator : Thread \cup {None}, pid : Proc \cup {None},
               old : BOOLEAN]
  /\ pc \in [Thread -> Labels]
  /\ attempt \in [Thread -> {1, 2}]
  /\ seen \in [Thread -> Proc \cup {None}]

Init ==
  /\ proc = [p \in Proc |-> "up"]
  /\ registry = [p \in Proc |-> None]
  /\ held = {}
  /\ file = NoFile
  /\ pc = [t \in Thread |-> "idle"]
  /\ attempt = [t \in Thread |-> 1]
  /\ seen = [t \in Thread |-> None]

-----------------------------------------------------------------------------
Linked == file.creator # None

Attempting(t) == pc[t] \notin {"idle", "hold"}

Goto(t, label) == pc' = [pc EXCEPT ![t] = label]

(* Mutant: the key is not looked up in _held. *)
Enter_NoHeldCheck(t) ==
  /\ pc[t] = "idle"
  /\ proc[ProcOf[t]] = "up"
  /\ registry[ProcOf[t]] = None
  /\ Overlap \/ \A u \in Thread : ~Attempting(u)
  /\ registry' = [registry EXCEPT ![ProcOf[t]] = t]
  /\ Goto(t, "exists")
  /\ attempt' = [attempt EXCEPT ![t] = 1]
  /\ seen' = [seen EXCEPT ![t] = None]
  /\ UNCHANGED <<proc, held, file>>

(* try_acquire: `with _registry_lock`, then `if k in _held: return False`, *)
(* which changes nothing and so is left to stuttering.                     *)
Enter(t) ==
  /\ pc[t] = "idle"
  /\ proc[ProcOf[t]] = "up"
  /\ registry[ProcOf[t]] = None
  /\ ProcOf[t] \notin held
  /\ Overlap \/ \A u \in Thread : ~Attempting(u)
  /\ registry' = [registry EXCEPT ![ProcOf[t]] = t]
  /\ Goto(t, "exists")
  /\ attempt' = [attempt EXCEPT ![t] = 1]
  /\ seen' = [seen EXCEPT ![t] = None]
  /\ UNCHANGED <<proc, held, file>>

(* Mutant: an existing lock file is removed without examining it. *)
Exists_NoStaleCheck(t) ==
  /\ pc[t] = "exists"
  /\ Goto(t, IF Linked THEN "unlink" ELSE "create")
  /\ UNCHANGED <<proc, registry, held, file, attempt, seen>>

(* `path.exists()`: only an existing file is examined before os.open. *)
Exists(t) ==
  /\ pc[t] = "exists"
  /\ Goto(t, IF Linked THEN "stat" ELSE "create")
  /\ UNCHANGED <<proc, registry, held, file, attempt, seen>>

(* Mutant: the age of the file is not looked at. *)
Stat_NoTtl(t) ==
  /\ pc[t] = "stat"
  /\ Goto(t, IF ~Linked THEN "unlink" ELSE "read")
  /\ UNCHANGED <<proc, registry, held, file, attempt, seen>>

(* _is_stale, first half: a missing file or one older than the TTL is      *)
(* stale, whoever owns it.                                                 *)
Stat(t) ==
  /\ pc[t] = "stat"
  /\ Goto(t, IF ~Linked \/ file.old THEN "unlink" ELSE "read")
  /\ UNCHANGED <<proc, registry, held, file, attempt, seen>>

(* _read_pid_file: a missing or still empty file yields None, hence stale. *)
ReadPid(t) ==
  /\ pc[t] = "read"
  /\ Goto(t, IF file.pid = None THEN "unlink" ELSE "kill")
  /\ seen' = [seen EXCEPT ![t] = file.pid]
  /\ UNCHANGED <<proc, registry, held, file, attempt>>

(* The attempt fails: try_acquire leaves _registry_lock and returns False. *)
Refuse(t) ==
  /\ Goto(t, "idle")
  /\ registry' = [registry EXCEPT ![ProcOf[t]] = None]

(* Mutant: the answer of kill(pid, 0) is read the wrong way round. *)
Kill_Inverted(t) ==
  /\ pc[t] = "kill"
  /\ Goto(t, IF proc[seen[t]] # "dead" THEN "unlink" ELSE "create")
  /\ UNCHANGED <<proc, registry, held, file, attempt, seen>>

(* _pid_alive(seen): a dead owner makes the file stale, and so does a PID  *)
(* that a process of another user has by now (EPERM is an OSError too).    *)
(* A live one lets the first examination go on to os.open and ends the     *)
(* second one.                                                             *)
Kill(t) ==
  /\ pc[t] = "kill"
  /\ \/ /\ proc[seen[t]] # "up"
        /\ Goto(t, "unlink")
        /\ UNCHANGED registry
     \/ /\ proc[seen[t]] # "dead"
        /\ attempt[t] = 1
        /\ Goto(t, "create")
        /\ UNCHANGED registry
     \/ /\ proc[seen[t]] # "dead"
        /\ attempt[t] = 2
        /\ Refuse(t)
  /\ UNCHANGED <<proc, held, file, attempt, seen>>

(* `path.unlink(missing_ok=True)`: whatever file has the name by now. *)
Unlink(t) ==
  /\ pc[t] = "unlink"
  /\ file' = NoFile
  /\ Goto(t, "create")
  /\ UNCHANGED <<proc, registry, held, attempt, seen>>

(* Mutant: os.open without O_EXCL. *)
Create_NoExcl(t) ==
  /\ pc[t] = "create"
  /\ file' = [creator |-> t, pid |-> None, old |-> FALSE]
  /\ Goto(t, "write")
  /\ UNCHANGED <<proc, registry, held, attempt, seen>>

(* Mutant: the file is re-examined and opened again without end. *)
Create_RetryForever(t) ==
  /\ pc[t] = "create"
  /\ \/ /\ ~Linked
        /\ file' = [creator |-> t, pid |-> None, old |-> FALSE]
        /\ Goto(t, "write")
     \/ /\ Linked
        /\ Goto(t, "stat")
        /\ UNCHANGED file
  /\ UNCHANGED <<proc, registry, held, attempt, seen>>

(* os.open(O_CREAT | O_EXCL): creates an empty file or fails.  The first   *)
(* failure re-examines the file, the second one refuses.                   *)
Create(t) ==
  /\ pc[t] = "create"
  /\ \/ /\ ~Linked
        /\ file' = [creator |-> t, pid |-> None, old |-> FALSE]
        /\ Goto(t, "write")
        /\ UNCHANGED <<registry, attempt>>
     \/ /\ Linked
        /\ attempt[t] = 1
        /\ attempt' = [attempt EXCEPT ![t] = 2]
        /\ Goto(t, "stat")
        /\ UNCHANGED <<registry, file>>
     \/ /\ Linked
        /\ attempt[t] = 2
        /\ Refuse(t)
        /\ UNCHANGED <<file, attempt>>
  /\ UNCHANGED <<proc, held, seen>>

(* os.write of the PID through the descriptor, then `_held.add(k)` and the *)
(* end of the critical section: try_acquire returns True.                  *)
Write(t) ==
  /\ pc[t] = "write"
  /\ file' = IF file.creator = t THEN [file EXCEPT !.pid = ProcOf[t]] ELSE file
  /\ held' = held \cup {ProcOf[t]}
  /\ registry' = [registry EXCEPT ![ProcOf[t]] = None]
  /\ Goto(t, "hold")
  /\ UNCHANGED <<proc, attempt, seen>>

(* release: discards the key and unlinks the file without looking whose    *)
(* file it is.                                                             *)
Release(t) ==
  /\ pc[t] = "hold"
  /\ registry[ProcOf[t]] = None
  /\ held' = held \ {ProcOf[t]}
  /\ file' = NoFile
  /\ Goto(t, "idle")
  /\ UNCHANGED <<proc, registry, attempt, seen>>

-----------------------------------------------------------------------------
(* The environment. *)

(* A process dies: its memory is lost, its lock file stays. *)
Crash(p) ==
  /\ proc[p] = "up"
  /\ Cardinality({q \in Proc : proc[q] # "up"}) < MaxCrashes
  /\ proc' = [proc EXCEPT ![p] = "dead"]
  /\ held' = held \ {p}
  /\ registry' = [registry EXCEPT ![p] = None]
  /\ pc' = [t \in Thread |-> IF ProcOf[t] = p THEN "idle" ELSE pc[t]]
  /\ UNCHANGED <<file, attempt, seen>>

(* The PID of a dead process is given to an unrelated program. *)
ReusePid(p) ==
  /\ proc[p] = "dead"
  /\ proc' = [proc EXCEPT ![p] = "reused"]
  /\ UNCHANGED <<registry, held, file, pc, attempt, seen>>

(* The age of the lock file passes _LOCK_TTL_SECONDS. *)
Expire ==
  /\ Linked
  /\ ~file.old
  /\ SlowHolders \/ pc[file.creator] \notin {"write", "hold"}
  /\ file' = [file EXCEPT !.old = TRUE]
  /\ UNCHANGED <<proc, registry, held, pc, attempt, seen>>

-----------------------------------------------------------------------------
Step(t) == \/ Exists(t) \/ Stat(t) \/ ReadPid(t) \/ Kill(t)
           \/ Unlink(t) \/ Create(t) \/ Write(t) \/ Release(t)

Next ==
  \/ \E t \in Thread : Enter(t) \/ Step(t)
  \/ \E p \in Proc : Crash(p) \/ ReusePid(p)
  \/ Expire

Spec == Init /\ [][Next]_vars

(* A thread that is scheduled finishes its system calls and its rebuild;   *)
(* time passes; and somebody keeps asking for the slot (watch events,      *)
(* queries and polls recur).  Nothing is assumed about who.                *)
Fairness ==
  /\ \A t \in Thread : WF_vars(Step(t))
  /\ WF_vars(Expire)
  /\ WF_vars(\E t \in Thread : Enter(t))

FairSpec == Spec /\ Fairness

-----------------------------------------------------------------------------
(* "Ensures at most one concurrent rebuild runs for a given (root,         *)
(* project) pair": no two threads are inside the slot.                     *)
AtMostOneRebuild ==
  \A t, u \in Thread : pc[t] = "hold" /\ pc[u] = "hold" => t = u

(* The threads of one process exclude each other whatever happens to the   *)
(* lock file (eviction after the TTL, release by an evicted process): the  *)
(* registry alone, _held, carries that.                                    *)
InProcessExclusion ==
  \A t, u \in Thread :
    pc[t] = "hold" /\ pc[u] = "hold" /\ ProcOf[t] = ProcOf[u] => t = u

(* release unlinks by name: the file it removes is the one the releasing   *)
(* thread wrote, never the lock of a rebuild that started in the meantime. *)
ReleaseRemovesOwnFile ==
  [][\A t \in Thread : Release(t) => file.creator = t]_vars

(* "a crashed rebuild doesn't block forever": a lock file whose process    *)
(* died is eventually evicted, even if the PID is in use again.            *)
CrashedHolderReclaimed ==
  \A t \in Thread :
    file.creator = t /\ proc[ProcOf[t]] # "up" ~> file.creator # t

(* try_acquire "never raises", and it returns: it examines the file at     *)
(* most twice however the file changes under it.                           *)
AttemptsReturn ==
  \A t \in Thread : Attempting(t) ~> ~Attempting(t)

-----------------------------------------------------------------------------
(* The slot as its callers see it. *)
Holders == {t \in Thread : pc[t] = "hold"}

Holder == IF Holders = {} THEN None ELSE CHOOSE t \in Holders : TRUE

Promise == INSTANCE Slot WITH holder <- Holder

(* Seen from outside, taking the slot, leaving it and losing it to a crash *)
(* are the steps of one abstract slot that is empty before it is taken.    *)
ImplementsSlot == Promise!Spec

(* The inductive strengthening of AtMostOneRebuild when attempts do not    *)
(* overlap and no live rebuild outlasts the TTL.                           *)
SerialInv ==
  /\ TypeOK
  /\ \A t, u \in Thread : Attempting(t) /\ Attempting(u) => t = u
  /\ \A t \in Thread : pc[t] # "idle" => proc[ProcOf[t]] = "up"
  /\ \A t \in Thread :
       pc[t] = "hold" =>
         file = [creator |-> t, pid |-> ProcOf[t], old |-> FALSE]
  /\ \A t \in Thread :
       pc[t] = "write" =>
         /\ file = [creator |-> t, pid |-> None, old |-> FALSE]
         /\ Holders = {}
  /\ \A t \in Thread : pc[t] = "unlink" => Holders = {}
  /\ \A t, u \in Thread :
       pc[t] = "kill" /\ pc[u] = "hold" => seen[t] = ProcOf[u]
  /\ \A t \in Thread : pc[t] = "kill" => seen[t] \in Proc
=============================================================================
