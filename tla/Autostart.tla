----------------------------- MODULE Autostart ------------------------------
(***************************************************************************)
(* sync/registry.py, sync/autostart/ and the callers in cli.py and         *)
(* mcp_server.py: how a repository comes to be watched after a boot.       *)
(*                                                                         *)
(* A client is a booting MCP server, a `hooks install` or `autostart       *)
(* install`, an `autostart migrate`, or an `autostart uninstall`, each in  *)
(* one repository.  Clients share the registry file (under a flock), the   *)
(* legacy units (one per root), the unit of the single daemon and the      *)
(* state file it writes.  WatchDaemon has the daemon itself in detail.     *)
(***************************************************************************)
EXTENDS Integers, FiniteSets

CONSTANTS
  Root,
  Client,
  AutostartScenes   \* environments, see AutostartScene

AutostartScene ==
  [job : [Client -> {"boot", "install", "migrate", "uninstall"}],
   repo : [Client -> Root],
   mac : BOOLEAN,              \* launchd, whose plists seed_from_units reads
   manager : BOOLEAN,          \* does the service manager start units?
   legacy : SUBSET Root,       \* units of an older version
   linked : SUBSET Root,       \* linked worktrees and session directories
   stale : BOOLEAN,            \* a dead daemon left its state file
   faults : Nat]               \* bound

AutostartAssumption == AutostartScenes \subseteq AutostartScene

VARIABLES
  env,        \* the environment
  present,    \* roots whose directory exists
  registry,   \* roots in watch-registry.json
  holders,    \* clients that hold the flock
  legacy,     \* roots whose legacy unit is installed, and so running
  unit,       \* is the daemon's unit installed?
  daemon,     \* the running daemon: its pid (0: none) and its roots
  due,        \* is a reconcile of the daemon triggered?
  state,      \* the state file: pid and roots
  client,
  pids, faults,
  steady,     \* history: roots whose directory never went away
  added,      \* history: roots whose add returned
  migrated    \* history: roots whose legacy unit a migration removed

files == <<registry, holders, legacy, unit, state>>
history == <<steady, added, migrated>>
vars == <<env, present, daemon, due, client, pids, faults, files, history>>

Process == [pid : Nat, roots : SUBSET Root]
NoProcess == [pid |-> 0, roots |-> {}]

Live == present \ env.linked     \* is_dir and not is_non_persistent_watch_dir
At(c, pc) == client[c].pc = pc
Go(c, pc) == client' = [client EXCEPT ![c].pc = pc]
Repo(c) == env.repo[c]

New == [pc |-> "start", raw |-> {}, todo |-> {}, units |-> {}, seeded |-> {}]

TypeOK ==
  /\ env \in AutostartScenes
  /\ registry \subseteq Root /\ legacy \subseteq Root
  /\ holders \subseteq Client /\ Cardinality(holders) <= 1
  /\ daemon \in Process /\ state \in Process
  /\ \A c \in Client : client[c].raw \cup client[c].todo \subseteq Root

Init ==
  /\ env \in AutostartScenes
  /\ present = Root
  /\ registry = IF env.stale THEN Root \ env.linked ELSE {}
  /\ holders = {}
  /\ legacy = env.legacy
  /\ unit = env.stale
  /\ daemon = NoProcess /\ due = FALSE
  /\ state = IF env.stale THEN [pid |-> 1, roots |-> Root \ env.linked]
             ELSE NoProcess
  /\ client = [c \in Client |-> New]
  /\ pids = 1 /\ faults = 0
  /\ steady = Root \ env.linked
  /\ added = {} /\ migrated = {}

-----------------------------------------------------------------------------
(* registry.py: add, prune and the adds of seed_from_units take the flock, *)
(* read, and replace the file atomically.                                  *)
Writing(c) == \E pc \in {"prune", "add", "seed"} : At(c, pc)

(* Mutant: LOCK_SH instead of LOCK_EX. *)
Lock_Shared(c) ==
  /\ Writing(c) /\ c \notin holders
  /\ holders' = holders \cup {c}
  /\ client' = [client EXCEPT ![c].raw = registry]
  /\ UNCHANGED <<env, present, registry, legacy, unit, daemon, due, state,
                 pids, faults, history>>

Lock(c) ==
  /\ Writing(c) /\ holders = {}
  /\ holders' = {c}
  /\ client' = [client EXCEPT ![c].raw = registry]
  /\ UNCHANGED <<env, present, registry, legacy, unit, daemon, due, state,
                 pids, faults, history>>

(* The rest of _with_lock: mutate, _atomic_write (which the daemon's watch *)
(* of the file notices), unlock.                                           *)
Replace(c, new, pc, rest) ==
  /\ c \in holders /\ holders' = holders \ {c}
  /\ registry' = new
  /\ due' = (daemon.pid # 0)
  /\ client' = [client EXCEPT ![c].pc = pc, ![c].todo = rest, ![c].raw = {}]
  /\ UNCHANGED <<env, present, legacy, unit, daemon, state, pids, faults,
                 steady, migrated>>

(* prune drops roots that are gone or not persistent; ensure_autostart     *)
(* then refuses a repository that is not.                                  *)
prune(c) ==
  /\ At(c, "prune")
  /\ Replace(c, client[c].raw \cap Live,
             IF Repo(c) \in env.linked THEN "list" ELSE "add", {})
  /\ UNCHANGED added

add(c) ==
  /\ At(c, "add")
  /\ Replace(c, client[c].raw \cup {Repo(c)}, "deploy", {})
  /\ added' = added \cup {Repo(c)}

seed_from_units(c) ==
  /\ At(c, "seed")
  /\ \E r \in client[c].todo :
       /\ Replace(c, client[c].raw \cup {r}, "seed", client[c].todo \ {r})
       /\ added' = added \cup {r}

-----------------------------------------------------------------------------
(* A booting server, which leaves a directory without repository alone,    *)
(* first removes the units of roots that are gone or not persistent (an    *)
(* adapter's prune_stale).  mcp_server._bootstrap_repo, cli.autostart_*.   *)
Start(c) ==
  /\ At(c, "start")
  /\ \/ /\ env.job[c] = "boot"
        /\ IF Repo(c) \in present
           THEN Go(c, "prune") /\ legacy' = legacy \cap Live
           ELSE Go(c, "end") /\ UNCHANGED legacy
     \/ /\ env.job[c] = "install"
        /\ Go(c, IF Repo(c) \in Live THEN "add" ELSE "end")
        /\ UNCHANGED legacy
     \/ /\ env.job[c] = "uninstall"
        /\ Go(c, "end") /\ legacy' = legacy \ {Repo(c)}
     \/ env.job[c] = "migrate" /\ Go(c, "list") /\ UNCHANGED legacy
  /\ UNCHANGED <<env, present, registry, holders, unit, daemon, due, state,
                 pids, faults, history>>

(* The rest of ensure_autostart: install_daemon and start_daemon. *)
ensure_autostart(c) ==
  /\ At(c, "deploy")
  /\ unit' = TRUE
  /\ Go(c, IF env.job[c] = "boot" THEN "list" ELSE "end")
  /\ UNCHANGED <<env, present, registry, holders, legacy, daemon, due, state,
                 pids, faults, history>>

-----------------------------------------------------------------------------
(* cli.autostart_migrate: the legacy units, then the roots to seed.  Only  *)
(* launchd's plists are read by seed_from_units; the working directories   *)
(* of the units count as seeded on every system.                           *)
list_legacy_units(c) ==
  /\ At(c, "list")
  /\ client' = [client EXCEPT ![c].pc = "scan", ![c].units = legacy,
                              ![c].seeded = legacy]
  /\ UNCHANGED <<env, present, daemon, due, pids, faults, files, history>>

Scan(c) ==
  /\ At(c, "scan")
  /\ LET found == IF env.mac THEN legacy \cap present ELSE {}
     IN  client' = [client EXCEPT ![c].pc = "seed", ![c].todo = found,
                                  ![c].seeded = @ \cup found]
  /\ UNCHANGED <<env, present, daemon, due, pids, faults, files, history>>

Leave(c) ==    \* where a client goes after its migration
  IF env.job[c] = "boot" THEN "cover" ELSE "end"

(* Nothing to migrate and the daemon runs; or install and start it. *)
Deploy(c) ==
  /\ At(c, "seed") /\ client[c].todo = {} /\ c \notin holders
  /\ IF client[c].units = {} /\ unit /\ daemon.pid # 0
     THEN Go(c, Leave(c)) /\ UNCHANGED unit
     ELSE unit' = TRUE /\ Go(c, "verify")
  /\ UNCHANGED <<env, present, registry, holders, legacy, daemon, due, state,
                 pids, faults, history>>

(* _migrate_state_covers: the state file is of a live daemon and has every *)
(* seeded root; until MIGRATE_VERIFY_TIMEOUT_S.                            *)
Covers(c) ==
  /\ state.pid # 0 /\ state.pid = daemon.pid
  /\ client[c].seeded \subseteq state.roots

_migrate_wait_for_coverage(c) ==
  /\ At(c, "verify")
  /\ Go(c, IF Covers(c) THEN "teardown" ELSE Leave(c))
  /\ UNCHANGED <<env, present, daemon, due, pids, faults, files, history>>

(* remove_legacy_unit, one unit after the other. *)
remove_legacy_unit(c) ==
  /\ At(c, "teardown")
  /\ IF client[c].units = {}
     THEN Go(c, Leave(c)) /\ UNCHANGED <<legacy, migrated>>
     ELSE \E r \in client[c].units :
            /\ legacy' = legacy \ {r}
            /\ migrated' = migrated \cup {r}
            /\ client' = [client EXCEPT ![c].units = @ \ {r}]
  /\ UNCHANGED <<env, present, registry, holders, unit, daemon, due, state,
                 pids, faults, steady, added>>

(* _daemon_covers_repo: the state file alone decides whether the server    *)
(* watches the repository itself.                                          *)
_daemon_covers_repo_Open(c) ==   \* Mutant: no state file counts as covered
  state.pid = 0 \/ Repo(c) \in state.roots

_daemon_covers_repo(c) == Repo(c) \in state.roots

_bootstrap_repo(c) ==
  /\ At(c, "cover")
  /\ Go(c, IF _daemon_covers_repo(c) THEN "serving" ELSE "watching")
  /\ UNCHANGED <<env, present, daemon, due, pids, faults, files, history>>

-----------------------------------------------------------------------------
(* launchd (RunAtLoad, KeepAlive) or systemd (Restart=on-failure) keeps    *)
(* the daemon of an installed unit running.                                *)
OSStart ==
  /\ env.manager /\ unit /\ daemon.pid = 0
  /\ daemon' = [pid |-> pids + 1, roots |-> {}]
  /\ pids' = pids + 1 /\ due' = TRUE
  /\ UNCHANGED <<env, present, client, faults, files, history>>

(* _safe_reconcile: load the registry, bind what is safe and persistent,   *)
(* write_daemon_state.  A root that is gone makes observer.schedule raise: *)
(* some of the new roots may be bound by then, and nothing is written.     *)
_safe_reconcile ==
  /\ daemon.pid # 0 /\ due /\ due' = FALSE
  /\ LET want == registry \ env.linked
         fresh == want \ daemon.roots
     IN  IF fresh \subseteq present
         THEN /\ daemon' = [daemon EXCEPT !.roots = want]
              /\ state' = daemon'
         ELSE /\ \E bound \in SUBSET (fresh \cap present) :
                   daemon' = [daemon EXCEPT !.roots = (@ \cap want) \cup bound]
              /\ UNCHANGED state
  /\ UNCHANGED <<env, present, registry, holders, legacy, unit, client, pids,
                 faults, history>>

Fault == faults < env.faults /\ faults' = faults + 1

DaemonDies ==
  /\ Fault /\ daemon.pid # 0 /\ daemon' = NoProcess /\ due' = FALSE
  /\ UNCHANGED <<env, present, client, pids, files, history>>

(* A killed client drops its flock with its file handle. *)
Killed(c) ==
  /\ Fault /\ ~At(c, "dead") /\ Go(c, "dead")
  /\ holders' = holders \ {c}
  /\ UNCHANGED <<env, present, registry, legacy, unit, daemon, due, state,
                 pids, history>>

(* A checkout is deleted, or its volume unmounted; or it comes back. *)
Vanish(r) ==
  /\ Fault
  /\ present' = IF r \in present THEN present \ {r} ELSE present \cup {r}
  /\ steady' = steady \ {r}
  /\ UNCHANGED <<env, daemon, due, client, pids, files, added, migrated>>

Work(c) ==
  \/ Start(c) \/ Lock(c) \/ prune(c) \/ add(c) \/ seed_from_units(c)
  \/ ensure_autostart(c) \/ list_legacy_units(c) \/ Scan(c)
  \/ Deploy(c) \/ _migrate_wait_for_coverage(c) \/ remove_legacy_unit(c)
  \/ _bootstrap_repo(c)

Next ==
  \/ \E c \in Client : Work(c) \/ Killed(c)
  \/ OSStart \/ _safe_reconcile \/ DaemonDies
  \/ \E r \in Root : Vanish(r)

Fairness ==
  /\ WF_vars(OSStart) /\ WF_vars(_safe_reconcile)
  /\ \A c \in Client : WF_vars(Work(c))

Spec == Init /\ [][Next]_vars /\ Fairness

-----------------------------------------------------------------------------
(* registry.py promises that concurrent writers never lose an update: a    *)
(* root whose add has returned stays, as long as its directory does.       *)
NoUpdateLost == added \cap steady \subseteq registry

(* A migration removes the unit of a root only when the daemon watches it: *)
(* the root is registered and the daemon's unit installed, whichever       *)
(* clients ran at the same time or died half-way.                          *)
MigratedIsKept ==
  \A r \in migrated \cap steady : unit /\ r \in registry

(* Is r watched: by the daemon, a legacy unit or a server?                 *)
Watched(r) ==
  \/ r \in daemon.roots
  \/ r \in legacy /\ env.manager
  \/ \E c \in Client : At(c, "watching") /\ Repo(c) = r

(* A server that came up in a repository has it watched, by the daemon or  *)
(* by itself.  Two exceptions the code leaves open: a dead daemon left its *)
(* state file and the service manager starts no units, the server trusts   *)
(* the file; and a registered checkout went away, the daemon's reconcile   *)
(* stops at it.                                                            *)
Up(c) == At(c, "serving") \/ At(c, "watching")
TrustedFile == env.stale /\ ~env.manager
BootedIsWatched ==
  \A c \in Client :
    []<>(\/ Watched(Repo(c)) \/ ~Up(c)
         \/ TrustedFile \/ steady # Root \ env.linked)
=============================================================================
