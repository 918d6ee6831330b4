------------------------------- MODULE MCHost -------------------------------
(* What keeps a machine watched and up to date: the watch daemon, the      *)
(* watcher of one root, the autostart of the daemon, the git hooks, the    *)
(* updater.  One of them is at work in a behaviour; Autostart has a        *)
(* coarser daemon of its own.                                              *)
EXTENDS WatchDaemon

CONSTANTS Client, AutostartScenes,
          Hook, Trigger, Foreign, MaxCommands, MaxEdits,
          Extra, Tool, Project, COMPOSE_PROJECT, Absent, Unlabelled,
          UpdaterScenes, MaxRuns,
          Path, EXCLUDED_ROOT_DIRS, DEFAULT_IGNORE_DIRS, Repos

VARIABLES
  part,
  env, present, entries, holders, legacy, unit, daemon, due, state, client,
  pids, faults, steady, added, migrated,
  file, command, last, broken, commands, edits,
  site, cli, extras, tools, box, run, runs, failures, stranded,
  repo, matched, ignored, disk, head, renamed, base, index, pending, seen,
  missed, writes

AS == INSTANCE Autostart WITH registry <- entries
HK == INSTANCE GitHooks
UP == INSTANCE Updater
RW == INSTANCE RootWatch

ASSUME HostAssumption ==
  /\ AS!AutostartAssumption /\ HK!HooksAssumption
  /\ UP!UpdaterAssumption /\ RW!RootWatchAssumption

autostartVars == <<env, present, entries, holders, legacy, unit, daemon, due,
                   state, client, pids, faults, steady, added, migrated>>
hookVars == <<file, command, last, broken, commands, edits>>
updaterVars == <<site, cli, extras, tools, box, run, runs, failures, stranded>>
rootVars == <<repo, matched, ignored, disk, head, renamed, base, index,
              pending, seen, missed, writes>>

(* A daemon that is not at work stays where it promises nothing. *)
MCInit ==
  /\ part \in {"watch", "root", "autostart", "hooks", "updater"}
  /\ part = "root" \/ repo = CHOOSE r \in Repos : TRUE
  /\ part = "autostart" \/ env = CHOOSE e \in AutostartScenes : TRUE
  /\ part = "hooks" \/ file = [h \in HK!Hooks |-> <<>>]
  /\ \/ part = "updater"
     \/ cli = TRUE /\ site = CHOOSE s \in UpdaterScenes : TRUE
  /\ Init /\ RW!Init /\ AS!Init /\ HK!Init /\ UP!Init
  /\ part = "watch" \/ ("nest" \in scene.env /\ registry = Unbound)

MCNext ==
  /\ UNCHANGED part
  /\ \/ /\ part = "watch" /\ Next
        /\ UNCHANGED rootVars /\ UNCHANGED autostartVars
        /\ UNCHANGED hookVars /\ UNCHANGED updaterVars
     \/ /\ part = "root" /\ RW!Next
        /\ UNCHANGED vars /\ UNCHANGED autostartVars
        /\ UNCHANGED hookVars /\ UNCHANGED updaterVars
     \/ /\ part = "autostart" /\ AS!Next
        /\ UNCHANGED vars /\ UNCHANGED rootVars
        /\ UNCHANGED hookVars /\ UNCHANGED updaterVars
     \/ /\ part = "hooks" /\ HK!Next
        /\ UNCHANGED vars /\ UNCHANGED rootVars
        /\ UNCHANGED autostartVars /\ UNCHANGED updaterVars
     \/ /\ part = "updater" /\ UP!Next
        /\ UNCHANGED vars /\ UNCHANGED rootVars
        /\ UNCHANGED autostartVars /\ UNCHANGED hookVars

Watching == part = "watch"
Starting == part = "autostart"
Rooted == part = "root"
MCSpec ==
  /\ MCInit /\ [][MCNext]_<<part, vars, autostartVars, hookVars,
                          updaterVars, rootVars>>
  /\ \A i \in Registry!Timer : /\ WF_vars(Watching /\ Elapse(i))
                               /\ WF_vars(Watching /\ EnterFire(i))
                               /\ WF_vars(Watching /\ Flushed(i))
  /\ \A t \in Thread : WF_vars(Watching /\ ReconcileStep(t))
  /\ WF_vars(Watching /\ watch_registry)
  /\ WF_autostartVars(Starting /\ AS!OSStart)
  /\ WF_autostartVars(Starting /\ AS!_safe_reconcile)
  /\ \A c \in Client : WF_autostartVars(Starting /\ AS!Work(c))
  /\ WF_rootVars(Rooted /\ RW!_run_poll)
  /\ WF_rootVars(Rooted /\ RW!_trigger_sync)

-----------------------------------------------------------------------------
(* Autostart: a root whose registration returned stays registered, however *)
(* writers of the registry overlap, and where a migration removed a legacy *)
(* unit the daemon has taken over.                                         *)
MCRegistryKept == AS!NoUpdateLost /\ AS!MigratedIsKept

(* Autostart: a repository in which a server came up is watched.           *)
MCBootedIsWatched == Starting => AS!BootedIsWatched


(* RootWatch: a watcher with nothing to do, whose last sync went through,  *)
(* has missed nothing, whatever failed before.                             *)
MCFollowedAtRest == RW!FollowedAtRest

(* GitHooks: a command that returned left one block of its version, or     *)
(* none, in every hook with whole markers.                                 *)
MCOneBlock == HK!OneBlock

(* GitHooks: lines of the user stay.                                       *)
MCForeignKept == HK!ForeignKept

(* Updater: the databases stay on the volumes of their compose project,    *)
(* and after a run that exits with 0 the extras are there.                 *)
MCUpdatesKeep == UP!DataKept /\ UP!ExtrasKept

-----------------------------------------------------------------------------
Scene(e, c, h, k) == [env |-> e, changes |-> c, hups |-> h, crashes |-> k]
MCScenarios ==
  {Scene({}, 2, 0, 1), Scene({}, 1, 1, 0),
   Scene({"overlap", "fault"}, 2, 0, 0), Scene({"gap", "nest"}, 1, 2, 0)}

MCHook == <<"post-checkout", "post-merge">>

Place(job1, job2, mac, manager, units, linked, stale) ==
  [job |-> [c \in Client |-> IF c = "c1" THEN job1 ELSE job2],
   repo |-> [c \in Client |-> IF c = "c1" THEN "r1" ELSE "r2"],
   mac |-> mac, manager |-> manager, legacy |-> units, linked |-> linked,
   stale |-> stale, faults |-> 1]
MCAutostartScenes ==
  {Place("boot", "migrate", m, TRUE, Root, l, FALSE) :
     m \in BOOLEAN, l \in {{}, {"r2"}}}
  \cup {Place("boot", "boot", FALSE, m, {}, {}, s) :
          m \in BOOLEAN, s \in BOOLEAN}
  \cup {Place(j, "migrate", TRUE, TRUE, Root, {}, FALSE) :
          j \in {"install", "uninstall"}}

Stack(f, q, t) ==
  [s \in {"cm-falkordb", "cm-qdrant", "cm-tei"} |->
     CASE s = "cm-falkordb" -> f
       [] s = "cm-qdrant" -> q
       [] s = "cm-tei" -> t]
Site(m, h, s, x, a) ==
  [method |-> m, composeHome |-> h, stack |-> s, extras |-> x,
   tools |-> {"plugin"}, asked |-> a, faults |-> 2]
MCUpdaterScenes ==
  {Site("pip", TRUE, Stack("docker", "docker", "docker"), {"dotnet"},
        SUBSET Extra),
   Site("pipx", FALSE, Stack(COMPOSE_PROJECT, COMPOSE_PROJECT, Absent), {},
        {Extra}),
   Site("uv-tool", TRUE, Stack(Unlabelled, "docker", Absent), {"dotnet"},
        {{"hybrid"}}),
   Site("editable", TRUE, Stack(Absent, Absent, Absent), {"dotnet"}, {{}}),
   Site("unknown", FALSE, Stack(Unlabelled, Unlabelled, Absent), {}, {{}})}

MCPath ==
  {<<"a.py">>, <<"pkg", "b.py">>, <<"data", "d.py">>, <<"vendor", "v.py">>,
   <<"gen", "k.py">>}
Words == UNION {{p[i] : i \in DOMAIN p} : p \in MCPath}

Pattern(kind, names) == [kind |-> kind, names |-> names]
Line(dir, pattern, negate, dirOnly, anchored) ==
  [base |-> dir, pattern |-> pattern, negate |-> negate,
   dirOnly |-> dirOnly, anchored |-> anchored]
(* gen/, !gen/k.py *)
Reincluded ==
  <<Line(<<>>, <<Pattern("word", {"gen"})>>, FALSE, TRUE, FALSE),
    Line(<<>>, <<Pattern("word", {"gen"}), Pattern("word", {"k.py"})>>,
         TRUE, FALSE, TRUE)>>
(* pkg/*.py, and !b.py in pkg *)
Overridden ==
  <<Line(<<>>, <<Pattern("word", {"pkg"}), Pattern("suffix", {"b.py"})>>,
         FALSE, FALSE, TRUE),
    Line(<<"pkg">>, <<Pattern("word", {"b.py"})>>, TRUE, FALSE, FALSE)>>
(* **/k.py *)
Anywhere ==
  <<Line(<<>>, <<Pattern("globstar", Words), Pattern("word", {"k.py"})>>,
         FALSE, FALSE, FALSE)>>
Under(rules, t, u, mode, opens, linked, acts, n) ==
  [rules |-> rules, tracked |-> t, untracked |-> u, mode |-> mode,
   opens |-> opens, linked |-> linked, acts |-> acts, writes |-> n]
MCRepos ==
  LET a == <<"a.py">>
      b == <<"pkg", "b.py">>
      d == <<"data", "d.py">>
      v == <<"vendor", "v.py">>
      k == <<"gen", "k.py">>
  IN  {Under(Overridden, {a, b, d}, {}, "events", FALSE, FALSE,
             {"write", "skip", "remove", "move", "rename", "commit"}, 2),
       Under(Reincluded, {a}, {k, v}, "events", TRUE, FALSE,
             {"write", "remove", "commit", "rebuild"}, 2),
       Under(Anywhere, {a, k}, {}, "events", TRUE, TRUE,
             {"write", "remove", "move", "commit"}, 2),
       Under(Overridden, {a, b}, {k}, "events", FALSE, FALSE,
             {"write", "remove", "commit", "fail"}, 2),
       Under(Overridden, {a, d}, {b}, "polling", FALSE, TRUE,
             {"write", "commit", "fail"}, 2)}
=============================================================================
