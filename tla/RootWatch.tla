----------------------------- MODULE RootWatch -----------------------------
(***************************************************************************)
(* Which changes of a repository reach its index: the filters of events    *)
(* and polls (sync/watcher.py: Watcher; _RootHandler of the daemon is the  *)
(* same), what git calls changed, and what a walk or a re-ingest then      *)
(* reads.  Each has rules of its own for the files it looks at.            *)
(*                                                                         *)
(* A sync is one step, which may fail or be dropped: its interleavings are *)
(* those of SyncRepo, the window of the debouncer is in Debouncer.  The    *)
(* repository is bootstrapped when its watcher starts.                     *)
(***************************************************************************)
EXTENDS Gitignore, FiniteSets

CONSTANTS
  Path,                  \* the files
  EXCLUDED_ROOT_DIRS,    \* names the watcher skips, right below the root
  DEFAULT_IGNORE_DIRS,   \* names a walk skips, anywhere in a path
  None,                  \* no file, no commit
  Repos                  \* repositories, with what may happen to them

(* Restrictions of the environment that the property needs: "hide" lets    *)
(* files move into directories the watcher skips.                          *)
Acts == {"write", "skip", "remove", "move", "hide", "rename", "commit",
         "rebuild", "fail"}

Rules == Seq(Rule(UNION {{p[i] : i \in DOMAIN p} : p \in Path},
                  {SubSeq(p, 1, i) : p \in Path, i \in 0 .. 1}))

RootWatchAssumption ==
  /\ None \notin [of : Path, mtime : Nat, skipped : BOOLEAN]
  /\ \A r \in Repos :
       /\ r.rules \in Rules
       /\ r.tracked \subseteq Path /\ r.untracked \subseteq Path \ r.tracked
       /\ r.mode \in {"events", "polling"}
       /\ r.opens \in BOOLEAN     \* reading a file is an event (inotify)
       /\ r.linked \in BOOLEAN    \* a linked worktree: its refs are elsewhere
       /\ r.acts \subseteq Acts /\ r.writes \in Nat

VARIABLES
  repo,      \* the repository, whose .gitignore files do not change:
  matched,   \* what they keep out of a walk ...
  ignored,   \* ... and out of git status
  disk,      \* disk[f]: the version of f in the worktree, or None
  head,      \* the commit checked out: its number and its tree
  renamed,   \* files that went by a rename staged in git's index
  base,      \* the recorded commit, or None
  index,     \* index[f]: the version the entries of f come from, or None
  pending,   \* the debouncer will call _trigger_sync
  seen,      \* last_mtime and last_head of _run_poll
  missed,    \* what the property asks about: the last sync failed
  writes     \* changes and failures so far, and the clock of mtimes

fixed == <<repo, matched, ignored>>
vars == <<fixed, disk, head, renamed, base, index, pending, seen, missed,
          writes>>

(* A version is known by its mtime, which a move keeps, and the path it was*)
(* written at.  Some are too big or minified: extract_file returns None.   *)
Version == [of : Path, mtime : Nat, skipped : BOOLEAN]
Tree == [Path -> Version \cup {None}]
Commits == [sha : Nat, tree : Tree]

TypeOK ==
  /\ repo \in Repos
  /\ matched \subseteq Path /\ ignored \subseteq Path
  /\ disk \in Tree /\ index \in Tree
  /\ head \in Commits /\ base \in Commits \cup {None}
  /\ renamed \subseteq Path
  /\ pending \in BOOLEAN /\ missed \in BOOLEAN
  /\ seen \in [mtime : Nat, sha : Nat]
  /\ writes \in 0 .. repo.writes

Init ==
  /\ repo \in Repos
  /\ matched = {f \in Path : match(repo.rules, f)}
  /\ ignored = {f \in Path : GitIgnores(repo.rules, f)}
  /\ disk = [f \in Path |-> IF f \in repo.tracked \cup repo.untracked
                            THEN [of |-> f, mtime |-> 0, skipped |-> FALSE]
                            ELSE None]
  /\ head = [sha |-> 0, tree |-> [f \in Path |-> IF f \in repo.tracked
                                                 THEN disk[f] ELSE None]]
  /\ renamed = {}
  /\ base = None /\ index = [f \in Path |-> None]
  /\ pending = TRUE /\ missed = FALSE
  /\ seen = [mtime |-> 0, sha |-> 0]
  /\ writes = 0

-----------------------------------------------------------------------------
(* The watcher.                                                            *)


exclude(p) == p[1] \in EXCLUDED_ROOT_DIRS

_is_ref_event(p) ==
  /\ p[1] = ".git"
  /\ \/ p = <<".git", "HEAD">>
     \/ Len(p) >= 4 /\ SubSeq(p, 2, 3) = <<"refs", "heads">>

(* Mutant: what happens below .git is never news. *)
_handle_path_Files(p) == ~exclude(p)

_handle_path(p) == _is_ref_event(p) \/ ~exclude(p)

(* on_any_event for files below the root; of a moved file it takes the     *)
(* destination.                                                            *)
Noticed(paths) ==
  repo.mode = "events" /\ \E p \in paths : _handle_path(p)

Event(paths) == pending' = (pending \/ Noticed(paths))

_max_mtime ==
  LET watched == {f \in Path : disk[f] # None /\ ~exclude(f)}
      mtimes == {disk[f].mtime : f \in watched}
  IN  CHOOSE m \in mtimes \cup {0} : \A n \in mtimes : n <= m

Glance == [mtime |-> _max_mtime, sha |-> head.sha]

_run_poll ==
  /\ repo.mode = "polling" /\ seen # Glance
  /\ seen' = Glance /\ pending' = TRUE
  /\ UNCHANGED <<fixed, disk, head, renamed, base, index, missed, writes>>

-----------------------------------------------------------------------------
(* The developer.  An edit never brings an older version back.             *)

Does(act) == act \in repo.acts
Touch == writes < repo.writes /\ writes' = writes + 1
Ignored(f) == f \in ignored

Write(f) ==
  /\ Does("write") /\ Touch
  /\ \E skipped \in {FALSE} \cup (IF Does("skip") THEN {TRUE} ELSE {}) :
       disk' = [disk EXCEPT ![f] = [of |-> f, mtime |-> writes + 1,
                                    skipped |-> skipped]]
  /\ Event({f})
  /\ UNCHANGED <<fixed, head, renamed, base, index, seen, missed>>

(* Only files go that the recorded commit and HEAD have: what was indexed  *)
(* and never recorded stays in the index.                                  *)
Gone(f) ==
  /\ disk[f] # None /\ head.tree[f] # None
  /\ base # None /\ base.tree[f] # None

Remove(f) ==
  /\ Does("remove") /\ Gone(f) /\ Touch
  /\ disk' = [disk EXCEPT ![f] = None]
  /\ Event({f})
  /\ UNCHANGED <<fixed, head, renamed, base, index, seen, missed>>

(* mv, and git mv, which stages the rename. *)
Move(f, g, staged) ==
  /\ Does(IF staged THEN "rename" ELSE "move") /\ Gone(f) /\ Touch
  /\ disk[g] = None /\ head.tree[g] = None /\ base.tree[g] # disk[f]
  /\ exclude(g) => Does("hide")
  /\ staged => disk[f] = head.tree[f] /\ ~Ignored(f) /\ ~Ignored(g)
  /\ disk' = [disk EXCEPT ![g] = disk[f], ![f] = None]
  /\ renamed' = IF staged THEN renamed \cup {f} ELSE renamed
  /\ Event({g})
  /\ UNCHANGED <<fixed, head, base, index, seen, missed>>

(* git add -A; git commit. *)
Ref == <<".git", "refs", "heads", "main">>
Commit ==
  LET tree == [f \in Path |-> IF head.tree[f] = None /\ Ignored(f)
                              THEN None ELSE disk[f]]
  IN  /\ Does("commit") /\ tree # head.tree
      /\ head' = [sha |-> head.sha + 1, tree |-> tree]
      /\ renamed' = {}
      /\ Event(IF repo.linked THEN {} ELSE {Ref})
      /\ UNCHANGED <<fixed, disk, base, index, seen, missed, writes>>

-----------------------------------------------------------------------------
(* What is read.                                                           *)

(* Extractor.walk, and _count_ingestable_files, which counts the same.     *)
Walked(f) ==
  /\ \A i \in DOMAIN f : f[i] \notin DEFAULT_IGNORE_DIRS
  /\ f \notin matched

extract_file(f) == disk[f] # None /\ ~disk[f].skipped

(* reingest_file leaves the entries of a file alone that it cannot read.   *)
Reingested(entries, files) ==
  [f \in Path |-> IF f \in files /\ extract_file(f) THEN disk[f]
                  ELSE entries[f]]

Deleted(entries, files) ==
  [f \in Path |-> IF f \in files THEN None ELSE entries[f]]

dirty_files ==
  {f \in Path : /\ disk[f] \notin {None, head.tree[f]}
                /\ head.tree[f] # None \/ ~Ignored(f)}

dirty_deleted_files ==
  {f \in Path \ renamed : disk[f] = None /\ head.tree[f] # None}

(* What a sync writes is an event too: the databases are below data/, and  *)
(* inotify reports that files were opened.  Even a sync that is dropped    *)
(* has run git, which opens HEAD.                                          *)
Stirs(files) ==
  Noticed({<<"data", "episodic.db">>}
          \cup (IF repo.opens /\ ~repo.linked THEN {<<".git", "HEAD">>}
                ELSE {})
          \cup {f \in files : repo.opens /\ disk[f] # None})
Done(files) == pending' = Stirs(files)

Walk == [f \in Path |-> IF Walked(f) /\ extract_file(f) THEN disk[f]
                        ELSE None]
Full ==
  /\ index' = Walk
  /\ base' = head /\ missed' = FALSE
  /\ UNCHANGED <<fixed, disk, head, renamed, seen>>

FirstIngest ==
  /\ pending /\ base = None /\ Full
  /\ Done({f \in Path : Walked(f)}) /\ UNCHANGED writes

(* ingest --full, by hand: the watcher still does what it was about to do. *)
Rebuild ==
  /\ Does("rebuild") /\ base # None /\ Touch /\ Full
  /\ pending' = (pending \/ Stirs({f \in Path : Walked(f)}))

(* sync_repo at the recorded commit. *)
DirtyOnly ==
  /\ pending /\ base # None /\ base.sha = head.sha
  /\ index' = Deleted(Reingested(index, dirty_files), dirty_deleted_files)
  /\ Done(dirty_files) /\ missed' = FALSE
  /\ UNCHANGED <<fixed, disk, head, renamed, base, seen, writes>>

(* ... and after HEAD moved. *)
changed == {f \in Path : head.tree[f] \notin {None, base.tree[f]}}
deleted == {f \in Path : head.tree[f] = None /\ base.tree[f] # None}
reingest_paths == changed \cup dirty_files
Delta == Reingested(Deleted(index, deleted \cup dirty_deleted_files),
                    reingest_paths)
Incremental ==
  /\ pending /\ base # None /\ base.sha # head.sha
  /\ index' = Delta /\ base' = head
  /\ Done(reingest_paths) /\ missed' = FALSE
  /\ UNCHANGED <<fixed, disk, head, renamed, seen, writes>>

_trigger_sync == FirstIngest \/ DirtyOnly \/ Incremental

(* A sync that finds the slot taken returns, an exception is logged, and   *)
(* nobody tries again.  Some files were done; of the one in hand, or of    *)
(* all while the collection is swapped, the old entries may be gone.       *)
SyncFails ==
  LET after == IF base = None THEN Walk ELSE Delta
      reads == IF base = None THEN {f \in Path : Walked(f)}
               ELSE reingest_paths
      work == IF base = None THEN Path
              ELSE reingest_paths \cup deleted \cup dirty_deleted_files
  IN  /\ Does("fail") /\ pending /\ Touch
      /\ \E done \in SUBSET work, torn \in {{}} \cup {{f} : f \in work} :
           index' = [f \in Path |-> IF f \in torn THEN None
                                    ELSE IF f \in done THEN after[f]
                                    ELSE index[f]]
      /\ missed' = TRUE
      /\ \E read \in {{}, reads} : Done(read)
      /\ UNCHANGED <<fixed, disk, head, renamed, base, seen>>

Next ==
  \/ \E f \in Path : Write(f) \/ Remove(f)
  \/ \E f, g \in Path, staged \in BOOLEAN : Move(f, g, staged)
  \/ Commit \/ Rebuild
  \/ _run_poll \/ _trigger_sync \/ SyncFails

Spec ==
  Init /\ [][Next]_vars /\ WF_vars(_run_poll) /\ WF_vars(_trigger_sync)

-----------------------------------------------------------------------------
(* Where the watcher looks, or at a commit it hears of.                    *)
InSight(f) ==
  exclude(f) => /\ disk[f] = head.tree[f]
                /\ repo.mode = "polling" \/ ~repo.linked

(* git and a walk may disagree about an untracked file.                    *)
Agreed(f) ==
  head.tree[f] # None \/ (Ignored(f) <=> f \in matched)

(* The entries of a file are those of its version, or there are none; and  *)
(* what a walk would read has entries.  A file that can no longer be read, *)
(* and the source of a rename that is staged, keep theirs.                 *)
Followed ==
  \A f \in Path :
    (InSight(f) /\ Agreed(f) /\ f \notin renamed
     /\ (disk[f] # None => extract_file(f))) =>
      /\ index[f] \in {None, disk[f]}
      /\ Walked(f) => index[f] = disk[f]

(* Nothing is pending, nor would a poll find anything. *)
Idle == ~pending /\ (repo.mode = "polling" => seen = Glance)
AtRest == Idle /\ base # None

(* A watcher at rest whose last sync went through has missed nothing,      *)
(* whatever failed before, as long as it hears of every change: of a move  *)
(* it hears where the file went, of a commit of a linked worktree nothing, *)
(* and polls look for files that are newer.                                *)
Heard ==
  /\ ~Does("hide")
  /\ repo.mode = "events" /\ repo.linked => ~Does("rename")
  /\ repo.mode = "polling" => \A a \in {"remove", "move", "rename"} : ~Does(a)
FollowedAtRest == AtRest /\ Heard /\ ~missed => Followed

(* What a sync writes and reads does not start the next one, but for the   *)
(* files it opens where that is an event: HEAD, and uncommitted files.     *)
Calm ==
  pending => /\ repo.opens
             /\ ~repo.linked \/ \E f \in dirty_files : ~exclude(f)

(* Once edits and failures end, the index follows every file the watcher   *)
(* can see, unless the last sync failed and nothing started another; and   *)
(* the watcher comes to rest.                                              *)
IndexFollows == <>[](Calm /\ (Followed \/ (missed /\ Idle)))
=============================================================================
