------------------------------- MODULE Updater -------------------------------
(***************************************************************************)
(* updater.py: `code-memory update` and `code-memory extras`, a chain of   *)
(* commands of other programs (uv, pipx, pip, docker compose, ollama,      *)
(* claude, npm), any of which may fail, and which the user may interrupt   *)
(* and run again.                                                          *)
(*                                                                         *)
(* Containers have fixed names; a named volume belongs to a compose        *)
(* project, so a container created under another project has another,      *)
(* empty volume.                                                           *)
(***************************************************************************)
EXTENDS Naturals, FiniteSets

CONSTANTS
  Extra,                 \* EXTRAS
  Tool,                  \* Ollama's model and the editors' plugins
  Project,               \* compose project names
  COMPOSE_PROJECT,
  Absent, Unlabelled,    \* no container; one that no compose created
  UpdaterScenes,         \* environments, see UpdaterScene
  MaxRuns                \* bound

Core == {"cm-falkordb", "cm-qdrant"}
COMPOSE_CONTAINERS == Core \cup {"cm-tei"}   \* tei's profile is opt-in
Owner == Project \cup {Absent, Unlabelled}
Method == {"uv-tool", "pipx", "pip", "editable", "unknown"}

UpdaterScene ==
  [method : Method,                  \* detect_install_method
   composeHome : BOOLEAN,            \* is the compose file in ~/.code-memory?
   stack : [COMPOSE_CONTAINERS -> Owner],
   extras : SUBSET Extra,            \* installed at first
   tools : SUBSET Tool,              \* installed at first
   asked : SUBSET (SUBSET Extra),    \* --extras or CODEMEMORY_EXTRAS; a set
                                     \* of answers if the user is prompted
   faults : Nat]                     \* bound: commands that fail

UpdaterAssumption ==
  /\ COMPOSE_PROJECT \in Project
  /\ {Absent, Unlabelled} \cap Project = {} /\ Absent # Unlabelled
  /\ UpdaterScenes \subseteq UpdaterScene

VARIABLES
  site,        \* the environment
  cli,         \* is the CLI the latest version?
  extras,      \* extras whose module the tool's environment has
  tools,       \* tools[x]: "absent", "old" or "new"
  box,         \* box[s]: the project that owns the container s
  run,         \* the running command
  runs, failures,
  stranded     \* history: a recovery removed the stack and did not bring it up

vars == <<site, cli, extras, tools, box, run, runs, failures, stranded>>

Idle == [pc |-> "idle", docker |-> FALSE, todo |-> {}, wanted |-> {},
         rc |-> 0, ended |-> FALSE, project |-> COMPOSE_PROJECT]

TypeOK ==
  /\ site \in UpdaterScenes
  /\ cli \in BOOLEAN /\ stranded \in BOOLEAN
  /\ extras \subseteq Extra
  /\ tools \in [Tool -> {"absent", "old", "new"}]
  /\ box \in [COMPOSE_CONTAINERS -> Owner]
  /\ run.rc \in {0, 1} /\ run.wanted \subseteq Extra

Init ==
  /\ site \in UpdaterScenes
  /\ cli \in BOOLEAN
  /\ extras = site.extras
  /\ tools = [x \in Tool |-> IF x \in site.tools THEN "old" ELSE "absent"]
  /\ box = site.stack
  /\ run = Idle /\ runs = 0 /\ failures = 0 /\ stranded = FALSE

At(pc) == run.pc = pc
Fault == failures < site.faults /\ failures' = failures + 1
Works == UNCHANGED failures
Missing == Extra \ extras

-----------------------------------------------------------------------------
(* build_plan: what is present is decided once, before anything is done.   *)
build_plan ==
  /\ At("idle") /\ runs < MaxRuns /\ runs' = runs + 1
  /\ run' = [Idle EXCEPT
               !.pc = "cli", !.wanted = extras,
               !.docker = site.composeHome \/ \E s \in Core : box[s] # Absent,
               !.todo = {x \in Tool : tools[x] # "absent"}]
  /\ UNCHANGED <<site, cli, extras, tools, box, failures, stranded>>

(* upgrade_cli: PyPI may be unreachable, the version is then "?" and taken *)
(* as current.  uv reinstalls the tool from the bare package, an exact     *)
(* environment without extras; pip and pipx keep what is there; editable   *)
(* and unknown installations are not upgraded.                             *)
upgrade_cli ==
  /\ At("cli")
  /\ \/ /\ cli \/ site.method \in {"uv-tool", "pipx", "pip"}
        /\ cli' = TRUE
        /\ extras' = IF ~cli /\ site.method = "uv-tool" THEN {} ELSE extras
        /\ run' = [run EXCEPT !.pc = "tools"]
        /\ Works
     \/ /\ ~cli /\ run' = [run EXCEPT !.pc = "tools"]    \* PyPI is down
        /\ UNCHANGED <<cli, extras>> /\ Works
     \/ /\ ~cli
        /\ \/ Fault
           \/ site.method \in {"editable", "unknown"} /\ Works
        /\ run' = [run EXCEPT !.pc = "tools", !.rc = 1]
        /\ UNCHANGED <<cli, extras>>
  /\ UNCHANGED <<site, tools, box, runs, stranded>>

(* The loop over the components that are present: a failure is a "skip".   *)
upgrade_tool ==
  /\ At("tools")
  /\ IF run.todo = {}
     THEN /\ run' = [run EXCEPT !.pc = IF run.docker THEN "pull" ELSE "offer"]
          /\ UNCHANGED tools /\ Works
     ELSE \E x \in run.todo :
            /\ run' = [run EXCEPT !.todo = @ \ {x}]
            /\ \/ tools' = [tools EXCEPT ![x] = "new"] /\ Works
               \/ UNCHANGED tools /\ Fault
  /\ UNCHANGED <<site, cli, extras, box, runs, stranded>>

-----------------------------------------------------------------------------
(* upgrade_docker_images.  The compose file is the one in the home of      *)
(* code-memory or the one a live container is labelled with.               *)
Labelled == {s \in Core : box[s] \in Project}
ComposeFile == site.composeHome \/ Labelled # {}

(* Mutant: the name is never asked of the containers. *)
_owning_compose_project_Guess == COMPOSE_PROJECT

_owning_compose_project ==
  IF "cm-falkordb" \in Labelled THEN box["cm-falkordb"]
  ELSE IF "cm-qdrant" \in Labelled THEN box["cm-qdrant"]
  ELSE COMPOSE_PROJECT

pull ==
  /\ At("pull")
  /\ \/ ComposeFile /\ run' = [run EXCEPT !.pc = "up"] /\ Works
     \/ ~ComposeFile /\ run' = [run EXCEPT !.pc = "offer"] /\ Works
     \/ ComposeFile /\ run' = [run EXCEPT !.pc = "offer"] /\ Fault
  /\ UNCHANGED <<site, cli, extras, tools, box, runs, stranded>>

(* docker compose up -d: all services without a profile, or none; a fixed  *)
(* name that another project holds is a conflict.                          *)
Conflict(p) == \E s \in Core : box[s] \notin {Absent, p}
Up(p) == box' = [s \in COMPOSE_CONTAINERS |-> IF s \in Core THEN p ELSE box[s]]

up ==
  /\ At("up")
  /\ LET p == _owning_compose_project
     IN  \/ /\ ~Conflict(p) /\ Up(p) /\ Works
            /\ run' = [run EXCEPT !.pc = "offer"]
         \/ /\ (Conflict(p) /\ Works) \/ Fault
            /\ box' = [s \in COMPOSE_CONTAINERS |-> Absent]
                          \* _remove_conflicting_containers: rm -f
            /\ run' = [run EXCEPT !.pc = "retry", !.project = p]
  /\ UNCHANGED <<site, cli, extras, tools, runs, stranded>>

up_retry ==
  /\ At("retry")
  /\ \/ Up(run.project) /\ Works /\ UNCHANGED stranded
     \/ UNCHANGED box /\ Fault /\ stranded' = TRUE
  /\ run' = [run EXCEPT !.pc = "offer"]
  /\ UNCHANGED <<site, cli, extras, tools, runs>>

-----------------------------------------------------------------------------
(* offer_missing_extras and run_extras_wizard: of the extras asked for,    *)
(* those that are missing.                                                 *)
End == [run EXCEPT !.pc = "idle", !.ended = TRUE]

offer_missing_extras ==
  /\ At("offer")
  /\ IF Missing = {} \/ site.method = "unknown" THEN run' = End
     ELSE \E names \in site.asked :
            run' = [run EXCEPT !.pc = "extras", !.todo = names \cap Missing,
                               !.wanted = @ \cup names]
  /\ UNCHANGED <<site, cli, extras, tools, box, runs, failures, stranded>>

run_extras_wizard ==
  /\ At("idle") /\ runs < MaxRuns /\ runs' = runs + 1
  /\ IF site.method = "unknown"
     THEN run' = [Idle EXCEPT !.rc = 1, !.ended = TRUE, !.wanted = extras]
     ELSE \E names \in SUBSET Missing :
            run' = [Idle EXCEPT !.pc = "extras", !.todo = names,
                                !.wanted = extras \cup names]
  /\ UNCHANGED <<site, cli, extras, tools, box, failures, stranded>>

(* install_extra: the others stay, except that uv installs exactly the     *)
(* package with this one extra.                                            *)
install_extra(x) ==
  extras' = IF site.method = "uv-tool" THEN {x} ELSE extras \cup {x}

_install_selected_extras ==
  /\ At("extras")
  /\ IF run.todo = {} THEN run' = End /\ UNCHANGED extras /\ Works
     ELSE \E x \in run.todo :
            \/ /\ install_extra(x) /\ Works
               /\ run' = [run EXCEPT !.todo = @ \ {x}]
            \/ /\ UNCHANGED extras /\ Fault
               /\ run' = [run EXCEPT !.todo = @ \ {x}, !.rc = 1]
  /\ UNCHANGED <<site, cli, tools, box, runs, stranded>>

(* The user interrupts a run. *)
Interrupt ==
  /\ ~At("idle") /\ run' = Idle
  /\ stranded' = (stranded \/ At("retry"))
  /\ UNCHANGED <<site, cli, extras, tools, box, runs, failures>>

Next ==
  \/ build_plan \/ upgrade_cli \/ upgrade_tool \/ pull \/ up \/ up_retry
  \/ offer_missing_extras \/ run_extras_wizard \/ _install_selected_extras
  \/ Interrupt

Spec == Init /\ [][Next]_vars

-----------------------------------------------------------------------------
(* The databases of a stack that one compose project owns stay on the      *)
(* volumes of that project, whatever failed, was interrupted or run again, *)
(* unless a recovery removed the containers and did not bring them up: the *)
(* next run then has no label to read (StackKeepsData).                    *)
OneOwner == \E p \in Project : \A s \in Core : site.stack[s] \in {p, Absent}
StackKeepsData ==
  OneOwner => \A s \in Core :
                site.stack[s] # Absent => box[s] \in {Absent, site.stack[s]}
DataKept == stranded \/ StackKeepsData

(* A run that exits with 0 leaves the extras that were there and has those *)
(* asked for, whichever commands failed in between.  uv-tool drops extras  *)
(* all the same: that is ExtrasSurvive.                                    *)
ExtrasSurvive == run.ended /\ run.rc = 0 => run.wanted \subseteq extras
ExtrasKept == site.method \in {"pip", "pipx", "editable"} => ExtrasSurvive
=============================================================================
