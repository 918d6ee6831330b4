----------------------------- MODULE HostProofs -----------------------------
(***************************************************************************)
(* What holds of the updater, of the registry of watched roots, of the git *)
(* hooks and of the watcher of a root, for any extras, tools, containers,  *)
(* roots, clients, hooks, repositories and environments.  MCHost runs one  *)
(* part in a behaviour: a step of another part changes nothing of this one.*)
(***************************************************************************)
EXTENDS MCHost, Integers, SequenceTheorems, FiniteSetTheorems,
        WellFoundedInduction, TLAPS

allVars == <<part, vars, autostartVars, hookVars, updaterVars, rootVars>>

(* Steps of a part are its own or leave it alone. *)
LEMMA HostSteps ==
  ASSUME [MCNext]_allVars
  PROVE  /\ UP!Next \/ UNCHANGED updaterVars
         /\ AS!Next \/ UNCHANGED autostartVars
         /\ HK!Next \/ UNCHANGED hookVars
         /\ RW!Next \/ UNCHANGED rootVars
  BY DEF MCNext, allVars

-----------------------------------------------------------------------------
(***************************************************************************)
(* Updater.  DataKept is not inductive: it allows the containers of a      *)
(* stack to be gone, and then the next run has no label to read.  While no *)
(* recovery stranded the stack, a container still carries the owner's      *)
(* label, or the recovery under way has read it before.  ExtrasKept says   *)
(* nothing of a run in progress, which has the extras it wants, or still   *)
(* has them to install, or will not exit with 0.                           *)
(***************************************************************************)
RunType ==
  [pc : {"idle", "cli", "tools", "pull", "up", "retry", "offer", "extras"},
   docker : BOOLEAN, todo : SUBSET (Tool \cup Extra), wanted : SUBSET Extra,
   rc : {0, 1}, ended : BOOLEAN, project : UP!Owner]

UpdaterTypeOK ==
  /\ site \in UP!UpdaterScene
  /\ extras \subseteq Extra
  /\ tools \in [Tool -> {"absent", "old", "new"}]
  /\ box \in [UP!COMPOSE_CONTAINERS -> UP!Owner]
  /\ run \in RunType
  /\ run.pc = "extras" => run.todo \subseteq Extra
  /\ stranded \in BOOLEAN

(* The stack belongs to q. *)
OwnedBy(q) ==
  /\ \E s \in UP!Core : site.stack[s] = q
  /\ \A s \in UP!Core : site.stack[s] \in {q, Absent}

(* q can still be told from the labels, or is remembered. *)
Recoverable(q) ==
  IF run.pc = "retry"
  THEN run.project = q /\ \A s \in UP!Core : box[s] = Absent
  ELSE /\ \E s \in UP!Core : box[s] = q
       /\ \A s \in UP!Core : box[s] \in {q, Absent}

LabelsOK ==
  ~stranded => \A q \in Project : OwnedBy(q) => Recoverable(q)

Satisfied ==
  run.rc = 0 =>
    IF run.pc = "extras" THEN run.wanted \subseteq extras \cup run.todo
    ELSE run.pc # "idle" \/ run.ended => run.wanted \subseteq extras

ExtrasOK ==
  /\ run.ended => run.pc = "idle"
  /\ site.method \in {"pip", "pipx", "editable"} => Satisfied

UpdaterInv == UpdaterTypeOK /\ LabelsOK /\ ExtrasOK

LEMMA IdleRun == UP!Idle \in RunType
  BY HostAssumption
     DEF UP!Idle, RunType, UP!Owner, UP!UpdaterAssumption

LEMMA UpdaterInit == MCInit => UpdaterInv
<1> SUFFICES ASSUME UP!Init PROVE UpdaterInv
  BY DEF MCInit
<1>1. site \in UP!UpdaterScene
  BY HostAssumption DEF UP!Init, UP!UpdaterAssumption
<1>2. /\ site.extras \subseteq Extra
      /\ site.stack \in [UP!COMPOSE_CONTAINERS -> UP!Owner]
  BY <1>1 DEF UP!UpdaterScene
<1>3. UpdaterTypeOK
  <2>1. run \in RunType /\ run.pc = "idle"
    BY IdleRun DEF UP!Init, UP!Idle
  <2> QED
    BY <1>1, <1>2, <2>1 DEF UP!Init, UpdaterTypeOK
<1>4. run.pc = "idle" /\ ~run.ended /\ box = site.stack
  BY DEF UP!Init, UP!Idle
<1>5. LabelsOK
  BY <1>4 DEF LabelsOK, OwnedBy, Recoverable
<1>6. ExtrasOK
  BY <1>4 DEF ExtrasOK, Satisfied
<1> QED
  BY <1>3, <1>5, <1>6 DEF UpdaterInv

(* A step that moves on to another label and leaves the containers alone.  *)
LEMMA NextLabel ==
  ASSUME UpdaterInv, UpdaterTypeOK',
         run.pc # "idle", run.pc \notin {"retry", "extras"},
         run'.pc \in {"cli", "tools", "pull", "up", "offer"},
         run'.wanted = run.wanted, run'.ended = run.ended,
         run'.rc = run.rc \/ run'.rc = 1,
         site.method # "uv-tool" => extras' = extras,
         UNCHANGED <<site, box, stranded>>
  PROVE  UpdaterInv'
<1>1. LabelsOK'
  BY DEF UpdaterInv, LabelsOK, OwnedBy, Recoverable
<1>2. ExtrasOK'
  BY DEF UpdaterInv, ExtrasOK, Satisfied
<1> QED
  BY <1>1, <1>2 DEF UpdaterInv

LEMMA UpdaterNext == UpdaterInv /\ (UP!Next \/ UNCHANGED updaterVars)
                       => UpdaterInv'
<1> SUFFICES ASSUME UpdaterInv, UP!Next \/ UNCHANGED updaterVars
             PROVE  UpdaterInv'
  OBVIOUS
<1> USE DEF UP!At, UP!Works, UP!Fault
<1>0. /\ UpdaterTypeOK /\ LabelsOK /\ ExtrasOK
      /\ site \in UP!UpdaterScene /\ extras \subseteq Extra
      /\ run \in RunType
      /\ box \in [UP!COMPOSE_CONTAINERS -> UP!Owner]
  BY DEF UpdaterInv, UpdaterTypeOK
<1>1. CASE UP!build_plan
  <2> DEFINE docker == site.composeHome \/ \E s \in UP!Core : box[s] # Absent
             todo == {x \in Tool : tools[x] # "absent"}
  <2>1. /\ run' = [UP!Idle EXCEPT !.pc = "cli", !.wanted = extras,
                                  !.docker = docker, !.todo = todo]
        /\ run.pc = "idle"
        /\ UNCHANGED <<site, extras, tools, box, stranded>>
    BY <1>1 DEF UP!build_plan
  <2>2. docker \in BOOLEAN /\ todo \subseteq Tool
    BY <1>0 DEF UP!UpdaterScene
  <2> HIDE DEF docker, todo
  <2>3. /\ run' \in RunType /\ run'.pc = "cli" /\ run'.wanted = extras
        /\ ~run'.ended
    BY <1>0, <2>1, <2>2, IdleRun DEF UP!Idle, RunType
  <2>4. UpdaterTypeOK'
    BY <1>0, <2>1, <2>3 DEF UpdaterTypeOK
  <2>5. LabelsOK'
    BY <1>0, <2>1, <2>3 DEF LabelsOK, OwnedBy, Recoverable
  <2>6. ExtrasOK'
    BY <2>1, <2>3 DEF ExtrasOK, Satisfied
  <2> QED
    BY <2>4, <2>5, <2>6 DEF UpdaterInv
<1>2. CASE UP!upgrade_cli
  <2>1. /\ run.pc = "cli"
        /\ run' \in {[run EXCEPT !.pc = "tools"],
                     [run EXCEPT !.pc = "tools", !.rc = 1]}
        /\ extras' \in {extras, {}}
        /\ site.method # "uv-tool" => extras' = extras
        /\ UNCHANGED <<site, tools, box, stranded>>
    BY <1>2 DEF UP!upgrade_cli
  <2>2. /\ run' \in RunType /\ run'.pc = "tools"
        /\ run'.wanted = run.wanted /\ run'.ended = run.ended
        /\ run'.rc = run.rc \/ run'.rc = 1
    BY <1>0, <2>1 DEF RunType
  <2>3. UpdaterTypeOK'
    BY <1>0, <2>1, <2>2 DEF UpdaterTypeOK
  <2> QED
    BY <2>1, <2>2, <2>3, NextLabel
<1>3. CASE UP!upgrade_tool
  <2>1. /\ run.pc = "tools"
        /\ \/ tools' = tools
           \/ \E x \in Tool : tools' = [tools EXCEPT ![x] = "new"]
        /\ \/ run' = [run EXCEPT !.pc = IF run.docker THEN "pull" ELSE "offer"]
           \/ \E x \in run.todo : run' = [run EXCEPT !.todo = @ \ {x}]
        /\ UNCHANGED <<site, extras, box, stranded>>
    <3>1. CASE run.todo = {}
      BY <1>3, <3>1 DEF UP!upgrade_tool
    <3>2. CASE run.todo # {}
      <4>1. PICK x \in run.todo :
              /\ run' = [run EXCEPT !.todo = @ \ {x}]
              /\ tools' = [tools EXCEPT ![x] = "new"] \/ tools' = tools
        BY <1>3, <3>2 DEF UP!upgrade_tool
      <4>2. CASE x \in Tool
        BY <1>3, <4>1, <4>2 DEF UP!upgrade_tool
      <4>3. CASE x \notin Tool
        <5>1. [tools EXCEPT ![x] = "new"] = tools
          BY <1>0, <4>3 DEF UpdaterTypeOK
        <5> QED
          BY <1>3, <4>1, <5>1 DEF UP!upgrade_tool
      <4> QED
        BY <4>2, <4>3
    <3> QED
      BY <3>1, <3>2
  <2>2. /\ run' \in RunType /\ run'.pc \in {"pull", "offer", "tools"}
        /\ run'.wanted = run.wanted /\ run'.ended = run.ended
        /\ run'.rc = run.rc
    BY <1>0, <2>1 DEF RunType
  <2>3. tools' \in [Tool -> {"absent", "old", "new"}]
    BY <1>0, <2>1 DEF UpdaterTypeOK
  <2>4. UpdaterTypeOK'
    BY <1>0, <2>1, <2>2, <2>3 DEF UpdaterTypeOK
  <2> QED
    BY <2>1, <2>2, <2>4, NextLabel
<1>4. CASE UP!pull
  <2>1. /\ run.pc = "pull"
        /\ run' \in {[run EXCEPT !.pc = "up"], [run EXCEPT !.pc = "offer"]}
        /\ UNCHANGED <<site, extras, tools, box, stranded>>
    BY <1>4 DEF UP!pull
  <2>2. /\ run' \in RunType /\ run'.pc \in {"up", "offer"}
        /\ run'.wanted = run.wanted /\ run'.ended = run.ended
        /\ run'.rc = run.rc
    BY <1>0, <2>1 DEF RunType
  <2>3. UpdaterTypeOK'
    BY <1>0, <2>1, <2>2 DEF UpdaterTypeOK
  <2> QED
    BY <2>1, <2>2, <2>3, NextLabel
<1>5. CASE UP!up
  <2> DEFINE p == UP!_owning_compose_project
  <2>1. /\ run.pc = "up"
        /\ \/ UP!Up(p) /\ run' = [run EXCEPT !.pc = "offer"]
           \/ /\ box' = [s \in UP!COMPOSE_CONTAINERS |-> Absent]
              /\ run' = [run EXCEPT !.pc = "retry", !.project = p]
        /\ UNCHANGED <<site, extras, tools, stranded>>
    BY <1>5 DEF UP!up
  <2>2. UP!Core \subseteq UP!COMPOSE_CONTAINERS
    BY DEF UP!COMPOSE_CONTAINERS
  <2>3. p \in Project
    BY HostAssumption
       DEF UP!_owning_compose_project, UP!Labelled, UP!UpdaterAssumption,
           UP!Core
  <2>4. ASSUME NEW q \in Project, OwnedBy(q), ~stranded PROVE p = q
    <3>1. /\ \E s \in UP!Core : box[s] = q
          /\ \A s \in UP!Core : box[s] \in {q, Absent}
      BY <1>0, <2>1, <2>4 DEF LabelsOK, Recoverable
    <3>2. Absent \notin Project
      BY HostAssumption DEF UP!UpdaterAssumption
    <3> QED
      BY <2>4, <3>1, <3>2
         DEF UP!_owning_compose_project, UP!Labelled, UP!Core
  <2> HIDE DEF p
  <2>5. /\ run' \in RunType /\ run'.pc \in {"offer", "retry"}
        /\ run'.wanted = run.wanted /\ run'.ended = run.ended
        /\ run'.rc = run.rc
        /\ run'.pc = "retry" => run'.project = p
    BY <1>0, <2>1, <2>3 DEF RunType, UP!Owner
  <2>6. /\ box' \in [UP!COMPOSE_CONTAINERS -> UP!Owner]
        /\ run'.pc = "retry" => \A s \in UP!Core : box'[s] = Absent
        /\ run'.pc = "offer" => \A s \in UP!Core : box'[s] = p
    <3>1. CASE UP!Up(p) /\ run' = [run EXCEPT !.pc = "offer"]
      <4>1. run'.pc = "offer"
        BY <1>0, <3>1 DEF RunType
      <4>2. /\ box' \in [UP!COMPOSE_CONTAINERS -> UP!Owner]
            /\ \A s \in UP!Core : box'[s] = p
        BY <1>0, <2>2, <2>3, <3>1 DEF UP!Up, UP!Owner
      <4> QED
        BY <4>1, <4>2
    <3>2. CASE /\ box' = [s \in UP!COMPOSE_CONTAINERS |-> Absent]
               /\ run' = [run EXCEPT !.pc = "retry", !.project = p]
      <4>1. run'.pc = "retry"
        BY <1>0, <3>2 DEF RunType
      <4>2. /\ box' \in [UP!COMPOSE_CONTAINERS -> UP!Owner]
            /\ \A s \in UP!Core : box'[s] = Absent
        BY <2>2, <3>2 DEF UP!Owner
      <4> QED
        BY <4>1, <4>2
    <3> QED
      BY <2>1, <3>1, <3>2
  <2>7. UpdaterTypeOK'
    BY <1>0, <2>1, <2>5, <2>6 DEF UpdaterTypeOK
  <2>8. LabelsOK'
    <3> SUFFICES ASSUME NEW q \in Project, OwnedBy(q)', ~stranded'
                 PROVE  Recoverable(q)'
      BY DEF LabelsOK
    <3>1. OwnedBy(q) /\ ~stranded
      BY <2>1 DEF OwnedBy
    <3>2. p = q
      BY <2>4, <3>1
    <3> QED
      BY <2>5, <2>6, <3>2 DEF Recoverable, UP!Core
  <2>9. ExtrasOK'
    BY <1>0, <2>1, <2>5 DEF ExtrasOK, Satisfied
  <2> QED
    BY <2>7, <2>8, <2>9 DEF UpdaterInv
<1>6. CASE UP!up_retry
  <2>1. /\ run.pc = "retry" /\ run' = [run EXCEPT !.pc = "offer"]
        /\ \/ UP!Up(run.project) /\ stranded' = stranded
           \/ box' = box /\ stranded'
        /\ stranded' \in BOOLEAN
        /\ UNCHANGED <<site, extras, tools>>
    BY <1>6 DEF UP!up_retry, UpdaterInv, UpdaterTypeOK
  <2>2. UP!Core \subseteq UP!COMPOSE_CONTAINERS
    BY DEF UP!COMPOSE_CONTAINERS
  <2>3. /\ run' \in RunType /\ run'.pc = "offer"
        /\ run'.wanted = run.wanted /\ run'.ended = run.ended
        /\ run'.rc = run.rc /\ run.project \in UP!Owner
    BY <1>0, <2>1 DEF RunType
  <2>4. /\ box' \in [UP!COMPOSE_CONTAINERS -> UP!Owner]
        /\ ~stranded' => \A s \in UP!Core : box'[s] = run.project
    BY <1>0, <2>1, <2>2, <2>3 DEF UP!Up
  <2>5. UpdaterTypeOK'
    BY <1>0, <2>1, <2>3, <2>4 DEF UpdaterTypeOK
  <2>6. LabelsOK'
    <3> SUFFICES ASSUME NEW q \in Project, OwnedBy(q)', ~stranded'
                 PROVE  Recoverable(q)'
      BY DEF LabelsOK
    <3>1. OwnedBy(q) /\ ~stranded
      BY <2>1 DEF OwnedBy
    <3>2. run.project = q
      BY <1>0, <2>1, <3>1 DEF LabelsOK, Recoverable
    <3> QED
      BY <2>3, <2>4, <3>2 DEF Recoverable, UP!Core
  <2>7. ExtrasOK'
    BY <1>0, <2>1, <2>3 DEF ExtrasOK, Satisfied
  <2> QED
    BY <2>5, <2>6, <2>7 DEF UpdaterInv
<1>7. CASE UP!offer_missing_extras
  <2>1. /\ run.pc = "offer"
        /\ UNCHANGED <<site, extras, tools, box, stranded>>
    BY <1>7 DEF UP!offer_missing_extras
  <2>2. CASE run' = UP!End
    <3>1. /\ run' \in RunType /\ run'.pc = "idle" /\ run'.rc = run.rc
          /\ run'.wanted = run.wanted
      BY <1>0, <2>2 DEF UP!End, RunType
    <3>2. UpdaterTypeOK'
      BY <1>0, <2>1, <3>1 DEF UpdaterTypeOK
    <3>3. LabelsOK'
      BY <1>0, <2>1, <3>1 DEF LabelsOK, OwnedBy, Recoverable
    <3>4. ExtrasOK'
      BY <1>0, <2>1, <3>1 DEF ExtrasOK, Satisfied
    <3> QED
      BY <3>2, <3>3, <3>4 DEF UpdaterInv
  <2>3. CASE run' # UP!End
    <3>1. PICK names \in site.asked :
            run' = [run EXCEPT !.pc = "extras", !.todo = names \cap UP!Missing,
                               !.wanted = @ \cup names]
      BY <1>7, <2>3 DEF UP!offer_missing_extras
    <3>2. names \subseteq Extra
      BY <1>0 DEF UP!UpdaterScene
    <3>3. /\ run' \in RunType /\ run'.pc = "extras" /\ run'.rc = run.rc
          /\ run'.wanted = run.wanted \cup names
          /\ run'.todo = names \cap UP!Missing
          /\ run'.todo \subseteq Extra
          /\ run'.ended = run.ended
      BY <1>0, <3>1, <3>2 DEF RunType
    <3>4. run'.wanted \subseteq run.wanted \cup extras \cup run'.todo
      BY <3>2, <3>3 DEF UP!Missing
    <3>5. UpdaterTypeOK'
      BY <1>0, <2>1, <3>3 DEF UpdaterTypeOK
    <3>6. LabelsOK'
      BY <1>0, <2>1, <3>3 DEF LabelsOK, OwnedBy, Recoverable
    <3>7. ExtrasOK'
      BY <1>0, <2>1, <3>3, <3>4 DEF ExtrasOK, Satisfied
    <3> QED
      BY <3>5, <3>6, <3>7 DEF UpdaterInv
  <2> QED
    BY <2>2, <2>3
<1>8. CASE UP!run_extras_wizard
  <2>1. /\ run.pc = "idle"
        /\ UNCHANGED <<site, extras, tools, box, stranded>>
    BY <1>8 DEF UP!run_extras_wizard
  <2>2. /\ run' \in RunType
        /\ \/ run'.pc = "idle" /\ run'.rc = 1
           \/ /\ run'.pc = "extras" /\ ~run'.ended
              /\ run'.todo \subseteq Extra
              /\ run'.wanted \subseteq extras \cup run'.todo
    <3>1. CASE site.method = "unknown"
      <4>1. run' = [UP!Idle EXCEPT !.rc = 1, !.ended = TRUE,
                                   !.wanted = extras]
        BY <1>8, <3>1 DEF UP!run_extras_wizard
      <4>2. UP!Idle.pc = "idle"
        BY DEF UP!Idle
      <4> QED
        BY <1>0, <4>1, <4>2, IdleRun DEF RunType
    <3>2. CASE site.method # "unknown"
      <4>1. PICK names \in SUBSET UP!Missing :
              run' = [UP!Idle EXCEPT !.pc = "extras", !.todo = names,
                                     !.wanted = extras \cup names]
        BY <1>8, <3>2 DEF UP!run_extras_wizard
      <4>2. names \subseteq Extra
        BY DEF UP!Missing
      <4>3. ~UP!Idle.ended
        BY DEF UP!Idle
      <4> QED
        BY <1>0, <4>1, <4>2, <4>3, IdleRun DEF RunType
    <3> QED
      BY <3>1, <3>2
  <2>3. UpdaterTypeOK'
    BY <1>0, <2>1, <2>2 DEF UpdaterTypeOK
  <2>4. LabelsOK'
    BY <1>0, <2>1, <2>2 DEF LabelsOK, OwnedBy, Recoverable
  <2>5. ExtrasOK'
    BY <2>1, <2>2 DEF ExtrasOK, Satisfied
  <2> QED
    BY <2>3, <2>4, <2>5 DEF UpdaterInv
<1>9. CASE UP!_install_selected_extras
  <2>1. run.pc = "extras" /\ UNCHANGED <<site, tools, box, stranded>>
    BY <1>9 DEF UP!_install_selected_extras
  <2>2. CASE run.todo = {}
    <3>1. run' = UP!End /\ extras' = extras
      BY <1>9, <2>2 DEF UP!_install_selected_extras
    <3>2. /\ run' \in RunType /\ run'.pc = "idle" /\ run'.rc = run.rc
          /\ run'.wanted = run.wanted
      BY <1>0, <3>1 DEF UP!End, RunType
    <3>3. UpdaterTypeOK'
      BY <1>0, <2>1, <3>1, <3>2 DEF UpdaterTypeOK
    <3>4. LabelsOK'
      BY <1>0, <2>1, <3>2 DEF LabelsOK, OwnedBy, Recoverable
    <3>5. ExtrasOK'
      BY <1>0, <2>1, <2>2, <3>1, <3>2 DEF ExtrasOK, Satisfied
    <3> QED
      BY <3>3, <3>4, <3>5 DEF UpdaterInv
  <2>3. CASE run.todo # {}
    <3>1. PICK x \in run.todo :
            \/ /\ UP!install_extra(x)
               /\ run' = [run EXCEPT !.todo = @ \ {x}]
            \/ /\ extras' = extras
               /\ run' = [run EXCEPT !.todo = @ \ {x}, !.rc = 1]
      BY <1>9, <2>3 DEF UP!_install_selected_extras
    <3>2. /\ run' \in RunType /\ run'.pc = "extras"
          /\ run'.wanted = run.wanted /\ run'.todo = run.todo \ {x}
          /\ run'.ended = run.ended
          /\ \/ run'.rc = 1 /\ extras' = extras
             \/ run'.rc = run.rc /\ UP!install_extra(x)
      BY <1>0, <2>1, <3>1 DEF RunType
    <3>3. extras' \subseteq Extra /\ run'.todo \subseteq Extra
      <4>1. run.todo \subseteq Extra
        BY <1>0, <2>1 DEF UpdaterTypeOK
      <4> QED
        BY <1>0, <3>2, <4>1 DEF UP!install_extra
    <3>4. UpdaterTypeOK'
      BY <1>0, <2>1, <3>2, <3>3 DEF UpdaterTypeOK
    <3>5. LabelsOK'
      BY <1>0, <2>1, <3>2 DEF LabelsOK, OwnedBy, Recoverable
    <3>6. ExtrasOK'
      BY <1>0, <2>1, <3>2 DEF ExtrasOK, Satisfied, UP!install_extra
    <3> QED
      BY <3>4, <3>5, <3>6 DEF UpdaterInv
  <2> QED
    BY <2>2, <2>3
<1>10. CASE UP!Interrupt
  <2>1. /\ run.pc # "idle" /\ run' = UP!Idle
        /\ stranded' = (stranded \/ run.pc = "retry")
        /\ UNCHANGED <<site, extras, tools, box>>
    BY <1>10 DEF UP!Interrupt
  <2>2. run' \in RunType /\ run'.pc = "idle" /\ ~run'.ended
    BY <2>1, IdleRun DEF UP!Idle
  <2>3. UpdaterTypeOK'
    BY <1>0, <2>1, <2>2 DEF UpdaterTypeOK
  <2>4. LabelsOK'
    BY <1>0, <2>1, <2>2 DEF LabelsOK, OwnedBy, Recoverable
  <2>5. ExtrasOK'
    BY <2>2 DEF ExtrasOK, Satisfied
  <2> QED
    BY <2>3, <2>4, <2>5 DEF UpdaterInv
<1>11. CASE UNCHANGED updaterVars
  BY <1>0, <1>11
     DEF updaterVars, UpdaterInv, UpdaterTypeOK, LabelsOK, OwnedBy,
         Recoverable, ExtrasOK, Satisfied
<1> QED
  BY <1>1, <1>2, <1>3, <1>4, <1>5, <1>6, <1>7, <1>8, <1>9, <1>10, <1>11
     DEF UP!Next

(* Updater: whatever fails, is interrupted or run again, the databases of  *)
(* a stack that one compose project owns stay on that project's volumes,   *)
(* unless a recovery removed the containers and did not bring them up; and *)
(* a run of pip, pipx or an editable installation that exits with 0 has    *)
(* kept the extras there were and installed those asked for.               *)
THEOREM UpdatesKeep == MCSpec => []MCUpdatesKeep
<1>1. UpdaterInv => MCUpdatesKeep
  <2> SUFFICES ASSUME UpdaterInv PROVE UP!DataKept /\ UP!ExtrasKept
    BY DEF MCUpdatesKeep
  <2>1. UP!DataKept
    <3> SUFFICES ASSUME ~stranded, NEW q \in Project,
                        \A s \in UP!Core : site.stack[s] \in {q, Absent},
                        NEW s \in UP!Core, site.stack[s] # Absent
                 PROVE  box[s] \in {Absent, site.stack[s]}
      BY DEF UP!DataKept, UP!StackKeepsData, UP!OneOwner
    <3>1. OwnedBy(q) /\ site.stack[s] = q
      BY DEF OwnedBy
    <3> QED
      BY <3>1 DEF UpdaterInv, LabelsOK, Recoverable
  <2>2. UP!ExtrasKept
    BY DEF UpdaterInv, ExtrasOK, Satisfied, UP!ExtrasKept, UP!ExtrasSurvive
  <2> QED
    BY <2>1, <2>2
<1>2. UpdaterInv /\ [MCNext]_allVars => UpdaterInv'
  BY HostSteps, UpdaterNext
<1>3. MCSpec => MCInit /\ [][MCNext]_allVars
  BY PTL DEF MCSpec, allVars
<1> QED
  BY <1>1, <1>2, <1>3, UpdaterInit, PTL

-----------------------------------------------------------------------------
(***************************************************************************)
(* Autostart.  A root that has been there all along leaves the registry in *)
(* no way: the holder of the flock has read what the file still holds, and *)
(* nobody else writes it.  A migration removes a unit after the state file *)
(* of the daemon covered what it had seeded, and what a daemon lists is in *)
(* the registry, then and later.                                           *)
(***************************************************************************)
ClientType ==
  [pc : {"start", "prune", "add", "deploy", "list", "scan", "seed", "verify",
         "teardown", "cover", "serving", "watching", "end", "dead"},
   raw : SUBSET Root, todo : SUBSET Root, units : SUBSET Root,
   seeded : SUBSET Root]

AutostartTypeOK ==
  /\ env \in AS!AutostartScene
  /\ present \subseteq Root
  /\ client \in [Client -> ClientType]
  /\ entries \subseteq Root /\ legacy \subseteq Root
  /\ steady \subseteq Root /\ added \subseteq Root /\ migrated \subseteq Root
  /\ holders \subseteq Client
  /\ daemon \in AS!Process /\ state \in AS!Process
  /\ pids \in Nat /\ unit \in BOOLEAN

(* What has been there all along is there. *)
SteadyOK == steady \subseteq present \ env.linked

(* The flock: one holder, in a call that writes, with the file's contents. *)
FlockOK ==
  /\ \A c, d \in holders : c = d
  /\ \A c \in holders : AS!Writing(c) /\ client[c].raw = entries

(* R is registered, but for roots whose directory went away.               *)
Registered(R) == R \cap steady \subseteq entries

Migrating(c) ==
  /\ client[c].pc \in {"scan", "seed", "verify"} =>
       client[c].units \subseteq client[c].seeded
  /\ client[c].pc \in {"verify", "teardown"} => unit
  /\ client[c].pc = "teardown" => Registered(client[c].units)

RegistryInv ==
  /\ AutostartTypeOK
  /\ SteadyOK
  /\ FlockOK
  /\ Registered(added) /\ Registered(state.roots) /\ Registered(migrated)
  /\ \A c \in Client : Migrating(c)
  /\ migrated # {} => unit

LEMMA NewClient ==
  /\ AS!New \in ClientType /\ AS!New.pc = "start" /\ AS!New.units = {}
  /\ AS!NoProcess \in AS!Process
  BY DEF AS!New, ClientType, AS!NoProcess, AS!Process

LEMMA RegistryInit == MCInit => RegistryInv
<1> SUFFICES ASSUME AS!Init PROVE RegistryInv
  BY DEF MCInit
<1>1. env \in AS!AutostartScene
  BY HostAssumption DEF AS!Init, AS!AutostartAssumption
<1>2. /\ env.legacy \subseteq Root /\ env.linked \subseteq Root
      /\ env.stale \in BOOLEAN
  BY <1>1 DEF AS!AutostartScene
<1>3. \A c \in Client : client[c] = AS!New
  BY DEF AS!Init
<1>4. client \in [Client -> ClientType]
  BY NewClient DEF AS!Init
<1>5. /\ state \in AS!Process
      /\ state.roots \subseteq entries \cup (Root \ steady)
  BY <1>2, NewClient DEF AS!Init, AS!Process, AS!NoProcess
<1>6. AutostartTypeOK
  BY <1>1, <1>2, <1>4, <1>5, NewClient DEF AS!Init, AutostartTypeOK
<1>7. SteadyOK /\ FlockOK
  BY DEF AS!Init, SteadyOK, FlockOK
<1>8. Registered(added) /\ Registered(state.roots) /\ Registered(migrated)
  BY <1>5 DEF AS!Init, Registered
<1>9. \A c \in Client : Migrating(c)
  BY <1>3, NewClient DEF Migrating
<1> QED
  BY <1>6, <1>7, <1>8, <1>9 DEF RegistryInv, AS!Init

(* The client c becomes r. *)
Becomes(c, r) == client' = [client EXCEPT ![c] = r]

(* A step of a client that does not write the registry.                    *)
LEMMA ClientStep ==
  ASSUME RegistryInv, NEW c \in Client, NEW r \in ClientType,
         Becomes(c, r),
         r.raw = client[c].raw, c \in holders => r.pc = client[c].pc,
         legacy' \subseteq Root, unit' \in BOOLEAN, unit => unit',
         migrated' \subseteq Root, Registered(migrated'),
         migrated' # {} => unit',
         r.pc \in {"scan", "seed", "verify"} => r.units \subseteq r.seeded,
         r.pc \in {"verify", "teardown"} => unit',
         r.pc = "teardown" => Registered(r.units),
         UNCHANGED <<env, present, entries, holders, daemon, state, pids,
                     steady, added>>
  PROVE  RegistryInv'
<1>1. client' \in [Client -> ClientType]
  BY DEF RegistryInv, AutostartTypeOK, Becomes
<1>2. AutostartTypeOK'
  BY <1>1 DEF RegistryInv, AutostartTypeOK
<1>3. client'[c] = r /\ \A d \in Client \ {c} : client'[d] = client[d]
  BY DEF RegistryInv, AutostartTypeOK, Becomes
<1>4. SteadyOK' /\ Registered(added)' /\ Registered(state.roots)'
      /\ Registered(migrated)'
  BY DEF RegistryInv, SteadyOK, Registered
<1>5. FlockOK'
  <2>1. ASSUME NEW d \in holders
        PROVE  client'[d].pc = client[d].pc /\ client'[d].raw = client[d].raw
    BY <1>3, <2>1 DEF RegistryInv, AutostartTypeOK
  <2>2. FlockOK
    BY DEF RegistryInv
  <2> QED
    BY <2>1, <2>2 DEF FlockOK, AS!Writing, AS!At
<1>6. ASSUME NEW d \in Client PROVE Migrating(d)'
  <2>1. CASE d = c
    BY <1>3, <2>1 DEF Migrating, Registered
  <2>2. CASE d # c
    BY <1>3, <2>2 DEF RegistryInv, Migrating, Registered
  <2> QED
    BY <2>1, <2>2
<1> QED
  BY <1>2, <1>4, <1>5, <1>6 DEF RegistryInv

(* A step that writes the registry keeps what has been there all along.    *)
LEMMA ReplaceStep ==
  ASSUME RegistryInv, NEW c \in Client, NEW new \in SUBSET Root,
         NEW label \in {"list", "add", "deploy", "seed"},
         NEW rest \in SUBSET Root, NEW more \in SUBSET Root,
         AS!Replace(c, new, label, rest),
         added' = added \cup more,
         more \subseteq new,
         client[c].raw \cap steady \subseteq new,
         label = "seed" => client[c].pc = "seed"
  PROVE  RegistryInv'
<1> DEFINE r == [client[c] EXCEPT !.pc = label, !.todo = rest, !.raw = {}]
<1>1. /\ c \in holders /\ holders' = holders \ {c} /\ entries' = new
      /\ Becomes(c, r)
      /\ UNCHANGED <<env, present, legacy, unit, daemon, state, pids,
                     steady, migrated>>
  BY DEF AS!Replace, Becomes
<1>2. client[c] \in ClientType
  BY DEF RegistryInv, AutostartTypeOK
<1>3. /\ r \in ClientType /\ r.pc = label
      /\ r.units = client[c].units /\ r.seeded = client[c].seeded
  BY <1>2 DEF ClientType
<1> HIDE DEF r
<1>4. client' \in [Client -> ClientType]
  BY <1>1, <1>3 DEF RegistryInv, AutostartTypeOK, Becomes
<1>5. AutostartTypeOK'
  BY <1>1, <1>4 DEF RegistryInv, AutostartTypeOK
<1>6. client'[c] = r /\ \A d \in Client \ {c} : client'[d] = client[d]
  BY <1>1 DEF RegistryInv, AutostartTypeOK, Becomes
<1>7. holders' = {}
  BY <1>1 DEF RegistryInv, FlockOK
<1>8. SteadyOK' /\ FlockOK'
  BY <1>1, <1>7 DEF RegistryInv, SteadyOK, FlockOK
<1>9. entries \cap steady \subseteq entries'
  BY <1>1 DEF RegistryInv, FlockOK
<1>10. /\ Registered(added)' /\ Registered(state.roots)'
       /\ Registered(migrated)'
  BY <1>1, <1>9 DEF RegistryInv, Registered
<1>11. ASSUME NEW d \in Client PROVE Migrating(d)'
  <2>1. Migrating(d)
    BY DEF RegistryInv
  <2>2. CASE d = c
    BY <1>3, <1>6, <2>1, <2>2 DEF Migrating
  <2>3. CASE d # c
    BY <1>1, <1>6, <1>9, <2>1, <2>3 DEF Migrating, Registered
  <2> QED
    BY <2>2, <2>3
<1> QED
  BY <1>1, <1>5, <1>8, <1>10, <1>11 DEF RegistryInv

LEMMA RegistryNext == RegistryInv /\ (AS!Next \/ UNCHANGED autostartVars)
                        => RegistryInv'
<1> SUFFICES ASSUME RegistryInv, AS!Next \/ UNCHANGED autostartVars
             PROVE  RegistryInv'
  OBVIOUS
<1> USE DEF AS!At, AS!Repo, AS!files, AS!history
<1>0. /\ AutostartTypeOK /\ SteadyOK /\ FlockOK
      /\ env \in AS!AutostartScene
      /\ legacy \subseteq Root /\ unit \in BOOLEAN
      /\ migrated \subseteq Root /\ Registered(migrated)
      /\ Registered(added) /\ Registered(state.roots)
      /\ migrated # {} => unit
      /\ entries \subseteq Root
      /\ \A c \in Client : client[c] \in ClientType /\ Migrating(c)
  BY DEF RegistryInv, AutostartTypeOK
<1>a. \A c \in Client : env.job[c] \in {"boot", "install", "migrate",
                                        "uninstall"}
                        /\ env.repo[c] \in Root
  BY <1>0 DEF AS!AutostartScene
(* Only the label of a client changes, and its unit may get installed.     *)
<1>b. ASSUME NEW c \in Client,
             NEW label \in {"prune", "add", "list", "cover", "serving",
                            "watching", "end"},
             AS!Go(c, label), c \notin holders,
             legacy' \subseteq Root, unit' \in BOOLEAN, unit => unit',
             UNCHANGED <<env, present, entries, holders, daemon, state,
                         pids, steady, added, migrated>>
      PROVE  RegistryInv'
  <2> DEFINE r == [client[c] EXCEPT !.pc = label]
  <2>1. Becomes(c, r)
    BY <1>b DEF AS!Go, Becomes
  <2>2. r \in ClientType /\ r.pc = label /\ r.raw = client[c].raw
    BY <1>0 DEF ClientType
  <2> HIDE DEF r
  <2>3. Registered(migrated') /\ (migrated' # {} => unit')
    BY <1>0, <1>b
  <2> QED
    BY <1>0, <1>b, <2>1, <2>2, <2>3, ClientStep
<1>c. \A c \in holders : client[c].pc \in {"prune", "add", "seed"}
  BY <1>0 DEF FlockOK, AS!Writing
<1>1. ASSUME NEW c \in Client, AS!Start(c) PROVE RegistryInv'
  <2>1. /\ client[c].pc = "start" /\ c \notin holders
        /\ legacy' \subseteq Root
        /\ UNCHANGED <<env, present, entries, holders, unit, daemon, state,
                       pids, steady, added, migrated>>
    BY <1>0, <1>1, <1>c DEF AS!Start, AS!Live
  <2>2. PICK label \in {"prune", "add", "list", "end"} : AS!Go(c, label)
    BY <1>1 DEF AS!Start
  <2> QED
    BY <1>0, <1>b, <2>1, <2>2
<1>2. ASSUME NEW c \in Client, AS!Lock(c) PROVE RegistryInv'
  <2> DEFINE r == [client[c] EXCEPT !.raw = entries]
  <2>1. /\ AS!Writing(c) /\ holders = {} /\ holders' = {c}
        /\ Becomes(c, r)
        /\ UNCHANGED <<env, present, entries, legacy, unit, daemon, state,
                       pids, steady, added, migrated>>
    BY <1>2 DEF AS!Lock, Becomes
  <2>2. /\ r \in ClientType /\ r.pc = client[c].pc /\ r.raw = entries
        /\ r.units = client[c].units /\ r.seeded = client[c].seeded
    BY <1>0 DEF ClientType
  <2> HIDE DEF r
  <2>3. /\ client' \in [Client -> ClientType]
        /\ client'[c] = r /\ \A d \in Client \ {c} : client'[d] = client[d]
    BY <1>0, <2>1, <2>2 DEF AutostartTypeOK, Becomes
  <2>4. AutostartTypeOK'
    BY <1>0, <2>1, <2>3 DEF AutostartTypeOK
  <2>5. FlockOK'
    BY <2>1, <2>2, <2>3 DEF FlockOK, AS!Writing
  <2>6. \A d \in Client : Migrating(d)'
    BY <1>0, <2>1, <2>2, <2>3 DEF Migrating, Registered
  <2>7. /\ SteadyOK' /\ Registered(added)' /\ Registered(state.roots)'
        /\ Registered(migrated)'
    BY <1>0, <2>1 DEF SteadyOK, Registered
  <2> QED
    BY <1>0, <2>1, <2>4, <2>5, <2>6, <2>7 DEF RegistryInv
<1>3. ASSUME NEW c \in Client, AS!prune(c) PROVE RegistryInv'
  <2> DEFINE new == client[c].raw \cap AS!Live
             label == IF env.repo[c] \in env.linked THEN "list" ELSE "add"
  <2>0. PICK none \in SUBSET Root : none = {}
    OBVIOUS
  <2>1. AS!Replace(c, new, label, none) /\ added' = added \cup none
    BY <1>3, <2>0 DEF AS!prune
  <2>2. new \in SUBSET Root /\ label \in {"list", "add"}
    BY <1>0 DEF ClientType
  <2>3. client[c].raw \cap steady \subseteq new /\ none \subseteq new
    BY <1>0, <2>0 DEF SteadyOK, AS!Live
  <2> HIDE DEF new, label
  <2>4. label \in {"list", "add", "deploy", "seed"} /\ label # "seed"
    BY <2>2
  <2> QED
    BY <2>0, <2>1, <2>2, <2>3, <2>4, ReplaceStep
<1>4. ASSUME NEW c \in Client, AS!add(c) PROVE RegistryInv'
  <2> DEFINE new == client[c].raw \cup {env.repo[c]}
  <2>1. /\ AS!Replace(c, new, "deploy", {})
        /\ added' = added \cup {env.repo[c]}
    BY <1>4 DEF AS!add
  <2>2. new \in SUBSET Root /\ {env.repo[c]} \in SUBSET Root
    BY <1>0, <1>a DEF ClientType
  <2>3. client[c].raw \cap steady \subseteq new /\ {env.repo[c]} \subseteq new
    OBVIOUS
  <2> HIDE DEF new
  <2> QED
    BY <2>1, <2>2, <2>3, ReplaceStep
<1>5. ASSUME NEW c \in Client, AS!seed_from_units(c) PROVE RegistryInv'
  <2>1. PICK x \in client[c].todo :
          /\ AS!Replace(c, client[c].raw \cup {x}, "seed",
                        client[c].todo \ {x})
          /\ added' = added \cup {x}
    BY <1>5 DEF AS!seed_from_units
  <2> DEFINE new == client[c].raw \cup {x}
             rest == client[c].todo \ {x}
  <2>2. new \in SUBSET Root /\ rest \in SUBSET Root /\ {x} \in SUBSET Root
    BY <1>0 DEF ClientType
  <2>3. /\ client[c].raw \cap steady \subseteq new /\ {x} \subseteq new
        /\ client[c].pc = "seed"
        /\ AS!Replace(c, new, "seed", rest)
    BY <1>5, <2>1 DEF AS!seed_from_units
  <2> HIDE DEF new, rest
  <2> QED
    BY <2>1, <2>2, <2>3, ReplaceStep
<1>6. ASSUME NEW c \in Client, AS!ensure_autostart(c) PROVE RegistryInv'
  <2>1. /\ client[c].pc = "deploy" /\ c \notin holders /\ unit' = TRUE
        /\ UNCHANGED <<env, present, entries, holders, legacy, daemon,
                       state, pids, steady, added, migrated>>
    BY <1>6, <1>c DEF AS!ensure_autostart
  <2>2. PICK label \in {"list", "end"} : AS!Go(c, label)
    BY <1>6 DEF AS!ensure_autostart
  <2> QED
    BY <1>0, <1>b, <2>1, <2>2
<1>7. ASSUME NEW c \in Client, AS!list_legacy_units(c) PROVE RegistryInv'
  <2> DEFINE r == [client[c] EXCEPT !.pc = "scan", !.units = legacy,
                                    !.seeded = legacy]
  <2>1. /\ Becomes(c, r) /\ c \notin holders
        /\ UNCHANGED <<env, present, entries, holders, legacy, unit, daemon,
                       state, pids, steady, added, migrated>>
    BY <1>7, <1>c DEF AS!list_legacy_units, Becomes
  <2>2. /\ r \in ClientType /\ r.pc = "scan" /\ r.raw = client[c].raw
        /\ r.units = r.seeded
    BY <1>0 DEF ClientType
  <2> HIDE DEF r
  <2>3. Registered(migrated') /\ (migrated' # {} => unit')
    BY <1>0, <2>1
  <2> QED
    BY <1>0, <2>1, <2>2, <2>3, ClientStep
<1>8. ASSUME NEW c \in Client, AS!Scan(c) PROVE RegistryInv'
  <2> DEFINE found == IF env.mac THEN legacy \cap present ELSE {}
             r == [client[c] EXCEPT !.pc = "seed", !.todo = found,
                                    !.seeded = @ \cup found]
  <2>1. /\ Becomes(c, r) /\ client[c].pc = "scan" /\ c \notin holders
        /\ UNCHANGED <<env, present, entries, holders, legacy, unit, daemon,
                       state, pids, steady, added, migrated>>
    BY <1>8, <1>c DEF AS!Scan, Becomes
  <2>2. found \subseteq Root
    BY <1>0
  <2> HIDE DEF found
  <2>3. /\ r \in ClientType /\ r.pc = "seed" /\ r.raw = client[c].raw
        /\ r.units = client[c].units
        /\ r.seeded = client[c].seeded \cup found
    BY <1>0, <2>2 DEF ClientType
  <2>4. r.units \subseteq r.seeded
    BY <1>0, <2>1, <2>3 DEF Migrating
  <2> HIDE DEF r
  <2>5. Registered(migrated') /\ (migrated' # {} => unit')
    BY <1>0, <2>1
  <2> QED
    BY <1>0, <2>1, <2>3, <2>4, <2>5, ClientStep
<1>9. ASSUME NEW c \in Client, AS!Deploy(c) PROVE RegistryInv'
  <2>1. /\ client[c].pc = "seed" /\ c \notin holders
        /\ UNCHANGED <<env, present, entries, holders, legacy, daemon,
                       state, pids, steady, added, migrated>>
    BY <1>9 DEF AS!Deploy
  <2>2. CASE AS!Go(c, AS!Leave(c)) /\ unit' = unit
    <3>1. AS!Leave(c) \in {"cover", "end"}
      BY DEF AS!Leave
    <3> QED
      BY <1>0, <1>b, <2>1, <2>2, <3>1
  <2>3. CASE unit' = TRUE /\ AS!Go(c, "verify")
    <3> DEFINE r == [client[c] EXCEPT !.pc = "verify"]
    <3>1. Becomes(c, r)
      BY <2>3 DEF AS!Go, Becomes
    <3>2. /\ r \in ClientType /\ r.pc = "verify" /\ r.raw = client[c].raw
          /\ r.units \subseteq r.seeded
      BY <1>0, <2>1 DEF ClientType, Migrating
    <3> HIDE DEF r
    <3>3. Registered(migrated')
      BY <1>0, <2>1
    <3> QED
      BY <1>0, <2>1, <2>3, <3>1, <3>2, <3>3, ClientStep
  <2> QED
    BY <1>9, <2>2, <2>3 DEF AS!Deploy
<1>10. ASSUME NEW c \in Client, AS!_migrate_wait_for_coverage(c)
       PROVE  RegistryInv'
  <2>1. /\ client[c].pc = "verify" /\ c \notin holders
        /\ UNCHANGED <<env, present, entries, holders, legacy, unit, daemon,
                       state, pids, steady, added, migrated>>
    BY <1>10, <1>c DEF AS!_migrate_wait_for_coverage
  <2>2. CASE AS!Covers(c)
    <3> DEFINE r == [client[c] EXCEPT !.pc = "teardown"]
    <3>1. Becomes(c, r)
      BY <1>10, <2>2 DEF AS!_migrate_wait_for_coverage, AS!Go, Becomes
    <3>2. /\ r \in ClientType /\ r.pc = "teardown"
          /\ r.raw = client[c].raw /\ r.units = client[c].units
      BY <1>0 DEF ClientType
    <3> HIDE DEF r
    <3>3. Registered(r.units) /\ unit
      BY <1>0, <2>1, <2>2, <3>2 DEF AS!Covers, Migrating, Registered
    <3>4. Registered(migrated') /\ (migrated' # {} => unit')
      BY <1>0, <2>1
    <3> QED
      BY <1>0, <2>1, <3>1, <3>2, <3>3, <3>4, ClientStep
  <2>3. CASE ~AS!Covers(c)
    <3>1. AS!Leave(c) \in {"cover", "end"}
      BY DEF AS!Leave
    <3>2. AS!Go(c, AS!Leave(c))
      BY <1>10, <2>3 DEF AS!_migrate_wait_for_coverage
    <3> QED
      BY <1>0, <1>b, <2>1, <3>1, <3>2
  <2> QED
    BY <2>2, <2>3
<1>11. ASSUME NEW c \in Client, AS!remove_legacy_unit(c) PROVE RegistryInv'
  <2>1. /\ client[c].pc = "teardown" /\ c \notin holders
        /\ UNCHANGED <<env, present, entries, holders, unit, daemon,
                       state, pids, steady, added>>
    BY <1>11, <1>c DEF AS!remove_legacy_unit
  <2>2. CASE client[c].units = {}
    <3>1. AS!Leave(c) \in {"cover", "end"}
      BY DEF AS!Leave
    <3>2. AS!Go(c, AS!Leave(c)) /\ UNCHANGED <<legacy, migrated>>
      BY <1>11, <2>2 DEF AS!remove_legacy_unit
    <3> QED
      BY <1>0, <1>b, <2>1, <3>1, <3>2
  <2>3. CASE client[c].units # {}
    <3>1. PICK x \in client[c].units :
            /\ legacy' = legacy \ {x}
            /\ migrated' = migrated \cup {x}
            /\ client' = [client EXCEPT ![c].units = @ \ {x}]
      BY <1>11, <2>3 DEF AS!remove_legacy_unit
    <3> DEFINE r == [client[c] EXCEPT !.units = @ \ {x}]
    <3>2. Becomes(c, r)
      BY <3>1 DEF Becomes
    <3>3. /\ r \in ClientType /\ r.pc = "teardown"
          /\ r.raw = client[c].raw /\ r.units = client[c].units \ {x}
      BY <1>0, <2>1 DEF ClientType
    <3> HIDE DEF r
    <3>4. Registered(client[c].units) /\ unit
      BY <1>0, <2>1 DEF Migrating
    <3>5. Registered(r.units) /\ Registered(migrated') /\ unit'
      BY <1>0, <2>1, <3>1, <3>3, <3>4 DEF Registered
    <3>6. legacy' \subseteq Root /\ migrated' \subseteq Root
      BY <1>0, <3>1 DEF ClientType
    <3> QED
      BY <1>0, <2>1, <3>2, <3>3, <3>5, <3>6, ClientStep
  <2> QED
    BY <2>2, <2>3
<1>12. ASSUME NEW c \in Client, AS!_bootstrap_repo(c) PROVE RegistryInv'
  <2>1. /\ client[c].pc = "cover" /\ c \notin holders
        /\ UNCHANGED <<env, present, entries, holders, legacy, unit, daemon,
                       state, pids, steady, added, migrated>>
    BY <1>12, <1>c DEF AS!_bootstrap_repo
  <2>2. PICK label \in {"serving", "watching"} : AS!Go(c, label)
    BY <1>12 DEF AS!_bootstrap_repo
  <2> QED
    BY <1>0, <1>b, <2>1, <2>2
<1>13. ASSUME NEW c \in Client, AS!Killed(c) PROVE RegistryInv'
  <2> DEFINE r == [client[c] EXCEPT !.pc = "dead"]
  <2>1. /\ Becomes(c, r) /\ holders' = holders \ {c}
        /\ UNCHANGED <<env, present, entries, legacy, unit, daemon, state,
                       pids, steady, added, migrated>>
    BY <1>13 DEF AS!Killed, AS!Go, Becomes
  <2>2. r \in ClientType /\ r.pc = "dead"
    BY <1>0 DEF ClientType
  <2> HIDE DEF r
  <2>3. /\ client' \in [Client -> ClientType]
        /\ client'[c] = r /\ \A d \in Client \ {c} : client'[d] = client[d]
    BY <1>0, <2>1, <2>2 DEF AutostartTypeOK, Becomes
  <2>4. AutostartTypeOK'
    BY <1>0, <2>1, <2>3 DEF AutostartTypeOK
  <2>5. FlockOK'
    BY <1>0, <2>1, <2>3 DEF FlockOK, AS!Writing, AutostartTypeOK
  <2>6. \A d \in Client : Migrating(d)'
    BY <1>0, <2>1, <2>2, <2>3 DEF Migrating, Registered
  <2>7. /\ SteadyOK' /\ Registered(added)' /\ Registered(state.roots)'
        /\ Registered(migrated)'
    BY <1>0, <2>1 DEF SteadyOK, Registered
  <2> QED
    BY <1>0, <2>1, <2>4, <2>5, <2>6, <2>7 DEF RegistryInv
(* The daemon, its service manager and the file system.                    *)
<1>14. ASSUME UNCHANGED <<env, entries, holders, legacy, unit, client, added,
                          migrated>>,
              present' \subseteq Root,
              daemon' \in AS!Process, state' \in AS!Process, pids' \in Nat,
              state'.roots \subseteq state.roots \cup entries,
              steady' \subseteq steady,
              steady' \subseteq present' \ env.linked
       PROVE  RegistryInv'
  <2>1. AutostartTypeOK'
    BY <1>0, <1>14 DEF AutostartTypeOK
  <2>2. SteadyOK' /\ FlockOK'
    BY <1>0, <1>14 DEF SteadyOK, FlockOK, AS!Writing
  <2>3. /\ Registered(added)' /\ Registered(state.roots)'
        /\ Registered(migrated)'
    BY <1>0, <1>14 DEF Registered
  <2>4. \A d \in Client : Migrating(d)'
    BY <1>0, <1>14 DEF Migrating, Registered
  <2> QED
    BY <1>0, <1>14, <2>1, <2>2, <2>3, <2>4 DEF RegistryInv
<1>d. /\ daemon \in AS!Process /\ state \in AS!Process /\ pids \in Nat
      /\ present \subseteq Root /\ steady \subseteq present \ env.linked
  BY <1>0 DEF AutostartTypeOK, SteadyOK
<1>15. CASE AS!OSStart
  <2>1. /\ daemon' = [pid |-> pids + 1, roots |-> {}] /\ pids' = pids + 1
        /\ UNCHANGED <<env, entries, holders, legacy, unit, client, added,
                       migrated, present, state, steady>>
    BY <1>15 DEF AS!OSStart
  <2>2. daemon' \in AS!Process /\ pids' \in Nat
    BY <1>d, <2>1 DEF AS!Process
  <2> QED
    BY <1>14, <1>d, <2>1, <2>2
<1>16. CASE AS!_safe_reconcile
  <2> DEFINE want == entries \ env.linked
             fresh == want \ daemon.roots
  <2>1. /\ UNCHANGED <<env, entries, holders, legacy, unit, client, added,
                       migrated, present, steady, pids>>
        /\ \/ daemon' = [daemon EXCEPT !.roots = want] /\ state' = daemon'
           \/ /\ state' = state
              /\ \E bound \in SUBSET (fresh \cap present) :
                   daemon' = [daemon EXCEPT !.roots = (@ \cap want) \cup bound]
    BY <1>16 DEF AS!_safe_reconcile
  <2>2. want \subseteq Root /\ want \subseteq entries /\ fresh \subseteq Root
    BY <1>0
  <2> HIDE DEF want, fresh
  <2>3. /\ daemon' \in AS!Process /\ state' \in AS!Process
        /\ state'.roots \subseteq state.roots \cup entries
    BY <1>d, <2>1, <2>2 DEF AS!Process
  <2> QED
    BY <1>14, <1>d, <2>1, <2>3
<1>17. CASE AS!DaemonDies
  BY <1>14, <1>17, <1>d, NewClient DEF AS!DaemonDies
<1>18. ASSUME NEW x \in Root, AS!Vanish(x) PROVE RegistryInv'
  <2>1. /\ UNCHANGED <<env, entries, holders, legacy, unit, client, added,
                       migrated, daemon, state, pids>>
        /\ present' = IF x \in present THEN present \ {x}
                      ELSE present \cup {x}
        /\ steady' = steady \ {x}
    BY <1>18 DEF AS!Vanish
  <2>2. /\ present' \subseteq Root
        /\ steady' \subseteq present' \ env.linked
    BY <1>d, <2>1
  <2> QED
    BY <1>14, <1>d, <2>1, <2>2
<1>19. CASE UNCHANGED autostartVars
  BY <1>14, <1>19, <1>d DEF autostartVars
<1> QED
  BY <1>1, <1>2, <1>3, <1>4, <1>5, <1>6, <1>7, <1>8, <1>9, <1>10, <1>11,
     <1>12, <1>13, <1>15, <1>16, <1>17, <1>18, <1>19 DEF AS!Next, AS!Work

(* Autostart: a root whose registration returned stays registered as long  *)
(* as its directory is there, however the writers of the registry overlap  *)
(* or die, and a root whose legacy unit a migration removed is registered  *)
(* with a daemon whose unit is installed.                                  *)
THEOREM RegistryIsKept == MCSpec => []MCRegistryKept
<1>1. RegistryInv => MCRegistryKept
  BY DEF RegistryInv, Registered, MCRegistryKept, AS!NoUpdateLost,
         AS!MigratedIsKept
<1>2. RegistryInv /\ [MCNext]_allVars => RegistryInv'
  BY HostSteps, RegistryNext
<1>3. MCSpec => MCInit /\ [][MCNext]_allVars
  BY PTL DEF MCSpec, allVars
<1> QED
  BY <1>1, <1>2, <1>3, RegistryInit, PTL

-----------------------------------------------------------------------------
(* Texts put together from others. *)
JoinOf(r, u, v) ==
  /\ Len(r) = Len(u) + Len(v)
  /\ \A k \in 1 .. Len(u) : r[k] = u[k]
  /\ \A k \in 1 .. Len(v) : r[Len(u) + k] = v[k]

LEMMA Joined ==
  ASSUME NEW T, NEW u \in Seq(T), NEW v \in Seq(T)
  PROVE  u \o v \in Seq(T) /\ JoinOf(u \o v, u, v)
<1> DEFINE r == u \o v
<1>0. Len(u) \in Nat /\ Len(v) \in Nat
  OBVIOUS
<1>1. /\ r \in Seq(T) /\ Len(r) = Len(u) + Len(v)
      /\ \A k \in 1 .. Len(u) + Len(v) :
           r[k] = IF k <= Len(u) THEN u[k] ELSE v[k - Len(u)]
  BY ConcatProperties
<1>2. \A k \in 1 .. Len(u) : r[k] = u[k]
  BY <1>0, <1>1
<1>3. ASSUME NEW k \in 1 .. Len(v)
      PROVE  r[Len(u) + k] = v[k]
  <2>1. /\ Len(u) + k \in 1 .. Len(u) + Len(v)
        /\ ~(Len(u) + k <= Len(u))
        /\ (Len(u) + k) - Len(u) = k
    BY <1>0
  <2> QED
    BY <1>1, <2>1
<1> QED
  BY <1>1, <1>2, <1>3 DEF JoinOf

(* Spliced, as one fact. *)
SpliceOf(r, s, mid, a, b) ==
  /\ Len(r) = a + Len(mid) + (Len(s) - b)
  /\ \A k \in 1 .. a : r[k] = s[k]
  /\ \A k \in 1 .. Len(mid) : r[a + k] = mid[k]
  /\ \A k \in (b + 1) .. Len(s) : r[(k - b) + a + Len(mid)] = s[k]

Splice(s, mid, a, b) ==
  (SubSeq(s, 1, a) \o mid) \o SubSeq(s, b + 1, Len(s))

(* A text with some of its lines replaced, or with lines in between. *)
LEMMA Spliced ==
  ASSUME NEW T, NEW s \in Seq(T), NEW mid \in Seq(T),
         NEW a \in Nat, NEW b \in Nat, a <= b, b <= Len(s),
         NEW r, r = Splice(s, mid, a, b)
  PROVE  r \in Seq(T) /\ SpliceOf(r, s, mid, a, b)
<1> DEFINE u == SubSeq(s, 1, a)  v == SubSeq(s, b + 1, Len(s))
           w == u \o mid
<1>0. Len(s) \in Nat /\ Len(mid) \in Nat
  OBVIOUS
<1>1. /\ u \in Seq(T) /\ Len(u) = a /\ \A k \in 1 .. a : u[k] = s[k]
  BY <1>0, SubSeqProperties
<1>2. /\ v \in Seq(T) /\ Len(v) = Len(s) - b
      /\ \A k \in 1 .. Len(v) : v[k] = s[b + k]
  BY <1>0, SubSeqProperties
<1> HIDE DEF u, v
<1>3. /\ w \in Seq(T) /\ Len(w) = a + Len(mid)
      /\ \A k \in 1 .. a : w[k] = s[k]
      /\ \A k \in 1 .. Len(mid) : w[a + k] = mid[k]
  <2>1. w \in Seq(T) /\ JoinOf(w, u, mid)
    BY <1>1, Joined
  <2> HIDE DEF w
  <2> QED
    BY <1>1, <2>1 DEF JoinOf
<1> HIDE DEF w
<1>4. r = w \o v
  BY DEF u, v, w, Splice
<1>5. /\ r \in Seq(T) /\ Len(r) = Len(w) + Len(v)
      /\ \A k \in 1 .. Len(w) : r[k] = w[k]
      /\ \A k \in 1 .. Len(v) : r[Len(w) + k] = v[k]
  <2>1. w \in Seq(T) /\ v \in Seq(T)
    BY <1>2, <1>3
  <2>2. r \in Seq(T) /\ JoinOf(r, w, v)
    BY <1>4, <2>1, Joined
  <2> QED
    BY <2>2 DEF JoinOf
<1>6. ASSUME NEW k \in (b + 1) .. Len(s)
      PROVE  r[(k - b) + a + Len(mid)] = s[k]
  <2>1. k - b \in 1 .. Len(v)
    BY <1>0, <1>2
  <2>2. Len(w) + (k - b) = (k - b) + a + Len(mid) /\ b + (k - b) = k
    BY <1>0, <1>3
  <2> QED
    BY <1>2, <1>5, <2>1, <2>2
<1>7. \A k \in 1 .. a : k \in 1 .. Len(w)
  BY <1>0, <1>3
<1>8. \A k \in 1 .. Len(mid) : a + k \in 1 .. Len(w)
  BY <1>0, <1>3
<1>9. Len(r) = a + Len(mid) + (Len(s) - b)
  BY <1>0, <1>2, <1>3, <1>5
<1> QED
  BY <1>3, <1>5, <1>6, <1>7, <1>8, <1>9 DEF SpliceOf

LEMMA CutOut ==
  ASSUME NEW T, NEW s \in Seq(T), NEW a \in Nat, NEW b \in Nat,
         a <= b, b <= Len(s),
         NEW r, r = SubSeq(s, 1, a) \o SubSeq(s, b + 1, Len(s))
  PROVE  r = Splice(s, <<>>, a, b)
<1>0. Len(s) \in Nat /\ <<>> \in Seq(T)
  OBVIOUS
<1>1. SubSeq(s, 1, a) \in Seq(T)
  BY <1>0, SubSeqProperties
<1>2. SubSeq(s, 1, a) \o <<>> = SubSeq(s, 1, a)
  BY <1>1, ConcatEmptySeq
<1> QED
  BY <1>2 DEF Splice

-----------------------------------------------------------------------------
(***************************************************************************)
(* The hooks.  A hook whose markers are whole holds no line of ours, or    *)
(* one block of three and nothing of ours around it.                       *)
(***************************************************************************)
Outside == Foreign \cup {HK!HEAD}
Free(text) == \A k \in DOMAIN text : text[k] \in Outside
BlockAt(text, i, t) ==
  /\ 1 <= i /\ i + 2 <= Len(text)
  /\ text[i] = HK!START /\ text[i + 1] = t /\ text[i + 2] = HK!END
  /\ \A k \in DOMAIN text : k \notin i .. i + 2 => text[k] \in Outside
Holds(text, t) == \E i \in Nat : BlockAt(text, i, t)
Whole(text) ==
  /\ text \in Seq(HK!Line)
  /\ Free(text) \/ \E t \in Trigger : Holds(text, t)

LEMMA LinesApart ==
  /\ HK!START \notin Outside /\ HK!END \notin Outside
  /\ HK!START # HK!END
  /\ \A t \in Trigger : t \notin Outside /\ t # HK!START /\ t # HK!END
  BY HostAssumption DEF HK!HooksAssumption, Outside, HK!START, HK!END, HK!HEAD

LEMMA BlockFound ==
  ASSUME NEW text \in Seq(HK!Line), NEW i \in Nat, NEW t \in Trigger,
         BlockAt(text, i, t)
  PROVE  /\ HK!Start(text) = i /\ HK!End(text) = i + 2
         /\ HK!Has(text, HK!START) /\ HK!Has(text, HK!END)
         /\ ~HK!Raises(text)
<1>1. PICK n \in Nat : n = Len(text) /\ DOMAIN text = 1 .. n
  OBVIOUS
<1>2. \A k \in 1 .. n : text[k] = HK!START => k = i
  BY <1>1, LinesApart DEF BlockAt
<1>3. \A k \in 1 .. n : text[k] = HK!END => k = i + 2
  BY <1>1, LinesApart DEF BlockAt
<1>4. i \in 1 .. n /\ i + 2 \in 1 .. n
  BY <1>1 DEF BlockAt
<1>5. {j \in DOMAIN text : j >= 1 /\ text[j] = HK!START} = {i}
  BY <1>1, <1>2, <1>4 DEF BlockAt
<1>6. {j \in DOMAIN text : j >= i /\ text[j] = HK!END} = {i + 2}
  BY <1>1, <1>3, <1>4 DEF BlockAt
<1>7. \A x \in Nat : HK!Min({x}) = x
  BY DEF HK!Min
<1>8. HK!Start(text) = i
  <2>1. HK!Start(text) = HK!Min({i})
    BY <1>5 DEF HK!Start, HK!FirstFrom
  <2> QED
    BY <1>7, <2>1
<1>9. HK!End(text) = i + 2
  <2>1. HK!End(text) = HK!Min({i + 2})
    BY <1>6, <1>8 DEF HK!End, HK!FirstFrom
  <2> QED
    BY <1>7, <2>1
<1>10. HK!Has(text, HK!START) /\ HK!Has(text, HK!END)
  BY <1>1, <1>4 DEF HK!Has, HK!ToSet, BlockAt
<1> QED
  BY <1>8, <1>9, <1>10 DEF HK!Raises

LEMMA NoneFound ==
  ASSUME NEW text \in Seq(HK!Line), Free(text)
  PROVE  /\ HK!Start(text) = 0
         /\ ~HK!Has(text, HK!START) /\ ~HK!Has(text, HK!END)
         /\ ~HK!Raises(text)
<1>1. \A k \in DOMAIN text : text[k] # HK!START /\ text[k] # HK!END
  BY LinesApart DEF Free
<1>2. ~HK!Has(text, HK!START) /\ ~HK!Has(text, HK!END)
  BY <1>1 DEF HK!Has, HK!ToSet
<1>3. {j \in DOMAIN text : j >= 1 /\ text[j] = HK!START} = {}
  BY <1>1
<1>4. HK!Start(text) = 0
  BY <1>3 DEF HK!Start, HK!FirstFrom
<1> QED
  BY <1>2, <1>4 DEF HK!Raises

LEMMA NewBlock ==
  ASSUME NEW t \in Trigger
  PROVE  /\ HK!_block_for(t) \in Seq(HK!Line) /\ Len(HK!_block_for(t)) = 3
         /\ HK!_block_for(t)[1] = HK!START /\ HK!_block_for(t)[2] = t
         /\ HK!_block_for(t)[3] = HK!END
  BY DEF HK!_block_for, HK!Line

(* A text spliced outside of its block, or around where it was. *)
LEMMA Installs ==
  ASSUME NEW text, Whole(text), NEW t \in Trigger
  PROVE  /\ HK!Installed(text, HK!_block_for(t)) \in Seq(HK!Line)
         /\ Holds(HK!Installed(text, HK!_block_for(t)), t)
<1> DEFINE block == HK!_block_for(t)
           r == HK!Installed(text, block)
<1>0. /\ text \in Seq(HK!Line) /\ block \in Seq(HK!Line) /\ Len(block) = 3
      /\ block[1] = HK!START /\ block[2] = t /\ block[3] = HK!END
  BY NewBlock DEF Whole
<1> HIDE DEF block
<1>1. CASE Free(text)
  <2> DEFINE old == IF text = <<>> THEN <<HK!HEAD>> ELSE text
  <2>1. r = old \o block
    <3>1. ~(HK!Has(text, HK!START) /\ HK!Has(text, HK!END))
      BY <1>0, <1>1, NoneFound
    <3> QED
      BY <3>1 DEF HK!Installed
  <2>2. old \in Seq(HK!Line) /\ Free(old)
    <3>1. CASE text = <<>>
      <4>1. old = <<HK!HEAD>> /\ HK!HEAD \in Outside /\ HK!HEAD \in HK!Line
        BY <3>1 DEF Outside, HK!Line
      <4> HIDE DEF old
      <4> QED
        BY <4>1 DEF Free
    <3>2. CASE text # <<>>
      BY <1>0, <1>1, <3>2
    <3> QED
      BY <3>1, <3>2
  <2> HIDE DEF old, r
  <2>3. r \in Seq(HK!Line) /\ JoinOf(r, old, block)
    BY <1>0, <2>1, <2>2, Joined
  <2>4. PICK n \in Nat : n = Len(old) /\ DOMAIN old = 1 .. n
    BY <2>2
  <2>5. Len(r) = n + 3 /\ DOMAIN r = 1 .. (n + 3)
    BY <1>0, <2>3, <2>4 DEF JoinOf
  <2>6. \A k \in 1 .. n : r[k] \in Outside
    BY <2>2, <2>3, <2>4 DEF JoinOf, Free
  <2>7. /\ r[n + 1] = block[1] /\ r[n + 2] = block[2]
        /\ r[n + 3] = block[3]
    BY <1>0, <2>3, <2>4 DEF JoinOf
  <2>8. BlockAt(r, n + 1, t)
    <3>1. \A k \in DOMAIN r : k \notin (n + 1) .. (n + 1) + 2 => k \in 1 .. n
      BY <2>4, <2>5
    <3>2. 1 <= n + 1 /\ (n + 1) + 2 <= Len(r)
      BY <2>4, <2>5
    <3>3. /\ r[n + 1] = HK!START /\ r[(n + 1) + 1] = t
          /\ r[(n + 1) + 2] = HK!END
      BY <1>0, <2>4, <2>7
    <3> QED
      BY <2>6, <3>1, <3>2, <3>3 DEF BlockAt
  <2>9. r \in Seq(HK!Line) /\ Holds(r, t)
    BY <2>3, <2>4, <2>8 DEF Holds
  <2> QED
    BY <2>9 DEF r, block
<1>2. CASE ~Free(text)
  <2>1. PICK i \in Nat, u \in Trigger : BlockAt(text, i, u)
    BY <1>2 DEF Whole, Holds
  <2>2. /\ HK!Start(text) = i /\ HK!End(text) = i + 2
        /\ HK!Has(text, HK!START) /\ HK!Has(text, HK!END)
    BY <1>0, <2>1, BlockFound
  <2>3. text # <<>>
    BY <2>1 DEF BlockAt
  <2>4. r = Splice(text, block, i - 1, i + 2)
    BY <2>2, <2>3 DEF HK!Installed, HK!_replace_block, Splice
  <2>5. PICK n \in Nat : n = Len(text) /\ DOMAIN text = 1 .. n
    BY <1>0
  <2> DEFINE a == i - 1  b == i + 2
  <2>6. /\ a \in Nat /\ b \in Nat /\ a <= b /\ b <= n
        /\ a = i - 1 /\ b = i + 2 /\ r = Splice(text, block, a, b)
    BY <2>1, <2>4, <2>5 DEF BlockAt
  <2> HIDE DEF r, a, b
  <2>7. r \in Seq(HK!Line) /\ SpliceOf(r, text, block, a, b)
    BY <1>0, <2>5, <2>6, Spliced
  <2>8. Len(r) = n /\ DOMAIN r = 1 .. n
    <3>1. Len(r) = a + Len(block) + (Len(text) - b)
      BY <2>7 DEF SpliceOf
    <3>2. Len(r) = n
      BY <1>0, <2>5, <2>6, <3>1
    <3> QED
      BY <2>5, <2>7, <3>2
  <2>9. ASSUME NEW k \in 1 .. (i - 1)
        PROVE  r[k] \in Outside
    <3>1. r[k] = text[k]
      BY <2>6, <2>7 DEF SpliceOf
    <3>2. k \in 1 .. n /\ k \notin i .. i + 2
      BY <2>6
    <3> QED
      BY <2>1, <2>5, <3>1, <3>2 DEF BlockAt
  <2>10. /\ r[i] = block[1] /\ r[i + 1] = block[2]
         /\ r[i + 2] = block[3]
    <3>1. /\ r[a + 1] = block[1] /\ r[a + 2] = block[2]
          /\ r[a + 3] = block[3]
      BY <1>0, <2>7 DEF SpliceOf
    <3>2. a + 1 = i /\ a + 2 = i + 1 /\ a + 3 = i + 2
      BY <2>6
    <3> QED
      BY <3>1, <3>2
  <2>11. ASSUME NEW k \in (i + 3) .. n
         PROVE  r[k] \in Outside
    <3>1. (k - b) + a + 3 = k /\ k \in (b + 1) .. n
      BY <2>6
    <3>2. r[k] = text[k]
      BY <1>0, <2>5, <2>7, <3>1 DEF SpliceOf
    <3> QED
      BY <2>1, <2>5, <2>6, <3>2 DEF BlockAt
  <2>12. BlockAt(r, i, t)
    <3>1. \A k \in DOMAIN r : k \notin i .. i + 2 =>
            k \in 1 .. (i - 1) \/ k \in (i + 3) .. n
      BY <2>6, <2>8
    <3>2. 1 <= i /\ i + 2 <= Len(r)
      BY <2>6, <2>8
    <3> QED
      BY <1>0, <2>9, <2>10, <2>11, <3>1, <3>2 DEF BlockAt
  <2>13. r \in Seq(HK!Line) /\ Holds(r, t)
    BY <2>7, <2>12 DEF Holds
  <2> QED
    BY <2>13 DEF r, block
<1> QED
  BY <1>1, <1>2

LEMMA Removes ==
  ASSUME NEW text, Whole(text)
  PROVE  HK!Removed(text) \in Seq(HK!Line) /\ Free(HK!Removed(text))
<1>0. text \in Seq(HK!Line)
  BY DEF Whole
<1>1. CASE Free(text)
  BY <1>0, <1>1, NoneFound DEF HK!Removed
<1>2. CASE ~Free(text)
  <2>1. PICK i \in Nat, u \in Trigger : BlockAt(text, i, u)
    BY <1>2 DEF Whole, Holds
  <2>2. /\ HK!Start(text) = i /\ HK!End(text) = i + 2
        /\ HK!Has(text, HK!START)
    BY <1>0, <2>1, BlockFound
  <2> DEFINE r == HK!_strip_block(text)
  <2>3. r = SubSeq(text, 1, i - 1) \o SubSeq(text, (i + 2) + 1, Len(text))
    BY <2>2 DEF HK!_strip_block
  <2>4. PICK n \in Nat : n = Len(text) /\ DOMAIN text = 1 .. n
    BY <1>0
  <2>5. i - 1 \in Nat /\ i + 2 \in Nat /\ i - 1 <= i + 2 /\ i + 2 <= n
    BY <2>1, <2>4 DEF BlockAt
  <2> HIDE DEF r
  <2>6. /\ r \in Seq(HK!Line)
        /\ SpliceOf(r, text, <<>>, i - 1, i + 2)
    <3>1. r = Splice(text, <<>>, i - 1, i + 2)
      BY <1>0, <2>3, <2>4, <2>5, CutOut
    <3> DEFINE a == i - 1  b == i + 2  nil == <<>>
    <3>2. /\ a \in Nat /\ b \in Nat /\ a <= b /\ b <= Len(text)
          /\ r = Splice(text, nil, a, b) /\ nil \in Seq(HK!Line)
      BY <2>4, <2>5, <3>1
    <3> HIDE DEF a, b, nil
    <3>3. r \in Seq(HK!Line) /\ SpliceOf(r, text, nil, a, b)
      BY <1>0, <3>2, Spliced
    <3> QED
      BY <3>3 DEF a, b, nil
  <2>7. Len(r) = n - 3 /\ DOMAIN r = 1 .. (n - 3)
    BY <2>4, <2>5, <2>6 DEF SpliceOf
  <2>8. ASSUME NEW k \in 1 .. (n - 3)
        PROVE  r[k] \in Outside
    <3>1. CASE k \in 1 .. (i - 1)
      BY <2>1, <2>4, <2>5, <2>6, <3>1 DEF SpliceOf, BlockAt
    <3>2. CASE k \in i .. (n - 3)
      <4>1. /\ k + 3 \in ((i + 2) + 1) .. n
            /\ ((k + 3) - (i + 2)) + (i - 1) + 0 = k
            /\ k + 3 \notin i .. i + 2 /\ k + 3 \in 1 .. n
        BY <2>5, <3>2
      <4>2. r[k] = text[k + 3]
        <5>1. r[((k + 3) - (i + 2)) + (i - 1) + Len(<<>>)] = text[k + 3]
          BY <2>4, <2>6, <4>1 DEF SpliceOf
        <5> QED
          BY <4>1, <5>1
      <4> QED
        BY <2>1, <2>4, <4>1, <4>2 DEF BlockAt
    <3> QED
      BY <2>5, <3>1, <3>2
  <2>9. Free(r)
    BY <2>7, <2>8 DEF Free
  <2>10. <<>> \in Seq(HK!Line) /\ Free(<<>>)
    BY DEF Free
  <2> QED
    BY <2>2, <2>6, <2>9, <2>10 DEF HK!Removed, r
<1> QED
  BY <1>1, <1>2

LEMMA Inserts ==
  ASSUME NEW text, Whole(text), NEW f \in Foreign, NEW p \in 0 .. Len(text),
         ~(HK!Start(text) \in 1 .. p /\ p < HK!End(text))
  PROVE  Whole(HK!InsertAt(text, p + 1, f))
<1> DEFINE r == HK!InsertAt(text, p + 1, f)  mid == <<f>>
<1>0. /\ text \in Seq(HK!Line) /\ f \in HK!Line /\ f \in Outside
      /\ mid \in Seq(HK!Line) /\ Len(mid) = 1 /\ mid[1] = f
  BY DEF Whole, HK!Line, Outside
<1>1. PICK n \in Nat : n = Len(text) /\ DOMAIN text = 1 .. n
  BY <1>0
<1> HIDE DEF mid
<1>2. r = Splice(text, mid, p, p)
  <2>1. (p + 1) - 1 = p
    BY <1>1
  <2> QED
    BY <2>1 DEF HK!InsertAt, Splice, mid
<1> HIDE DEF r
<1>3. r \in Seq(HK!Line) /\ SpliceOf(r, text, mid, p, p)
  BY <1>0, <1>1, <1>2, Spliced
<1>4. Len(r) = n + 1 /\ DOMAIN r = 1 .. (n + 1)
  <2>1. Len(r) = p + Len(mid) + (Len(text) - p)
    BY <1>3 DEF SpliceOf
  <2>2. Len(r) = n + 1
    BY <1>0, <1>1, <2>1
  <2> QED
    BY <1>3, <2>2
<1>5. \A k \in 1 .. p : r[k] = text[k]
  BY <1>3 DEF SpliceOf
<1>6. r[p + 1] = f
  BY <1>0, <1>3 DEF SpliceOf
<1>7. ASSUME NEW k \in (p + 1) .. n
      PROVE  r[k + 1] = text[k]
  <2>1. (k - p) + p + Len(mid) = k + 1
    BY <1>0, <1>1
  <2> QED
    BY <1>1, <1>3, <2>1 DEF SpliceOf
<1>8. ASSUME NEW k \in 1 .. (n + 1), k # p + 1
      PROVE  \/ k \in 1 .. p /\ r[k] = text[k]
             \/ k - 1 \in (p + 1) .. n /\ r[k] = text[k - 1]
  <2>1. k \in 1 .. p \/ k - 1 \in (p + 1) .. n
    BY <1>1, <1>8
  <2>2. (k - 1) + 1 = k
    OBVIOUS
  <2> QED
    BY <1>5, <1>7, <2>1, <2>2
<1>9. CASE Free(text)
  <2>1. ASSUME NEW k \in 1 .. (n + 1)
        PROVE  r[k] \in Outside
    <3>1. CASE k = p + 1
      BY <1>0, <1>6, <3>1
    <3>2. CASE k \in 1 .. p /\ r[k] = text[k]
      <4>1. k \in 1 .. n
        BY <1>1, <3>2
      <4> QED
        BY <1>1, <1>9, <3>2, <4>1 DEF Free
    <3>3. CASE k - 1 \in (p + 1) .. n /\ r[k] = text[k - 1]
      <4> DEFINE m == k - 1
      <4>1. m \in 1 .. n /\ r[k] = text[m]
        BY <1>1, <3>3
      <4> HIDE DEF m
      <4> QED
        BY <1>1, <1>9, <4>1 DEF Free
    <3> QED
      BY <1>8, <3>1, <3>2, <3>3
  <2>2. Free(r)
    BY <1>4, <2>1 DEF Free
  <2> QED
    BY <1>3, <2>2 DEF Whole, r
<1>10. CASE ~Free(text)
  <2>1. PICK i \in Nat, t \in Trigger : BlockAt(text, i, t)
    BY <1>10 DEF Whole, Holds
  <2>2. HK!Start(text) = i /\ HK!End(text) = i + 2
    BY <1>0, <2>1, BlockFound
  <2>3. 1 <= i /\ i + 2 <= n
    BY <1>1, <2>1 DEF BlockAt
  <2>4. p < i \/ i + 2 <= p
    BY <1>1, <2>2, <2>3
  <2>5. CASE i + 2 <= p
    <3>1. /\ r[i] = HK!START /\ r[i + 1] = t /\ r[i + 2] = HK!END
      BY <1>1, <1>5, <2>1, <2>3, <2>5 DEF BlockAt
    <3>2. ASSUME NEW k \in 1 .. (n + 1), k \notin i .. i + 2
          PROVE  r[k] \in Outside
      <4>1. CASE k = p + 1
        BY <1>0, <1>6, <4>1
      <4>2. CASE k \in 1 .. p /\ r[k] = text[k]
        BY <1>1, <2>1, <3>2, <4>2 DEF BlockAt
      <4>3. CASE k - 1 \in (p + 1) .. n /\ r[k] = text[k - 1]
        <5>1. k - 1 \in 1 .. n /\ k - 1 \notin i .. i + 2
          BY <1>1, <2>3, <2>5, <4>3
        <5> QED
          BY <1>1, <2>1, <4>3, <5>1 DEF BlockAt
      <4> QED
        BY <1>8, <4>1, <4>2, <4>3
    <3>3. 1 <= i /\ i + 2 <= Len(r)
      BY <1>1, <1>4, <2>3
    <3>4. BlockAt(r, i, t)
      BY <1>4, <3>1, <3>2, <3>3 DEF BlockAt
    <3> QED
      BY <1>3, <3>4 DEF Whole, Holds, r
  <2>6. CASE p < i
    <3> DEFINE j == i + 1
    <3>0. j \in Nat /\ j = i + 1
      OBVIOUS
    <3> HIDE DEF j
    <3>1. r[j] = HK!START /\ r[j + 1] = t /\ r[j + 2] = HK!END
      <4>1. /\ i \in (p + 1) .. n /\ i + 1 \in (p + 1) .. n
            /\ i + 2 \in (p + 1) .. n
        BY <1>1, <2>3, <2>6
      <4>2. /\ r[i + 1] = text[i] /\ r[(i + 1) + 1] = text[i + 1]
            /\ r[(i + 2) + 1] = text[i + 2]
        BY <1>7, <4>1
      <4> QED
        BY <2>1, <3>0, <4>2 DEF BlockAt
    <3>2. ASSUME NEW k \in 1 .. (n + 1), k \notin j .. j + 2
          PROVE  r[k] \in Outside
      <4>1. CASE k = p + 1
        BY <1>0, <1>6, <4>1
      <4>2. CASE k \in 1 .. p /\ r[k] = text[k]
        <5>1. k \in 1 .. n /\ k \notin i .. i + 2
          BY <1>1, <2>6, <4>2
        <5> QED
          BY <1>1, <2>1, <4>2, <5>1 DEF BlockAt
      <4>3. CASE k - 1 \in (p + 1) .. n /\ r[k] = text[k - 1]
        <5>1. k - 1 \in 1 .. n /\ k - 1 \notin i .. i + 2
          BY <1>1, <3>0, <3>2, <4>3
        <5> QED
          BY <1>1, <2>1, <4>3, <5>1 DEF BlockAt
      <4> QED
        BY <1>8, <4>1, <4>2, <4>3
    <3>3. 1 <= j /\ j + 2 <= Len(r)
      BY <1>1, <1>4, <2>3, <3>0
    <3>4. BlockAt(r, j, t)
      BY <1>4, <3>1, <3>2, <3>3 DEF BlockAt
    <3> QED
      BY <1>3, <3>0, <3>4 DEF Whole, Holds, r
  <2> QED
    BY <2>4, <2>5, <2>6
<1> QED
  BY <1>9, <1>10

LEMMA Deletes ==
  ASSUME NEW text, Whole(text), NEW p \in DOMAIN text, text[p] \in Outside
  PROVE  Whole(HK!RemoveAt(text, p))
<1> DEFINE r == HK!RemoveAt(text, p)  nil == <<>>
<1>0. text \in Seq(HK!Line) /\ nil \in Seq(HK!Line) /\ Len(nil) = 0
  BY DEF Whole
<1>1. PICK n \in Nat : n = Len(text) /\ DOMAIN text = 1 .. n
  BY <1>0
<1> DEFINE a == p - 1
<1>2. a \in Nat /\ p \in Nat /\ a <= p /\ p <= Len(text) /\ a = p - 1
  BY <1>1
<1> HIDE DEF a
<1>3. r = Splice(text, nil, a, p)
  <2>1. r = SubSeq(text, 1, a) \o SubSeq(text, p + 1, Len(text))
    BY <1>2 DEF HK!RemoveAt
  <2> HIDE DEF r
  <2> QED
    BY <1>0, <1>2, <2>1, CutOut
<1> HIDE DEF r, nil
<1>4. r \in Seq(HK!Line) /\ SpliceOf(r, text, nil, a, p)
  BY <1>0, <1>2, <1>3, Spliced
<1>5. Len(r) = n - 1 /\ DOMAIN r = 1 .. (n - 1)
  <2>1. Len(r) = a + Len(nil) + (Len(text) - p)
    BY <1>4 DEF SpliceOf
  <2>2. Len(r) = n - 1
    BY <1>0, <1>1, <1>2, <2>1
  <2> QED
    BY <1>4, <2>2
<1>6. \A k \in 1 .. a : r[k] = text[k]
  BY <1>4 DEF SpliceOf
<1>7. ASSUME NEW k \in p .. (n - 1)
      PROVE  r[k] = text[k + 1]
  <2>1. ((k + 1) - p) + a + Len(nil) = k /\ k + 1 \in (p + 1) .. n
    BY <1>0, <1>1, <1>2
  <2> QED
    BY <1>1, <1>4, <2>1 DEF SpliceOf
<1>8. ASSUME NEW k \in 1 .. (n - 1)
      PROVE  \/ k < p /\ r[k] = text[k]
             \/ p <= k /\ r[k] = text[k + 1]
  <2>1. k \in 1 .. a \/ k \in p .. (n - 1)
    BY <1>2
  <2>2. CASE k \in 1 .. a
    BY <1>2, <1>6, <2>2
  <2>3. CASE k \in p .. (n - 1)
    BY <1>7, <2>3
  <2> QED
    BY <2>1, <2>2, <2>3
<1>9. CASE Free(text)
  <2>1. \A k \in 1 .. (n - 1) : k \in 1 .. n /\ k + 1 \in 1 .. n
    BY <1>1
  <2>2. Free(r)
    BY <1>1, <1>5, <1>8, <1>9, <2>1 DEF Free
  <2> QED
    BY <1>4, <2>2 DEF Whole, r
<1>10. CASE ~Free(text)
  <2>1. PICK i \in Nat, t \in Trigger : BlockAt(text, i, t)
    BY <1>10 DEF Whole, Holds
  <2>2. 1 <= i /\ i + 2 <= n
    BY <1>1, <2>1 DEF BlockAt
  <2>3. p < i \/ i + 2 < p
    <3>1. p # i /\ p # i + 1 /\ p # i + 2
      BY <2>1, LinesApart DEF BlockAt
    <3> QED
      BY <1>2, <2>2, <3>1
  <2>4. ASSUME NEW j \in Nat, 1 <= j, j + 2 <= n - 1,
               \A k \in j .. j + 2 : r[k] = text[(k - j) + i],
               \A k \in 1 .. (n - 1) : k \notin j .. j + 2 =>
                 \/ k < p /\ k \notin i .. i + 2
                 \/ p <= k /\ k + 1 \notin i .. i + 2
        PROVE  BlockAt(r, j, t)
    <3>1. r[j] = HK!START /\ r[j + 1] = t /\ r[j + 2] = HK!END
      <4>1. /\ (j - j) + i = i /\ ((j + 1) - j) + i = i + 1
            /\ ((j + 2) - j) + i = i + 2
            /\ j \in j .. j + 2 /\ j + 1 \in j .. j + 2
            /\ j + 2 \in j .. j + 2
        OBVIOUS
      <4> QED
        BY <2>1, <2>4, <4>1 DEF BlockAt
    <3>2. ASSUME NEW k \in 1 .. (n - 1), k \notin j .. j + 2
          PROVE  r[k] \in Outside
      <4>1. CASE k < p /\ k \notin i .. i + 2
        <5>1. k \in 1 .. n /\ r[k] = text[k]
          BY <1>1, <1>2, <1>8, <4>1
        <5> QED
          BY <1>1, <2>1, <4>1, <5>1 DEF BlockAt
      <4>2. CASE p <= k /\ k + 1 \notin i .. i + 2
        <5>1. k + 1 \in 1 .. n /\ r[k] = text[k + 1]
          BY <1>1, <1>2, <1>8, <4>2
        <5> QED
          BY <1>1, <2>1, <4>2, <5>1 DEF BlockAt
      <4> QED
        BY <2>4, <3>2, <4>1, <4>2
    <3> QED
      BY <1>5, <2>4, <3>1, <3>2 DEF BlockAt
  <2>5. CASE i + 2 < p
    <3>1. /\ 1 <= i /\ i + 2 <= n - 1
          /\ \A k \in 1 .. (n - 1) : k \notin i .. i + 2 =>
               \/ k < p /\ k \notin i .. i + 2
               \/ p <= k /\ k + 1 \notin i .. i + 2
      BY <1>1, <1>2, <2>2, <2>5
    <3>2. ASSUME NEW k \in i .. i + 2
          PROVE  r[k] = text[(k - i) + i]
      <4>1. k \in 1 .. (n - 1) /\ k < p /\ (k - i) + i = k
        BY <1>1, <1>2, <2>2, <2>5
      <4> QED
        BY <1>2, <1>8, <4>1
    <3>3. BlockAt(r, i, t)
      BY <2>4, <3>1, <3>2
    <3> QED
      BY <1>4, <3>3 DEF Whole, Holds, r
  <2>6. CASE p < i
    <3> DEFINE j == i - 1
    <3>0. j \in Nat /\ j = i - 1 /\ 1 <= j /\ j + 2 <= n - 1
      BY <1>1, <1>2, <2>2, <2>6
    <3> HIDE DEF j
    <3>1. \A k \in 1 .. (n - 1) : k \notin j .. j + 2 =>
            \/ k < p /\ k \notin i .. i + 2
            \/ p <= k /\ k + 1 \notin i .. i + 2
      BY <1>1, <1>2, <2>2, <2>6, <3>0
    <3>2. ASSUME NEW k \in j .. j + 2
          PROVE  r[k] = text[(k - j) + i]
      <4>1. k \in 1 .. (n - 1) /\ p <= k /\ (k - j) + i = k + 1
        BY <1>1, <1>2, <2>2, <2>6, <3>0
      <4> QED
        BY <1>2, <1>8, <4>1
    <3>3. BlockAt(r, j, t)
      BY <2>4, <3>0, <3>1, <3>2
    <3> QED
      BY <1>4, <3>0, <3>3 DEF Whole, Holds, r
  <2> QED
    BY <2>3, <2>5, <2>6
<1> QED
  BY <1>9, <1>10

-----------------------------------------------------------------------------
(* What is left to do after the first hook. *)
LEMMA HeadOrTail ==
  ASSUME NEW S, NEW q \in Seq(S), q # <<>>
  PROVE  /\ Head(q) \in S /\ Tail(q) \in Seq(S)
         /\ Len(q) # 1 => Tail(q) # <<>>
         /\ \A h \in HK!ToSet(q) :
              h = Head(q) \/ (Len(q) # 1 /\ h \in HK!ToSet(Tail(q)))
<1>1. PICK n \in Nat : n = Len(q) /\ DOMAIN q = 1 .. n
  OBVIOUS
<1>2. n # 0 /\ 1 \in 1 .. n /\ Head(q) = q[1]
  BY <1>1
<1> DEFINE r == Tail(q)
<1>3. /\ r \in Seq(S) /\ Len(r) = n - 1
      /\ \A k \in 1 .. (n - 1) : r[k] = q[k + 1]
  BY <1>1, <1>2, HeadTailProperties
<1> HIDE DEF r
<1>4. DOMAIN r = 1 .. (n - 1)
  BY <1>1, <1>3
<1>5. ASSUME NEW k \in 1 .. n, k # 1
      PROVE  n # 1 /\ q[k] \in HK!ToSet(r)
  <2> DEFINE m == k - 1
  <2>1. m \in 1 .. (n - 1) /\ m + 1 = k /\ n # 1
    BY <1>1, <1>5
  <2> HIDE DEF m
  <2>2. r[m] = q[k]
    BY <1>3, <2>1
  <2> QED
    BY <1>4, <2>1, <2>2 DEF HK!ToSet
<1>6. ASSUME NEW h \in HK!ToSet(q)
      PROVE  h = Head(q) \/ (Len(q) # 1 /\ h \in HK!ToSet(r))
  <2>1. PICK k \in 1 .. n : h = q[k]
    BY <1>1, <1>6 DEF HK!ToSet
  <2>2. CASE k = 1
    BY <1>2, <2>1, <2>2
  <2>3. CASE k # 1
    BY <1>1, <1>5, <2>1, <2>3
  <2> QED
    BY <2>2, <2>3
<1>7. Head(q) \in S
  BY <1>1, <1>2
<1>8. n # 1 => r # <<>>
  BY <1>1, <1>2, <1>3
<1> QED
  BY <1>1, <1>3, <1>6, <1>7, <1>8 DEF r

(* A line that is in one place, or in none. *)
LEMMA CountOne ==
  ASSUME NEW text, NEW line, NEW p \in DOMAIN text,
         \A k \in DOMAIN text : text[k] = line <=> k = p
  PROVE  HK!Count(text, line) = 1
<1>1. {k \in DOMAIN text : text[k] = line} = {p}
  OBVIOUS
<1>2. HK!Cardinality({p}) = Cardinality({p})
  BY Zenon DEF HK!Cardinality, Cardinality
<1> QED
  BY <1>1, <1>2, FS_Singleton DEF HK!Count

LEMMA CountNone ==
  ASSUME NEW text, NEW line, \A k \in DOMAIN text : text[k] # line
  PROVE  HK!Count(text, line) = 0
<1>1. {k \in DOMAIN text : text[k] = line} = {}
  OBVIOUS
<1>2. HK!Cardinality({}) = Cardinality({})
  BY Zenon DEF HK!Cardinality, Cardinality
<1> QED
  BY <1>1, <1>2, FS_EmptySet DEF HK!Count

LEMMA FreeCounts ==
  ASSUME NEW text, Free(text)
  PROVE  /\ HK!Count(text, HK!START) = 0 /\ HK!Count(text, HK!END) = 0
         /\ HK!ToSet(text) \subseteq Foreign \cup {HK!HEAD}
<1>1. \A k \in DOMAIN text : text[k] # HK!START /\ text[k] # HK!END
  BY LinesApart DEF Free
<1>2. HK!ToSet(text) \subseteq Foreign \cup {HK!HEAD}
  BY DEF Free, Outside, HK!ToSet
<1> QED
  BY <1>1, <1>2, CountNone

LEMMA BlockCounts ==
  ASSUME NEW text \in Seq(HK!Line), NEW t \in Trigger, Holds(text, t)
  PROVE  /\ HK!Count(text, HK!START) = 1 /\ HK!Count(text, HK!END) = 1
         /\ HK!ToSet(text) \cap Trigger = {t}
<1>1. PICK i \in Nat : BlockAt(text, i, t)
  BY DEF Holds
<1>2. PICK n \in Nat : n = Len(text) /\ DOMAIN text = 1 .. n
  OBVIOUS
<1>3. /\ i \in 1 .. n /\ i + 1 \in 1 .. n /\ i + 2 \in 1 .. n
      /\ i # i + 1 /\ i # i + 2 /\ i + 1 # i + 2
      /\ \A k \in i .. i + 2 : k = i \/ k = i + 1 \/ k = i + 2
  BY <1>1, <1>2 DEF BlockAt
<1>4. /\ text[i] = HK!START /\ text[i + 1] = t /\ text[i + 2] = HK!END
      /\ \A k \in 1 .. n :
           k = i \/ k = i + 1 \/ k = i + 2 \/ text[k] \in Outside
  BY <1>1, <1>2, <1>3 DEF BlockAt
<1> DEFINE p == i  m == i + 1  q == i + 2
<1>5. /\ p \in 1 .. n /\ m \in 1 .. n /\ q \in 1 .. n
      /\ p # m /\ p # q /\ m # q
      /\ text[p] = HK!START /\ text[m] = t /\ text[q] = HK!END
      /\ \A k \in 1 .. n :
           k = p \/ k = m \/ k = q \/ text[k] \in Outside
  BY <1>3, <1>4
<1> HIDE DEF p, m, q
<1>6. \A k \in 1 .. n : text[k] = HK!START <=> k = p
  BY <1>5, LinesApart
<1>7. \A k \in 1 .. n : text[k] = HK!END <=> k = q
  BY <1>5, LinesApart
<1>8. \A k \in 1 .. n : text[k] \in Trigger <=> k = m
  <2>1. HK!START \notin Trigger /\ HK!END \notin Trigger
    BY LinesApart
  <2>2. \A k \in 1 .. n : text[k] \in Outside => text[k] \notin Trigger
    BY LinesApart
  <2> QED
    BY <1>5, <2>1, <2>2
<1>9. HK!ToSet(text) \cap Trigger = {t}
  BY <1>2, <1>5, <1>8 DEF HK!ToSet
<1>10. HK!Count(text, HK!START) = 1
  <2>1. p \in DOMAIN text
    BY <1>2, <1>5
  <2>2. \A k \in DOMAIN text : text[k] = HK!START <=> k = p
    BY <1>2, <1>6
  <2> QED
    BY <2>1, <2>2, CountOne
<1>11. HK!Count(text, HK!END) = 1
  <2>1. q \in DOMAIN text
    BY <1>2, <1>5
  <2>2. \A k \in DOMAIN text : text[k] = HK!END <=> k = q
    BY <1>2, <1>7
  <2> QED
    BY <2>1, <2>2, CountOne
<1> QED
  BY <1>9, <1>10, <1>11

-----------------------------------------------------------------------------
(***************************************************************************)
(* OneBlock is not inductive: it says nothing of a command in progress,    *)
(* and two markers the other way round, or apart, count as one block.  A   *)
(* hook whose markers are whole is Whole; the running command has done its *)
(* work in the hooks it has behind it; and while it runs no earlier        *)
(* command promises anything.                                              *)
(***************************************************************************)
After(c, text) ==
  /\ c.op = "install" => c.trigger \in Trigger /\ Holds(text, c.trigger)
  /\ c.op = "uninstall" => Free(text)

Running(c) ==
  /\ DOMAIN c = {"op", "trigger", "todo"}
  /\ c.op \in {"install", "uninstall"}
  /\ c.op = "install" => c.trigger \in Trigger
  /\ c.todo \in Seq(HK!Hooks) /\ c.todo # <<>>

HooksInv ==
  /\ DOMAIN file = HK!Hooks
  /\ \A h \in HK!Hooks \ broken : Whole(file[h]) /\ After(last, file[h])
  /\ command # HK!Nothing =>
       /\ Running(command) /\ last = HK!Nothing
       /\ \A h \in HK!Hooks \ broken :
            h \in HK!ToSet(command.todo) \/ After(command, file[h])

LEMMA HooksPromise == HooksInv => MCOneBlock
<1> SUFFICES ASSUME HooksInv, NEW h \in HK!Hooks \ broken
             PROVE  /\ HK!Count(file[h], HK!START) = HK!Count(file[h], HK!END)
                    /\ HK!Count(file[h], HK!START) <= 1
                    /\ last.op = "install" =>
                         HK!ToSet(file[h]) \cap Trigger = {last.trigger}
                    /\ last.op = "uninstall" =>
                         HK!ToSet(file[h]) \subseteq Foreign \cup {HK!HEAD}
  BY DEF MCOneBlock, HK!OneBlock
<1> DEFINE text == file[h]
<1>1. Whole(text) /\ After(last, text) /\ text \in Seq(HK!Line)
  BY DEF HooksInv, Whole
<1> HIDE DEF text
<1>2. /\ HK!Count(text, HK!START) = HK!Count(text, HK!END)
      /\ HK!Count(text, HK!START) <= 1
  <2>1. CASE Free(text)
    BY <2>1, FreeCounts
  <2>2. CASE ~Free(text)
    BY <1>1, <2>2, BlockCounts DEF Whole
  <2> QED
    BY <2>1, <2>2
<1>3. last.op = "install" => HK!ToSet(text) \cap Trigger = {last.trigger}
  BY <1>1, BlockCounts DEF After
<1>4. last.op = "uninstall" =>
        HK!ToSet(text) \subseteq Foreign \cup {HK!HEAD}
  BY <1>1, FreeCounts DEF After
<1> QED
  BY <1>2, <1>3, <1>4 DEF text

LEMMA NothingPromised == \A text : After(HK!Nothing, text)
  BY DEF After, HK!Nothing

LEMMA HooksInit == MCInit => HooksInv
<1> SUFFICES ASSUME HK!Init PROVE HooksInv
  BY DEF MCInit
<1>1. DOMAIN file = HK!Hooks /\ command = HK!Nothing /\ last = HK!Nothing
  BY DEF HK!Init
<1>2. ASSUME NEW h \in HK!Hooks
      PROVE  Whole(file[h])
  <2>1. \/ file[h] = <<>>
        \/ \E f \in Foreign : file[h] = <<f>>
    BY DEF HK!Init
  <2>2. <<>> \in Seq(HK!Line) /\ Free(<<>>)
    BY DEF Free
  <2>3. \A f \in Foreign : <<f>> \in Seq(HK!Line) /\ Free(<<f>>)
    BY DEF Free, HK!Line, Outside
  <2> QED
    BY <2>1, <2>2, <2>3 DEF Whole
<1> QED
  BY <1>1, <1>2, NothingPromised DEF HooksInv

LEMMA CallKeepsHooks ==
  ASSUME HooksInv, NEW c, NEW t,
         c = "uninstall" \/ (c = "install" /\ t \in Trigger),
         HK!Call(c, t)
  PROVE  HooksInv'
<1>1. /\ command' = [op |-> c, trigger |-> t, todo |-> Hook]
      /\ last' = HK!Nothing /\ file' = file /\ broken' = broken
  BY DEF HK!Call
<1>2. Hook \in Seq(HK!Hooks) /\ Hook # <<>>
  BY HostAssumption DEF HK!HooksAssumption
<1>3. Running(command')
  BY <1>1, <1>2 DEF Running
<1>4. command'.todo = Hook /\ HK!ToSet(Hook) = HK!Hooks
  BY <1>1 DEF HK!Hooks
<1> QED
  BY <1>1, <1>3, <1>4, NothingPromised DEF HooksInv

(* The step of a command in one hook, whose markers are whole or not. *)
LEMMA StepKeepsHooks ==
  ASSUME HooksInv, Running(command), last = HK!Nothing,
         \A h \in HK!Hooks \ broken :
           h \in HK!ToSet(command.todo) \/ After(command, file[h]),
         NEW text,
         Head(command.todo) \notin broken =>
           Whole(text) /\ After(command, text),
         file' = [file EXCEPT ![Head(command.todo)] = text],
         HK!Done, broken' = broken
  PROVE  HooksInv'
<1> DEFINE todo == command.todo  h1 == Head(todo)
<1>1. /\ h1 \in HK!Hooks /\ Tail(todo) \in Seq(HK!Hooks)
      /\ Len(todo) # 1 => Tail(todo) # <<>>
      /\ \A h \in HK!ToSet(todo) :
           h = h1 \/ (Len(todo) # 1 /\ h \in HK!ToSet(Tail(todo)))
  BY HeadOrTail DEF Running
<1>2. /\ DOMAIN file' = HK!Hooks /\ file'[h1] = text
      /\ \A h \in HK!Hooks : h # h1 => file'[h] = file[h]
  BY <1>1 DEF HooksInv
<1>3. \A h \in HK!Hooks \ broken : Whole(file'[h])
  BY <1>2 DEF HooksInv
<1>4. ASSUME NEW h \in HK!Hooks \ broken
      PROVE  \/ After(command, file'[h])
             \/ Len(todo) # 1 /\ h \in HK!ToSet(Tail(todo))
  BY <1>1, <1>2
<1>5. CASE Len(todo) = 1
  <2>1. command' = HK!Nothing /\ last' = command
    BY <1>5 DEF HK!Done
  <2> QED
    BY <1>2, <1>3, <1>4, <1>5, <2>1 DEF HooksInv
<1>6. CASE Len(todo) # 1
  <2>1. /\ command' = [command EXCEPT !.todo = Tail(todo)]
        /\ last' = HK!Nothing
    BY <1>6 DEF HK!Done
  <2>2. /\ DOMAIN command' = {"op", "trigger", "todo"}
        /\ command'.op = command.op /\ command'.trigger = command.trigger
        /\ command'.todo = Tail(todo)
    BY <2>1 DEF Running
  <2>3. Running(command')
    BY <1>1, <1>6, <2>2 DEF Running
  <2>4. \A h \in HK!Hooks \ broken :
          h \in HK!ToSet(command'.todo) \/ After(command', file'[h])
    BY <1>4, <2>2 DEF After
  <2> QED
    BY <1>2, <1>3, <2>1, <2>3, <2>4, NothingPromised DEF HooksInv
<1> QED
  BY <1>5, <1>6

LEMMA RaiseKeepsHooks ==
  ASSUME HooksInv, HK!Raise, broken' = broken
  PROVE  HooksInv'
  BY DEF HooksInv, HK!Raise

LEMMA InstallKeepsHooks ==
  ASSUME HooksInv, HK!install_hooks
  PROVE  HooksInv'
<1> DEFINE h1 == Head(command.todo)
<1>1. /\ command # HK!Nothing /\ command.op = "install"
      /\ broken' = broken
  BY DEF HK!install_hooks, HK!Nothing
<1>2. /\ Running(command) /\ last = HK!Nothing
      /\ command.trigger \in Trigger
      /\ \A h \in HK!Hooks \ broken :
           h \in HK!ToSet(command.todo) \/ After(command, file[h])
  BY <1>1 DEF HooksInv, Running
<1>3. h1 \in HK!Hooks /\ DOMAIN file = HK!Hooks
  BY <1>2, HeadOrTail DEF Running, HooksInv
<1>4. CASE HK!Raise
  BY <1>1, <1>4, RaiseKeepsHooks
<1>5. CASE ~HK!Raise
  <2> DEFINE text == HK!Installed(file[h1], HK!_block_for(command.trigger))
  <2>1. file' = [file EXCEPT ![h1] = text] /\ HK!Done
    BY <1>3, <1>5 DEF HK!install_hooks
  <2>2. h1 \notin broken => Whole(text) /\ After(command, text)
    <3>1. h1 \notin broken =>
            text \in Seq(HK!Line) /\ Holds(text, command.trigger)
      BY <1>2, <1>3, Installs DEF HooksInv
    <3> QED
      BY <1>1, <1>2, <3>1 DEF Whole, After
  <2> HIDE DEF text
  <2> QED
    BY <1>1, <1>2, <2>1, <2>2, StepKeepsHooks
<1> QED
  BY <1>4, <1>5

LEMMA UninstallKeepsHooks ==
  ASSUME HooksInv, HK!uninstall_hooks
  PROVE  HooksInv'
<1> DEFINE h1 == Head(command.todo)
<1>1. /\ command # HK!Nothing /\ command.op = "uninstall"
      /\ broken' = broken
  BY DEF HK!uninstall_hooks, HK!Nothing
<1>2. /\ Running(command) /\ last = HK!Nothing
      /\ \A h \in HK!Hooks \ broken :
           h \in HK!ToSet(command.todo) \/ After(command, file[h])
  BY <1>1 DEF HooksInv
<1>3. h1 \in HK!Hooks /\ DOMAIN file = HK!Hooks
  BY <1>2, HeadOrTail DEF Running, HooksInv
<1>4. CASE HK!Raise
  BY <1>1, <1>4, RaiseKeepsHooks
<1>5. CASE ~HK!Raise
  <2> DEFINE text == HK!Removed(file[h1])
  <2>1. file' = [file EXCEPT ![h1] = text] /\ HK!Done
    BY <1>3, <1>5 DEF HK!uninstall_hooks
  <2>2. h1 \notin broken => Whole(text) /\ After(command, text)
    <3>1. h1 \notin broken => text \in Seq(HK!Line) /\ Free(text)
      BY <1>3, Removes DEF HooksInv
    <3> QED
      BY <1>1, <3>1 DEF Whole, After
  <2> HIDE DEF text
  <2> QED
    BY <1>1, <1>2, <2>1, <2>2, StepKeepsHooks
<1> QED
  BY <1>4, <1>5

(* A write cut off leaves the hook broken; no command has returned. *)
LEMMA TornKeepsHooks ==
  ASSUME HooksInv, HK!Torn
  PROVE  HooksInv'
<1> DEFINE h1 == Head(command.todo)
<1>1. /\ command # HK!Nothing /\ command' = HK!Nothing /\ last' = last
      /\ file' = [file EXCEPT ![h1] = <<>>]
      /\ broken' = broken \cup {h1}
  BY DEF HK!Torn
<1>2. /\ DOMAIN file' = HK!Hooks
      /\ \A h \in HK!Hooks \ broken' : file'[h] = file[h]
  BY <1>1 DEF HooksInv
<1> QED
  BY <1>1, <1>2 DEF HooksInv

LEMMA EditKeepsHooks ==
  ASSUME HooksInv, NEW h1 \in HK!Hooks, HK!Edit(h1)
  PROVE  HooksInv'
<1>1. command' = HK!Nothing /\ last' = HK!Nothing
  BY DEF HK!Edit
<1>2. SUFFICES /\ DOMAIN file' = HK!Hooks
               /\ \A h \in HK!Hooks \ broken' : Whole(file'[h])
  BY <1>1, NothingPromised DEF HooksInv
<1>3. DOMAIN file = HK!Hooks /\ \A h \in HK!Hooks \ broken : Whole(file[h])
  BY DEF HooksInv
<1>4. ASSUME NEW text, file' = [file EXCEPT ![h1] = text],
             broken' = broken \/ broken' = broken \cup {h1},
             h1 \notin broken' => Whole(text)
      PROVE  /\ DOMAIN file' = HK!Hooks
             /\ \A h \in HK!Hooks \ broken' : Whole(file'[h])
  BY <1>3, <1>4
<1>5. \/ /\ \E f \in Foreign, i \in 0 .. Len(file[h1]) :
              /\ ~(HK!Start(file[h1]) \in 1 .. i /\ i < HK!End(file[h1]))
              /\ file' = [file EXCEPT ![h1] =
                            HK!InsertAt(file[h1], i + 1, f)]
         /\ broken' = broken
      \/ \E i \in DOMAIN file[h1] :
           /\ file' = [file EXCEPT ![h1] = HK!RemoveAt(file[h1], i)]
           /\ broken' = IF file[h1][i] \in Foreign \cup {HK!HEAD}
                        THEN broken ELSE broken \cup {h1}
  BY <1>3 DEF HK!Edit
<1>6. CASE /\ \E f \in Foreign, i \in 0 .. Len(file[h1]) :
                /\ ~(HK!Start(file[h1]) \in 1 .. i /\ i < HK!End(file[h1]))
                /\ file' = [file EXCEPT ![h1] =
                              HK!InsertAt(file[h1], i + 1, f)]
           /\ broken' = broken
  <2>1. PICK f \in Foreign, i \in 0 .. Len(file[h1]) :
          /\ ~(HK!Start(file[h1]) \in 1 .. i /\ i < HK!End(file[h1]))
          /\ file' = [file EXCEPT ![h1] = HK!InsertAt(file[h1], i + 1, f)]
    BY <1>6
  <2> DEFINE text == HK!InsertAt(file[h1], i + 1, f)
  <2>2. h1 \notin broken => Whole(text)
    BY <1>3, <2>1, Inserts
  <2>3. file' = [file EXCEPT ![h1] = text]
    BY <2>1
  <2> HIDE DEF text
  <2> QED
    BY <1>4, <1>6, <2>2, <2>3
<1>7. CASE \E i \in DOMAIN file[h1] :
             /\ file' = [file EXCEPT ![h1] = HK!RemoveAt(file[h1], i)]
             /\ broken' = IF file[h1][i] \in Foreign \cup {HK!HEAD}
                          THEN broken ELSE broken \cup {h1}
  <2>1. PICK i \in DOMAIN file[h1] :
          /\ file' = [file EXCEPT ![h1] = HK!RemoveAt(file[h1], i)]
          /\ broken' = IF file[h1][i] \in Foreign \cup {HK!HEAD}
                       THEN broken ELSE broken \cup {h1}
    BY <1>7
  <2> DEFINE text == HK!RemoveAt(file[h1], i)
  <2>2. h1 \notin broken' => Whole(text)
    <3>1. h1 \notin broken' =>
            file[h1][i] \in Outside /\ Whole(file[h1])
      BY <1>3, <2>1 DEF Outside
    <3> QED
      BY <2>1, <3>1, Deletes
  <2>3. /\ file' = [file EXCEPT ![h1] = text]
        /\ broken' = broken \/ broken' = broken \cup {h1}
    BY <2>1
  <2> HIDE DEF text
  <2> QED
    BY <1>4, <2>2, <2>3
<1> QED
  BY <1>5, <1>6, <1>7

LEMMA HooksNext ==
  ASSUME HooksInv, HK!Next \/ UNCHANGED hookVars
  PROVE  HooksInv'
<1>1. CASE UNCHANGED hookVars
  BY <1>1 DEF hookVars, HooksInv
<1>2. CASE HK!Next
  <2>1. CASE \E t \in Trigger : HK!Call("install", t)
    BY <2>1, CallKeepsHooks
  <2>2. CASE HK!Call("uninstall", HK!START)
    BY <2>2, CallKeepsHooks
  <2>3. CASE HK!install_hooks
    BY <2>3, InstallKeepsHooks
  <2>4. CASE HK!uninstall_hooks
    BY <2>4, UninstallKeepsHooks
  <2>5. CASE HK!Torn
    BY <2>5, TornKeepsHooks
  <2>6. CASE \E h \in HK!Hooks : HK!Edit(h)
    BY <2>6, EditKeepsHooks
  <2> QED
    BY <1>2, <2>1, <2>2, <2>3, <2>4, <2>5, <2>6 DEF HK!Next, HK!Step
<1> QED
  BY <1>1, <1>2

(* In every hook whose markers are whole, a command that returned left one *)
(* block, of its version of the program, or none, whatever was installed,  *)
(* removed, edited and cut off before: install_hooks and uninstall_hooks   *)
(* of sync/hooks.py.                                                       *)
THEOREM OneBlockHolds == MCSpec => []MCOneBlock
<1>1. HooksInv /\ [MCNext]_allVars => HooksInv'
  BY HostSteps, HooksNext
<1>2. MCSpec => MCInit /\ [][MCNext]_allVars
  BY PTL DEF MCSpec, allVars
<1> QED
  BY <1>1, <1>2, HooksPromise, HooksInit, PTL

-----------------------------------------------------------------------------
(***************************************************************************)
(* The lines of the user: each place of the one text that holds a line of  *)
(* his has a place in the other, in the same order.                        *)
(***************************************************************************)
Carried(u, v) ==
  \A k, l \in Foreign : /\ HK!Has(u, k) => HK!Has(v, k)
                        /\ HK!Before(u, k, l) => HK!Before(v, k, l)

LEMMA Carries ==
  ASSUME NEW u, NEW v, NEW to,
         \A i \in DOMAIN u : u[i] \in Foreign =>
           to[i] \in DOMAIN v /\ v[to[i]] = u[i],
         \A i, j \in DOMAIN u :
           u[i] \in Foreign /\ u[j] \in Foreign /\ i < j => to[i] < to[j]
  PROVE  Carried(u, v)
<1> SUFFICES ASSUME NEW k \in Foreign, NEW l \in Foreign
             PROVE  /\ HK!Has(u, k) => HK!Has(v, k)
                    /\ HK!Before(u, k, l) => HK!Before(v, k, l)
  BY DEF Carried
<1>1. HK!Has(u, k) => HK!Has(v, k)
  BY DEF HK!Has, HK!ToSet
<1>2. ASSUME HK!Before(u, k, l) PROVE HK!Before(v, k, l)
  <2>1. PICK i, j \in DOMAIN u : i < j /\ u[i] = k /\ u[j] = l
    BY <1>2 DEF HK!Before
  <2>2. /\ to[i] \in DOMAIN v /\ to[j] \in DOMAIN v
        /\ v[to[i]] = k /\ v[to[j]] = l /\ to[i] < to[j]
    BY <2>1
  <2> QED
    BY <2>2 DEF HK!Before
<1> QED
  BY <1>1, <1>2

LEMMA CarriedStays ==
  ASSUME NEW u, NEW v, Carried(u, v), Carried(v, u)
  PROVE  HK!Stays(u, v)
  BY DEF Carried, HK!Stays

LEMMA NoneTheirs ==
  ASSUME NEW u, NEW v,
         \A i \in DOMAIN u : u[i] \notin Foreign,
         \A i \in DOMAIN v : v[i] \notin Foreign
  PROVE  HK!Stays(u, v)
  BY DEF HK!Stays, HK!Has, HK!ToSet, HK!Before

(* Lines that are not of the user are replaced by lines that are not. *)
LEMMA SpliceStays ==
  ASSUME NEW s \in Seq(HK!Line), NEW r \in Seq(HK!Line),
         NEW mid \in Seq(HK!Line),
         NEW a \in Nat, NEW b \in Nat, a <= b, b <= Len(s),
         SpliceOf(r, s, mid, a, b),
         \A k \in DOMAIN mid : mid[k] \notin Foreign,
         \A k \in DOMAIN s : a < k /\ k <= b => s[k] \notin Foreign
  PROVE  HK!Stays(s, r)
<1>1. PICK n \in Nat : n = Len(s) /\ DOMAIN s = 1 .. n
  OBVIOUS
<1>2. PICK m \in Nat : m = Len(mid) /\ DOMAIN mid = 1 .. m
  OBVIOUS
<1>3. PICK z \in Nat : z = Len(r) /\ DOMAIN r = 1 .. z
  OBVIOUS
<1>4. z = a + m + (n - b) /\ a <= n /\ b <= n
  BY <1>1, <1>2, <1>3 DEF SpliceOf
<1>5. /\ \A k \in 1 .. a : r[k] = s[k]
      /\ \A k \in 1 .. m : r[a + k] = mid[k]
      /\ \A k \in (b + 1) .. n : r[(k - b) + a + m] = s[k]
  BY <1>1, <1>2 DEF SpliceOf
<1>6. Carried(s, r)
  <2> DEFINE to == [k \in 1 .. n |-> IF k <= a THEN k ELSE (k - b) + a + m]
  <2>1. ASSUME NEW k \in 1 .. n, s[k] \in Foreign
        PROVE  to[k] \in 1 .. z /\ r[to[k]] = s[k]
    <3>1. CASE k <= a
      <4>1. to[k] = k /\ k \in 1 .. a /\ k \in 1 .. z
        BY <1>4, <3>1
      <4> HIDE DEF to
      <4> QED
        BY <1>5, <4>1
    <3>2. CASE ~(k <= a)
      <4>1. b < k
        BY <1>1, <2>1, <3>2
      <4>2. /\ to[k] = (k - b) + a + m /\ k \in (b + 1) .. n
            /\ (k - b) + a + m \in 1 .. z
        BY <1>4, <3>2, <4>1
      <4> HIDE DEF to
      <4> QED
        BY <1>5, <4>2
    <3> QED
      BY <3>1, <3>2
  <2>2. ASSUME NEW i \in 1 .. n, NEW j \in 1 .. n, i < j,
               s[i] \in Foreign, s[j] \in Foreign
        PROVE  to[i] < to[j]
    <3>1. (i <= a \/ b < i) /\ (j <= a \/ b < j)
      BY <1>1, <2>2
    <3> QED
      BY <1>4, <2>2, <3>1
  <2> HIDE DEF to
  <2> QED
    BY <1>1, <1>3, <2>1, <2>2, Carries
<1>7. Carried(r, s)
  <2> DEFINE to == [k \in 1 .. z |-> IF k <= a THEN k ELSE (k - (a + m)) + b]
  <2>0. ASSUME NEW k \in 1 .. z, r[k] \in Foreign
        PROVE  k <= a \/ a + m < k
    <3>1. SUFFICES ASSUME a < k, k <= a + m PROVE FALSE
      BY <1>4
    <3>2. k - a \in 1 .. m /\ a + (k - a) = k
      BY <3>1
    <3> QED
      BY <1>2, <1>5, <2>0, <3>2
  <2>1. ASSUME NEW k \in 1 .. z, r[k] \in Foreign
        PROVE  to[k] \in 1 .. n /\ s[to[k]] = r[k]
    <3>1. CASE k <= a
      <4>1. to[k] = k /\ k \in 1 .. a /\ k \in 1 .. n
        BY <1>4, <3>1
      <4> HIDE DEF to
      <4> QED
        BY <1>5, <4>1
    <3>2. CASE ~(k <= a)
      <4>1. a + m < k
        BY <2>0, <2>1, <3>2
      <4> DEFINE q == (k - (a + m)) + b
      <4>2. /\ to[k] = q /\ q \in (b + 1) .. n /\ q \in 1 .. n
            /\ (q - b) + a + m = k
        BY <1>4, <3>2, <4>1
      <4> HIDE DEF to, q
      <4>3. r[k] = s[q]
        BY <1>5, <4>2
      <4> QED
        BY <4>2, <4>3
    <3> QED
      BY <3>1, <3>2
  <2>2. ASSUME NEW i \in 1 .. z, NEW j \in 1 .. z, i < j,
               r[i] \in Foreign, r[j] \in Foreign
        PROVE  to[i] < to[j]
    <3>1. (i <= a \/ a + m < i) /\ (j <= a \/ a + m < j)
      BY <2>0, <2>2
    <3> QED
      BY <1>4, <2>2, <3>1
  <2> HIDE DEF to
  <2> QED
    BY <1>1, <1>3, <2>1, <2>2, Carries
<1> QED
  BY <1>6, <1>7, CarriedStays

LEMMA OursNotTheirs ==
  /\ HK!START \notin Foreign /\ HK!END \notin Foreign
  /\ HK!HEAD \notin Foreign /\ \A t \in Trigger : t \notin Foreign
  BY HostAssumption DEF HK!HooksAssumption

LEMMA BlockNotTheirs ==
  ASSUME NEW t \in Trigger, NEW k \in DOMAIN HK!_block_for(t)
  PROVE  HK!_block_for(t)[k] \notin Foreign
<1>1. k = 1 \/ k = 2 \/ k = 3
  BY DEF HK!_block_for
<1> QED
  BY <1>1, NewBlock, OursNotTheirs

(* A block holds three lines, none of the user. *)
LEMMA BlockLines ==
  ASSUME NEW text \in Seq(HK!Line), NEW i \in Nat, NEW t \in Trigger,
         BlockAt(text, i, t)
  PROVE  /\ i - 1 \in Nat /\ i + 2 \in Nat /\ i + 2 <= Len(text)
         /\ \A k \in DOMAIN text :
              i - 1 < k /\ k <= i + 2 => text[k] \notin Foreign
<1>1. i - 1 \in Nat /\ i + 2 \in Nat /\ i + 2 <= Len(text)
  BY DEF BlockAt
<1>2. ASSUME NEW k \in DOMAIN text, i - 1 < k, k <= i + 2
      PROVE  text[k] \notin Foreign
  <2>1. k = i \/ k = i + 1 \/ k = i + 2
    BY <1>2
  <2> QED
    BY <2>1, OursNotTheirs DEF BlockAt
<1> QED
  BY <1>1, <1>2

LEMMA InstallStays ==
  ASSUME NEW text, Whole(text), NEW t \in Trigger
  PROVE  HK!Stays(text, HK!Installed(text, HK!_block_for(t)))
<1> DEFINE block == HK!_block_for(t)
           r == HK!Installed(text, block)
<1>0. /\ text \in Seq(HK!Line) /\ block \in Seq(HK!Line)
      /\ \A k \in DOMAIN block : block[k] \notin Foreign
  BY NewBlock, BlockNotTheirs DEF Whole
<1>1. r \in Seq(HK!Line)
  BY Installs
<1> HIDE DEF block
<1>2. CASE text = <<>>
  <2>1. r = <<HK!HEAD>> \o block
    BY <1>2 DEF HK!Installed
  <2> DEFINE top == <<HK!HEAD>>
  <2>2. /\ top \in Seq(HK!Line) /\ Len(top) = 1
        /\ top[1] \notin Foreign
    BY OursNotTheirs DEF HK!Line
  <2> HIDE DEF top, r
  <2>3. JoinOf(r, top, block)
    BY <1>0, <2>1, <2>2, Joined DEF top
  <2>4. PICK m \in Nat : m = Len(block) /\ DOMAIN block = 1 .. m
    BY <1>0
  <2>5. DOMAIN r = 1 .. (1 + m)
    BY <1>1, <2>2, <2>3, <2>4 DEF JoinOf
  <2>6. ASSUME NEW k \in DOMAIN r
        PROVE  r[k] \notin Foreign
    <3>1. CASE k = 1
      BY <2>2, <2>3, <3>1 DEF JoinOf
    <3>2. CASE k # 1
      <4>1. k - 1 \in 1 .. m /\ 1 + (k - 1) = k
        BY <2>5, <3>2
      <4>2. r[1 + (k - 1)] = block[k - 1]
        BY <2>2, <2>3, <2>4, <4>1 DEF JoinOf
      <4> QED
        BY <1>0, <2>4, <4>1, <4>2
    <3> QED
      BY <3>1, <3>2
  <2>7. \A k \in DOMAIN text : text[k] \notin Foreign
    BY <1>2
  <2>8. HK!Stays(text, r)
    BY <2>6, <2>7, NoneTheirs
  <2> QED
    BY <2>8 DEF r, block
<1>3. CASE text # <<>> /\ Free(text)
  <2>1. r = text \o block
    <3>1. ~(HK!Has(text, HK!START) /\ HK!Has(text, HK!END))
      BY <1>0, <1>3, NoneFound
    <3> QED
      BY <1>3, <3>1 DEF HK!Installed
  <2> HIDE DEF r
  <2>2. JoinOf(r, text, block)
    BY <1>0, <2>1, Joined
  <2>3. PICK n \in Nat : n = Len(text) /\ DOMAIN text = 1 .. n
    BY <1>0
  <2>4. SpliceOf(r, text, block, n, n)
    <3>1. PICK m \in Nat : m = Len(block)
      BY <1>0
    <3>2. Len(r) = n + m /\ n + m = n + m + (n - n)
      BY <2>2, <2>3, <3>1 DEF JoinOf
    <3> QED
      BY <2>2, <2>3, <3>1, <3>2 DEF JoinOf, SpliceOf
  <2>5. \A k \in DOMAIN text : n < k /\ k <= n => text[k] \notin Foreign
    BY <2>3
  <2>6. HK!Stays(text, r)
    BY <1>0, <1>1, <2>3, <2>4, <2>5, SpliceStays DEF r
  <2> QED
    BY <2>6 DEF r, block
<1>4. CASE ~Free(text)
  <2>1. PICK i \in Nat, u \in Trigger : BlockAt(text, i, u)
    BY <1>4 DEF Whole, Holds
  <2>2. /\ HK!Start(text) = i /\ HK!End(text) = i + 2
        /\ HK!Has(text, HK!START) /\ HK!Has(text, HK!END)
    BY <1>0, <2>1, BlockFound
  <2>3. text # <<>>
    BY <2>1 DEF BlockAt
  <2> DEFINE a == i - 1  b == i + 2
  <2>4. r = Splice(text, block, a, b)
    BY <2>2, <2>3 DEF HK!Installed, HK!_replace_block, Splice
  <2>5. /\ a \in Nat /\ b \in Nat /\ a <= b /\ b <= Len(text)
        /\ \A k \in DOMAIN text : a < k /\ k <= b => text[k] \notin Foreign
    BY <1>0, <2>1, BlockLines
  <2> HIDE DEF r, a, b
  <2>6. SpliceOf(r, text, block, a, b)
    BY <1>0, <2>4, <2>5, Spliced
  <2>7. HK!Stays(text, r)
    BY <1>0, <1>1, <2>5, <2>6, SpliceStays DEF r
  <2> QED
    BY <2>7 DEF r, block
<1> QED
  BY <1>2, <1>3, <1>4

LEMMA RemoveStays ==
  ASSUME NEW text, Whole(text)
  PROVE  HK!Stays(text, HK!Removed(text))
<1>0. text \in Seq(HK!Line)
  BY DEF Whole
<1>1. CASE Free(text)
  <2>1. HK!Removed(text) = text
    BY <1>0, <1>1, NoneFound DEF HK!Removed
  <2> QED
    BY <2>1 DEF HK!Stays
<1>2. CASE ~Free(text)
  <2>1. PICK i \in Nat, u \in Trigger : BlockAt(text, i, u)
    BY <1>2 DEF Whole, Holds
  <2>2. /\ HK!Start(text) = i /\ HK!End(text) = i + 2
        /\ HK!Has(text, HK!START)
    BY <1>0, <2>1, BlockFound
  <2> DEFINE r == HK!_strip_block(text)
             a == i - 1  b == i + 2  nil == <<>>
  <2>3. /\ a \in Nat /\ b \in Nat /\ a <= b /\ b <= Len(text)
        /\ \A k \in DOMAIN text : a < k /\ k <= b => text[k] \notin Foreign
    BY <1>0, <2>1, BlockLines
  <2>4. nil \in Seq(HK!Line) /\ \A k \in DOMAIN nil : nil[k] \notin Foreign
    OBVIOUS
  <2>5. r = SubSeq(text, 1, a) \o SubSeq(text, b + 1, Len(text))
    BY <2>2 DEF HK!_strip_block
  <2> HIDE DEF r, a, b
  <2>6. r = Splice(text, nil, a, b)
    BY <1>0, <2>3, <2>5, CutOut
  <2> HIDE DEF nil
  <2>7. r \in Seq(HK!Line) /\ SpliceOf(r, text, nil, a, b)
    BY <1>0, <2>3, <2>4, <2>6, Spliced
  <2>8. HK!Stays(text, r)
    BY <1>0, <2>3, <2>4, <2>7, SpliceStays
  <2>9. CASE r = <<HK!HEAD>>
    <3> DEFINE empty == <<>>
    <3>1. HK!Removed(text) = empty
      BY <2>2, <2>9 DEF HK!Removed, r
    <3>2. HK!Stays(r, empty)
      <4>1. \A k \in DOMAIN r : r[k] \notin Foreign
        BY <2>9, OursNotTheirs
      <4>2. \A k \in DOMAIN empty : empty[k] \notin Foreign
        OBVIOUS
      <4> QED
        BY <4>1, <4>2, NoneTheirs
    <3> HIDE DEF empty
    <3> QED
      BY <2>8, <3>1, <3>2 DEF HK!Stays
  <2>10. CASE r # <<HK!HEAD>>
    BY <2>2, <2>8, <2>10 DEF HK!Removed, r
  <2> QED
    BY <2>9, <2>10
<1> QED
  BY <1>1, <1>2

(* A step of a command writes one hook. *)
LEMMA StepStays ==
  ASSUME HooksInv, HK!Step, NEW h \in HK!Hooks \ broken
  PROVE  HK!Stays(file[h], file'[h])
<1> DEFINE h1 == Head(command.todo)
<1>0. \A text : HK!Stays(text, text)
  BY DEF HK!Stays
<1>1. Whole(file[h]) /\ DOMAIN file = HK!Hooks
  BY DEF HooksInv
<1>2. command # HK!Nothing /\ Running(command)
  BY DEF HooksInv, HK!Step, HK!install_hooks, HK!uninstall_hooks,
         HK!Nothing
<1>3. h1 \in HK!Hooks
  BY <1>2, HeadOrTail DEF Running
<1>4. ASSUME NEW text, file' = [file EXCEPT ![h1] = text],
             h = h1 => HK!Stays(file[h], text)
      PROVE  HK!Stays(file[h], file'[h])
  BY <1>0, <1>1, <1>3, <1>4
<1>5. CASE HK!Raise
  BY <1>0, <1>5 DEF HK!Raise
<1>6. CASE HK!install_hooks /\ ~HK!Raise
  <2> DEFINE text == HK!Installed(file[h1], HK!_block_for(command.trigger))
  <2>1. file' = [file EXCEPT ![h1] = text] /\ command.trigger \in Trigger
    BY <1>1, <1>2, <1>3, <1>6 DEF HK!install_hooks, Running
  <2>2. h = h1 => HK!Stays(file[h], text)
    BY <1>1, <2>1, InstallStays
  <2> HIDE DEF text
  <2> QED
    BY <1>4, <2>1, <2>2
<1>7. CASE HK!uninstall_hooks /\ ~HK!Raise
  <2> DEFINE text == HK!Removed(file[h1])
  <2>1. file' = [file EXCEPT ![h1] = text]
    BY <1>1, <1>3, <1>7 DEF HK!uninstall_hooks
  <2>2. h = h1 => HK!Stays(file[h], text)
    BY <1>1, RemoveStays
  <2> HIDE DEF text
  <2> QED
    BY <1>4, <2>1, <2>2
<1> QED
  BY <1>5, <1>6, <1>7 DEF HK!Step

(* Lines of the user stay, each once and in their order, in every hook     *)
(* whose markers are whole, whatever a command writes or removes there:    *)
(* _replace_block and _strip_block of sync/hooks.py.                       *)
THEOREM ForeignStays == MCSpec => MCForeignKept
<1>1. HooksInv /\ [MCNext]_allVars => HooksInv'
  BY HostSteps, HooksNext
<1>2. HooksInv /\ [MCNext]_allVars =>
        [HK!Step => \A h \in HK!Hooks \ broken :
                      HK!Stays(file[h], file'[h])]_HK!vars
  BY StepStays
<1>3. MCSpec => MCInit /\ [][MCNext]_allVars
  BY PTL DEF MCSpec, allVars
<1> QED
  BY <1>1, <1>2, <1>3, HooksInit, PTL DEF MCForeignKept, HK!ForeignKept

-----------------------------------------------------------------------------
(***************************************************************************)
(* RootWatch.  That a watcher at rest has missed nothing says nothing of   *)
(* the syncs to come.  What they rely on: of a file that has the version   *)
(* of the recorded commit the entries are right, whatever failed since; a  *)
(* file that has another at HEAD does not have that version any more; and  *)
(* a file no sync will look at has no entries.                             *)
(***************************************************************************)
(* Versions are as old as the last edit. *)
OldOK ==
  /\ \A f \in Path :
       /\ disk[f] # None => disk[f].mtime <= writes
       /\ head.tree[f] # None => head.tree[f].mtime <= writes
       /\ base # None /\ base.tree[f] # None => base.tree[f].mtime <= writes
  /\ seen.mtime <= writes /\ seen.sha <= head.sha
  /\ base # None =>
       base.sha <= head.sha /\ (base.sha = head.sha => base = head)
  /\ renamed # {} => RW!Does("rename")

(* What the index may hold of a file whose version is v. *)
Entered(f, v, entry) ==
  v.skipped \/ (entry \in {None, v} /\ (RW!Walked(f) => entry = v))

KeptOK ==
  base # None => \A f \in Path :
    /\ base.tree[f] # None /\ disk[f] = base.tree[f] =>
         head.tree[f] = base.tree[f] /\ Entered(f, base.tree[f], index[f])
    /\ base.tree[f] = None /\ disk[f] = None =>
         head.tree[f] = None /\ index[f] = None
    /\ base.tree[f] = None /\ f \in ignored =>
         head.tree[f] = None /\ (f \in matched => index[f] = None)

(* A file the watcher, git and the walk agree about, and its entries. *)
Told(f) == RW!InSight(f) /\ (f \in ignored /\ head.tree[f] = None
                               => f \in matched)
InStep(f) == IF disk[f] = None THEN index[f] = None
             ELSE Entered(f, disk[f], index[f])
RestOK == RW!AtRest /\ RW!Heard /\ ~missed =>
            \A f \in Path \ renamed : Told(f) => InStep(f)

RootInv == RW!TypeOK /\ OldOK /\ KeptOK /\ RestOK

LEMMA RootPromise == RootInv => MCFollowedAtRest
<1> SUFFICES ASSUME RootInv, RW!AtRest, RW!Heard, ~missed, NEW f \in Path,
                    RW!InSight(f), RW!Agreed(f), f \notin renamed,
                    disk[f] # None => RW!extract_file(f)
             PROVE  /\ index[f] \in {None, disk[f]}
                    /\ RW!Walked(f) => index[f] = disk[f]
  BY DEF MCFollowedAtRest, RW!FollowedAtRest, RW!Followed
<1>1. Told(f)
  BY DEF Told, RW!Agreed, RW!Ignored
<1>2. InStep(f)
  BY <1>1 DEF RootInv, RestOK
<1> QED
  BY <1>2 DEF InStep, Entered, RW!extract_file

LEMMA NotVersion == None \notin RW!Version
  BY HostAssumption DEF RW!RootWatchAssumption, RW!Version

(* What goes by the rules of the repository stays. *)
LEMMA SameRules ==
  ASSUME repo' = repo, matched' = matched, ignored' = ignored
  PROVE  /\ \A f : RW!Walked(f)' <=> RW!Walked(f)
         /\ \A a : RW!Does(a)' <=> RW!Does(a)
         /\ RW!Heard' <=> RW!Heard
  BY DEF RW!Walked, RW!Does, RW!Heard

(* The newest file in sight. *)
Newest(d) ==
  LET visible == {f \in Path : d[f] # None /\ ~RW!exclude(f)}
      mtimes == {d[f].mtime : f \in visible}
  IN  CHOOSE m \in mtimes \cup {0} : \A n \in mtimes : n <= m

LEMMA Greatest ==
  ASSUME NEW S, NEW w \in Nat, S \subseteq 0 .. w
  PROVE  \E m \in S \cup {0} : \A n \in S : n <= m
<1> DEFINE T == {w - m : m \in S \cup {0}}
           less == OpToRel(<, Nat)
<1>1. less = {ss \in Nat \X Nat : ss[1] < ss[2]}
  BY DEF OpToRel
<1>2. IsWellFoundedOn(less, Nat)
  BY NatLessThanWellFounded
<1>3. T \subseteq Nat /\ T # {}
  OBVIOUS
<1> HIDE DEF less
<1>4. PICK t \in T : \A u \in T : ~(<<u, t>> \in less)
  <2> HIDE DEF T
  <2> QED
    BY <1>2, <1>3, WFMin, Zenon
<1>5. PICK m \in S \cup {0} : t = w - m
  BY <1>4
<1>6. ASSUME NEW n \in S PROVE n <= m
  <2>1. w - n \in T
    OBVIOUS
  <2>2. w - n \in Nat /\ t \in Nat
    BY <1>3, <1>4, <2>1
  <2>3. ~(w - n < t)
    BY <1>1, <1>4, <2>1, <2>2
  <2> QED
    BY <1>5, <2>3
<1> QED
  BY <1>6

LEMMA NewestIs ==
  ASSUME NEW d, NEW w \in Nat,
         \A f \in Path : d[f] # None => d[f].mtime \in 0 .. w
  PROVE  /\ Newest(d) \in 0 .. w
         /\ \A f \in Path : d[f] # None /\ ~RW!exclude(f) =>
              d[f].mtime <= Newest(d)
<1> DEFINE visible == {f \in Path : d[f] # None /\ ~RW!exclude(f)}
           S == {d[f].mtime : f \in visible}
<1>1. S \subseteq 0 .. w
  OBVIOUS
<1>2. \A f \in Path : d[f] # None /\ ~RW!exclude(f) => d[f].mtime \in S
  OBVIOUS
<1>3. Newest(d) = CHOOSE m \in S \cup {0} : \A n \in S : n <= m
  BY DEF Newest
<1> HIDE DEF S
<1>4. \E m \in S \cup {0} : \A n \in S : n <= m
  BY <1>1, Greatest
<1>5. Newest(d) \in S \cup {0} /\ \A n \in S : n <= Newest(d)
  BY <1>3, <1>4
<1>6. Newest(d) \in 0 .. w
  <2>1. 0 \in 0 .. w
    OBVIOUS
  <2> QED
    BY <1>1, <1>5, <2>1, Zenon
<1>7. ASSUME NEW f \in Path, d[f] # None /\ ~RW!exclude(f)
      PROVE  d[f].mtime <= Newest(d)
  BY <1>2, <1>5, <1>7
<1> QED
  BY <1>6, <1>7

LEMMA Glances ==
  /\ RW!Glance = [mtime |-> Newest(disk), sha |-> head.sha]
  /\ RW!Glance' = [mtime |-> Newest(disk'), sha |-> head'.sha]
  BY DEF RW!Glance, RW!_max_mtime, Newest

LEMMA RefIsNews == RW!_handle_path(RW!Ref)
<1>1. Len(RW!Ref) = 4 /\ RW!Ref[1] = ".git"
  BY DEF RW!Ref
<1>2. SubSeq(RW!Ref, 2, 3) = <<"refs", "heads">>
  <2> DEFINE r == SubSeq(RW!Ref, 2, 3)
  <2>1. RW!Ref \in Seq({".git", "refs", "heads", "main"})
    BY DEF RW!Ref
  <2>2. r \in Seq({".git", "refs", "heads", "main"}) /\ Len(r) = 2
        /\ \A i \in 1 .. 2 : r[i] = RW!Ref[2 + i - 1]
    BY <1>1, <2>1, SubSeqProperties
  <2>3. r[1] = "refs" /\ r[2] = "heads"
    BY <2>2 DEF RW!Ref
  <2> HIDE DEF r
  <2>4. r = <<r[1], r[2]>>
    BY <2>2
  <2> QED
    BY <2>3, <2>4 DEF r
<1> QED
  BY <1>1, <1>2 DEF RW!_handle_path, RW!_is_ref_event

(* What a repository is, but for its rules. *)
LEMMA RepoIs ==
  ASSUME NEW r \in Repos
  PROVE  /\ r.tracked \subseteq Path /\ r.untracked \subseteq Path
         /\ r.mode \in {"events", "polling"}
         /\ r.writes \in Nat
<1>1. RW!RootWatchAssumption
  BY HostAssumption
<1> QED
  BY <1>1 DEF RW!RootWatchAssumption

LEMMA RootInit == MCInit => RootInv
<1> SUFFICES ASSUME RW!Init PROVE RootInv
  BY DEF MCInit
<1> USE DEF RW!Init
<1>0. /\ repo.tracked \subseteq Path /\ repo.untracked \subseteq Path
      /\ repo.writes \in Nat
  BY RepoIs
<1>1. \A f \in Path :
        /\ [of |-> f, mtime |-> 0, skipped |-> FALSE] \in RW!Version
        /\ [of |-> f, mtime |-> 0, skipped |-> FALSE].of = f
        /\ [of |-> f, mtime |-> 0, skipped |-> FALSE].mtime = 0
  BY DEF RW!Version
<1>2. DOMAIN disk = Path /\ \A f \in Path :
        \/ disk[f] = None /\ f \notin repo.tracked
        \/ disk[f] \in RW!Version /\ disk[f].of = f /\ disk[f].mtime = 0
  BY <1>1
<1>3. /\ head.sha = 0 /\ DOMAIN head.tree = Path
      /\ \A f \in Path : head.tree[f] \in {None, disk[f]}
  OBVIOUS
<1>4. RW!TypeOK
  <2>1. disk \in RW!Tree /\ head.tree \in RW!Tree /\ index \in RW!Tree
    <3>1. disk = [f \in Path |-> disk[f]]
      OBVIOUS
    <3>2. head.tree = [f \in Path |-> head.tree[f]]
      BY <1>3
    <3> QED
      BY <1>2, <1>3, <3>1, <3>2 DEF RW!Tree
  <2>2. head \in RW!Commits
    BY <2>1 DEF RW!Commits
  <2>3. matched \subseteq Path /\ ignored \subseteq Path
    OBVIOUS
  <2>4. seen \in [mtime : Nat, sha : Nat]
    OBVIOUS
  <2>5. pending \in BOOLEAN /\ missed \in BOOLEAN
    OBVIOUS
  <2> QED
    BY <1>0, <2>1, <2>2, <2>3, <2>4, <2>5 DEF RW!TypeOK
<1>5. OldOK
  BY <1>2, <1>3, NotVersion DEF OldOK
<1>6. KeptOK /\ RestOK
  BY DEF KeptOK, RestOK, RW!AtRest, RW!Idle
<1> QED
  BY <1>4, <1>5, <1>6 DEF RootInv

(* What the types say, as the steps need it.                               *)
LEMMA RootTypes ==
  ASSUME RW!TypeOK
  PROVE  /\ DOMAIN disk = Path /\ DOMAIN index = Path
         /\ DOMAIN head.tree = Path
         /\ head = [sha |-> head.sha, tree |-> head.tree]
         /\ head.sha \in Nat /\ writes \in Nat
         /\ seen.mtime \in Nat /\ seen.sha \in Nat
         /\ base # None => base.sha \in Nat
         /\ \A f \in Path :
              /\ disk[f] \in RW!Version \cup {None}
              /\ head.tree[f] \in RW!Version \cup {None}
              /\ index[f] \in RW!Version \cup {None}
              /\ base # None => base.tree[f] \in RW!Version \cup {None}
              /\ disk[f] # None => disk[f].mtime \in Nat
              /\ head.tree[f] # None => head.tree[f].mtime \in Nat
              /\ base # None /\ base.tree[f] # None =>
                   base.tree[f].mtime \in Nat
<1>1. /\ disk \in RW!Tree /\ index \in RW!Tree /\ head \in RW!Commits
      /\ base # None => base \in RW!Commits
      /\ seen \in [mtime : Nat, sha : Nat]
      /\ writes \in 0 .. repo.writes /\ repo \in Repos
  BY DEF RW!TypeOK
<1>2. repo.writes \in Nat
  BY <1>1, RepoIs
<1>3. /\ head.sha \in Nat /\ head.tree \in RW!Tree
      /\ head = [sha |-> head.sha, tree |-> head.tree]
      /\ base # None => base.sha \in Nat /\ base.tree \in RW!Tree
  BY <1>1 DEF RW!Commits
<1>4. \A v \in RW!Version : v.mtime \in Nat
  BY DEF RW!Version
<1>5. \A t \in RW!Tree : DOMAIN t = Path /\ \A f \in Path :
        /\ t[f] \in RW!Version \cup {None}
        /\ t[f] # None => t[f].mtime \in Nat
  BY <1>4 DEF RW!Tree
<1>6. /\ seen.mtime \in Nat /\ seen.sha \in Nat
      /\ writes \in Nat
  BY <1>1, <1>2
<1> QED
  BY <1>1, <1>3, <1>5, <1>6

(* The watcher hears of edits of files it does not skip.                   *)
LEMMA Unheard ==
  ASSUME RW!TypeOK, OldOK, NEW f \in Path, RW!AtRest', RW!Heard,
         repo' = repo, head' = head, base' = base, seen' = seen,
         \A g \in Path : g # f => disk'[g] = disk[g],
         \/ disk'[f] # None /\ disk'[f].mtime = writes + 1
         \/ repo.mode = "events",
         RW!Event({f})
  PROVE  RW!exclude(f) /\ RW!AtRest
<1>1. ~pending /\ ~RW!Noticed({f})
  BY DEF RW!AtRest, RW!Idle, RW!Event
<1>2. CASE repo.mode = "events"
  BY <1>1, <1>2 DEF RW!Noticed, RW!_handle_path, RW!AtRest, RW!Idle
<1>3. CASE repo.mode # "events"
  <2>0. /\ writes \in Nat /\ seen.mtime \in Nat /\ seen.mtime <= writes
        /\ repo.mode = "polling"
    BY <1>3, RootTypes, RepoIs DEF OldOK, RW!TypeOK
  <2>1. seen.mtime = Newest(disk') /\ seen.sha = head.sha
    BY <2>0, Glances DEF RW!AtRest, RW!Idle
  <2>2. \A g \in Path : disk'[g] # None => disk'[g].mtime \in 0 .. writes + 1
    <3> SUFFICES ASSUME NEW g \in Path, disk'[g] # None
                 PROVE  disk'[g].mtime \in 0 .. writes + 1
      OBVIOUS
    <3>1. CASE g = f
      BY <1>3, <2>0, <3>1
    <3>2. CASE g # f
      <4>1. disk[g].mtime \in Nat /\ disk[g].mtime <= writes
        BY <3>2, RootTypes DEF OldOK
      <4> QED
        BY <2>0, <3>2, <4>1
    <3> QED
      BY <3>1, <3>2
  <2>3. RW!exclude(f)
    <3>1. SUFFICES ASSUME ~RW!exclude(f) PROVE FALSE
      OBVIOUS
    <3>d. PICK d : d = disk'
      OBVIOUS
    <3>2. writes + 1 \in Nat
      BY <2>0
    <3>3. d[f].mtime <= Newest(d)
      BY <1>3, <2>2, <3>1, <3>2, <3>d, NewestIs
    <3> QED
      BY <1>3, <2>0, <2>1, <3>3, <3>d
  <2>4. Newest(disk') = Newest(disk)
    <3>1. {g \in Path : disk'[g] # None /\ ~RW!exclude(g)} =
            {g \in Path : disk[g] # None /\ ~RW!exclude(g)}
      BY <2>3
    <3>2. {disk'[g].mtime :
             g \in {h \in Path : disk'[h] # None /\ ~RW!exclude(h)}} =
          {disk[g].mtime :
             g \in {h \in Path : disk[h] # None /\ ~RW!exclude(h)}}
      BY <2>3, <3>1
    <3> QED
      BY <3>2, Zenon DEF Newest
  <2>5. seen = RW!Glance
    BY <2>0, <2>1, <2>4, Glances DEF RW!AtRest, RW!Idle
  <2> QED
    BY <1>1, <2>3, <2>5 DEF RW!AtRest, RW!Idle
<1> QED
  BY <1>2, <1>3

(* A sync looks at what git calls changed: of every other file it leaves   *)
(* the entries as they are, and what was recorded of it still holds.       *)
LEMMA Synced ==
  ASSUME RW!TypeOK,
         repo' = repo, matched' = matched, ignored' = ignored,
         disk' = disk, head' = head, renamed' = renamed, base' = head,
         NEW held, index' = held,
         \A f \in Path :
           /\ disk[f] # None /\ disk[f] = head.tree[f]
                => Entered(f, disk[f], held[f])
           /\ disk[f] \notin {None, head.tree[f]}
              /\ (head.tree[f] # None \/ f \notin ignored)
                => Entered(f, disk[f], held[f])
           /\ disk[f] = None /\ (head.tree[f] = None \/ f \notin renamed)
                => held[f] = None
           /\ head.tree[f] = None /\ f \in ignored /\ f \in matched
                => held[f] = None
  PROVE  KeptOK' /\ RestOK'
<1>1. \A f, v, e : Entered(f, v, e)' <=> Entered(f, v, e)
  BY SameRules DEF Entered
<1>2. KeptOK'
  <2> SUFFICES ASSUME NEW f \in Path
               PROVE  /\ head.tree[f] # None /\ disk[f] = head.tree[f] =>
                           Entered(f, head.tree[f], held[f])
                      /\ head.tree[f] = None /\ disk[f] = None =>
                           held[f] = None
                      /\ head.tree[f] = None /\ f \in ignored
                         /\ f \in matched => held[f] = None
    BY SameRules DEF KeptOK, Entered
  <2> QED
    OBVIOUS
<1>3. RestOK'
  <2> SUFFICES ASSUME NEW f \in Path \ renamed, Told(f)'
               PROVE  IF disk[f] = None THEN held[f] = None
                      ELSE Entered(f, disk[f], held[f])
    BY SameRules DEF RestOK, InStep, Entered
  <2>1. f \in ignored /\ head.tree[f] = None => f \in matched
    BY DEF Told
  <2>2. f \in matched => Entered(f, disk[f], None)
    BY DEF Entered, RW!Walked
  <2> QED
    BY <2>1, <2>2
<1> QED
  BY <1>2, <1>3

LEMMA FullKeeps ==
  ASSUME RootInv, RW!Full, writes' \in Nat, writes <= writes'
  PROVE  OldOK' /\ KeptOK' /\ RestOK'
<1> USE DEF RW!Full, RW!Walk, RW!fixed
<1>1. RW!TypeOK /\ OldOK
  BY DEF RootInv
<1>2. PICK held :
        /\ index' = held
        /\ held = [f \in Path |-> IF RW!Walked(f) /\ RW!extract_file(f)
                                     THEN disk[f] ELSE None]
  OBVIOUS
<1>3. \A f \in Path :
        /\ disk[f] # None => Entered(f, disk[f], held[f])
        /\ disk[f] = None => held[f] = None
        /\ f \in matched => held[f] = None
  BY <1>2 DEF Entered, RW!extract_file, RW!Walked
<1>4. KeptOK' /\ RestOK'
  BY <1>1, <1>2, <1>3, Synced, Zenon
<1>5. OldOK'
  <2> SUFFICES \A f \in Path :
                 /\ disk[f] # None => disk[f].mtime <= writes'
                 /\ head.tree[f] # None => head.tree[f].mtime <= writes'
               BY <1>1, RootTypes, SameRules DEF OldOK
  <2> QED
    BY <1>1, RootTypes DEF OldOK
<1> QED
  BY <1>4, <1>5

LEMMA SyncKeeps ==
  ASSUME RootInv, RW!DirtyOnly \/ RW!Incremental
  PROVE  OldOK' /\ KeptOK' /\ RestOK'
<1> USE DEF RW!fixed
<1>1. RW!TypeOK /\ OldOK /\ KeptOK
  BY DEF RootInv
<1>2. /\ repo' = repo /\ matched' = matched /\ ignored' = ignored
      /\ disk' = disk /\ head' = head /\ renamed' = renamed
      /\ seen' = seen /\ writes' = writes /\ base # None /\ base' = head
  BY <1>1 DEF RW!DirtyOnly, RW!Incremental, OldOK
<1>3. PICK held : index' = held
  OBVIOUS
<1>4. \A f \in Path :
        held[f] =
          IF f \in RW!reingest_paths /\ RW!extract_file(f)
          THEN disk[f]
          ELSE IF f \in RW!deleted \cup RW!dirty_deleted_files THEN None
          ELSE index[f]
  <2>1. CASE RW!Incremental
    BY <1>3, <2>1
    DEF RW!Incremental, RW!Delta, RW!Reingested, RW!Deleted
  <2>2. CASE RW!DirtyOnly
    <3>1. base = head
      BY <1>1, <1>2, <2>2 DEF RW!DirtyOnly, OldOK
    <3>2. RW!reingest_paths = RW!dirty_files /\ RW!deleted = {}
      BY <3>1 DEF RW!reingest_paths, RW!changed, RW!deleted
    <3>3. \A f \in RW!dirty_deleted_files : ~RW!extract_file(f)
      BY DEF RW!dirty_deleted_files, RW!extract_file
    <3>4. \A f \in Path :
            held[f] = IF f \in RW!dirty_deleted_files THEN None
                         ELSE IF f \in RW!dirty_files /\ RW!extract_file(f)
                         THEN disk[f] ELSE index[f]
      BY <1>3, <2>2 DEF RW!DirtyOnly, RW!Reingested, RW!Deleted
    <3> QED
      BY <3>2, <3>3, <3>4, Zenon
  <2> QED
    BY <2>1, <2>2
<1>5. \A f \in Path :
        /\ f \in RW!changed \/ f \in RW!dirty_files =>
             \/ disk[f] = None
             \/ Entered(f, disk[f], held[f])
        /\ (f \in RW!deleted \/ f \in RW!dirty_deleted_files) /\ disk[f] = None
             => held[f] = None
  BY <1>4 DEF Entered, RW!extract_file, RW!reingest_paths
<1>6. ASSUME NEW f \in Path
      PROVE
           /\ disk[f] # None /\ disk[f] = head.tree[f]
                => Entered(f, disk[f], held[f])
           /\ disk[f] \notin {None, head.tree[f]}
              /\ (head.tree[f] # None \/ f \notin ignored)
                => Entered(f, disk[f], held[f])
           /\ disk[f] = None /\ (head.tree[f] = None \/ f \notin renamed)
                => held[f] = None
           /\ head.tree[f] = None /\ f \in ignored /\ f \in matched
                => held[f] = None
  <2>1. ASSUME disk[f] # None, disk[f] = head.tree[f]
        PROVE  Entered(f, disk[f], held[f])
    <3>1. CASE f \in RW!changed
      BY <1>5, <2>1, <3>1
    <3>2. CASE f \notin RW!changed
      <4>1. head.tree[f] = base.tree[f] /\ base.tree[f] # None
        BY <2>1, <3>2 DEF RW!changed
      <4>2. Entered(f, base.tree[f], index[f])
        BY <1>1, <1>2, <2>1, <4>1 DEF KeptOK
      <4>3. held[f] = index[f]
        BY <1>4, <2>1, <3>2, <4>1
        DEF RW!reingest_paths, RW!deleted, RW!dirty_files,
            RW!dirty_deleted_files
      <4> QED
        BY <2>1, <4>1, <4>2, <4>3
    <3> QED
      BY <3>1, <3>2
  <2>2. ASSUME disk[f] \notin {None, head.tree[f]},
               head.tree[f] # None \/ f \notin ignored
        PROVE  Entered(f, disk[f], held[f])
    <3>1. f \in RW!dirty_files
      BY <2>2 DEF RW!dirty_files, RW!Ignored
    <3> QED
      BY <1>5, <2>2, <3>1
  <2>3. ASSUME head.tree[f] = None,
               disk[f] = None \/ (f \in ignored /\ f \in matched)
        PROVE  held[f] = None
    <3>1. ~(f \in RW!reingest_paths /\ RW!extract_file(f))
      BY <2>3 DEF RW!reingest_paths, RW!changed, RW!dirty_files,
                  RW!extract_file, RW!Ignored
    <3>2. CASE base.tree[f] = None
      <4>1. index[f] = None
        BY <1>1, <1>2, <2>3, <3>2 DEF KeptOK
      <4> QED
        BY <1>4, <3>1, <4>1
    <3>3. CASE base.tree[f] # None
      BY <1>4, <2>3, <3>1, <3>3 DEF RW!deleted
    <3> QED
      BY <3>2, <3>3
  <2>4. ASSUME disk[f] = None, head.tree[f] # None, f \notin renamed
        PROVE  held[f] = None
    BY <1>5, <2>4 DEF RW!dirty_deleted_files
  <2> QED
    BY <2>1, <2>2, <2>3, <2>4
<1>7. KeptOK' /\ RestOK'
  BY <1>1, <1>2, <1>3, <1>6, Synced, Zenon
<1>8. OldOK'
  BY <1>1, <1>2, RootTypes, SameRules DEF OldOK
<1> QED
  BY <1>7, <1>8

(* A sync that fails has touched only what is not as it was recorded: the  *)
(* next one will touch it again.                                           *)
LEMMA FailKeeps ==
  ASSUME RootInv, RW!SyncFails
  PROVE  OldOK' /\ KeptOK' /\ RestOK'
<1> USE DEF RW!fixed
<1>1. RW!TypeOK /\ OldOK /\ KeptOK
  BY DEF RootInv
<1>2. /\ repo' = repo /\ matched' = matched /\ ignored' = ignored
      /\ disk' = disk /\ head' = head /\ renamed' = renamed
      /\ base' = base /\ seen' = seen /\ missed' = TRUE
      /\ writes' = writes + 1
  BY DEF RW!SyncFails, RW!Touch
<1>3. OldOK'
  <2> SUFFICES \A f \in Path :
                 /\ disk[f] # None => disk[f].mtime <= writes + 1
                 /\ head.tree[f] # None => head.tree[f].mtime <= writes + 1
                 /\ base # None /\ base.tree[f] # None =>
                      base.tree[f].mtime <= writes + 1
    BY <1>1, <1>2, RootTypes, SameRules DEF OldOK
  <2>1. \A m \in Nat : m <= writes => m <= writes + 1
    BY <1>1, RootTypes
  <2> QED
    BY <1>1, <2>1, RootTypes DEF OldOK
<1>4. KeptOK'
  <2> SUFFICES ASSUME base # None, NEW f \in Path
               PROVE  /\ base.tree[f] # None /\ disk[f] = base.tree[f] =>
                           /\ head.tree[f] = base.tree[f]
                           /\ Entered(f, base.tree[f], index'[f])
                      /\ base.tree[f] = None /\ disk[f] = None =>
                           head.tree[f] = None /\ index'[f] = None
                      /\ base.tree[f] = None /\ f \in ignored =>
                           head.tree[f] = None
                           /\ (f \in matched => index'[f] = None)
    BY <1>2, SameRules DEF KeptOK, Entered
  <2>1. /\ index'[f] \in {None, RW!Delta[f], index[f]}
        /\ f \notin RW!reingest_paths \cup RW!deleted
                     \cup RW!dirty_deleted_files => index'[f] = index[f]
    BY DEF RW!SyncFails
  <2>2. RW!Delta[f] =
          IF f \in RW!reingest_paths /\ RW!extract_file(f) THEN disk[f]
          ELSE IF f \in RW!deleted \cup RW!dirty_deleted_files THEN None
          ELSE index[f]
    BY DEF RW!Delta, RW!Reingested, RW!Deleted
  <2>3. ASSUME base.tree[f] # None, disk[f] = base.tree[f]
        PROVE  /\ head.tree[f] = base.tree[f]
               /\ Entered(f, base.tree[f], index'[f])
    <3>1. head.tree[f] = base.tree[f] /\ Entered(f, base.tree[f], index[f])
      BY <1>1, <2>3 DEF KeptOK
    <3>2. f \notin RW!reingest_paths \cup RW!deleted
                   \cup RW!dirty_deleted_files
      BY <2>3, <3>1 DEF RW!reingest_paths, RW!changed, RW!deleted,
                        RW!dirty_files, RW!dirty_deleted_files
    <3> QED
      BY <2>1, <3>1, <3>2
  <2>4. ASSUME base.tree[f] = None, disk[f] = None
        PROVE  head.tree[f] = None /\ index'[f] = None
    <3>1. head.tree[f] = None /\ index[f] = None
      BY <1>1, <2>4 DEF KeptOK
    <3> QED
      BY <2>1, <2>2, <2>4, <3>1 DEF RW!extract_file
  <2>5. ASSUME base.tree[f] = None, f \in ignored
        PROVE  head.tree[f] = None /\ (f \in matched => index'[f] = None)
    <3>1. head.tree[f] = None /\ (f \in matched => index[f] = None)
      BY <1>1, <2>5 DEF KeptOK
    <3>2. f \notin RW!reingest_paths
      BY <2>5, <3>1 DEF RW!reingest_paths, RW!changed, RW!dirty_files,
                        RW!Ignored
    <3> QED
      BY <2>1, <2>2, <3>1, <3>2
  <2> QED
    BY <2>3, <2>4, <2>5
<1>5. RestOK'
  BY <1>2 DEF RestOK
<1> QED
  BY <1>3, <1>4, <1>5

LEMMA WriteKeeps ==
  ASSUME RootInv, NEW f \in Path, RW!Write(f)
  PROVE  OldOK' /\ KeptOK' /\ RestOK'
<1> USE DEF RW!fixed
<1>1. RW!TypeOK /\ OldOK /\ KeptOK /\ RestOK
  BY DEF RootInv
<1>2. PICK v : /\ v # None /\ v.mtime = writes + 1
               /\ disk' = [disk EXCEPT ![f] = v]
  <2>1. PICK b \in BOOLEAN :
          disk' = [disk EXCEPT ![f] = [of |-> f, mtime |-> writes + 1,
                                       skipped |-> b]]
    BY DEF RW!Write
  <2>2. writes + 1 \in Nat
    BY <1>1, RootTypes
  <2>3. [of |-> f, mtime |-> writes + 1, skipped |-> b] \in RW!Version
    BY <2>2, Zenon DEF RW!Version
  <2> QED
    BY <2>1, <2>3, NotVersion
<1>3. /\ repo' = repo /\ matched' = matched /\ ignored' = ignored
      /\ head' = head /\ renamed' = renamed /\ base' = base
      /\ index' = index /\ seen' = seen /\ missed' = missed
      /\ writes' = writes + 1
      /\ RW!Event({f})
  BY DEF RW!Write, RW!Touch
<1>4. /\ disk'[f] = v
      /\ \A g \in Path : g # f => disk'[g] = disk[g]
  BY <1>1, <1>2, RootTypes
<1>5. \A g \in Path : /\ disk[g] # v /\ head.tree[g] # v
                      /\ base # None => base.tree[g] # v
  <2>1. \A m \in Nat : m <= writes => m # writes + 1
    BY <1>1, RootTypes
  <2> QED
    BY <1>1, <1>2, <2>1, RootTypes DEF OldOK
<1>6. OldOK'
  <2> SUFFICES \A g \in Path :
                 /\ disk'[g] # None => disk'[g].mtime <= writes + 1
                 /\ head.tree[g] # None => head.tree[g].mtime <= writes + 1
                 /\ base # None /\ base.tree[g] # None =>
                      base.tree[g].mtime <= writes + 1
    BY <1>1, <1>3, RootTypes, SameRules DEF OldOK
  <2>1. \A m \in Nat : m <= writes => m <= writes + 1
    BY <1>1, RootTypes
  <2>2. writes + 1 <= writes + 1
    BY <1>1, RootTypes
  <2> QED
    BY <1>1, <1>2, <1>4, <2>1, <2>2, RootTypes DEF OldOK
<1>7. KeptOK'
  BY <1>1, <1>2, <1>3, <1>4, <1>5, SameRules DEF KeptOK, Entered
<1>8. RestOK'
  <2> SUFFICES ASSUME RW!AtRest', RW!Heard, ~missed,
                      NEW g \in Path \ renamed, Told(g)'
               PROVE  InStep(g)'
    BY <1>3, SameRules DEF RestOK
  <2>1. RW!exclude(f) /\ RW!AtRest
    BY <1>1, <1>2, <1>3, <1>4, Unheard
  <2>2. g # f
    BY <1>3, <1>4, <1>5, <2>1 DEF Told, RW!InSight
  <2>3. Told(g)
    BY <1>3, <1>4, <2>2 DEF Told, RW!InSight
  <2>4. InStep(g)
    BY <1>1, <2>1, <2>3 DEF RestOK
  <2> QED
    BY <1>3, <1>4, <2>2, <2>4, SameRules DEF InStep, Entered
<1> QED
  BY <1>6, <1>7, <1>8

(* A file that went was recorded, so that a sync will find it gone.        *)
LEMMA RemoveKeeps ==
  ASSUME RootInv, NEW f \in Path, RW!Remove(f)
  PROVE  OldOK' /\ KeptOK' /\ RestOK'
<1> USE DEF RW!fixed
<1>1. RW!TypeOK /\ OldOK /\ KeptOK /\ RestOK
  BY DEF RootInv
<1>2. /\ repo' = repo /\ matched' = matched /\ ignored' = ignored
      /\ head' = head /\ renamed' = renamed /\ base' = base
      /\ index' = index /\ seen' = seen /\ missed' = missed
      /\ writes' = writes + 1
      /\ RW!Event({f})
  BY DEF RW!Remove, RW!Touch
<1>3. /\ disk'[f] = None
      /\ \A g \in Path : g # f => disk'[g] = disk[g]
  BY <1>1, RootTypes DEF RW!Remove
<1>4. /\ head.tree[f] # None /\ base # None /\ base.tree[f] # None
  BY DEF RW!Remove, RW!Gone
<1>5. OldOK'
  <2> SUFFICES \A g \in Path :
                 /\ disk'[g] # None => disk'[g].mtime <= writes + 1
                 /\ head.tree[g] # None => head.tree[g].mtime <= writes + 1
                 /\ base # None /\ base.tree[g] # None =>
                      base.tree[g].mtime <= writes + 1
    BY <1>1, <1>2, RootTypes, SameRules DEF OldOK
  <2>1. \A m \in Nat : m <= writes => m <= writes + 1
    BY <1>1, RootTypes
  <2> QED
    BY <1>1, <1>3, <2>1, RootTypes DEF OldOK
<1>6. KeptOK'
  BY <1>1, <1>2, <1>3, <1>4, SameRules DEF KeptOK, Entered
<1>7. RestOK'
  <2> SUFFICES ASSUME RW!AtRest', RW!Heard, ~missed,
                      NEW g \in Path \ renamed, Told(g)'
               PROVE  InStep(g)'
    BY <1>2, SameRules DEF RestOK
  <2>1. repo.mode = "events"
    BY <1>1, RepoIs DEF RW!TypeOK, RW!Heard, RW!Remove
  <2>2. RW!exclude(f) /\ RW!AtRest
    BY <1>1, <1>2, <1>3, <2>1, Unheard
  <2>3. g # f
    BY <1>2, <1>3, <1>4, <2>2 DEF Told, RW!InSight
  <2>4. Told(g)
    BY <1>2, <1>3, <2>3 DEF Told, RW!InSight
  <2>5. InStep(g)
    BY <1>1, <2>2, <2>4 DEF RestOK
  <2> QED
    BY <1>2, <1>3, <2>3, <2>5, SameRules DEF InStep, Entered
<1> QED
  BY <1>5, <1>6, <1>7

LEMMA MoveKeeps ==
  ASSUME RootInv, NEW f \in Path, NEW g \in Path, NEW staged \in BOOLEAN,
         RW!Move(f, g, staged)
  PROVE  OldOK' /\ KeptOK' /\ RestOK'
<1> USE DEF RW!fixed
<1>1. RW!TypeOK /\ OldOK /\ KeptOK /\ RestOK
  BY DEF RootInv
<1>2. /\ repo' = repo /\ matched' = matched /\ ignored' = ignored
      /\ head' = head /\ base' = base
      /\ index' = index /\ seen' = seen /\ missed' = missed
      /\ writes' = writes + 1
      /\ renamed' # {} => renamed # {} \/ RW!Does("rename")
      /\ RW!Event({g})
  BY DEF RW!Move, RW!Touch
<1>3. /\ disk[f] # None /\ head.tree[f] # None
      /\ base # None /\ base.tree[f] # None
      /\ disk[g] = None /\ head.tree[g] = None /\ f # g
      /\ base.tree[g] # disk[f]
  BY DEF RW!Move, RW!Gone
<1>4. /\ disk'[f] = None /\ disk'[g] = disk[f]
      /\ \A h \in Path : h # f /\ h # g => disk'[h] = disk[h]
  <2>1. disk' = [disk EXCEPT ![g] = disk[f], ![f] = None]
    BY DEF RW!Move
  <2> QED
    BY <1>1, <1>3, <2>1, RootTypes
<1>5. OldOK'
  <2> SUFFICES \A h \in Path :
                 /\ disk'[h] # None => disk'[h].mtime <= writes + 1
                 /\ head.tree[h] # None => head.tree[h].mtime <= writes + 1
                 /\ base # None /\ base.tree[h] # None =>
                      base.tree[h].mtime <= writes + 1
    BY <1>1, <1>2, RootTypes, SameRules DEF OldOK
  <2>1. \A m \in Nat : m <= writes => m <= writes + 1
    BY <1>1, RootTypes
  <2>2. \A h \in Path : disk'[h] # None =>
          disk'[h].mtime \in Nat /\ disk'[h].mtime <= writes
    BY <1>1, <1>3, <1>4, RootTypes DEF OldOK
  <2> QED
    BY <1>1, <2>1, <2>2, RootTypes DEF OldOK
<1>6. KeptOK'
  <2> SUFFICES ASSUME NEW x \in Path
               PROVE  /\ base.tree[x] # None /\ disk'[x] = base.tree[x] =>
                           /\ head.tree[x] = base.tree[x]
                           /\ Entered(x, base.tree[x], index[x])
                      /\ base.tree[x] = None /\ disk'[x] = None =>
                           head.tree[x] = None /\ index[x] = None
                      /\ base.tree[x] = None /\ x \in ignored =>
                           head.tree[x] = None
                           /\ (x \in matched => index[x] = None)
    BY <1>2, SameRules DEF KeptOK, Entered
  <2>1. ASSUME base.tree[x] # None, disk'[x] = base.tree[x]
        PROVE  disk[x] = base.tree[x]
    BY <1>3, <1>4, <2>1
  <2>2. base.tree[x] = None /\ disk'[x] = None => disk[x] = None
    BY <1>3, <1>4
  <2> QED
    BY <1>1, <1>3, <2>1, <2>2 DEF KeptOK
<1>7. ~(RW!AtRest' /\ RW!Heard)
  <2> SUFFICES ASSUME RW!Heard PROVE pending'
    BY DEF RW!AtRest, RW!Idle
  <2>1. ~RW!exclude(g)
    BY DEF RW!Heard, RW!Move
  <2>2. repo.mode = "events"
    BY <1>1, RepoIs DEF RW!TypeOK, RW!Heard, RW!Move
  <2> QED
    BY <1>2, <2>1, <2>2 DEF RW!Event, RW!Noticed, RW!_handle_path
<1>8. RestOK'
  BY <1>2, <1>7, SameRules DEF RestOK
<1> QED
  BY <1>5, <1>6, <1>8

(* Of a commit the watcher hears by its ref, or it changed no file that    *)
(* the watcher had not heard of before.                                    *)
LEMMA CommitKeeps ==
  ASSUME RootInv, RW!Commit
  PROVE  OldOK' /\ KeptOK' /\ RestOK'
<1> USE DEF RW!fixed
<1>1. RW!TypeOK /\ OldOK /\ KeptOK /\ RestOK
  BY DEF RootInv
<1>2. /\ repo' = repo /\ matched' = matched /\ ignored' = ignored
      /\ disk' = disk /\ renamed' = {} /\ base' = base
      /\ index' = index /\ seen' = seen /\ missed' = missed
      /\ writes' = writes
      /\ RW!Event(IF repo.linked THEN {} ELSE {RW!Ref})
  BY DEF RW!Commit
<1>3. /\ head'.sha = head.sha + 1
      /\ \A f \in Path : head'.tree[f] =
           IF head.tree[f] = None /\ f \in ignored THEN None ELSE disk[f]
  BY DEF RW!Commit, RW!Ignored
<1>4. OldOK'
  <2>1. /\ seen.sha <= head'.sha
        /\ base # None => base.sha <= head'.sha /\ base.sha # head'.sha
    BY <1>1, <1>3, RootTypes DEF OldOK
  <2> QED
    BY <1>1, <1>2, <1>3, <2>1 DEF OldOK
<1>5. KeptOK'
  BY <1>1, <1>2, <1>3, SameRules DEF KeptOK, Entered
<1>6. RestOK'
  <2> SUFFICES ASSUME RW!AtRest', RW!Heard, ~missed,
                      NEW f \in Path, Told(f)'
               PROVE  InStep(f)'
    BY <1>2, SameRules DEF RestOK
  <2>1. repo.mode = "events"
    <3>1. repo.mode # "polling"
      <4> SUFFICES ASSUME repo.mode = "polling" PROVE FALSE
        OBVIOUS
      <4>1. seen.sha = head'.sha
        BY <1>2, Glances DEF RW!AtRest, RW!Idle
      <4> QED
        BY <1>1, <1>3, <4>1, RootTypes DEF OldOK
    <3> QED
      BY <1>1, <3>1, RepoIs DEF RW!TypeOK
  <2>2. repo.linked
    <3> SUFFICES ASSUME ~repo.linked PROVE FALSE
      OBVIOUS
    <3>1. RW!Noticed({RW!Ref})
      BY <2>1, RefIsNews DEF RW!Noticed
    <3> QED
      BY <1>2, <3>1 DEF RW!Event, RW!AtRest, RW!Idle
  <2>3. RW!AtRest
    BY <1>2, <2>1 DEF RW!AtRest, RW!Idle, RW!Event
  <2>4. renamed = {}
    BY <1>1, <2>1, <2>2 DEF OldOK, RW!Heard
  <2>5. ~RW!exclude(f)
    BY <1>2, <2>1, <2>2 DEF Told, RW!InSight
  <2>6. Told(f)
    BY <1>2, <1>3, <2>5 DEF Told, RW!InSight
  <2>7. InStep(f)
    BY <1>1, <2>3, <2>4, <2>6 DEF RestOK
  <2> QED
    BY <1>2, <2>7, SameRules DEF InStep, Entered
<1> QED
  BY <1>4, <1>5, <1>6

LEMMA NewestIn ==
  ASSUME RW!TypeOK, OldOK
  PROVE  Newest(disk) \in 0 .. writes
<1>d. PICK d, w : d = disk /\ w = writes
  OBVIOUS
<1>1. \A f \in Path : d[f] # None => d[f].mtime \in 0 .. w
  BY <1>d, RootTypes DEF OldOK
<1>2. w \in Nat
  BY <1>d, RootTypes
<1> QED
  BY <1>d, <1>1, <1>2, NewestIs

LEMMA PollKeeps ==
  ASSUME RootInv, RW!_run_poll
  PROVE  OldOK' /\ KeptOK' /\ RestOK'
<1> USE DEF RW!fixed
<1>1. RW!TypeOK /\ OldOK /\ KeptOK
  BY DEF RootInv
<1>2. /\ repo' = repo /\ matched' = matched /\ ignored' = ignored
      /\ disk' = disk /\ head' = head /\ renamed' = renamed /\ base' = base
      /\ index' = index /\ writes' = writes /\ pending'
      /\ seen' = RW!Glance
  BY DEF RW!_run_poll
<1>3. Newest(disk) \in 0 .. writes
  BY <1>1, NewestIn
<1>4. seen'.mtime <= writes /\ seen'.sha = head.sha
  BY <1>1, <1>2, <1>3, Glances, RootTypes
<1>5. OldOK'
  BY <1>1, <1>2, <1>4, RootTypes, SameRules DEF OldOK
<1>6. KeptOK'
  BY <1>1, <1>2, SameRules DEF KeptOK, Entered
<1>7. RestOK'
  BY <1>2 DEF RestOK, RW!AtRest, RW!Idle
<1> QED
  BY <1>5, <1>6, <1>7

(* Trees stay trees. *)
LEMMA TreeSteps ==
  /\ \A t \in RW!Tree, f \in Path, v \in RW!Version \cup {None} :
       [t EXCEPT ![f] = v] \in RW!Tree
  /\ \A t \in RW!Tree, f \in Path : t[f] \in RW!Version \cup {None}
  BY DEF RW!Tree

LEMMA RootTypesNext ==
  ASSUME RootInv, RW!Next
  PROVE  RW!TypeOK'
<1> USE DEF RW!fixed
<1>1. RW!TypeOK /\ OldOK
  BY DEF RootInv
<1>2. /\ repo \in Repos /\ matched \subseteq Path /\ ignored \subseteq Path
      /\ disk \in RW!Tree /\ index \in RW!Tree
      /\ head \in RW!Commits /\ base \in RW!Commits \cup {None}
      /\ head.sha \in Nat /\ head.tree \in RW!Tree
      /\ renamed \subseteq Path
      /\ pending \in BOOLEAN /\ missed \in BOOLEAN
      /\ seen \in [mtime : Nat, sha : Nat]
      /\ writes \in 0 .. repo.writes /\ writes \in Nat
      /\ repo.writes \in Nat
  BY <1>1, RootTypes, RepoIs DEF RW!TypeOK, RW!Commits
<1>3. RW!Touch => writes' \in 0 .. repo.writes
  BY <1>2 DEF RW!Touch
<1>4. \A paths : RW!Noticed(paths) \in BOOLEAN
  BY DEF RW!Noticed
<1>5. \A paths : RW!Event(paths) => pending' \in BOOLEAN
  BY <1>2, <1>4 DEF RW!Event
<1>6. \A files : /\ RW!Stirs(files) \in BOOLEAN
                 /\ RW!Done(files) => pending' \in BOOLEAN
  BY <1>4 DEF RW!Stirs, RW!Done
<1>7. ASSUME NEW f \in Path, RW!Write(f) PROVE RW!TypeOK'
  <2>1. disk' \in RW!Tree
    <3>1. PICK b \in BOOLEAN :
            disk' = [disk EXCEPT ![f] = [of |-> f, mtime |-> writes + 1,
                                         skipped |-> b]]
      BY <1>7 DEF RW!Write
    <3>2. writes + 1 \in Nat
      BY <1>2
    <3>3. [of |-> f, mtime |-> writes + 1, skipped |-> b] \in RW!Version
      BY <3>2, Zenon DEF RW!Version
    <3> QED
      BY <1>2, <3>1, <3>3, TreeSteps
  <2> QED
    BY <1>2, <1>3, <1>5, <1>7, <2>1 DEF RW!Write, RW!TypeOK
<1>8. ASSUME NEW f \in Path, RW!Remove(f) PROVE RW!TypeOK'
  <2>1. disk' \in RW!Tree
    BY <1>2, <1>8, TreeSteps DEF RW!Remove
  <2> QED
    BY <1>2, <1>3, <1>5, <1>8, <2>1 DEF RW!Remove, RW!TypeOK
<1>9. ASSUME NEW f \in Path, NEW g \in Path, NEW staged \in BOOLEAN,
             RW!Move(f, g, staged)
      PROVE  RW!TypeOK'
  <2>1. disk' \in RW!Tree
    <3>1. disk[f] \in RW!Version \cup {None}
      BY <1>2, TreeSteps
    <3>2. disk' = [[disk EXCEPT ![g] = disk[f]] EXCEPT ![f] = None]
      BY <1>9 DEF RW!Move
    <3>3. [disk EXCEPT ![g] = disk[f]] \in RW!Tree
      BY <1>2, <3>1, TreeSteps
    <3> QED
      BY <3>2, <3>3, TreeSteps
  <2>2. renamed' \subseteq Path
    BY <1>2, <1>9 DEF RW!Move
  <2> QED
    BY <1>2, <1>3, <1>5, <1>9, <2>1, <2>2 DEF RW!Move, RW!TypeOK
<1>10. ASSUME RW!Commit PROVE RW!TypeOK'
  <2>1. head' \in RW!Commits
    <3>1. PICK t : /\ head' = [sha |-> head.sha + 1, tree |-> t]
                   /\ t = [f \in Path |->
                             IF head.tree[f] = None /\ RW!Ignored(f)
                             THEN None ELSE disk[f]]
      BY <1>10 DEF RW!Commit
    <3>2. t \in RW!Tree
      BY <1>2, <3>1 DEF RW!Tree
    <3>3. head.sha + 1 \in Nat
      BY <1>2
    <3> QED
      BY <3>1, <3>2, <3>3 DEF RW!Commits
  <2> QED
    BY <1>2, <1>5, <1>10, <2>1 DEF RW!Commit, RW!TypeOK
<1>11. ASSUME RW!Full, writes' \in 0 .. repo.writes, pending' \in BOOLEAN
       PROVE  RW!TypeOK'
  <2>1. index' \in RW!Tree
    BY <1>2, <1>11 DEF RW!Full, RW!Walk, RW!Tree
  <2> QED
    BY <1>2, <1>11, <2>1 DEF RW!Full, RW!TypeOK
<1>12. CASE RW!Rebuild
  <2>1. pending' \in BOOLEAN
    BY <1>2, <1>6, <1>12 DEF RW!Rebuild
  <2> QED
    BY <1>3, <1>11, <1>12, <2>1 DEF RW!Rebuild
<1>13. CASE RW!FirstIngest
  <2>1. pending' \in BOOLEAN
    BY <1>6, <1>13 DEF RW!FirstIngest
  <2> QED
    BY <1>2, <1>11, <1>13, <2>1 DEF RW!FirstIngest
<1>14. CASE RW!_run_poll
  <2>1. Newest(disk) \in Nat
    BY <1>1, <1>14, NewestIn
  <2>2. seen' = [mtime |-> Newest(disk), sha |-> head.sha]
    BY <1>14, Glances DEF RW!_run_poll
  <2>3. seen' \in [mtime : Nat, sha : Nat]
    BY <1>2, <2>1, <2>2
  <2> QED
    BY <1>2, <1>14, <2>3 DEF RW!_run_poll, RW!TypeOK
<1>15. \A files : \A t \in RW!Tree :
         /\ RW!Reingested(t, files) \in RW!Tree
         /\ RW!Deleted(t, files) \in RW!Tree
  BY <1>2 DEF RW!Tree, RW!Reingested, RW!Deleted
<1>16. CASE RW!DirtyOnly
  <2>1. index' \in RW!Tree
    BY <1>2, <1>15, <1>16, Zenon DEF RW!DirtyOnly
  <2> QED
    BY <1>2, <1>6, <1>16, <2>1 DEF RW!DirtyOnly, RW!TypeOK
<1>17. CASE RW!Incremental
  <2>1. index' \in RW!Tree
    BY <1>2, <1>15, <1>17, Zenon DEF RW!Incremental, RW!Delta
  <2>2. pending' \in BOOLEAN
    BY <1>6, <1>17 DEF RW!Incremental
  <2> QED
    BY <1>2, <1>17, <2>1, <2>2 DEF RW!Incremental, RW!TypeOK
<1>18. CASE RW!SyncFails
  <2>1. RW!Walk \in RW!Tree
    BY <1>2 DEF RW!Walk, RW!Tree
  <2>2. RW!Delta \in RW!Tree
    BY <1>2, <1>15, Zenon DEF RW!Delta
  <2>3. index' \in RW!Tree
    <3>1. \A f \in Path :
            index'[f] \in {None, RW!Walk[f], RW!Delta[f], index[f]}
      BY <1>18 DEF RW!SyncFails
    <3>2. index' = [f \in Path |-> index'[f]]
      BY <1>18 DEF RW!SyncFails
    <3>3. \A f \in Path : index'[f] \in RW!Version \cup {None}
      BY <1>2, <2>1, <2>2, <3>1, TreeSteps
    <3> QED
      BY <3>2, <3>3 DEF RW!Tree
  <2>4. pending' \in BOOLEAN
    BY <1>6, <1>18 DEF RW!SyncFails
  <2> QED
    BY <1>2, <1>3, <1>18, <2>3, <2>4 DEF RW!SyncFails, RW!TypeOK
<1> QED
  BY <1>7, <1>8, <1>9, <1>10, <1>12, <1>13, <1>14, <1>16, <1>17, <1>18
  DEF RW!Next, RW!_trigger_sync

LEMMA RootNext == RootInv /\ (RW!Next \/ UNCHANGED rootVars) => RootInv'
<1> SUFFICES ASSUME RootInv, RW!Next \/ UNCHANGED rootVars PROVE RootInv'
  OBVIOUS
<1>1. RW!TypeOK /\ OldOK
  BY DEF RootInv
<1>2. CASE UNCHANGED rootVars
  <2> USE <1>2 DEF rootVars
  <2>1. RW!TypeOK' /\ OldOK'
    BY DEF RootInv, RW!TypeOK, OldOK, RW!Does
  <2>2. KeptOK'
    BY SameRules DEF RootInv, KeptOK, Entered
  <2>3. RW!AtRest' <=> RW!AtRest
    BY Glances DEF RW!AtRest, RW!Idle
  <2>4. \A f : Told(f)' <=> Told(f)
    BY DEF Told, RW!InSight
  <2>5. \A f : InStep(f)' <=> InStep(f)
    BY SameRules DEF InStep, Entered
  <2>6. RestOK'
    BY <2>3, <2>4, <2>5, SameRules DEF RootInv, RestOK
  <2> QED
    BY <2>1, <2>2, <2>6 DEF RootInv
<1>3. CASE RW!Next
  <2>1. OldOK' /\ KeptOK' /\ RestOK'
    <3>1. CASE RW!FirstIngest
      BY <1>1, <3>1, FullKeeps, RootTypes DEF RW!FirstIngest
    <3>2. CASE RW!Rebuild
      <4>1. writes' \in Nat /\ writes <= writes'
        BY <1>1, <3>2, RootTypes DEF RW!Rebuild, RW!Touch
      <4> QED
        BY <3>2, <4>1, FullKeeps DEF RW!Rebuild
    <3> QED
      BY <1>3, <3>1, <3>2, WriteKeeps, RemoveKeeps, MoveKeeps, CommitKeeps,
         PollKeeps, SyncKeeps, FailKeeps DEF RW!Next, RW!_trigger_sync
  <2> QED
    BY <1>3, <2>1, RootTypesNext DEF RootInv
<1> QED
  BY <1>2, <1>3

(* A watcher at rest whose last sync went through has missed nothing: no   *)
(* sync is due and a poll would find nothing, so the entries of every file *)
(* in its sight are those of its version, and what a walk would read has   *)
(* entries; whatever the .gitignore says, whatever was edited, committed   *)
(* or rebuilt before, however many syncs failed half-way or were dropped,  *)
(* and wherever edits met the filters of sync/watcher.py and the file      *)
(* lists of orchestrator/git_delta.py.                                     *)
THEOREM RestMissesNothing == MCSpec => []MCFollowedAtRest
<1>1. RootInv /\ [MCNext]_allVars => RootInv'
  BY HostSteps, RootNext
<1>2. MCSpec => MCInit /\ [][MCNext]_allVars
  BY PTL DEF MCSpec, allVars
<1> QED
  BY <1>1, <1>2, RootInit, RootPromise, PTL
=============================================================================
