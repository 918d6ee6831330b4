------------------------- MODULE SingleFlightProofs -------------------------
(***************************************************************************)
(* What holds of the rebuild slot for any number of processes and threads. *)
(***************************************************************************)
EXTENDS SingleFlight, TLAPS

LEMMA InitTypeOK == Init => TypeOK
  BY SingleFlightAssumption DEF Init, TypeOK, NoFile, Labels

LEMMA NextTypeOK == TypeOK /\ [Next]_vars => TypeOK'
<1> SUFFICES ASSUME TypeOK, [Next]_vars PROVE TypeOK'
  OBVIOUS
<1> USE SingleFlightAssumption DEF TypeOK, Labels, Goto, Refuse
<1>1. ASSUME NEW t \in Thread, Enter(t) PROVE TypeOK'
  BY <1>1 DEF Enter
<1>2. ASSUME NEW t \in Thread, Exists(t) PROVE TypeOK'
  BY <1>2 DEF Exists
<1>3. ASSUME NEW t \in Thread, Stat(t) PROVE TypeOK'
  BY <1>3 DEF Stat
<1>4. ASSUME NEW t \in Thread, ReadPid(t) PROVE TypeOK'
  BY <1>4 DEF ReadPid
<1>5. ASSUME NEW t \in Thread, Kill(t) PROVE TypeOK'
  BY <1>5 DEF Kill
<1>6. ASSUME NEW t \in Thread, Unlink(t) PROVE TypeOK'
  BY <1>6 DEF Unlink, NoFile
<1>7. ASSUME NEW t \in Thread, Create(t) PROVE TypeOK'
  <2>1. CASE ~Linked
    <3>1. file' = [creator |-> t, pid |-> None, old |-> FALSE]
      BY <1>7, <2>1 DEF Create
    <3>2. pc' = [pc EXCEPT ![t] = "write"]
      BY <1>7, <2>1 DEF Create
    <3>3. UNCHANGED <<proc, registry, held, attempt, seen>>
      BY <1>7, <2>1 DEF Create
    <3> QED
      BY <3>1, <3>2, <3>3
  <2>2. CASE Linked /\ attempt[t] = 1
    BY <1>7, <2>2 DEF Create
  <2>3. CASE Linked /\ attempt[t] = 2
    BY <1>7, <2>3 DEF Create
  <2> QED
    BY <2>1, <2>2, <2>3
<1>8. ASSUME NEW t \in Thread, Write(t) PROVE TypeOK'
  BY <1>8 DEF Write
<1>9. ASSUME NEW t \in Thread, Release(t) PROVE TypeOK'
  BY <1>9 DEF Release, NoFile
<1>10. ASSUME NEW p \in Proc, Crash(p) PROVE TypeOK'
  BY <1>10 DEF Crash
<1>11. ASSUME NEW p \in Proc, ReusePid(p) PROVE TypeOK'
  BY <1>11 DEF ReusePid
<1>12. CASE Expire
  BY <1>12 DEF Expire
<1>13. CASE UNCHANGED vars
  BY <1>13 DEF vars
<1> QED
  BY <1>1, <1>2, <1>3, <1>4, <1>5, <1>6, <1>7, <1>8, <1>9, <1>10, <1>11,
     <1>12, <1>13 DEF Next, Step

(* Every variable of the slot keeps its type. *)
THEOREM TypeCorrect == Spec => []TypeOK
  BY InitTypeOK, NextTypeOK, PTL DEF Spec

-----------------------------------------------------------------------------
(***************************************************************************)
(* Exclusion inside a process, in every environment.  The invariant ties   *)
(* the two in-memory guards to the threads: who is between Enter and Write *)
(* owns _registry_lock, with the key not in _held; and the key of a        *)
(* process with a thread inside the slot is in _held.                      *)
(***************************************************************************)
RegistryInv ==
  /\ TypeOK
  /\ \A t \in Thread :
       Attempting(t) => /\ registry[ProcOf[t]] = t
                        /\ ProcOf[t] \notin held
  /\ \A t \in Thread : pc[t] = "hold" => ProcOf[t] \in held
  /\ InProcessExclusion

LEMMA RegistryInvStep == RegistryInv /\ [Next]_vars => RegistryInv'
<1> SUFFICES ASSUME RegistryInv, [Next]_vars PROVE RegistryInv'
  OBVIOUS
<1>0. TypeOK'
  BY NextTypeOK DEF RegistryInv
<1> USE <1>0, SingleFlightAssumption
    DEF RegistryInv, TypeOK, Attempting, InProcessExclusion, Goto, Refuse
<1>1. ASSUME NEW t \in Thread, Enter(t) PROVE RegistryInv'
  BY <1>1 DEF Enter
<1>2. ASSUME NEW t \in Thread, Exists(t) PROVE RegistryInv'
  BY <1>2 DEF Exists
<1>3. ASSUME NEW t \in Thread, Stat(t) PROVE RegistryInv'
  BY <1>3 DEF Stat
<1>4. ASSUME NEW t \in Thread, ReadPid(t) PROVE RegistryInv'
  BY <1>4 DEF ReadPid
<1>5. ASSUME NEW t \in Thread, Kill(t) PROVE RegistryInv'
  BY <1>5 DEF Kill
<1>6. ASSUME NEW t \in Thread, Unlink(t) PROVE RegistryInv'
  BY <1>6 DEF Unlink
<1>7. ASSUME NEW t \in Thread, Create(t) PROVE RegistryInv'
  BY <1>7 DEF Create
<1>8. ASSUME NEW t \in Thread, Write(t) PROVE RegistryInv'
  BY <1>8 DEF Write
<1>9. ASSUME NEW t \in Thread, Release(t) PROVE RegistryInv'
  BY <1>9 DEF Release
<1>10. ASSUME NEW p \in Proc, Crash(p) PROVE RegistryInv'
  BY <1>10 DEF Crash
<1>11. ASSUME NEW p \in Proc, ReusePid(p) PROVE RegistryInv'
  BY <1>11 DEF ReusePid
<1>12. CASE Expire
  BY <1>12 DEF Expire
<1>13. CASE UNCHANGED vars
  BY <1>13 DEF vars
<1> QED
  BY <1>1, <1>2, <1>3, <1>4, <1>5, <1>6, <1>7, <1>8, <1>9, <1>10, <1>11,
     <1>12, <1>13 DEF Next, Step

(* Two threads of one process are never both inside the slot, whatever     *)
(* other processes, crashes and the TTL do to the lock file.               *)
THEOREM InProcess == Spec => []InProcessExclusion
<1>1. Init => RegistryInv
  BY InitTypeOK
     DEF Init, RegistryInv, Attempting, InProcessExclusion
<1>2. RegistryInv => InProcessExclusion
  BY DEF RegistryInv
<1> QED
  BY <1>1, <1>2, RegistryInvStep, PTL DEF Spec

-----------------------------------------------------------------------------
(***************************************************************************)
(* Exclusion between processes, when attempts do not overlap and no live   *)
(* rebuild outlasts the TTL.  Crashes and recycled PIDs are allowed.       *)
(***************************************************************************)
LEMMA SerialInvInit == Init => SerialInv
  BY InitTypeOK DEF Init, SerialInv, Attempting, Holders

LEMMA SerialInvStep ==
  ASSUME ~Overlap, ~SlowHolders
  PROVE  SerialInv /\ [Next]_vars => SerialInv'
<1> SUFFICES ASSUME SerialInv, [Next]_vars PROVE SerialInv'
  OBVIOUS
<1>0. TypeOK'
  BY NextTypeOK DEF SerialInv
<1> USE <1>0, SingleFlightAssumption
    DEF SerialInv, TypeOK, Attempting, Holders, Goto, Refuse, Labels
<1>1. ASSUME NEW t \in Thread, Enter(t) PROVE SerialInv'
  BY <1>1 DEF Enter
<1>2. ASSUME NEW t \in Thread, Exists(t) PROVE SerialInv'
  BY <1>2 DEF Exists, Linked
<1>3. ASSUME NEW t \in Thread, Stat(t) PROVE SerialInv'
  BY <1>3 DEF Stat, Linked
<1>4. ASSUME NEW t \in Thread, ReadPid(t) PROVE SerialInv'
  BY <1>4 DEF ReadPid
<1>5. ASSUME NEW t \in Thread, Kill(t) PROVE SerialInv'
  BY <1>5 DEF Kill
<1>6. ASSUME NEW t \in Thread, Unlink(t) PROVE SerialInv'
  BY <1>6 DEF Unlink, NoFile
<1>7. ASSUME NEW t \in Thread, Create(t) PROVE SerialInv'
  BY <1>7 DEF Create, Linked
<1>8. ASSUME NEW t \in Thread, Write(t) PROVE SerialInv'
  <2>1. file' = [creator |-> t, pid |-> ProcOf[t], old |-> FALSE]
    <3>1. file = [creator |-> t, pid |-> None, old |-> FALSE]
      BY <1>8 DEF Write
    <3>2. file' = [file EXCEPT !.pid = ProcOf[t]]
      BY <1>8, <3>1 DEF Write
    <3> HIDE DEF SerialInv, TypeOK
    <3> QED
      BY <3>1, <3>2
  <2>2. \A u \in Thread : pc'[u] = "hold" => u = t
    BY <1>8 DEF Write
  <2>3. \A u \in Thread : pc'[u] \in {"idle", "hold"}
    BY <1>8 DEF Write
  <2>4. \A u \in Thread : pc'[u] # "idle" => proc'[ProcOf[u]] = "up"
    BY <1>8 DEF Write
  <2>5. \A u \in Thread :
          pc'[u] = "hold" =>
            file' = [creator |-> u, pid |-> ProcOf[u], old |-> FALSE]
    BY <2>1, <2>2
  <2> QED
    BY <2>3, <2>4, <2>5
<1>9. ASSUME NEW t \in Thread, Release(t) PROVE SerialInv'
  BY <1>9 DEF Release, NoFile
<1>10. ASSUME NEW p \in Proc, Crash(p) PROVE SerialInv'
  BY <1>10 DEF Crash
<1>11. ASSUME NEW p \in Proc, ReusePid(p) PROVE SerialInv'
  BY <1>11 DEF ReusePid
<1>12. CASE Expire
  BY <1>12 DEF Expire, Linked
<1>13. CASE UNCHANGED vars
  BY <1>13 DEF vars
<1> QED
  BY <1>1, <1>2, <1>3, <1>4, <1>5, <1>6, <1>7, <1>8, <1>9, <1>10, <1>11,
     <1>12, <1>13 DEF Next, Step

(* At most one rebuild runs, over any number of processes that crash and   *)
(* whose PIDs are recycled, when attempts do not overlap and the TTL is    *)
(* longer than every rebuild.                                              *)
THEOREM SerialExclusion ==
  ASSUME ~Overlap, ~SlowHolders
  PROVE  Spec => []AtMostOneRebuild
<1>1. SerialInv => AtMostOneRebuild
  BY SingleFlightAssumption DEF SerialInv, AtMostOneRebuild
<1>2. SerialInv /\ [Next]_vars => SerialInv'
  BY SerialInvStep
<1> QED
  BY <1>1, <1>2, SerialInvInit, PTL DEF Spec

(* Under the same assumptions a rebuild that ends removes its own lock     *)
(* file and no other.                                                      *)
THEOREM SerialRelease ==
  ASSUME ~Overlap, ~SlowHolders
  PROVE  Spec => ReleaseRemovesOwnFile
<1>1. SerialInv /\ [Next]_vars
        => [\A t \in Thread : Release(t) => file.creator = t]_vars
  BY DEF SerialInv, Release
<1>2. SerialInv /\ [Next]_vars => SerialInv'
  BY SerialInvStep
<1> QED
  BY <1>1, <1>2, SerialInvInit, PTL DEF Spec, ReleaseRemovesOwnFile

-----------------------------------------------------------------------------
(***************************************************************************)
(* Refinement: the system calls implement the abstract slot.               *)
(***************************************************************************)
LEMMA HolderIs ==
  ASSUME AtMostOneRebuild, NEW t \in Thread, pc[t] = "hold"
  PROVE  Holders = {t} /\ Holder = t
<1>1. Holders = {t}
  BY DEF AtMostOneRebuild, Holders
<1> QED
  BY <1>1 DEF Holder

LEMMA HolderIsNext ==
  ASSUME AtMostOneRebuild', NEW t \in Thread, pc'[t] = "hold"
  PROVE  Holders' = {t} /\ Holder' = t
<1>1. Holders' = {t}
  BY DEF AtMostOneRebuild, Holders
<1> QED
  BY <1>1 DEF Holder
LEMMA HolderUnchanged ==
  ASSUME TypeOK, TypeOK',
         \A t \in Thread : pc'[t] = "hold" <=> pc[t] = "hold"
  PROVE  Holder' = Holder
<1>1. Holders' = Holders
  BY DEF Holders
<1> QED
  BY <1>1 DEF Holder

LEMMA NoHolder == Holders = {} => Holder = None
  BY DEF Holder

LEMMA NoHolderNext == Holders' = {} => Holder' = None
  BY DEF Holder

LEMMA SlotStep ==
  ASSUME SerialInv, SerialInv', AtMostOneRebuild, AtMostOneRebuild',
         [Next]_vars
  PROVE  [Promise!Next]_Holder
<1> USE SingleFlightAssumption DEF SerialInv
<1>1. ASSUME NEW t \in Thread, Enter(t) PROVE Holder' = Holder
  BY <1>1, HolderUnchanged DEF Enter, Goto, TypeOK
<1>2. ASSUME NEW t \in Thread,
             Exists(t) \/ Stat(t) \/ ReadPid(t) \/ Kill(t) \/ Unlink(t)
               \/ Create(t)
      PROVE  Holder' = Holder
  BY <1>2, HolderUnchanged
     DEF Exists, Stat, ReadPid, Kill, Unlink, Create, Goto, Refuse, TypeOK
<1>3. ASSUME NEW t \in Thread, Write(t) PROVE Promise!Next
  <2>1. Holder = None
    BY <1>3, NoHolder DEF Write
  <2>2. pc'[t] = "hold"
    BY <1>3 DEF Write, Goto, TypeOK
  <2>3. Holder' = t
    BY <2>2, HolderIsNext
  <2> QED
    BY <2>1, <2>3 DEF Promise!Next, Promise!Acquire
<1>4. ASSUME NEW t \in Thread, Release(t) PROVE Promise!Next
  <2>1. Holder = t /\ Holders = {t}
    BY <1>4, HolderIs DEF Release
  <2>2. Holders' = {}
    BY <1>4, <2>1 DEF Release, Goto, TypeOK, Holders
  <2>3. Holder' = None
    BY <2>2, NoHolderNext
  <2> QED
    BY <2>1, <2>3 DEF Promise!Next, Promise!Free
<1>5. ASSUME NEW p \in Proc, Crash(p) PROVE [Promise!Next]_Holder
  <2>1. CASE \E t \in Thread : pc[t] = "hold" /\ ProcOf[t] = p
    <3>1. PICK t \in Thread : pc[t] = "hold" /\ ProcOf[t] = p
      BY <2>1
    <3>2. Holder = t /\ Holders = {t}
      BY <3>1, HolderIs
    <3>3. Holders' = {}
      BY <1>5, <3>1, <3>2 DEF Crash, Holders
    <3>4. Holder' = None
      BY <3>3, NoHolderNext
    <3> QED
      BY <3>2, <3>4 DEF Promise!Next, Promise!Free
  <2>2. CASE ~ \E t \in Thread : pc[t] = "hold" /\ ProcOf[t] = p
    <3>1. \A t \in Thread : pc'[t] = "hold" <=> pc[t] = "hold"
      BY <1>5, <2>2 DEF Crash
    <3> QED
      BY <3>1, HolderUnchanged
  <2> QED
    BY <2>1, <2>2
<1>6. ASSUME NEW p \in Proc, ReusePid(p) PROVE Holder' = Holder
  BY <1>6, HolderUnchanged DEF ReusePid
<1>7. CASE Expire
  BY <1>7, HolderUnchanged DEF Expire
<1>8. CASE UNCHANGED vars
  BY <1>8, HolderUnchanged DEF vars
<1> QED
  BY <1>1, <1>2, <1>3, <1>4, <1>5, <1>6, <1>7, <1>8 DEF Next, Step

(* The system calls on the lock file implement the abstract slot when      *)
(* attempts do not overlap and no live rebuild outlasts the TTL.           *)
THEOREM SlotRefinement ==
  ASSUME ~Overlap, ~SlowHolders
  PROVE  Spec => ImplementsSlot
<1>1. Init => Promise!Init
  <2>1. Init => Holders = {}
    BY DEF Init, Holders
  <2> QED
    BY <2>1, NoHolder DEF Promise!Init
<1>2. SerialInv /\ [Next]_vars => SerialInv'
  BY SerialInvStep
<1>3. SerialInv => AtMostOneRebuild
  BY SingleFlightAssumption DEF SerialInv, AtMostOneRebuild
<1>4. SerialInv' => AtMostOneRebuild'
  BY SingleFlightAssumption DEF SerialInv, AtMostOneRebuild
<1>5. SerialInv /\ SerialInv' /\ [Next]_vars => [Promise!Next]_Holder
  BY <1>3, <1>4, SlotStep
<1> QED
  BY <1>1, <1>2, <1>5, SerialInvInit, PTL
     DEF Spec, ImplementsSlot, Promise!Spec
=============================================================================
