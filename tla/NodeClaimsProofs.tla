--------------------------- MODULE NodeClaimsProofs ---------------------------
(***************************************************************************)
(* Theorems about NodeClaims, for every number of claims, allocations,     *)
(* processes and calls, and every bound on the faults.                     *)
(***************************************************************************)
EXTENDS NodeClaims, TLAPS

(***************************************************************************)
(* Types.                                                                  *)
(***************************************************************************)

LEMMA TypeInit == Init => TypeOK
<1>1. DeviceStateInit => DeviceStateTypeOK
  <2>. SUFFICES ASSUME DeviceStateInit PROVE DeviceStateTypeOK
    OBVIOUS
  <2>1. up \in [Instances -> BOOLEAN] /\ common \in BOOLEAN
    BY Zenon DEF DeviceStateInit
  <2>2. checkpoint \in SUBSET Claims /\ faults \in Nat
    BY DEF DeviceStateInit
  <2>3. cdi \in [Claims -> Allocations \cup {None}]
    BY DEF DeviceStateInit
  <2>4. /\ mutex \in [Instances -> Calls \cup {None}]
        /\ helperLock \in Calls \cup {None}
    BY DEF DeviceStateInit
  <2>5. call \in [Calls -> HandlerCall \cup {NoCall}]
    BY Zenon DEF DeviceStateInit
  <2>. QED
    BY <2>1, <2>2, <2>3, <2>4, <2>5 DEF DeviceStateTypeOK
<1>2. Init => alloc \in [Claims -> Allocations \cup {None}] /\ kube \in [Claims -> Wishes]
  BY DEF Init, Wishes
<1>. QED
  BY <1>1, <1>2 DEF Init, TypeOK

\* An active call is a HandlerCall; a free slot is NoCall.
LEMMA ActiveCall ==
  ASSUME TypeOK, NEW k \in Calls, call[k].pc # "free"
  PROVE  call[k] \in HandlerCall
BY DEF TypeOK, DeviceStateTypeOK, NoCall

\* What Die leaves in a slot has the type of a slot.
LEMMA AbortedType ==
  ASSUME TypeOK, NEW k \in Calls, NEW i \in Instances
  PROVE  Aborted(k, i) \in HandlerCall \cup {NoCall}
<1>1. call[k] \in HandlerCall \cup {NoCall}
  BY DEF TypeOK, DeviceStateTypeOK
<1>2. CASE call[k] = NoCall
  BY <1>2, ConstantsAssumption DEF Aborted, NoCall
<1>3. CASE call[k] \in HandlerCall
  BY <1>3 DEF Aborted, HandlerCall, Steps, Answers
<1>. QED
  BY <1>1, <1>2, <1>3

LEMMA DieType ==
  ASSUME TypeOK, NEW i \in Instances, Die(i)
  PROVE  /\ up' \in [Instances -> BOOLEAN]
         /\ call' \in [Calls -> HandlerCall \cup {NoCall}]
         /\ mutex' \in [Instances -> Calls \cup {None}]
         /\ helperLock' \in Calls \cup {None}
<1>1. call' \in [Calls -> HandlerCall \cup {NoCall}]
  BY AbortedType DEF Die
<1>. QED
  BY <1>1 DEF Die, TypeOK, DeviceStateTypeOK

LEMMA ReturnType ==
  ASSUME TypeOK, NEW k \in Calls, NEW answer \in Answers,
         call[k].pc # "free", Return(k, answer)
  PROVE  /\ call' \in [Calls -> HandlerCall \cup {NoCall}]
         /\ mutex' \in [Instances -> Calls \cup {None}]
         /\ helperLock' \in Calls \cup {None}
<1>1. call[k] \in HandlerCall
  BY ActiveCall
<1>2. [call[k] EXCEPT !.pc = answer, !.copy = {}] \in HandlerCall
  BY <1>1 DEF HandlerCall, Steps
<1>. QED
  BY <1>2 DEF Return, TypeOK, DeviceStateTypeOK

LEMMA GotoType ==
  ASSUME TypeOK, NEW k \in Calls, NEW pc \in Steps,
         call[k].pc # "free", Goto(k, pc)
  PROVE  call' \in [Calls -> HandlerCall \cup {NoCall}]
<1>1. call[k] \in HandlerCall
  BY ActiveCall
<1>2. [call[k] EXCEPT !.pc = pc] \in HandlerCall
  BY <1>1 DEF HandlerCall
<1>. QED
  BY <1>2 DEF Goto, TypeOK, DeviceStateTypeOK

\* Every step of a handler keeps the types.
LEMMA TypeHandle ==
  ASSUME TypeOK, NEW k \in Calls, Enter(k) \/ Lock(k) \/ Handle(k)
  PROVE  DeviceStateTypeOK'
<1>. USE DEF TypeOK, DeviceStateTypeOK
<1>a. call[k] \in HandlerCall
  <2>1. call[k].pc # "free"
    BY DEF Enter, Lock, Handle, PrepareStep, UnprepareStep, SaveStep,
       PrepareReadFails, PrepareRejects, PrepareRestores, PrepareComputes,
       PreparePublishes, PrepareWritesSpec, PrepareSpecFails, UnprepareReads,
       UnprepareResets, UnprepareResetFails, UnprepareDeletesSpec,
       UnprepareDeleteFails, Save, SaveFails, At
  <2>. QED
    BY <2>1, ActiveCall
<1>b. /\ call[k].inst \in Instances
      /\ call[k].claim \in Claims
      /\ call[k].copy \in SUBSET Claims
      /\ call[k].alloc \in Allocations \cup {None}
      /\ call[k].pc # "free"
  BY <1>a DEF HandlerCall, Steps, Critical, Answers
<1>c. faults + 1 \in Nat /\ faults + 2 \in Nat
  OBVIOUS
<1>1. CASE Enter(k)
  <2>1. call' \in [Calls -> HandlerCall \cup {NoCall}]
    BY <1>1, <1>b, GotoType DEF Enter, Steps
  <2>. QED
    BY <1>1, <2>1 DEF Enter, files
<1>2. CASE Lock(k)
  <2>1. call' \in [Calls -> HandlerCall \cup {NoCall}]
    BY <1>2, <1>b, GotoType DEF Lock, Steps, Critical
  <2>. QED
    BY <1>2, <1>b, <2>1 DEF Lock, files
<1>3. CASE PrepareReadFails(k) \/ PrepareRejects(k) \/ PrepareRestores(k)
             \/ PrepareSpecFails(k) \/ UnprepareDeleteFails(k)
  <2>1. Return(k, "ok") \/ Return(k, "failed")
    BY <1>3 DEF PrepareReadFails, PrepareRejects, PrepareRestores,
       PrepareSpecFails, UnprepareDeleteFails
  <2>2. /\ call' \in [Calls -> HandlerCall \cup {NoCall}]
        /\ mutex' \in [Instances -> Calls \cup {None}]
        /\ helperLock' \in Calls \cup {None}
    BY <2>1, <1>b, ReturnType DEF Answers
  <2>3. UNCHANGED <<files, up>> /\ faults' \in Nat
    BY <1>3, <1>c DEF PrepareReadFails, PrepareRejects, PrepareRestores,
       PrepareSpecFails, UnprepareDeleteFails, Fault
  <2>. QED
    BY <2>2, <2>3 DEF files
<1>4. CASE PrepareComputes(k)
  <2>1. [call[k] EXCEPT !.pc = "publish", !.copy = checkpoint] \in HandlerCall
    BY <1>a DEF HandlerCall, Steps, Critical
  <2>. QED
    BY <1>4, <2>1 DEF PrepareComputes, files, locks
<1>5. CASE PreparePublishes(k)
  <2>1. [call[k] EXCEPT !.pc = "cdi", !.copy = @ \cup {call[k].claim}] \in HandlerCall
    BY <1>a, <1>b DEF HandlerCall, Steps, Critical
  <2>. QED
    BY <1>5, <2>1 DEF PreparePublishes, files, locks
<1>6. CASE PrepareWritesSpec(k)
  <2>1. call' \in [Calls -> HandlerCall \cup {NoCall}]
    BY <1>6, <1>b, GotoType DEF PrepareWritesSpec, Steps, Critical
  <2>. QED
    BY <1>6, <1>b, <2>1 DEF PrepareWritesSpec, locks
<1>7. CASE UnprepareReads(k)
  <2>1. [call[k] EXCEPT !.pc = "remove", !.copy = checkpoint \ {call[k].claim}] \in HandlerCall
    BY <1>a, <1>b DEF HandlerCall, Steps, Critical
  <2>. QED
    BY <1>7, <2>1 DEF UnprepareReads, files, locks
<1>8. CASE UnprepareResets(k)
  <2>1. /\ up' \in [Instances -> BOOLEAN]
        /\ call' \in [Calls -> HandlerCall \cup {NoCall}]
        /\ mutex' \in [Instances -> Calls \cup {None}]
        /\ helperLock' \in Calls \cup {None}
    BY <1>8, <1>b, DieType DEF UnprepareResets
  <2>. QED
    BY <1>8, <1>c, <2>1 DEF UnprepareResets, WriteCheckpoint, Fault
<1>9. CASE UnprepareResetFails(k) \/ Save(k) \/ SaveFails(k)
  <2>1. /\ call' \in [Calls -> HandlerCall \cup {NoCall}]
        /\ mutex' \in [Instances -> Calls \cup {None}]
        /\ helperLock' \in Calls \cup {None}
    BY <1>9, <1>b, ReturnType DEF UnprepareResetFails, Save, SaveFails, Answers
  <2>2. checkpoint' \in SUBSET Claims
    BY <1>9, <1>b DEF UnprepareResetFails, Save, SaveFails, WriteCheckpoint
  <2>3. UNCHANGED <<cdi, common, up>> /\ faults' \in Nat
    BY <1>9, <1>c DEF UnprepareResetFails, Save, SaveFails, Fault
  <2>. QED
    BY <2>1, <2>2, <2>3
<1>10. CASE UnprepareDeletesSpec(k)
  <2>1. call' \in [Calls -> HandlerCall \cup {NoCall}]
    BY <1>10, <1>b, GotoType DEF UnprepareDeletesSpec, Steps, Critical
  <2>. QED
    BY <1>10, <1>b, <2>1 DEF UnprepareDeletesSpec, locks
<1>. QED
  BY <1>1, <1>2, <1>3, <1>4, <1>5, <1>6, <1>7, <1>8, <1>9, <1>10
     DEF Handle, PrepareStep, UnprepareStep, SaveStep

LEMMA TypeProcess ==
  ASSUME TypeOK, NEW i \in Instances, ProcessStep(i) 
  PROVE  DeviceStateTypeOK'
<1>. USE DEF TypeOK, DeviceStateTypeOK
<1>1. CASE Start(i)
  <2>1. up' \in [Instances -> BOOLEAN] /\ common' \in BOOLEAN
    <3>1. common' = TRUE /\ up' = [up EXCEPT ![i] = TRUE] /\ up \in [Instances -> BOOLEAN]
      BY <1>1 DEF Start, WriteCommonSpec
    <3>. QED
      BY <3>1
  <2>. QED
    BY <1>1, <2>1 DEF Start, locks
<1>2. CASE Shutdown(i)
  BY <1>2 DEF Shutdown, files, locks
<1>3. CASE Crash(i)
  <2>1. /\ up' \in [Instances -> BOOLEAN]
        /\ call' \in [Calls -> HandlerCall \cup {NoCall}]
        /\ mutex' \in [Instances -> Calls \cup {None}]
        /\ helperLock' \in Calls \cup {None}
    BY <1>3, DieType DEF Crash
  <2>. QED
    BY <1>3, <2>1 DEF Crash, files, Fault
<1>. QED
  BY <1>1, <1>2, <1>3 DEF ProcessStep

LEMMA TypePowerCycle ==
  ASSUME TypeOK, PowerCycle
  PROVE  DeviceStateTypeOK'
<1>. USE DEF TypeOK, DeviceStateTypeOK
<1>1. /\ mutex' \in [Instances -> Calls \cup {None}]
      /\ helperLock' \in Calls \cup {None}
      /\ cdi' \in [Claims -> Allocations \cup {None}]
      /\ checkpoint' \in SUBSET Claims
      /\ faults' \in Nat
  BY DEF PowerCycle, Fault
<1>2. call' \in [Calls -> HandlerCall \cup {NoCall}]
  BY Zenon DEF PowerCycle
<1>3. up' \in [Instances -> BOOLEAN]
  BY Zenon DEF PowerCycle
<1>4. common' \in BOOLEAN
  BY Zenon DEF PowerCycle
<1>. QED
  BY <1>1, <1>2, <1>3, <1>4

\* The kubelet and the control plane keep the types too.
LEMMA TypeKubelet ==
  ASSUME TypeOK, NEW k \in Calls, KubeletStep(k)
  PROVE  TypeOK'
<1>. USE DEF TypeOK, DeviceStateTypeOK
<1>1. ASSUME NEW i \in Instances, NEW c \in Claims,
             SendPrepare(k, i, c) \/ SendUnprepare(k, i, c)
      PROVE  TypeOK'
  <2>1. PICK op \in {"Prepare", "Unprepare"}, a \in Allocations \cup {None} :
          Send(k, i, c, op, a)
    BY <1>1 DEF SendPrepare, SendUnprepare
  <2>2. [pc |-> "waiting", op |-> op, claim |-> c, alloc |-> a,
         inst |-> i, copy |-> {}, awaited |-> TRUE] \in HandlerCall
    BY DEF HandlerCall, Steps
  <2>. QED
    BY <2>1, <2>2 DEF Send, files, locks
<1>2. CASE GiveUp(k)
  <2>1. call[k] # NoCall
    BY <1>2 DEF GiveUp, NoCall
  <2>2. [call[k] EXCEPT !.awaited = FALSE] \in HandlerCall
    BY <2>1 DEF HandlerCall
  <2>. QED
    BY <1>2, <2>2 DEF GiveUp, files, locks
<1>3. CASE Answer(k)
  <2>1. call' \in [Calls -> HandlerCall \cup {NoCall}]
    BY <1>3 DEF Answer
  <2>2. call[k] \in HandlerCall
    BY <1>3, ActiveCall DEF Answer, Answers
  <2>3. call[k].claim \in Claims
    BY <2>2 DEF HandlerCall
  <2>4. kube' \in [Claims -> Wishes] /\ alloc' \in [Claims -> Allocations \cup {None}]
    BY <1>3, <2>3 DEF Answer, Acknowledge, Wishes
  <2>. QED
    BY <1>3, <2>1, <2>4 DEF Answer, files, locks
<1>. QED
  BY <1>1, <1>2, <1>3 DEF KubeletStep

LEMMA TypeForgotten == TypeOK => Forgotten \in [Claims -> Wishes]
BY DEF TypeOK, Forgotten, Wishes

LEMMA TypeRestart ==
  ASSUME TypeOK, KubeletRestart
  PROVE  TypeOK'
<1>. USE DEF TypeOK, DeviceStateTypeOK
<1>1. ASSUME NEW k \in Calls
      PROVE  Unawaited(k) \in HandlerCall \cup {NoCall}
  <2>1. CASE ~Active(k)
    BY <2>1 DEF Unawaited
  <2>2. CASE Active(k)
    BY <2>2, ActiveCall DEF Unawaited, Active, HandlerCall
  <2>. QED
    BY <2>1, <2>2
<1>2. call' \in [Calls -> HandlerCall \cup {NoCall}]
  BY <1>1 DEF KubeletRestart
<1>. QED
  BY <1>2, TypeForgotten DEF KubeletRestart, files, locks

LEMMA TypeNext == TypeOK /\ [Next]_vars => TypeOK'
<1>. SUFFICES ASSUME TypeOK, [Next]_vars PROVE TypeOK'
  OBVIOUS
<1>1. CASE PluginStep
  <2>1. DeviceStateTypeOK'
    BY <1>1, TypeHandle, TypeProcess DEF PluginStep, DeviceStateNext
  <2>. QED
    BY <1>1, <2>1 DEF PluginStep, TypeOK
<1>2. ASSUME NEW c \in Claims, Schedule(c) \/ PodGone(c) \/ Rejoin(c)
      PROVE  TypeOK'
  BY <1>2 DEF Schedule, PodGone, Rejoin, pluginVars, TypeOK, DeviceStateTypeOK, Wishes
<1>3. ASSUME NEW k \in Calls, KubeletStep(k)
      PROVE  TypeOK'
  BY <1>3, TypeKubelet
<1>4. CASE KubeletRestart
  BY <1>4, TypeRestart
<1>5. CASE Reboot
  BY <1>5, TypePowerCycle, TypeForgotten DEF Reboot, TypeOK
<1>6. CASE UNCHANGED vars
  BY <1>6 DEF vars, pluginVars, TypeOK, DeviceStateTypeOK
<1>. QED
  BY <1>1, <1>2, <1>3, <1>4, <1>5, <1>6 DEF Next

\* Every variable keeps its type.
THEOREM TypeCorrect == Spec => []TypeOK
BY TypeInit, TypeNext, PTL DEF Spec

--------------------------------------------------------------------------------
(***************************************************************************)
(* The locks.  Three shapes cover what a handler does once it is running:  *)
(* it goes on in its slot, it returns, or it takes its process down.       *)
(***************************************************************************)

\* The handler in slot k moves from one critical step to another.
GoesOn(k) ==
  /\ call[k].pc \in Critical /\ call'[k].pc \in Critical
  /\ call'[k].inst = call[k].inst
  /\ \A m \in Calls \ {k} : call'[m] = call[m]
  /\ UNCHANGED <<mutex, helperLock>>

LEMMA CallType ==
  ASSUME TypeOK, NEW k \in Calls, call[k].pc # "free"
  PROVE  /\ call[k].inst \in Instances /\ call[k].claim \in Claims
         /\ call[k].op \in {"Prepare", "Unprepare"} /\ call[k].copy \in SUBSET Claims
         /\ call[k].alloc \in Allocations \cup {None}
         /\ call[k].pc \in Steps
         /\ call \in [Calls -> HandlerCall \cup {NoCall}]
         /\ mutex \in [Instances -> Calls \cup {None}]
         /\ cdi \in [Claims -> Allocations \cup {None}]
<1>1. call[k] \in HandlerCall
  BY ActiveCall
<1>. QED
  BY <1>1 DEF HandlerCall, TypeOK, DeviceStateTypeOK

LEMMA HandleShape ==
  ASSUME TypeOK, NEW k \in Calls, Handle(k)
  PROVE  /\ call[k].pc \in Critical
         /\ \/ GoesOn(k)
            \/ \E answer \in Answers : Return(k, answer)
            \/ Die(call[k].inst)
<1>1. call[k].pc \in Critical
  BY DEF Handle, PrepareStep, UnprepareStep, SaveStep,
     PrepareReadFails, PrepareRejects, PrepareRestores, PrepareComputes,
     PreparePublishes, PrepareWritesSpec, PrepareSpecFails, UnprepareReads,
     UnprepareResets, UnprepareResetFails, UnprepareDeletesSpec,
     UnprepareDeleteFails, Save, SaveFails, At, Critical
<1>2. CASE PrepareComputes(k) \/ PreparePublishes(k) \/ PrepareWritesSpec(k)
             \/ UnprepareReads(k) \/ UnprepareDeletesSpec(k)
  <2>1. call \in [Calls -> HandlerCall \cup {NoCall}] /\ call[k] \in HandlerCall
    BY <1>1, ActiveCall DEF TypeOK, DeviceStateTypeOK, Critical
  <2>2. GoesOn(k)
    BY <1>1, <1>2, <2>1 DEF GoesOn, PrepareComputes, PreparePublishes,
       PrepareWritesSpec, UnprepareReads, UnprepareDeletesSpec, Goto, locks,
       Critical, HandlerCall
  <2>. QED
    BY <1>1, <2>2
<1>3. CASE PrepareReadFails(k) \/ PrepareRejects(k) \/ PrepareRestores(k)
             \/ PrepareSpecFails(k) \/ UnprepareDeleteFails(k)
             \/ UnprepareResetFails(k) \/ Save(k) \/ SaveFails(k)
  <2>1. Return(k, "ok") \/ Return(k, "failed")
    BY <1>3 DEF PrepareReadFails, PrepareRejects, PrepareRestores,
       PrepareSpecFails, UnprepareDeleteFails, UnprepareResetFails, Save, SaveFails
  <2>. QED
    BY <1>1, <2>1 DEF Answers
<1>4. CASE UnprepareResets(k)
  BY <1>1, <1>4 DEF UnprepareResets
<1>. QED
  BY <1>2, <1>3, <1>4 DEF Handle, PrepareStep, UnprepareStep, SaveStep

LEMMA LocksGoOn ==
  ASSUME TypeOK, HandlersHoldLocks, NEW k \in Calls, GoesOn(k)
  PROVE  HandlersHoldLocks'
BY DEF HandlersHoldLocks, GoesOn

LEMMA LocksReturn ==
  ASSUME TypeOK, HandlersHoldLocks, NEW k \in Calls, call[k].pc \in Critical,
         NEW answer \in Answers, Return(k, answer)
  PROVE  HandlersHoldLocks'
<1>1. call[k].inst \in Instances /\ call \in [Calls -> HandlerCall \cup {NoCall}]
      /\ mutex \in [Instances -> Calls \cup {None}]
  BY CallType DEF Critical
<1>2. call[k] \in HandlerCall
  BY ActiveCall DEF Critical
<1>3. call'[k].pc = answer
  BY <1>1, <1>2 DEF Return, HandlerCall
<1>4. ASSUME NEW m \in Calls, m # k, call'[m].pc \in {"entered"} \cup Critical
      PROVE  /\ call'[m].pc \in Critical => mutex'[call'[m].inst] = m
             /\ Serialize => helperLock' = m
  <2>1. call'[m] = call[m]
    BY <1>1, <1>4 DEF Return
  <2>2. call[m].inst \in Instances
    BY <2>1, <1>4, CallType DEF Critical
  <2>3. Serialize => helperLock = m /\ helperLock = k
    BY <2>1, <1>4 DEF HandlersHoldLocks
  <2>4. call[m].pc \in Critical => mutex[call[m].inst] = m /\ mutex[call[k].inst] = k
    BY DEF HandlersHoldLocks
  <2>. QED
    BY <1>1, <1>4, <2>1, <2>2, <2>3, <2>4 DEF Return
<1>. QED
  BY <1>3, <1>4 DEF HandlersHoldLocks, Critical, Answers

\* A handler that still runs after process i died is another process's.
LEMMA DieSurvivors ==
  ASSUME TypeOK, NEW i \in Instances, Die(i),
         NEW m \in Calls, call'[m].pc \in {"entered"} \cup Critical
  PROVE  call'[m] = call[m] /\ call[m].inst # i /\ call[m].inst \in Instances
<1>1. call'[m] = Aborted(m, i)
  BY DEF Die
<1>2. call[m].inst # i
  <2>. SUFFICES ASSUME call[m].inst = i PROVE FALSE
    OBVIOUS
  <2>1. CASE call[m].awaited
    <3>1. call[m] \in HandlerCall
      BY <2>1 DEF TypeOK, DeviceStateTypeOK, NoCall
    <3>. QED
      BY <1>1, <2>1, <3>1 DEF Aborted, HandlerCall, Critical
  <2>2. CASE ~call[m].awaited
    BY <1>1, <2>2 DEF Aborted, NoCall, Critical
  <2>. QED
    BY <2>1, <2>2
<1>3. call'[m] = call[m]
  BY <1>1, <1>2 DEF Aborted
<1>. QED
  BY <1>2, <1>3, CallType DEF Critical

LEMMA LocksDie ==
  ASSUME TypeOK, HandlersHoldLocks, NEW i \in Instances, Die(i)
  PROVE  HandlersHoldLocks'
<1>1. ASSUME NEW m \in Calls, call'[m].pc \in {"entered"} \cup Critical
      PROVE  /\ call'[m] = call[m] /\ call[m].inst # i
             /\ mutex'[call[m].inst] = mutex[call[m].inst]
             /\ helperLock = m => helperLock' = m
  <2>1. call'[m] = call[m] /\ call[m].inst # i /\ call[m].inst \in Instances
    BY <1>1, DieSurvivors
  <2>2. mutex \in [Instances -> Calls \cup {None}]
    BY DEF TypeOK, DeviceStateTypeOK
  <2>. QED
    BY <2>1, <2>2 DEF Die
<1>. QED
  BY <1>1 DEF HandlersHoldLocks

LEMMA LocksEnter ==
  ASSUME TypeOK, HandlersHoldLocks, NEW k \in Calls, Enter(k)
  PROVE  HandlersHoldLocks'
<1>1. call[k] \in HandlerCall /\ call \in [Calls -> HandlerCall \cup {NoCall}]
  BY ActiveCall DEF Enter, TypeOK, DeviceStateTypeOK
<1>2. call'[k].pc = "entered" /\ \A m \in Calls \ {k} : call'[m] = call[m]
  BY <1>1 DEF Enter, Goto, HandlerCall
<1>3. "entered" \notin Critical
  BY DEF Critical
<1>. QED
  BY <1>2, <1>3, ConstantsAssumption DEF Enter, HandlersHoldLocks

LEMMA LocksLock ==
  ASSUME TypeOK, HandlersHoldLocks, NEW k \in Calls, Lock(k)
  PROVE  HandlersHoldLocks'
<1>1. /\ call[k] \in HandlerCall /\ call \in [Calls -> HandlerCall \cup {NoCall}]
      /\ mutex \in [Instances -> Calls \cup {None}]
  BY ActiveCall DEF Lock, TypeOK, DeviceStateTypeOK
<1>2. call'[k].inst = call[k].inst /\ \A m \in Calls \ {k} : call'[m] = call[m]
  BY <1>1 DEF Lock, Goto, HandlerCall
<1>3. mutex'[call[k].inst] = k /\ Serialize => helperLock = k
  BY <1>1 DEF Lock, HandlerCall, HandlersHoldLocks
<1>4. ASSUME NEW m \in Calls, m # k, call[m].pc \in Critical
      PROVE  mutex'[call[m].inst] = m
  <2>1. mutex[call[m].inst] = m /\ call[m].inst \in Instances
    BY <1>4, CallType DEF HandlersHoldLocks, Critical
  <2>2. call[m].inst # call[k].inst
    BY <2>1, ConstantsAssumption DEF Lock
  <2>. QED
    BY <1>1, <2>1, <2>2 DEF Lock
<1>5. helperLock' = helperLock /\ mutex'[call[k].inst] = k
      /\ (Serialize => helperLock = k)
  BY <1>1 DEF Lock, HandlerCall, HandlersHoldLocks
<1>. QED
  BY <1>2, <1>4, <1>5 DEF HandlersHoldLocks

\* A step that is not a handler's starts no critical step and ends none but by
\* emptying every slot; it leaves what a running handler holds alone.
Bystander ==
  /\ checkpoint' = checkpoint
  /\ \A k \in Calls : call'[k].pc \in {call[k].pc, "waiting", "free"}
  /\ \A k \in Calls : call'[k].pc \in {"entered"} \cup Critical =>
       /\ call'[k].inst = call[k].inst /\ call'[k].claim = call[k].claim
       /\ call'[k].copy = call[k].copy /\ call'[k].op = call[k].op
       /\ call'[k].alloc = call[k].alloc
       /\ UNCHANGED <<mutex, helperLock, cdi>>

LEMMA KubeletBystander ==
  ASSUME TypeOK, NEW k \in Calls, KubeletStep(k)
  PROVE  Bystander
<1>. call \in [Calls -> HandlerCall \cup {NoCall}]
  BY DEF TypeOK, DeviceStateTypeOK
<1>. {"waiting", "free"} \cap ({"entered"} \cup Critical) = {}
  BY DEF Critical
<1>1. ASSUME NEW i \in Instances, NEW c \in Claims,
             SendPrepare(k, i, c) \/ SendUnprepare(k, i, c)
      PROVE  Bystander
  <2>1. PICK op \in {"Prepare", "Unprepare"}, a \in Allocations \cup {None} :
          Send(k, i, c, op, a)
    BY <1>1 DEF SendPrepare, SendUnprepare, TypeOK
  <2>. QED
    BY <2>1 DEF Send, Bystander, files, locks
<1>2. CASE GiveUp(k)
  <2>1. call[k] \in HandlerCall
    BY <1>2 DEF GiveUp, NoCall
  <2>. QED
    BY <1>2, <2>1 DEF GiveUp, Bystander, files, locks, HandlerCall
<1>3. CASE Answer(k)
  BY <1>3 DEF Answer, Bystander, files, locks, NoCall
<1>. QED
  BY <1>1, <1>2, <1>3 DEF KubeletStep

LEMMA RestartBystander ==
  ASSUME TypeOK, KubeletRestart
  PROVE  Bystander
<1>1. ASSUME NEW m \in Calls
      PROVE  /\ call'[m].pc = call[m].pc /\ call'[m].inst = call[m].inst
             /\ call'[m].claim = call[m].claim /\ call'[m].copy = call[m].copy
             /\ call'[m].op = call[m].op /\ call'[m].alloc = call[m].alloc
  <2>1. CASE ~Active(m)
    BY <2>1 DEF KubeletRestart, Unawaited
  <2>2. CASE Active(m)
    BY <2>2, ActiveCall DEF KubeletRestart, Unawaited, Active, HandlerCall
  <2>. QED
    BY <2>1, <2>2
<1>. QED
  BY <1>1 DEF Bystander, KubeletRestart, files, locks

LEMMA OtherBystander ==
  ASSUME TypeOK,
         \/ \E i \in Instances : Start(i) \/ Shutdown(i)
         \/ \E c \in Claims : Schedule(c) \/ PodGone(c) \/ Rejoin(c)
         \/ Reboot
         \/ UNCHANGED vars
  PROVE  Bystander
<1>1. CASE Reboot
  BY <1>1 DEF Reboot, PowerCycle, Bystander, NoCall, Critical
<1>2. CASE \E i \in Instances : Start(i) \/ Shutdown(i)
  BY <1>2 DEF Start, Shutdown, files, locks, Bystander
<1>3. CASE \E c \in Claims : Schedule(c) \/ PodGone(c) \/ Rejoin(c)
  BY <1>3 DEF Schedule, PodGone, Rejoin, pluginVars, Bystander
<1>4. CASE UNCHANGED vars
  BY <1>4 DEF vars, pluginVars, Bystander
<1>. QED
  BY <1>1, <1>2, <1>3, <1>4

LEMMA LocksBystander ==
  ASSUME HandlersHoldLocks, Bystander
  PROVE  HandlersHoldLocks'
<1>. {"waiting", "free"} \cap ({"entered"} \cup Critical) = {}
  BY DEF Critical
<1>. QED
  BY DEF HandlersHoldLocks, Bystander

\* The steps of the whole system, by what they do to the locks.
LEMMA NextCases ==
  ASSUME TypeOK, [Next]_vars
  PROVE  \/ \E k \in Calls : Enter(k) \/ Lock(k) \/ Handle(k)
         \/ \E i \in Instances : Crash(i)
         \/ Bystander
BY KubeletBystander, RestartBystander, OtherBystander
   DEF Next, PluginStep, DeviceStateNext, ProcessStep

LEMMA LocksNext ==
  TypeOK /\ HandlersHoldLocks /\ [Next]_vars => HandlersHoldLocks'
<1>. SUFFICES ASSUME TypeOK, HandlersHoldLocks, [Next]_vars
              PROVE  HandlersHoldLocks'
  OBVIOUS
<1>1. ASSUME NEW k \in Calls, Enter(k) \/ Lock(k)
      PROVE  HandlersHoldLocks'
  BY <1>1, LocksEnter, LocksLock
<1>2. ASSUME NEW k \in Calls, Handle(k)
      PROVE  HandlersHoldLocks'
  <2>1. call[k].inst \in Instances
    BY <1>2, HandleShape, CallType DEF Critical
  <2>. QED
    BY <1>2, <2>1, HandleShape, LocksGoOn, LocksReturn, LocksDie
<1>3. ASSUME NEW i \in Instances, Crash(i)
      PROVE  HandlersHoldLocks'
  BY <1>3, LocksDie DEF Crash
<1>4. CASE Bystander
  BY <1>4, LocksBystander
<1>. QED
  BY <1>1, <1>2, <1>3, <1>4, NextCases

LEMMA LocksInit == Init => HandlersHoldLocks
BY DEF Init, DeviceStateInit, HandlersHoldLocks, NoCall, Critical

\* One handler at a time on the node, if the helper serializes the processes'
\* calls or there is only one process.
LEMMA LocksExclude ==
  ASSUME TypeOK, Exclusive, HandlersHoldLocks
  PROVE  OneHandler
<1>. SUFFICES ASSUME NEW k \in Calls, NEW m \in Calls,
                     call[k].pc \in Critical, call[m].pc \in Critical
              PROVE  k = m
  BY DEF OneHandler
<1>1. mutex[call[k].inst] = k /\ mutex[call[m].inst] = m
  BY DEF HandlersHoldLocks
<1>2. call[k].inst \in Instances /\ call[m].inst \in Instances
  BY CallType DEF Critical
<1>3. Serialize => helperLock = k /\ helperLock = m
  BY DEF HandlersHoldLocks
<1>. QED
  BY <1>1, <1>2, <1>3 DEF Exclusive

--------------------------------------------------------------------------------
(***************************************************************************)
(* The checkpoint a handler read is still the one on disk when it writes.  *)
(***************************************************************************)

\* Only a slot between "publish" and "save" has a copy to keep current.
LEMMA CopyIdle ==
  ASSUME NEW k \in Calls, call[k].pc \notin Critical
  PROVE  CopyCurrent(k)
BY DEF CopyCurrent, Critical

LEMMA CopyIdleNext ==
  ASSUME NEW k \in Calls, call'[k].pc \notin Critical
  PROVE  CopyCurrent(k)'
BY DEF CopyCurrent, Critical

\* While one handler is in its critical steps no other one has a copy, and
\* none gets one.
LEMMA CopyOthers ==
  ASSUME TypeOK, OneHandler, NEW k \in Calls, call[k].pc \in Critical,
         NEW m \in Calls, m # k,
         \/ GoesOn(k)
         \/ \E answer \in Answers : Return(k, answer)
         \/ Die(call[k].inst)
  PROVE  CopyCurrent(m)'
<1>1. call[m].pc \notin Critical
  BY DEF OneHandler
<1>2. call'[m].pc \notin Critical
  <2>1. CASE GoesOn(k)
    BY <1>1, <2>1 DEF GoesOn
  <2>2. CASE \E answer \in Answers : Return(k, answer)
    BY <1>1, <2>2 DEF Return, TypeOK, DeviceStateTypeOK
  <2>3. CASE Die(call[k].inst)
    BY <1>1, <2>3, DieSurvivors, CallType DEF Critical
  <2>. QED
    BY <2>1, <2>2, <2>3
<1>. QED
  BY <1>2, CopyIdleNext

\* The handler's own copy, step by step.
LEMMA CopyOwn ==
  ASSUME TypeOK, CopiesCurrent, NEW k \in Calls, Handle(k)
  PROVE  CopyCurrent(k)'
<1>a. /\ call[k] \in HandlerCall /\ call \in [Calls -> HandlerCall \cup {NoCall}]
      /\ cdi \in [Claims -> Allocations \cup {None}]
      /\ call[k].claim \in Claims
      /\ call[k].op \in {"Prepare", "Unprepare"}
  BY HandleShape, ActiveCall, CallType DEF Critical
<1>b. CopyCurrent(k)
  BY DEF CopiesCurrent
<1>1. CASE PrepareComputes(k)
  BY <1>1, <1>a DEF PrepareComputes, At, CopyCurrent, files, HandlerCall
<1>2. CASE PreparePublishes(k)
  BY <1>2, <1>a, <1>b DEF PreparePublishes, At, CopyCurrent, files, HandlerCall
<1>3. CASE PrepareWritesSpec(k)
  BY <1>3, <1>a, <1>b DEF PrepareWritesSpec, At, CopyCurrent, Goto, HandlerCall
<1>4. CASE UnprepareReads(k)
  BY <1>4, <1>a DEF UnprepareReads, At, CopyCurrent, files, HandlerCall
<1>5. CASE UnprepareDeletesSpec(k)
  BY <1>5, <1>a, <1>b DEF UnprepareDeletesSpec, At, CopyCurrent, Goto, HandlerCall
<1>6. CASE \E answer \in Answers : Return(k, answer)
  <2>1. call'[k].pc \in Answers
    BY <1>6, <1>a DEF Return, HandlerCall
  <2>. QED
    BY <2>1, CopyIdleNext DEF Answers, Critical
<1>7. CASE UnprepareResets(k)
  <2>1. Die(call[k].inst) /\ call[k].inst \in Instances
    BY <1>7, <1>a DEF UnprepareResets, HandlerCall
  <2>2. call'[k].pc \notin Critical
    BY <2>1, DieSurvivors
  <2>. QED
    BY <2>2, CopyIdleNext
<1>. QED
  <2>1. \/ PrepareComputes(k) \/ PreparePublishes(k) \/ PrepareWritesSpec(k)
        \/ UnprepareReads(k) \/ UnprepareDeletesSpec(k) \/ UnprepareResets(k)
        \/ Return(k, "ok") \/ Return(k, "failed")
    BY DEF Handle, PrepareStep, UnprepareStep, SaveStep, PrepareReadFails,
       PrepareRejects, PrepareRestores, PrepareSpecFails, UnprepareResetFails,
       UnprepareDeleteFails, Save, SaveFails
  <2>. QED
    BY <1>1, <1>2, <1>3, <1>4, <1>5, <1>6, <1>7, <2>1 DEF Answers

LEMMA CopiesBystander ==
  ASSUME CopiesCurrent, Bystander
  PROVE  CopiesCurrent'
<1>. SUFFICES ASSUME NEW m \in Calls PROVE CopyCurrent(m)'
  BY DEF CopiesCurrent
<1>1. CASE call'[m].pc \in Critical
  <2>1. call'[m].pc = call[m].pc
    BY <1>1 DEF Bystander, Critical
  <2>. QED
    BY <1>1, <2>1 DEF Bystander, CopiesCurrent, CopyCurrent
<1>. QED
  BY <1>1, CopyIdleNext

LEMMA CopiesEnterLock ==
  ASSUME TypeOK, CopiesCurrent, NEW k \in Calls, Enter(k) \/ Lock(k)
  PROVE  CopiesCurrent'
<1>. SUFFICES ASSUME NEW m \in Calls PROVE CopyCurrent(m)'
  BY DEF CopiesCurrent
<1>1. CASE m = k
  <2>1. call[k] \in HandlerCall /\ call \in [Calls -> HandlerCall \cup {NoCall}]
    BY ActiveCall DEF Enter, Lock, TypeOK, DeviceStateTypeOK
  <2>2. call'[k].pc \in {"entered", "locked"}
    BY <2>1 DEF Enter, Lock, Goto, HandlerCall
  <2>. QED
    BY <1>1, <2>2 DEF CopyCurrent
<1>2. CASE m # k
  <2>1. call'[m] = call[m] /\ UNCHANGED <<checkpoint, cdi>>
    BY <1>2 DEF Enter, Lock, Goto, files, TypeOK, DeviceStateTypeOK
  <2>. QED
    BY <2>1 DEF CopiesCurrent, CopyCurrent
<1>. QED
  BY <1>1, <1>2

LEMMA CopiesCrash ==
  ASSUME TypeOK, CopiesCurrent, NEW i \in Instances, Crash(i)
  PROVE  CopiesCurrent'
<1>. SUFFICES ASSUME NEW m \in Calls PROVE CopyCurrent(m)'
  BY DEF CopiesCurrent
<1>1. CASE call'[m].pc \in Critical
  <2>1. call'[m] = call[m] /\ UNCHANGED <<checkpoint, cdi>>
    BY <1>1, DieSurvivors DEF Crash, files
  <2>. QED
    BY <2>1 DEF CopiesCurrent, CopyCurrent
<1>. QED
  BY <1>1, CopyIdleNext

LEMMA CopiesNext ==
  ASSUME TypeOK, OneHandler, CopiesCurrent, [Next]_vars
  PROVE  CopiesCurrent'
<1>1. ASSUME NEW k \in Calls, Handle(k)
      PROVE  CopiesCurrent'
  <2>. SUFFICES ASSUME NEW m \in Calls PROVE CopyCurrent(m)'
    BY DEF CopiesCurrent
  <2>1. CASE m = k
    BY <1>1, <2>1, CopyOwn
  <2>2. CASE m # k
    BY <1>1, <2>2, HandleShape, CopyOthers
  <2>. QED
    BY <2>1, <2>2
<1>. QED
  BY <1>1, CopiesEnterLock, CopiesCrash, CopiesBystander, NextCases

\* Type, locks and copies together are inductive.  This is what the locks are
\* for, and it needs nothing of the kubelet, the machine or the disk.
THEOREM LocksSuffice == ASSUME Exclusive PROVE Spec => []LockInv
<1>1. Init => LockInv
  <2>1. Init => CopiesCurrent
    BY CopyIdle DEF Init, DeviceStateInit, NoCall, Critical, CopiesCurrent
  <2>. QED
    BY <2>1, TypeInit, LocksInit DEF LockInv
<1>2. LockInv /\ [Next]_vars => LockInv'
  BY TypeNext, LocksNext, LocksExclude, CopiesNext DEF LockInv
<1>. QED
  BY <1>1, <1>2, PTL DEF Spec

\* At most one handler of the node is in its critical steps.
THEOREM OneHandlerAtATime == ASSUME Exclusive PROVE Spec => []OneHandler
<1>1. LockInv => OneHandler
  BY LocksExclude DEF LockInv
<1>. QED
  BY <1>1, LocksSuffice, PTL

--------------------------------------------------------------------------------
(***************************************************************************)
(* What a step may do to the files, whatever the environment does.         *)
(***************************************************************************)

\* Writing a current copy changes the entry of the handler's claim only.
LEMMA SaveOwnEntry ==
  ASSUME TypeOK, CopiesCurrent, NEW k \in Calls, Save(k) \/ SaveFails(k),
         NEW c \in Claims, (c \in checkpoint) # (c \in checkpoint')
  PROVE  call[k].pc = "save" /\ call[k].claim = c
<1>1. call[k].pc = "save" /\ checkpoint' \in {checkpoint, call[k].copy}
  BY DEF Save, SaveFails, WriteCheckpoint
<1>2. call[k].copy \in {checkpoint \cup {call[k].claim}, checkpoint \ {call[k].claim}}
  BY <1>1 DEF CopiesCurrent, CopyCurrent
<1>. QED
  BY <1>1, <1>2

\* All the other steps of a handler, but the reset, leave the checkpoint alone.
LEMMA HandleCheckpoint ==
  ASSUME TypeOK, CopiesCurrent, NEW k \in Calls, Handle(k)
  PROVE  \/ checkpoint' = checkpoint
         \/ ReadFaults /\ checkpoint' = {} /\ At(k, "Unprepare", "locked")
         \/ Save(k) \/ SaveFails(k)
BY DEF Handle, PrepareStep, UnprepareStep, SaveStep,
   PrepareReadFails, PrepareRejects, PrepareRestores, PrepareComputes,
   PreparePublishes, PrepareWritesSpec, PrepareSpecFails, UnprepareReads,
   UnprepareResets, UnprepareResetFails, UnprepareDeletesSpec,
   UnprepareDeleteFails, WriteCheckpoint, files

LEMMA CheckpointStep ==
  ASSUME LockInv, [Next]_vars, checkpoint' # checkpoint
  PROVE  \/ \E k \in Calls : Save(k) \/ SaveFails(k)
         \/ /\ ReadFaults /\ checkpoint' = {}
            /\ \E k \in Calls : At(k, "Unprepare", "locked")
<1>1. ~Bystander /\ \A i \in Instances : ~Crash(i)
  BY DEF Bystander, Crash, files
<1>2. \A k \in Calls : ~Enter(k) /\ ~Lock(k)
  BY DEF Enter, Lock, files
<1>. QED
  BY <1>1, <1>2, NextCases, HandleCheckpoint DEF LockInv

\* No update of the checkpoint is lost: entries come and go by their own claim's
\* handler, or all at once by the reset of an unreadable file.
THEOREM NoLostUpdate == ASSUME Exclusive PROVE Spec => OwnEntryOrReset
<1>1. LockInv /\ [Next]_vars =>
        [\/ \A c \in Claims : (c \in checkpoint) # (c \in checkpoint') =>
              \E k \in Calls : call[k].pc = "save" /\ call[k].claim = c
         \/ checkpoint' = {} /\ \E k \in Calls : At(k, "Unprepare", "locked")]_vars
  BY CheckpointStep, SaveOwnEntry DEF LockInv
<1>. QED
  BY <1>1, LocksSuffice, PTL DEF Spec, OwnEntryOrReset

\* Where the checkpoint can always be read, there is no reset.
THEOREM NoLostUpdateNoReset ==
  ASSUME Exclusive, ~ReadFaults PROVE Spec => OnlyOwnEntry
<1>1. LockInv /\ [Next]_vars =>
        [\A c \in Claims : (c \in checkpoint) # (c \in checkpoint') =>
            \E k \in Calls : call[k].pc = "save" /\ call[k].claim = c]_vars
  BY CheckpointStep, SaveOwnEntry DEF LockInv
<1>. QED
  BY <1>1, LocksSuffice, PTL DEF Spec, OnlyOwnEntry

\* A handler in its critical steps comes to say "ok" by a step of its own only.
LEMMA OkIsHandle ==
  ASSUME LockInv, Exclusive, [Next]_vars,
         NEW k \in Calls, call[k].pc \in Critical, call'[k].pc = "ok"
  PROVE  Handle(k)
<1>. TypeOK /\ OneHandler
  BY LocksExclude DEF LockInv
<1>a. /\ call[k] \in HandlerCall /\ call \in [Calls -> HandlerCall \cup {NoCall}]
      /\ call[k].pc # "ok"
  BY ActiveCall DEF TypeOK, DeviceStateTypeOK, Critical
<1>1. ASSUME NEW m \in Calls, Handle(m)
      PROVE  Handle(k)
  BY <1>1, HandleShape DEF OneHandler
<1>2. \A m \in Calls : ~Enter(m) /\ ~Lock(m)
  BY <1>a DEF Enter, Lock, Goto, HandlerCall
<1>3. ASSUME NEW i \in Instances
      PROVE  ~Crash(i)
  <2>1. Aborted(k, i).pc \in {call[k].pc, "failed", "free"}
    BY <1>a DEF Aborted, HandlerCall, NoCall
  <2>2. Crash(i) => call'[k] = Aborted(k, i)
    BY DEF Crash, Die
  <2>. QED
    BY <2>1, <2>2, <1>a
<1>4. ~Bystander
  BY <1>a DEF Bystander
<1>. QED
  BY <1>1, <1>2, <1>3, <1>4, NextCases

\* It then writes its copy or restores the claim from the checkpoint.
LEMMA OkSteps ==
  ASSUME TypeOK, NEW k \in Calls, Handle(k), call'[k].pc = "ok"
  PROVE  Save(k) \/ PrepareRestores(k)
<1>. /\ call[k] \in HandlerCall /\ call \in [Calls -> HandlerCall \cup {NoCall}]
     /\ call[k].pc # "ok"
  BY HandleShape, ActiveCall DEF TypeOK, DeviceStateTypeOK, Critical
<1>1. ~Return(k, "failed")
  BY DEF Return, HandlerCall
<1>2. \A pc \in {"publish", "cdi", "remove", "save"} : call'[k].pc # pc
  OBVIOUS
<1>3. ~UnprepareResets(k)
  <2>1. Aborted(k, call[k].inst).pc \in {"failed", "free"}
    BY DEF Aborted, HandlerCall, NoCall
  <2>. QED
    BY <2>1 DEF UnprepareResets, Die
<1>4. /\ ~PrepareComputes(k) /\ ~PreparePublishes(k) /\ ~PrepareWritesSpec(k)
      /\ ~UnprepareReads(k) /\ ~UnprepareDeletesSpec(k)
  BY <1>2 DEF PrepareComputes, PreparePublishes, PrepareWritesSpec, UnprepareReads,
     UnprepareDeletesSpec, Goto, HandlerCall
<1>5. /\ ~PrepareReadFails(k) /\ ~PrepareRejects(k) /\ ~PrepareSpecFails(k)
      /\ ~UnprepareResetFails(k) /\ ~UnprepareDeleteFails(k) /\ ~SaveFails(k)
  BY <1>1 DEF PrepareReadFails, PrepareRejects, PrepareSpecFails, UnprepareResetFails,
     UnprepareDeleteFails, SaveFails
<1>. QED
  BY <1>3, <1>4, <1>5 DEF Handle, PrepareStep, UnprepareStep, SaveStep

LEMMA OkIsSave ==
  ASSUME LockInv, Exclusive, [Next]_vars,
         NEW k \in Calls, call[k].pc = "save", call'[k].pc = "ok"
  PROVE  Save(k)
BY OkIsHandle, OkSteps DEF LockInv, Critical, PrepareRestores, At

\* When a handler has done its work, both files say so.
THEOREM AnswersBacked == ASSUME Exclusive PROVE Spec => AnswersAreBacked
<1>1. LockInv /\ [Next]_vars =>
        [\A k \in Calls : call[k].pc = "save" /\ call'[k].pc = "ok" =>
           LET c == call[k].claim IN
           IF call[k].op = "Prepare"
             THEN c \in checkpoint' /\ cdi'[c] = call[k].alloc
             ELSE c \notin checkpoint' /\ cdi'[c] = None]_vars
  <2>. SUFFICES ASSUME LockInv, [Next]_vars,
                       NEW k \in Calls, call[k].pc = "save", call'[k].pc = "ok"
                PROVE  LET c == call[k].claim IN
                       IF call[k].op = "Prepare"
                         THEN c \in checkpoint' /\ cdi'[c] = call[k].alloc
                         ELSE c \notin checkpoint' /\ cdi'[c] = None
    BY Zenon
  <2>1. CopyCurrent(k) /\ Save(k)
    BY OkIsSave DEF LockInv, CopiesCurrent
  <2>. QED
    BY <2>1 DEF CopyCurrent, Save, WriteCheckpoint
<1>. QED
  BY <1>1, LocksSuffice, PTL DEF Spec, AnswersAreBacked

--------------------------------------------------------------------------------
(***************************************************************************)
(* The claims, with a patient kubelet.  First what a handler does to the   *)
(* two files: nothing to other claims, to its own only what its call says. *)
(***************************************************************************)

\* Claim c keeps its spec file and its place in the checkpoint, but for a reset.
Untouched(c) ==
  /\ cdi'[c] = cdi[c]
  /\ c \in checkpoint' => c \in checkpoint
  /\ c \in checkpoint => c \in checkpoint' \/ ReadFaults

LEMMA HandleOthers ==
  ASSUME LockInv, NEW k \in Calls, Handle(k), NEW c \in Claims, c # call[k].claim
  PROVE  Untouched(c)
<1>. TypeOK /\ CopiesCurrent
  BY DEF LockInv
<1>1. cdi'[c] = cdi[c]
  BY DEF Handle, PrepareStep, UnprepareStep, SaveStep,
     PrepareReadFails, PrepareRejects, PrepareRestores, PrepareComputes,
     PreparePublishes, PrepareWritesSpec, PrepareSpecFails, UnprepareReads,
     UnprepareResets, UnprepareResetFails, UnprepareDeletesSpec,
     UnprepareDeleteFails, Save, SaveFails, files, TypeOK, DeviceStateTypeOK
<1>2. (c \in checkpoint) = (c \in checkpoint') \/ (ReadFaults /\ checkpoint' = {})
  BY HandleCheckpoint, SaveOwnEntry
<1>. QED
  BY <1>1, <1>2 DEF Untouched

LEMMA PrepareOwn ==
  ASSUME LockInv, NEW k \in Calls, Handle(k), call[k].op = "Prepare",
         NEW c \in Claims, c = call[k].claim
  PROVE  /\ cdi'[c] \in {cdi[c], call[k].alloc}
         /\ c \in checkpoint => c \in checkpoint' /\ cdi'[c] = cdi[c]
         /\ c \in checkpoint' \ checkpoint => cdi'[c] = call[k].alloc
         /\ call'[k].pc = "ok" => c \in checkpoint'
<1>. /\ CopyCurrent(k) /\ TypeOK
     /\ call[k] \in HandlerCall /\ call \in [Calls -> HandlerCall \cup {NoCall}]
     /\ cdi \in [Claims -> Allocations \cup {None}]
  BY HandleShape, ActiveCall DEF LockInv, CopiesCurrent, TypeOK, DeviceStateTypeOK, Critical
<1>1. CASE Save(k)
  BY <1>1 DEF Save, WriteCheckpoint, CopyCurrent
<1>2. CASE SaveFails(k)
  BY <1>2 DEF SaveFails, WriteCheckpoint, CopyCurrent, Return, HandlerCall
<1>3. CASE PrepareRestores(k)
  BY <1>3 DEF PrepareRestores, files
<1>4. CASE PrepareWritesSpec(k)
  BY <1>4 DEF PrepareWritesSpec, Goto, HandlerCall, CopyCurrent, At
<1>5. CASE PrepareReadFails(k) \/ PrepareRejects(k) \/ PrepareSpecFails(k)
  BY <1>5 DEF PrepareReadFails, PrepareRejects, PrepareSpecFails, Return, HandlerCall, files
<1>6. CASE PrepareComputes(k) \/ PreparePublishes(k)
  BY <1>6 DEF PrepareComputes, PreparePublishes, HandlerCall, files
<1>. QED
  BY <1>1, <1>2, <1>3, <1>4, <1>5, <1>6 DEF Handle, PrepareStep, SaveStep,
     UnprepareStep, UnprepareReads, UnprepareResets, UnprepareResetFails,
     UnprepareDeletesSpec, UnprepareDeleteFails, At

LEMMA UnprepareOwn ==
  ASSUME LockInv, NEW k \in Calls, Handle(k), call[k].op = "Unprepare",
         NEW c \in Claims, c = call[k].claim
  PROVE  /\ cdi'[c] \in {cdi[c], None}
         /\ call'[k].pc = "ok" => c \notin checkpoint' /\ cdi'[c] = None
<1>. /\ CopyCurrent(k) /\ TypeOK
     /\ cdi \in [Claims -> Allocations \cup {None}]
  BY HandleShape, CallType DEF LockInv, CopiesCurrent, Critical
<1>1. cdi'[c] \in {cdi[c], None}
  BY DEF Handle, PrepareStep, SaveStep, UnprepareStep,
     PrepareReadFails, PrepareRejects, PrepareRestores, PrepareComputes,
     PreparePublishes, PrepareWritesSpec, PrepareSpecFails, At, files,
     UnprepareReads, UnprepareResets, UnprepareResetFails, UnprepareDeletesSpec,
     UnprepareDeleteFails, Save, SaveFails
<1>2. ASSUME call'[k].pc = "ok"
      PROVE  c \notin checkpoint' /\ cdi'[c] = None
  <2>1. Save(k)
    BY <1>2, OkSteps DEF PrepareRestores, At
  <2>. QED
    BY <2>1 DEF Save, WriteCheckpoint, CopyCurrent
<1>. QED
  BY <1>1, <1>2

\* The plugin starts no call and changes none's subject, and only the handler
\* of a slot says "ok".
Keeps ==
  /\ common => common'
  /\ \A m \in Calls : call'[m].pc # "free" =>
       /\ call[m].pc # "free" /\ call'[m].awaited = call[m].awaited
       /\ call'[m].op = call[m].op /\ call'[m].claim = call[m].claim
       /\ call'[m].alloc = call[m].alloc

LEMMA DieKeeps ==
  ASSUME TypeOK, NEW i \in Instances, Die(i), NEW m \in Calls, call'[m].pc # "free"
  PROVE  /\ call[m].pc # "free" /\ call'[m].awaited = call[m].awaited
         /\ call'[m].op = call[m].op /\ call'[m].claim = call[m].claim
         /\ call'[m].alloc = call[m].alloc
         /\ call'[m].pc = "ok" => call[m].pc = "ok"
<1>1. call'[m] = Aborted(m, i) /\ call[m] \in HandlerCall \cup {NoCall}
  BY DEF Die, TypeOK, DeviceStateTypeOK
<1>2. CASE call[m] = NoCall
  <2>1. call'[m] = NoCall
    BY <1>1, <1>2 DEF Aborted, NoCall
  <2>. QED
    BY <2>1 DEF NoCall
<1>3. CASE call[m] \in HandlerCall
  <2>1. call[m].pc # "free"
    BY <1>3 DEF HandlerCall, Steps, Critical, Answers
  <2>2. CASE call[m].inst # i
    BY <1>1, <2>1, <2>2 DEF Aborted
  <2>3. CASE call[m].inst = i /\ call[m].awaited
    BY <1>1, <1>3, <2>1, <2>3 DEF Aborted, HandlerCall
  <2>4. CASE call[m].inst = i /\ ~call[m].awaited
    BY <1>1, <2>4 DEF Aborted, NoCall
  <2>. QED
    BY <2>2, <2>3, <2>4
<1>. QED
  BY <1>1, <1>2, <1>3

LEMMA HandleKeeps ==
  ASSUME TypeOK, NEW k \in Calls, Handle(k)
  PROVE  /\ Keeps
         /\ \A m \in Calls \ {k} : call'[m].pc = "ok" => call[m].pc = "ok"
<1>. /\ call[k] \in HandlerCall /\ call \in [Calls -> HandlerCall \cup {NoCall}]
     /\ call[k].inst \in Instances
  BY HandleShape, CallType, ActiveCall DEF Critical
<1>a. common' = common
  BY DEF Handle, PrepareStep, UnprepareStep, SaveStep,
     PrepareReadFails, PrepareRejects, PrepareRestores, PrepareComputes,
     PreparePublishes, PrepareWritesSpec, PrepareSpecFails, UnprepareReads,
     UnprepareResets, UnprepareResetFails, UnprepareDeletesSpec,
     UnprepareDeleteFails, Save, SaveFails, files
<1>b. call[k].pc # "free"
  BY HandleShape DEF Critical
<1>1. CASE \E answer \in Answers : Return(k, answer)
  BY <1>1, <1>a, <1>b DEF Return, Keeps, HandlerCall
<1>2. CASE UnprepareResets(k)
  BY <1>2, <1>a, DieKeeps DEF UnprepareResets, Keeps
<1>3. CASE PrepareComputes(k) \/ PreparePublishes(k) \/ PrepareWritesSpec(k)
             \/ UnprepareReads(k) \/ UnprepareDeletesSpec(k)
  BY <1>3, <1>a, <1>b DEF PrepareComputes, PreparePublishes, PrepareWritesSpec,
     UnprepareReads, UnprepareDeletesSpec, Goto, Keeps, HandlerCall
<1>. QED
  <2>1. Return(k, "ok") \/ Return(k, "failed") \/ UnprepareResets(k)
        \/ PrepareComputes(k) \/ PreparePublishes(k) \/ PrepareWritesSpec(k)
        \/ UnprepareReads(k) \/ UnprepareDeletesSpec(k)
    BY DEF Handle, PrepareStep, UnprepareStep, SaveStep, PrepareReadFails,
       PrepareRejects, PrepareRestores, PrepareSpecFails, UnprepareResetFails,
       UnprepareDeleteFails, Save, SaveFails
  <2>. QED
    BY <1>1, <1>2, <1>3, <2>1 DEF Answers

\* Every other step of the plugin: nobody gets an answer, no file changes.
LEMMA PluginKeeps ==
  ASSUME TypeOK,
         \/ \E k \in Calls : Enter(k) \/ Lock(k)
         \/ \E i \in Instances : ProcessStep(i)
  PROVE  /\ Keeps /\ checkpoint' = checkpoint /\ cdi' = cdi
         /\ \A m \in Calls : call'[m].pc = "ok" => call[m].pc = "ok"
<1>. call \in [Calls -> HandlerCall \cup {NoCall}]
  BY DEF TypeOK, DeviceStateTypeOK
<1>1. ASSUME NEW k \in Calls, Enter(k) \/ Lock(k)
      PROVE  /\ Keeps /\ checkpoint' = checkpoint /\ cdi' = cdi
             /\ \A m \in Calls : call'[m].pc = "ok" => call[m].pc = "ok"
  <2>1. call[k] \in HandlerCall /\ call[k].pc # "free"
    BY <1>1, ActiveCall DEF Enter, Lock
  <2>. QED
    BY <1>1, <2>1 DEF Enter, Lock, Goto, Keeps, files, HandlerCall
<1>2. ASSUME NEW i \in Instances, Start(i) \/ Shutdown(i)
      PROVE  /\ Keeps /\ checkpoint' = checkpoint /\ cdi' = cdi
             /\ \A m \in Calls : call'[m].pc = "ok" => call[m].pc = "ok"
  BY <1>2 DEF Start, WriteCommonSpec, Shutdown, files, Keeps
<1>3. ASSUME NEW i \in Instances, Crash(i)
      PROVE  /\ Keeps /\ checkpoint' = checkpoint /\ cdi' = cdi
             /\ \A m \in Calls : call'[m].pc = "ok" => call[m].pc = "ok"
  BY <1>3, DieKeeps DEF Crash, files, Keeps
<1>. QED
  BY <1>1, <1>2, <1>3 DEF ProcessStep

LEMMA WishesKept ==
  ASSUME CallsMatchWishes, Keeps, UNCHANGED <<kube, alloc>>
  PROVE  CallsMatchWishes'
BY DEF CallsMatchWishes, Keeps, Active

\* A call that says "ok" is about a claim, and said so before or is k's.
LEMMA OkCalls ==
  ASSUME TypeOK, Keeps, NEW m \in Calls, call'[m].pc = "ok"
  PROVE  /\ call'[m].op = call[m].op /\ call'[m].claim = call[m].claim
         /\ Active(m) /\ call[m].claim \in Claims
         /\ call[m].op \in {"Prepare", "Unprepare"}
BY CallType DEF Keeps, Active

\* A handler step preserves the agreement of a patient kubelet and the checkpoint.
LEMMA PatientHandle ==
  ASSUME LockInv, PatientInv, NEW k \in Calls, Handle(k), UNCHANGED <<kube, alloc>>
  PROVE  PatientInv'
<1>. DEFINE c == call[k].claim
<1>a. /\ TypeOK /\ CallsMatchWishes /\ OksAreRecorded /\ WishesAreRecorded /\ SpecNeverStale
      /\ c \in Claims /\ Active(k)
      /\ call[k].op \in {"Prepare", "Unprepare"}
  BY HandleShape, CallType DEF LockInv, PatientInv, Critical, Active
<1>b. Keeps /\ \A m \in Calls \ {k} : call'[m].pc = "ok" => call[m].pc = "ok"
  BY <1>a, HandleKeeps
<1>1. CallsMatchWishes'
  BY <1>a, <1>b, WishesKept
<1>2. \A d \in Claims \ {c} : Untouched(d)
  BY HandleOthers
<1>3. CASE call[k].op = "Prepare"
  <2>1. /\ cdi'[c] \in {cdi[c], alloc[c]} /\ kube[c] \in {"want", "prepared"}
        /\ c \in checkpoint => c \in checkpoint'
        /\ call'[k].pc = "ok" => c \in checkpoint'
    BY <1>3, <1>a, PrepareOwn DEF CallsMatchWishes
  <2>2. WishesAreRecorded' /\ SpecNeverStale'
    BY <2>1, <1>2, <1>a DEF WishesAreRecorded, SpecNeverStale, Untouched
  <2>3. OksAreRecorded'
    <3>. SUFFICES ASSUME NEW m \in Calls, call'[m].pc = "ok"
                  PROVE  LET d == call'[m].claim IN
                         IF call'[m].op = "Prepare" THEN ReadFaults \/ d \in checkpoint'
                         ELSE cdi'[d] = None /\ d \notin checkpoint'
      BY DEF OksAreRecorded
    <3>1. /\ call'[m].op = call[m].op /\ call'[m].claim = call[m].claim
          /\ Active(m) /\ call[m].claim \in Claims
          /\ call[m].op \in {"Prepare", "Unprepare"}
      BY <1>a, <1>b, OkCalls
    <3>2. CASE m = k
      BY <3>1, <3>2, <2>1, <1>3
    <3>3. CASE m # k /\ call[m].claim = c
      <4>1. call[m].op = "Prepare" /\ call[m].pc = "ok"
        BY <3>1, <3>3, <1>a, <1>b, <2>1 DEF CallsMatchWishes
      <4>2. ReadFaults \/ c \in checkpoint
        BY <4>1, <3>3, <1>a DEF OksAreRecorded
      <4>. QED
        BY <4>1, <4>2, <3>1, <3>3, <2>1
    <3>4. CASE m # k /\ call[m].claim # c
      <4>1. call[m].pc = "ok" /\ Untouched(call[m].claim)
        BY <3>1, <3>4, <1>b, <1>2
      <4>. QED
        BY <4>1, <3>1, <1>a DEF OksAreRecorded, Untouched
    <3>. QED
      BY <3>2, <3>3, <3>4
  <2>. QED
    BY <1>1, <2>2, <2>3 DEF PatientInv
<1>4. CASE call[k].op = "Unprepare"
  <2>1. /\ kube[c] = "release" /\ \A m \in Calls : Active(m) /\ call[m].claim = c => m = k
        /\ call'[k].pc = "ok" => c \notin checkpoint' /\ cdi'[c] = None
        /\ cdi'[c] \in {cdi[c], None}
    BY <1>4, <1>a, UnprepareOwn DEF CallsMatchWishes
  <2>2. WishesAreRecorded' /\ SpecNeverStale'
    BY <2>1, <1>2, <1>a DEF WishesAreRecorded, SpecNeverStale, Untouched
  <2>3. OksAreRecorded'
    <3>. SUFFICES ASSUME NEW m \in Calls, call'[m].pc = "ok"
                  PROVE  LET d == call'[m].claim IN
                         IF call'[m].op = "Prepare" THEN ReadFaults \/ d \in checkpoint'
                         ELSE cdi'[d] = None /\ d \notin checkpoint'
      BY DEF OksAreRecorded
    <3>1. /\ call'[m].op = call[m].op /\ call'[m].claim = call[m].claim
          /\ Active(m) /\ call[m].claim \in Claims
      BY <1>a, <1>b, OkCalls
    <3>2. CASE m = k
      BY <3>1, <3>2, <2>1, <1>4
    <3>3. CASE m # k
      <4>1. call[m].pc = "ok" /\ call[m].claim # c
        BY <3>1, <3>3, <1>b, <2>1
      <4>2. Untouched(call[m].claim)
        BY <4>1, <3>1, <1>2
      <4>. QED
        BY <4>1, <4>2, <3>1, <1>a DEF OksAreRecorded, Untouched
    <3>. QED
      BY <3>2, <3>3
  <2>. QED
    BY <1>1, <2>2, <2>3 DEF PatientInv
<1>. QED
  BY <1>3, <1>4, <1>a

\* What a step of the plugin's processes leaves alone is enough.
LEMMA PatientPlugin ==
  ASSUME LockInv, PatientInv, PluginStep
  PROVE  PatientInv'
<1>a. TypeOK /\ UNCHANGED <<kube, alloc>>
  BY DEF LockInv, PluginStep
<1>1. ASSUME NEW k \in Calls, Handle(k)
      PROVE  PatientInv'
  BY <1>a, <1>1, PatientHandle
<1>2. ASSUME \/ \E k \in Calls : Enter(k) \/ Lock(k)
             \/ \E i \in Instances : ProcessStep(i)
      PROVE  PatientInv'
  <2>1. /\ Keeps /\ checkpoint' = checkpoint /\ cdi' = cdi
        /\ \A m \in Calls : call'[m].pc = "ok" => call[m].pc = "ok"
    BY <1>a, <1>2, PluginKeeps
  <2>2. CallsMatchWishes'
    BY <1>a, <2>1, WishesKept DEF PatientInv
  <2>3. OksAreRecorded'
    BY <1>a, <2>1 DEF OksAreRecorded, Keeps, PatientInv
  <2>4. WishesAreRecorded' /\ SpecNeverStale'
    BY <1>a, <2>1 DEF WishesAreRecorded, SpecNeverStale, PatientInv
  <2>. QED
    BY <2>2, <2>3, <2>4 DEF PatientInv
<1>. QED
  BY <1>1, <1>2 DEF PluginStep, DeviceStateNext

\* What a call that is sent changes.
LEMMA SendShape ==
  ASSUME TypeOK, NEW k \in Calls, NEW i \in Instances, NEW c \in Claims,
         SendPrepare(k, i, c) \/ SendUnprepare(k, i, c)
  PROVE  \E op \in {"Prepare", "Unprepare"}, a \in Allocations \cup {None} :
           /\ op = "Prepare" => kube[c] = "want" /\ a = alloc[c]
           /\ op = "Unprepare" => kube[c] = "release" /\ ~Undecided(c)
           /\ call'[k] = [pc |-> "waiting", op |-> op, claim |-> c, alloc |-> a,
                          inst |-> i, copy |-> {}, awaited |-> TRUE]
           /\ \A m \in Calls \ {k} : call'[m] = call[m]
           /\ UNCHANGED <<checkpoint, cdi, common, alloc, kube, up>> /\ up[i]
           /\ ~Active(k)
<1>1. PICK op \in {"Prepare", "Unprepare"}, a \in Allocations \cup {None} :
        /\ Send(k, i, c, op, a)
        /\ op = "Prepare" => kube[c] = "want" /\ a = alloc[c]
        /\ op = "Unprepare" => kube[c] = "release" /\ ~Undecided(c)
  BY DEF SendPrepare, SendUnprepare, TypeOK
<1>2. /\ call'[k] = [pc |-> "waiting", op |-> op, claim |-> c, alloc |-> a,
                     inst |-> i, copy |-> {}, awaited |-> TRUE]
      /\ \A m \in Calls \ {k} : call'[m] = call[m]
      /\ UNCHANGED <<checkpoint, cdi, common, alloc, kube, up>> /\ up[i]
      /\ ~Active(k)
  BY <1>1 DEF Send, files, TypeOK, DeviceStateTypeOK
<1>. QED
  BY <1>1, <1>2

\* The kubelet's steps.
LEMMA PatientSend ==
  ASSUME LockInv, PatientInv, NEW k \in Calls, NEW i \in Instances, NEW c \in Claims,
         SendPrepare(k, i, c) \/ SendUnprepare(k, i, c)
  PROVE  PatientInv'
<1>a. TypeOK /\ CallsMatchWishes /\ OksAreRecorded /\ WishesAreRecorded /\ SpecNeverStale
  BY DEF LockInv, PatientInv
<1>b. PICK op \in {"Prepare", "Unprepare"}, a \in Allocations \cup {None} :
        /\ op = "Prepare" => kube[c] = "want" /\ a = alloc[c]
        /\ op = "Unprepare" => kube[c] = "release" /\ ~Undecided(c)
        /\ call'[k] = [pc |-> "waiting", op |-> op, claim |-> c, alloc |-> a,
                       inst |-> i, copy |-> {}, awaited |-> TRUE]
        /\ \A m \in Calls \ {k} : call'[m] = call[m]
        /\ UNCHANGED <<checkpoint, cdi, common, alloc, kube, up>> /\ up[i]
        /\ ~Active(k)
  BY <1>a, SendShape
<1>1. WishesAreRecorded' /\ SpecNeverStale'
  BY <1>a, <1>b DEF WishesAreRecorded, SpecNeverStale
<1>2. OksAreRecorded'
  BY <1>a, <1>b DEF OksAreRecorded
<1>3. CallsMatchWishes'
  <2>. SUFFICES ASSUME NEW m \in Calls, call'[m].pc # "free"
                PROVE  /\ call'[m].awaited
                       /\ call'[m].op = "Prepare" =>
                            /\ kube[call'[m].claim] \in {"want", "prepared"}
                            /\ call'[m].alloc = alloc[call'[m].claim]
                       /\ call'[m].op = "Unprepare" =>
                            /\ kube[call'[m].claim] = "release"
                            /\ \A n \in Calls : call'[n].pc # "free"
                                 /\ call'[n].claim = call'[m].claim => n = m
    BY <1>b DEF CallsMatchWishes, Active
  <2>1. CASE m = k
    <3>1. op = "Unprepare" =>
            \A n \in Calls \ {k} : call[n].pc # "free" => call[n].claim # c
      BY <1>a, <1>b DEF Undecided, Awaiting, CallsMatchWishes, Active
    <3>. QED
      BY <2>1, <3>1, <1>b
  <2>2. CASE m # k
    <3>1. call'[m] = call[m] /\ Active(m)
      BY <2>2, <1>b DEF Active
    <3>2. call[m].op = "Unprepare" => call[m].claim # c
      BY <3>1, <1>a, <1>b DEF CallsMatchWishes, Undecided, Awaiting
    <3>3. \A n \in Calls : call'[n].pc # "free" /\ call'[n].claim # c =>
            Active(n) /\ call[n].claim = call'[n].claim
      BY <1>b DEF Active
    <3>. QED
      BY <3>1, <3>2, <3>3, <1>a, <1>b DEF CallsMatchWishes
  <2>. QED
    BY <2>1, <2>2
<1>. QED
  BY <1>1, <1>2, <1>3 DEF PatientInv

\* What the answer to a call changes, as the kubelet awaits it.
LEMMA AnswerShape ==
  ASSUME TypeOK, CallsMatchWishes, NEW k \in Calls, Answer(k)
  PROVE  LET c == call[k].claim IN
         /\ c \in Claims /\ Active(k) /\ call[k].op \in {"Prepare", "Unprepare"}
         /\ call'[k].pc = "free" /\ \A m \in Calls \ {k} : call'[m] = call[m]
         /\ UNCHANGED <<checkpoint, cdi, common, up>>
         /\ \/ UNCHANGED <<kube, alloc>>
            \/ call[k].pc = "ok" /\ call[k].op = "Prepare" /\ Acknowledge(c, "Prepare")
            \/ call[k].pc = "ok" /\ call[k].op = "Unprepare" /\ Acknowledge(c, "Unprepare")
<1>1. call \in [Calls -> HandlerCall \cup {NoCall}] /\ call[k].pc \in Answers
  BY DEF Answer, TypeOK, DeviceStateTypeOK
<1>2. /\ call[k].claim \in Claims /\ call[k].op \in {"Prepare", "Unprepare"} /\ Active(k)
      /\ call[k].awaited
  BY <1>1, CallType DEF Answers, Active, CallsMatchWishes
<1>3. /\ call'[k].pc = "free" /\ \A m \in Calls \ {k} : call'[m] = call[m]
      /\ UNCHANGED <<checkpoint, cdi, common, up>>
  BY <1>1 DEF Answer, files, NoCall
<1>. QED
  BY <1>1, <1>2, <1>3 DEF Answer, Answers

LEMMA PatientAnswer ==
  ASSUME LockInv, PatientInv, NEW k \in Calls, Answer(k)
  PROVE  PatientInv'
<1>. DEFINE c == call[k].claim
<1>a. /\ TypeOK /\ CallsMatchWishes /\ OksAreRecorded /\ WishesAreRecorded /\ SpecNeverStale
      /\ call \in [Calls -> HandlerCall \cup {NoCall}]
      /\ kube \in [Claims -> Wishes] /\ alloc \in [Claims -> Allocations \cup {None}]
  BY DEF LockInv, PatientInv, TypeOK, DeviceStateTypeOK
<1>b. /\ c \in Claims /\ call[k].op \in {"Prepare", "Unprepare"} /\ Active(k)
      /\ call'[k].pc = "free" /\ \A m \in Calls \ {k} : call'[m] = call[m]
      /\ UNCHANGED <<checkpoint, cdi>>
  BY <1>a, AnswerShape
<1>1. CASE UNCHANGED <<kube, alloc>>
  BY <1>1, <1>a, <1>b
  DEF PatientInv, CallsMatchWishes, OksAreRecorded, WishesAreRecorded, SpecNeverStale, Active
<1>2. CASE call[k].pc = "ok" /\ call[k].op = "Prepare" /\ Acknowledge(c, "Prepare")
  <2>1. /\ kube' \in {kube, [kube EXCEPT ![c] = "prepared"]} /\ alloc' = alloc
        /\ ReadFaults \/ c \in checkpoint
        /\ kube[c] \in {"want", "prepared"}
    BY <1>2, <1>a, <1>b DEF Acknowledge, OksAreRecorded, CallsMatchWishes
  <2>2. WishesAreRecorded' /\ SpecNeverStale'
    BY <2>1, <1>a, <1>b DEF WishesAreRecorded, SpecNeverStale
  <2>3. OksAreRecorded'
    BY <2>1, <1>a, <1>b DEF OksAreRecorded
  <2>4. CallsMatchWishes'
    <3>1. \A m \in Calls : call'[m].pc # "free" => call'[m] = call[m] /\ Active(m)
      BY <1>b DEF Active
    <3>2. \A d \in Claims :
            /\ kube[d] \in {"want", "prepared"} => kube'[d] \in {"want", "prepared"}
            /\ kube[d] = "release" => kube'[d] = "release"
      BY <2>1, <1>a
    <3>3. \A m \in Calls : Active(m) => call[m].claim \in Claims
      BY <1>a, CallType DEF Active
    <3>. QED
      BY <3>1, <3>2, <3>3, <2>1, <1>a, <1>b DEF CallsMatchWishes, Active
  <2>. QED
    BY <2>2, <2>3, <2>4 DEF PatientInv
<1>3. CASE call[k].pc = "ok" /\ call[k].op = "Unprepare" /\ Acknowledge(c, "Unprepare")
  <2>1. /\ kube' = [kube EXCEPT ![c] = "idle"] /\ alloc' = [alloc EXCEPT ![c] = None]
        /\ cdi[c] = None /\ c \notin checkpoint
        /\ \A m \in Calls \ {k} : Active(m) => call[m].claim # c
    BY <1>3, <1>a, <1>b DEF Acknowledge, OksAreRecorded, CallsMatchWishes
  <2>2. \A m \in Calls : call'[m].pc # "free" =>
          /\ m # k /\ call'[m] = call[m] /\ Active(m)
          /\ call[m].claim # c /\ call[m].claim \in Claims
    BY <2>1, <1>a, <1>b, CallType DEF Active
  <2>3. WishesAreRecorded'
    <3>1. \A d \in Claims : (kube'[d] = "idle") <=> (alloc'[d] = None)
      BY <2>1, <1>a DEF WishesAreRecorded
    <3>. QED
      BY <3>1, <2>1, <1>a, <1>b DEF WishesAreRecorded
  <2>4. SpecNeverStale'
    BY <2>1, <1>a, <1>b DEF SpecNeverStale
  <2>5. OksAreRecorded'
    BY <2>1, <2>2, <1>a, <1>b DEF OksAreRecorded
  <2>6. CallsMatchWishes'
    BY <2>1, <2>2, <1>a, <1>b DEF CallsMatchWishes, Active
  <2>. QED
    BY <2>3, <2>4, <2>5, <2>6 DEF PatientInv
<1>. QED
  BY <1>1, <1>2, <1>3, <1>a, AnswerShape

\* A pod comes or goes only while no call about its claim is on its way.
LEMMA PodsShape ==
  ASSUME TypeOK, CallsMatchWishes, WishesAreRecorded, NEW c \in Claims,
         Schedule(c) \/ PodGone(c) \/ Rejoin(c)
  PROVE  /\ UNCHANGED <<call, checkpoint, cdi, common, up>>
         /\ \A m \in Calls : Active(m) =>
              /\ call[m].claim # c /\ call[m].claim \in Claims
              /\ call[m].op \in {"Prepare", "Unprepare"}
         /\ \A d \in Claims \ {c} : kube'[d] = kube[d] /\ alloc'[d] = alloc[d]
         /\ \/ kube[c] = "idle" /\ kube'[c] = "want" /\ alloc'[c] \in Allocations
            \/ kube[c] \in {"want", "prepared"} /\ kube'[c] = "release" /\ alloc'[c] = alloc[c]
            \/ Reuse /\ kube[c] = "release" /\ kube'[c] = "want" /\ alloc'[c] = alloc[c]
<1>1. UNCHANGED <<call, checkpoint, cdi, common, up>>
  BY DEF Schedule, PodGone, Rejoin, pluginVars
<1>2. \A m \in Calls : Active(m) =>
        call[m].claim # c /\ call[m].claim \in Claims /\ call[m].op \in {"Prepare", "Unprepare"}
  BY CallType
  DEF Schedule, PodGone, Rejoin, CallsMatchWishes, Active, Undecided, Awaiting
<1>3. /\ \A d \in Claims \ {c} : kube'[d] = kube[d] /\ alloc'[d] = alloc[d]
      /\ \/ kube[c] = "idle" /\ kube'[c] = "want" /\ alloc'[c] \in Allocations
         \/ kube[c] \in {"want", "prepared"} /\ kube'[c] = "release" /\ alloc'[c] = alloc[c]
         \/ Reuse /\ kube[c] = "release" /\ kube'[c] = "want" /\ alloc'[c] = alloc[c]
  BY DEF Schedule, PodGone, Rejoin, TypeOK
<1>. QED
  BY <1>1, <1>2, <1>3

LEMMA PatientPods ==
  ASSUME LockInv, PatientInv, NEW c \in Claims, Schedule(c) \/ PodGone(c) \/ Rejoin(c)
  PROVE  PatientInv'
<1>a. TypeOK /\ CallsMatchWishes /\ OksAreRecorded /\ WishesAreRecorded /\ SpecNeverStale
  BY DEF LockInv, PatientInv
<1>1. /\ UNCHANGED <<call, checkpoint, cdi>>
      /\ \A m \in Calls : Active(m) =>
           call[m].claim # c /\ call[m].claim \in Claims /\ call[m].op \in {"Prepare", "Unprepare"}
      /\ \A d \in Claims \ {c} : kube'[d] = kube[d] /\ alloc'[d] = alloc[d]
      /\ \/ kube[c] = "idle" /\ kube'[c] = "want" /\ alloc'[c] \in Allocations
         \/ kube[c] \in {"want", "prepared"} /\ kube'[c] = "release" /\ alloc'[c] = alloc[c]
         \/ Reuse /\ kube[c] = "release" /\ kube'[c] = "want" /\ alloc'[c] = alloc[c]
  BY <1>a, PodsShape
<1>2. WishesAreRecorded' /\ SpecNeverStale'
  BY <1>a, <1>1, ConstantsAssumption DEF WishesAreRecorded, SpecNeverStale
<1>3. OksAreRecorded'
  BY <1>a, <1>1 DEF OksAreRecorded, Active
<1>4. CallsMatchWishes'
  BY <1>a, <1>1 DEF CallsMatchWishes, Active
<1>. QED
  BY <1>2, <1>3, <1>4 DEF PatientInv

\* A reboot ends all calls; it may take the spec files along, but puts no others there.
LEMMA PatientReboot ==
  ASSUME LockInv, PatientInv, Reboot
  PROVE  PatientInv'
<1>1. /\ \A m \in Calls : call'[m].pc = "free"
      /\ UNCHANGED <<checkpoint, alloc>> /\ kube' = Forgotten
      /\ cdi' = cdi \/ cdi' = [c \in Claims |-> None]
  BY DEF Reboot, PowerCycle, NoCall
<1>2. CallsMatchWishes' /\ OksAreRecorded'
  BY <1>1 DEF CallsMatchWishes, OksAreRecorded, Active
<1>3. WishesAreRecorded' /\ SpecNeverStale'
  BY <1>1 DEF WishesAreRecorded, SpecNeverStale, PatientInv, Forgotten
<1>. QED
  BY <1>2, <1>3 DEF PatientInv

\* A kubelet that waits is restarted only when it has no call on its way.
LEMMA RestartShape ==
  ASSUME CallsMatchWishes, Patient, KubeletRestart
  PROVE  /\ \A m \in Calls : call'[m] = call[m] /\ ~Active(m)
         /\ UNCHANGED <<checkpoint, cdi, common, up, alloc>> /\ kube' = Forgotten
BY DEF KubeletRestart, Unawaited, CallsMatchWishes, Patient, files

LEMMA PatientRestart ==
  ASSUME LockInv, PatientInv, Patient, KubeletRestart
  PROVE  PatientInv'
<1>1. /\ \A m \in Calls : call'[m] = call[m] /\ ~Active(m)
      /\ UNCHANGED <<checkpoint, cdi, alloc>> /\ kube' = Forgotten
  BY RestartShape DEF PatientInv
<1>2. CallsMatchWishes' /\ OksAreRecorded'
  BY <1>1 DEF CallsMatchWishes, OksAreRecorded, Active
<1>3. WishesAreRecorded' /\ SpecNeverStale'
  BY <1>1 DEF WishesAreRecorded, SpecNeverStale, PatientInv, Forgotten
<1>. QED
  BY <1>2, <1>3 DEF PatientInv

LEMMA PatientNext ==
  ASSUME LockInv, PatientInv, Patient, [Next]_vars
  PROVE  PatientInv'
<1>1. ASSUME NEW k \in Calls, KubeletStep(k)
      PROVE  PatientInv'
  BY <1>1, PatientSend, PatientAnswer DEF KubeletStep, GiveUp, Patient
<1>2. CASE UNCHANGED vars
  BY <1>2 DEF vars, pluginVars, PatientInv, CallsMatchWishes, OksAreRecorded,
     WishesAreRecorded, SpecNeverStale, Active
<1>. QED
  BY <1>1, <1>2, PatientPlugin, PatientPods, PatientReboot, PatientRestart DEF Next

LEMMA PatientInit == Init => PatientInv
BY DEF Init, DeviceStateInit, PatientInv, CallsMatchWishes, OksAreRecorded,
   WishesAreRecorded, SpecNeverStale, Active, NoCall

\* If the kubelet waits for its answers, the calls, the kubelet and the checkpoint
\* agree on every claim, whatever crashes, reboots, write errors and read errors
\* happen, whether or not the CDI root survives a reboot, and even if claims are
\* used again before they are unprepared.
THEOREM PatienceSuffices ==
  ASSUME Exclusive, Patient PROVE Spec => [](LockInv /\ PatientInv)
<1>1. LockInv /\ PatientInv /\ [Next]_vars => PatientInv'
  BY PatientNext
<1>. QED
  BY PatientInit, <1>1, LocksSuffice, PTL DEF Spec

\* No CDI spec file outlives the allocation it was written for: what the runtime can
\* inject is what the claim has now.
THEOREM SpecIsNeverStale ==
  ASSUME Exclusive, Patient PROVE Spec => []SpecNeverStale
<1>1. PatientInv => SpecNeverStale
  BY DEF PatientInv
<1>. QED
  BY <1>1, PatienceSuffices, PTL

\* What a step does to the claims that are in use and recorded.
LEMMA InUseKept ==
  ASSUME LockInv, PatientInv, ~ReadFaults, ~CdiVolatile, [Next]_vars,
         NEW c \in checkpoint, kube[c] \in {"want", "prepared"}
  PROVE  c \in checkpoint' /\ cdi'[c] = cdi[c]
<1>a. TypeOK /\ CallsMatchWishes /\ c \in Claims
  BY DEF LockInv, PatientInv, TypeOK, DeviceStateTypeOK
<1>1. ASSUME NEW k \in Calls, Handle(k)
      PROVE  c \in checkpoint' /\ cdi'[c] = cdi[c]
  <2>1. Active(k) /\ call[k].op \in {"Prepare", "Unprepare"}
    BY <1>a, <1>1, HandleShape, CallType DEF Critical, Active
  <2>2. CASE call[k].claim # c
    BY <1>a, <1>1, <2>2, HandleOthers DEF Untouched
  <2>3. CASE call[k].claim = c
    <3>1. call[k].op = "Prepare"
      BY <1>a, <2>1, <2>3 DEF CallsMatchWishes
    <3>. QED
      BY <1>a, <1>1, <2>3, <3>1, PrepareOwn
  <2>. QED
    BY <2>2, <2>3
<1>2. ASSUME \/ \E k \in Calls : Enter(k) \/ Lock(k)
             \/ \E i \in Instances : ProcessStep(i)
      PROVE  UNCHANGED <<checkpoint, cdi>>
  BY <1>a, <1>2, PluginKeeps
<1>3. ASSUME \/ \E d \in Claims : Schedule(d) \/ PodGone(d) \/ Rejoin(d)
             \/ \E k \in Calls : KubeletStep(k)
             \/ KubeletRestart \/ Reboot \/ UNCHANGED vars
      PROVE  UNCHANGED <<checkpoint, cdi>>
  BY <1>3 DEF Schedule, PodGone, Rejoin, KubeletStep, SendPrepare, SendUnprepare, Send,
     GiveUp, Answer, KubeletRestart, Reboot, PowerCycle, vars, pluginVars, files
<1>. QED
  BY <1>1, <1>2, <1>3 DEF Next, PluginStep, DeviceStateNext

\* What a pod may be using stays as it was recorded.
THEOREM InUseIsLeftAlone ==
  ASSUME Exclusive, Patient, ~ReadFaults, ~CdiVolatile PROVE Spec => InUseLeftAlone
<1>1. LockInv /\ PatientInv /\ [Next]_vars =>
        [\A c \in checkpoint : kube[c] \in {"want", "prepared"} =>
           c \in checkpoint' /\ cdi'[c] = cdi[c]]_vars
  BY InUseKept
<1>. QED
  BY <1>1, PatienceSuffices, PTL DEF Spec, InUseLeftAlone

--------------------------------------------------------------------------------
(***************************************************************************)
(* The CDI spec files, on an orderly node.                                 *)
(***************************************************************************)

\* A handler writes a claim's spec file before its entry, and removes it only from
\* claims in release.
LEMMA ClaimHandle ==
  ASSUME LockInv, ClaimInv, NEW k \in Calls, Handle(k), UNCHANGED <<kube, alloc>>
  PROVE  OksAreInjectable' /\ CheckpointTrusted'
<1>. DEFINE c == call[k].claim
<1>a. /\ TypeOK /\ CallsMatchWishes /\ OksAreInjectable /\ CheckpointTrusted
      /\ c \in Claims /\ Active(k)
      /\ call[k].op \in {"Prepare", "Unprepare"}
  BY HandleShape, CallType DEF LockInv, ClaimInv, PatientInv, Critical, Active
<1>b. Keeps /\ \A m \in Calls \ {k} : call'[m].pc = "ok" => call[m].pc = "ok"
  BY <1>a, HandleKeeps
<1>2. \A d \in Claims \ {c} : Untouched(d)
  BY HandleOthers
<1>3. CASE call[k].op = "Prepare"
  <2>1. /\ cdi'[c] \in {cdi[c], alloc[c]} /\ kube[c] \in {"want", "prepared"}
        /\ c \in checkpoint' \ checkpoint => cdi'[c] = alloc[c]
        /\ call'[k].pc = "ok" => c \in checkpoint' /\ (c \in checkpoint => cdi'[c] = cdi[c])
    BY <1>3, <1>a, PrepareOwn DEF CallsMatchWishes
  <2>2. CheckpointTrusted'
    <3>. SUFFICES ASSUME NEW d \in Claims
                  PROVE  /\ kube[d] \in {"want", "prepared"} /\ d \in checkpoint' => cdi'[d] = alloc[d]
                         /\ kube[d] = "prepared" => common' /\ cdi'[d] = alloc[d]
      BY DEF CheckpointTrusted
    <3>1. CASE d = c
      BY <3>1, <2>1, <1>a, <1>b DEF CheckpointTrusted, Keeps
    <3>2. CASE d # c
      BY <3>2, <1>2, <1>a, <1>b DEF CheckpointTrusted, Untouched, Keeps
    <3>. QED
      BY <3>1, <3>2
  <2>3. OksAreInjectable'
    <3>. SUFFICES ASSUME NEW m \in Calls, call'[m].pc = "ok", call'[m].op = "Prepare"
                  PROVE  cdi'[call'[m].claim] = alloc[call'[m].claim]
      BY DEF OksAreInjectable
    <3>1. /\ call[m].op = "Prepare" /\ call'[m].claim = call[m].claim
          /\ call[m].claim \in Claims
      BY <1>a, <1>b, OkCalls
    <3>2. CASE m = k
      BY <3>1, <3>2, <2>1, <1>a DEF CheckpointTrusted
    <3>3. CASE m # k /\ call[m].claim = c
      <4>1. cdi[c] = alloc[c]
        BY <3>1, <3>3, <1>a, <1>b DEF OksAreInjectable
      <4>. QED
        BY <4>1, <3>1, <3>3, <2>1
    <3>4. CASE m # k /\ call[m].claim # c
      <4>1. call[m].pc = "ok" /\ Untouched(call[m].claim)
        BY <3>1, <3>4, <1>b, <1>2
      <4>. QED
        BY <4>1, <3>1, <1>a DEF OksAreInjectable, Untouched
    <3>. QED
      BY <3>2, <3>3, <3>4
  <2>. QED
    BY <2>2, <2>3
<1>4. CASE call[k].op = "Unprepare"
  <2>1. kube[c] = "release" /\ \A m \in Calls : Active(m) /\ call[m].claim = c => m = k
    BY <1>4, <1>a DEF CallsMatchWishes
  <2>2. CheckpointTrusted'
    BY <2>1, <1>2, <1>a, <1>b DEF CheckpointTrusted, Untouched, Keeps
  <2>3. OksAreInjectable'
    <3>. SUFFICES ASSUME NEW m \in Calls, call'[m].pc = "ok", call'[m].op = "Prepare"
                  PROVE  cdi'[call'[m].claim] = alloc[call'[m].claim]
      BY DEF OksAreInjectable
    <3>1. /\ call[m].op = "Prepare" /\ call'[m].claim = call[m].claim
          /\ Active(m) /\ call[m].claim \in Claims
      BY <1>a, <1>b, OkCalls
    <3>2. m # k /\ call[m].pc = "ok" /\ call[m].claim # c
      BY <3>1, <1>4, <1>b, <2>1
    <3>3. Untouched(call[m].claim)
      BY <3>1, <3>2, <1>2
    <3>. QED
      BY <3>1, <3>2, <3>3, <1>a DEF OksAreInjectable, Untouched
  <2>. QED
    BY <2>2, <2>3
<1>. QED
  BY <1>3, <1>4, <1>a

\* The common spec file is there once a process has started.
LEMMA CommonHandle ==
  ASSUME TypeOK, NEW k \in Calls, Enter(k) \/ Lock(k) \/ Handle(k), NEW i \in Instances
  PROVE  common' = common /\ (up'[i] => up[i])
<1>1. CASE UnprepareResets(k)
  BY <1>1 DEF UnprepareResets, Die, TypeOK, DeviceStateTypeOK
<1>2. CASE ~UnprepareResets(k)
  BY <1>2 DEF Enter, Lock, Handle, PrepareStep, UnprepareStep, SaveStep,
     PrepareReadFails, PrepareRejects, PrepareRestores, PrepareComputes,
     PreparePublishes, PrepareWritesSpec, PrepareSpecFails, UnprepareReads,
     UnprepareResetFails, UnprepareDeletesSpec, UnprepareDeleteFails,
     Save, SaveFails, files
<1>. QED
  BY <1>1, <1>2

LEMMA ClaimPlugin ==
  ASSUME LockInv, ClaimInv, PluginStep
  PROVE  ClaimInv'
<1>a. /\ TypeOK /\ OksAreInjectable /\ CheckpointTrusted /\ CommonSpecThere
      /\ UNCHANGED <<kube, alloc>>
  BY DEF LockInv, ClaimInv, PluginStep
<1>1. /\ Keeps
      /\ OksAreInjectable' /\ CheckpointTrusted'
  <2>1. ASSUME NEW k \in Calls, Handle(k)
        PROVE  Keeps /\ OksAreInjectable' /\ CheckpointTrusted'
    BY <1>a, <2>1, ClaimHandle, HandleKeeps
  <2>2. ASSUME \/ \E k \in Calls : Enter(k) \/ Lock(k)
               \/ \E i \in Instances : ProcessStep(i)
        PROVE  Keeps /\ OksAreInjectable' /\ CheckpointTrusted'
    <3>1. /\ Keeps /\ checkpoint' = checkpoint /\ cdi' = cdi
          /\ \A m \in Calls : call'[m].pc = "ok" => call[m].pc = "ok"
      BY <1>a, <2>2, PluginKeeps
    <3>2. OksAreInjectable'
      BY <1>a, <3>1 DEF OksAreInjectable, Keeps
    <3>3. CheckpointTrusted'
      BY <1>a, <3>1 DEF CheckpointTrusted, Keeps
    <3>. QED
      BY <3>1, <3>2, <3>3
  <2>. QED
    BY <2>1, <2>2 DEF PluginStep, DeviceStateNext
<1>2. ASSUME NEW i \in Instances, up'[i]
      PROVE  common'
  <2>1. ASSUME NEW k \in Calls, Enter(k) \/ Lock(k) \/ Handle(k)
        PROVE  common' = common /\ (up'[i] => up[i])
    BY <1>a, <2>1, CommonHandle
  <2>2. ASSUME NEW j \in Instances, ProcessStep(j)
        PROVE  common' \/ (common' = common /\ (up'[i] => up[i]))
    BY <2>2, <1>a DEF ProcessStep, Start, WriteCommonSpec, Shutdown, Crash, Die, files, TypeOK, DeviceStateTypeOK
  <2>. QED
    BY <1>2, <1>a, <2>1, <2>2 DEF PluginStep, DeviceStateNext, CommonSpecThere
<1>3. \A k \in Calls : Active(k)' => common'
  BY <1>a, <1>1 DEF CommonSpecThere, Keeps, Active
<1>4. PatientInv'
  BY PatientPlugin DEF ClaimInv
<1>5. CommonSpecThere'
  BY <1>2, <1>3 DEF CommonSpecThere
<1>. QED
  BY <1>1, <1>4, <1>5 DEF ClaimInv

LEMMA ClaimSend ==
  ASSUME LockInv, ClaimInv, NEW k \in Calls, NEW i \in Instances, NEW c \in Claims,
         SendPrepare(k, i, c) \/ SendUnprepare(k, i, c)
  PROVE  ClaimInv'
<1>1. PICK op \in {"Prepare", "Unprepare"}, a \in Allocations \cup {None} :
        /\ op = "Prepare" => kube[c] = "want" /\ a = alloc[c]
        /\ op = "Unprepare" => kube[c] = "release" /\ ~Undecided(c)
        /\ call'[k] = [pc |-> "waiting", op |-> op, claim |-> c, alloc |-> a,
                       inst |-> i, copy |-> {}, awaited |-> TRUE]
        /\ \A m \in Calls \ {k} : call'[m] = call[m]
        /\ UNCHANGED <<checkpoint, cdi, common, alloc, kube, up>> /\ up[i]
        /\ ~Active(k)
  BY SendShape DEF LockInv
<1>2. PatientInv'
  BY PatientSend DEF ClaimInv
<1>3. OksAreInjectable' /\ CheckpointTrusted'
  BY <1>1 DEF ClaimInv, OksAreInjectable, CheckpointTrusted
<1>4. CommonSpecThere'
  BY <1>1 DEF ClaimInv, CommonSpecThere
<1>. QED
  BY <1>2, <1>3, <1>4 DEF ClaimInv

LEMMA ClaimAnswer ==
  ASSUME LockInv, ClaimInv, NEW k \in Calls, Answer(k)
  PROVE  ClaimInv'
<1>. DEFINE c == call[k].claim
<1>a. /\ TypeOK /\ CallsMatchWishes /\ OksAreInjectable /\ CheckpointTrusted
      /\ CommonSpecThere
      /\ kube \in [Claims -> Wishes] /\ alloc \in [Claims -> Allocations \cup {None}]
  BY DEF LockInv, ClaimInv, PatientInv, TypeOK
<1>b. /\ c \in Claims /\ call[k].op \in {"Prepare", "Unprepare"} /\ Active(k)
      /\ call'[k].pc = "free" /\ \A m \in Calls \ {k} : call'[m] = call[m]
      /\ UNCHANGED <<checkpoint, cdi, common, up>>
  BY <1>a, AnswerShape
<1>c. PatientInv' /\ CommonSpecThere'
  BY <1>a, <1>b, PatientAnswer DEF ClaimInv, CommonSpecThere, Active
<1>1. CASE UNCHANGED <<kube, alloc>>
  BY <1>1, <1>a, <1>b, <1>c DEF ClaimInv, OksAreInjectable, CheckpointTrusted
<1>2. CASE call[k].pc = "ok" /\ call[k].op = "Prepare" /\ Acknowledge(c, "Prepare")
  <2>1. /\ kube' \in {kube, [kube EXCEPT ![c] = "prepared"]} /\ alloc' = alloc
        /\ cdi[c] = alloc[c] /\ common
        /\ kube[c] \in {"want", "prepared"}
    BY <1>2, <1>a, <1>b DEF Acknowledge, OksAreInjectable, CallsMatchWishes, CommonSpecThere
  <2>2. CheckpointTrusted'
    BY <2>1, <1>a, <1>b DEF CheckpointTrusted
  <2>3. OksAreInjectable'
    BY <2>1, <1>a, <1>b DEF OksAreInjectable
  <2>. QED
    BY <2>2, <2>3, <1>c DEF ClaimInv
<1>3. CASE call[k].pc = "ok" /\ call[k].op = "Unprepare" /\ Acknowledge(c, "Unprepare")
  <2>1. /\ kube' = [kube EXCEPT ![c] = "idle"] /\ alloc' = [alloc EXCEPT ![c] = None]
        /\ \A m \in Calls \ {k} : Active(m) => call[m].claim # c
    BY <1>3, <1>a, <1>b DEF Acknowledge, CallsMatchWishes
  <2>2. \A m \in Calls : call'[m].pc # "free" =>
          /\ m # k /\ call'[m] = call[m] /\ Active(m)
          /\ call[m].claim # c /\ call[m].claim \in Claims
    BY <2>1, <1>a, <1>b, CallType DEF Active
  <2>3. CheckpointTrusted'
    BY <2>1, <1>a, <1>b DEF CheckpointTrusted
  <2>4. OksAreInjectable'
    BY <2>1, <2>2, <1>a, <1>b DEF OksAreInjectable
  <2>. QED
    BY <2>3, <2>4, <1>c DEF ClaimInv
<1>. QED
  BY <1>1, <1>2, <1>3, <1>a, AnswerShape

\* The kubelet does not change its mind about a claim it is to release: what is in
\* use again has been unprepared before.
LEMMA ClaimPods ==
  ASSUME LockInv, ClaimInv, Orderly, NEW c \in Claims,
         Schedule(c) \/ PodGone(c) \/ Rejoin(c)
  PROVE  ClaimInv'
<1>a. /\ TypeOK /\ CallsMatchWishes /\ WishesAreRecorded
      /\ OksAreInjectable /\ CheckpointTrusted /\ CommonSpecThere /\ ~Reuse
  BY DEF LockInv, ClaimInv, PatientInv, Orderly
<1>1. /\ UNCHANGED <<call, checkpoint, cdi, common, up>>
      /\ \A m \in Calls : Active(m) => call[m].claim # c /\ call[m].claim \in Claims
      /\ \A d \in Claims \ {c} : kube'[d] = kube[d] /\ alloc'[d] = alloc[d]
      /\ \/ kube[c] = "idle" /\ kube'[c] = "want" /\ alloc'[c] \in Allocations
         \/ kube[c] \in {"want", "prepared"} /\ kube'[c] = "release" /\ alloc'[c] = alloc[c]
  BY <1>a, PodsShape
<1>2. CheckpointTrusted'
  BY <1>a, <1>1 DEF CheckpointTrusted, WishesAreRecorded
<1>3. OksAreInjectable' /\ CommonSpecThere'
  BY <1>a, <1>1 DEF OksAreInjectable, CommonSpecThere, Active
<1>4. PatientInv'
  BY PatientPods DEF ClaimInv
<1>. QED
  BY <1>2, <1>3, <1>4 DEF ClaimInv

LEMMA ClaimReboot ==
  ASSUME LockInv, ClaimInv, Orderly, Reboot
  PROVE  ClaimInv'
<1>1. /\ \A m \in Calls : call'[m].pc = "free"
      /\ \A i \in Instances : ~up'[i]
      /\ UNCHANGED <<checkpoint, cdi, common, alloc>> /\ kube' = Forgotten
  BY DEF Reboot, PowerCycle, NoCall, Orderly
<1>2. OksAreInjectable' /\ CommonSpecThere'
  BY <1>1 DEF OksAreInjectable, CommonSpecThere, Active
<1>3. CheckpointTrusted'
  BY <1>1 DEF CheckpointTrusted, ClaimInv, Forgotten
<1>4. PatientInv'
  BY PatientReboot DEF ClaimInv
<1>. QED
  BY <1>2, <1>3, <1>4 DEF ClaimInv

LEMMA ClaimRestart ==
  ASSUME LockInv, ClaimInv, Orderly, KubeletRestart
  PROVE  ClaimInv'
<1>1. /\ \A m \in Calls : call'[m] = call[m] /\ ~Active(m)
      /\ UNCHANGED <<checkpoint, cdi, common, up, alloc>> /\ kube' = Forgotten
  BY RestartShape DEF ClaimInv, PatientInv, Orderly
<1>2. OksAreInjectable' /\ CommonSpecThere'
  BY <1>1 DEF ClaimInv, OksAreInjectable, CommonSpecThere, Active
<1>3. CheckpointTrusted'
  BY <1>1 DEF CheckpointTrusted, ClaimInv, Forgotten
<1>4. PatientInv'
  BY PatientRestart DEF ClaimInv, Orderly
<1>. QED
  BY <1>2, <1>3, <1>4 DEF ClaimInv

LEMMA ClaimNext ==
  ASSUME LockInv, ClaimInv, Orderly, [Next]_vars
  PROVE  ClaimInv'
<1>1. ASSUME NEW k \in Calls, KubeletStep(k)
      PROVE  ClaimInv'
  BY <1>1, ClaimSend, ClaimAnswer DEF KubeletStep, GiveUp, Orderly, Patient
<1>2. CASE UNCHANGED vars
  <2>1. PatientInv'
    BY PatientNext DEF ClaimInv, Orderly
  <2>2. OksAreInjectable' /\ CheckpointTrusted' /\ CommonSpecThere'
    BY <1>2 DEF vars, pluginVars, ClaimInv, OksAreInjectable, CheckpointTrusted,
       CommonSpecThere, Active
  <2>. QED
    BY <2>1, <2>2 DEF ClaimInv
<1>. QED
  BY <1>1, <1>2, ClaimPods, ClaimPlugin, ClaimReboot, ClaimRestart DEF Next

LEMMA ClaimInit == Init => ClaimInv
<1>1. Init => OksAreInjectable /\ CheckpointTrusted /\ CommonSpecThere
  BY DEF Init, DeviceStateInit, OksAreInjectable, CheckpointTrusted, CommonSpecThere,
     Active, NoCall
<1>. QED
  BY <1>1, PatientInit DEF ClaimInv

\* On an orderly node the two files, the calls and the kubelet agree on every
\* claim, whatever crashes, reboots, write errors and read errors happen.
THEOREM ClaimsAgree ==
  ASSUME Exclusive, Orderly PROVE Spec => [](LockInv /\ ClaimInv)
<1>1. Init => ClaimInv
  BY ClaimInit
<1>2. LockInv /\ ClaimInv /\ [Next]_vars => ClaimInv'
  BY ClaimNext
<1>. QED
  BY <1>1, <1>2, LocksSuffice, PTL DEF Spec

\* What the kubelet was told is prepared can be injected.
THEOREM PreparedIsInjectable ==
  ASSUME Exclusive, Orderly PROVE Spec => []PreparedInjectable
<1>1. ClaimInv => PreparedInjectable
  BY DEF ClaimInv, CheckpointTrusted, PreparedInjectable
<1>. QED
  BY <1>1, ClaimsAgree, PTL

\* What Prepare answers from the checkpoint is in a CDI spec file.  Without a CDI root
\* that survives a reboot it need not be.
THEOREM RestoredIsInjectable ==
  ASSUME Exclusive, Orderly PROVE Spec => RestoredInjectable
<1>1. LockInv /\ ClaimInv /\ [Next]_vars =>
        [\A k \in Calls : At(k, "Prepare", "locked") /\ call'[k].pc = "ok" =>
           cdi[call[k].claim] = call[k].alloc]_vars
  <2>. SUFFICES ASSUME LockInv, ClaimInv, [Next]_vars, NEW k \in Calls,
                       At(k, "Prepare", "locked"), call'[k].pc = "ok"
                PROVE  cdi[call[k].claim] = call[k].alloc
    BY Zenon
  <2>1. PrepareRestores(k)
    BY OkIsHandle, OkSteps DEF LockInv, Save, At, Critical
  <2>2. /\ call[k].claim \in Claims /\ Active(k) /\ call[k].op = "Prepare"
        /\ call[k].claim \in checkpoint
    BY <2>1, CallType DEF LockInv, PrepareRestores, At, Active
  <2>3. kube[call[k].claim] \in {"want", "prepared"} /\ call[k].alloc = alloc[call[k].claim]
    BY <2>2 DEF ClaimInv, PatientInv, CallsMatchWishes
  <2>. QED
    BY <2>2, <2>3 DEF ClaimInv, CheckpointTrusted
<1>. QED
  BY <1>1, ClaimsAgree, PTL DEF Spec, RestoredInjectable

\* What the kubelet was told is prepared is recorded, as long as the checkpoint
\* can be read.
THEOREM PreparedIsRecorded ==
  ASSUME Exclusive, Patient, ~ReadFaults PROVE Spec => []PreparedRecorded
<1>1. PatientInv => PreparedRecorded
  BY DEF PatientInv, WishesAreRecorded, PreparedRecorded
<1>. QED
  BY <1>1, PatienceSuffices, PTL

\* What the kubelet was told is unprepared is gone for good.
THEOREM NothingIsLeftBehind ==
  ASSUME Exclusive, Patient PROVE Spec => []NothingLeftBehind
<1>1. LockInv /\ PatientInv => NothingLeftBehind
  <2>. SUFFICES ASSUME LockInv, PatientInv, NEW c \in Claims, kube[c] = "idle"
                PROVE  c \notin checkpoint /\ cdi[c] = None /\ \A k \in Calls : call[k].claim # c
    BY DEF NothingLeftBehind
  <2>1. ASSUME NEW k \in Calls
        PROVE  call[k].claim # c
    <3>1. CASE Active(k)
      BY <3>1, CallType DEF LockInv, PatientInv, CallsMatchWishes, Active
    <3>2. CASE ~Active(k)
      <4>1. call[k] = NoCall
        BY <3>2 DEF LockInv, TypeOK, DeviceStateTypeOK, Active, HandlerCall, Steps, Critical, Answers
      <4>. QED
        BY <4>1, ConstantsAssumption DEF NoCall
    <3>. QED
      BY <3>1, <3>2
  <2>. QED
    BY <2>1 DEF PatientInv, WishesAreRecorded, SpecNeverStale
<1>. QED
  BY <1>1, PatienceSuffices, PTL

--------------------------------------------------------------------------------
(***************************************************************************)
(* The plugin on an orderly node implements the ledger of claims.          *)
(***************************************************************************)

\* A handler writes the files in the ledger's order, one claim at a time.
LEMMA HandleRefines ==
  ASSUME LockInv, ClaimInv, ~ReadFaults, NEW k \in Calls, Handle(k),
         UNCHANGED <<kube, alloc>>
  PROVE  Ledger!LedgerNext \/ UNCHANGED Ledger!ledgerVars
<1>. DEFINE c == call[k].claim
<1>a. /\ TypeOK /\ c \in Claims /\ call[k].op \in {"Prepare", "Unprepare"}
      /\ CopyCurrent(k) /\ Active(k)
  BY HandleShape, CallType DEF LockInv, CopiesCurrent, Critical, Active
<1>b. /\ call[k].op = "Prepare" => kube[c] \in {"want", "prepared"} /\ call[k].alloc = alloc[c]
      /\ call[k].op = "Unprepare" => kube[c] = "release"
      /\ kube[c] = "prepared" => c \in checkpoint
  BY <1>a DEF ClaimInv, PatientInv, CallsMatchWishes, WishesAreRecorded
<1>1. CASE Save(k) \/ SaveFails(k)
  <2>1. /\ call[k].pc = "save" /\ checkpoint' \in {checkpoint, call[k].copy}
        /\ UNCHANGED <<cdi, kube, alloc>>
    BY <1>1 DEF Save, SaveFails, WriteCheckpoint
  <2>2. CASE checkpoint' = checkpoint
    BY <2>1, <2>2 DEF Ledger!ledgerVars
  <2>3. CASE checkpoint' = call[k].copy /\ call[k].op = "Prepare"
    <3>1. Ledger!Record(c)
      BY <2>1, <2>3, <1>a, <1>b DEF CopyCurrent, Ledger!Record
    <3>. QED
      BY <3>1, <1>a DEF Ledger!LedgerNext
  <2>4. CASE checkpoint' = call[k].copy /\ call[k].op = "Unprepare"
    <3>1. Ledger!Erase(c)
      BY <2>1, <2>4, <1>a, <1>b DEF CopyCurrent, Ledger!Erase
    <3>. QED
      BY <3>1, <1>a DEF Ledger!LedgerNext
  <2>. QED
    BY <2>1, <2>2, <2>3, <2>4, <1>a
<1>2. CASE PrepareWritesSpec(k)
  <2>1. Ledger!Compose(c)
    BY <1>2, <1>a, <1>b DEF PrepareWritesSpec, At, CopyCurrent, Ledger!Compose
  <2>. QED
    BY <2>1, <1>a DEF Ledger!LedgerNext
<1>3. CASE UnprepareDeletesSpec(k)
  <2>1. Ledger!Discard(c)
    BY <1>3, <1>a, <1>b DEF UnprepareDeletesSpec, At, Ledger!Discard
  <2>. QED
    BY <2>1, <1>a DEF Ledger!LedgerNext
<1>. QED
  BY <1>1, <1>2, <1>3 DEF Ledger!ledgerVars, Handle, PrepareStep, UnprepareStep,
     SaveStep, PrepareReadFails, PrepareRejects, PrepareRestores, PrepareComputes,
     PreparePublishes, PrepareSpecFails, UnprepareReads, UnprepareResets,
     UnprepareResetFails, UnprepareDeleteFails, files

LEMMA AnswerRefines ==
  ASSUME LockInv, ClaimInv, ~ReadFaults, NEW k \in Calls, Answer(k)
  PROVE  Ledger!LedgerNext \/ UNCHANGED Ledger!ledgerVars
<1>. DEFINE c == call[k].claim
<1>a. /\ c \in Claims /\ Active(k) /\ UNCHANGED <<checkpoint, cdi>>
      /\ call[k].op \in {"Prepare", "Unprepare"}
      /\ kube \in [Claims -> Wishes] /\ alloc \in [Claims -> Allocations \cup {None}]
  BY CallType DEF Answer, Answers, Active, files, LockInv, TypeOK
<1>b. CallsMatchWishes /\ OksAreRecorded /\ OksAreInjectable
  BY DEF ClaimInv, PatientInv
<1>1. CASE UNCHANGED <<kube, alloc>>
  BY <1>1, <1>a DEF Ledger!ledgerVars
<1>2. CASE call[k].pc = "ok" /\ Acknowledge(c, call[k].op) /\ call[k].op = "Prepare"
  <2>1. cdi[c] = alloc[c] /\ c \in checkpoint /\ kube[c] \in {"want", "prepared"}
    BY <1>2, <1>a, <1>b DEF OksAreRecorded, OksAreInjectable, CallsMatchWishes
  <2>2. CASE kube[c] = "want"
    <3>1. Ledger!Confirm(c)
      BY <1>2, <1>a, <2>1, <2>2 DEF Acknowledge, Ledger!Confirm
    <3>. QED
      BY <3>1, <1>a DEF Ledger!LedgerNext
  <2>3. CASE kube[c] # "want"
    BY <1>2, <1>a, <2>3 DEF Acknowledge, Ledger!ledgerVars
  <2>. QED
    BY <2>2, <2>3
<1>3. CASE call[k].pc = "ok" /\ Acknowledge(c, call[k].op) /\ call[k].op = "Unprepare"
  <2>1. cdi[c] = None /\ c \notin checkpoint /\ kube[c] = "release"
    BY <1>3, <1>a, <1>b DEF OksAreRecorded, CallsMatchWishes
  <2>2. Ledger!Freed(c)
    BY <1>3, <1>a, <2>1 DEF Acknowledge, Ledger!Freed
  <2>. QED
    BY <2>2, <1>a DEF Ledger!LedgerNext
<1>. QED
  BY <1>1, <1>2, <1>3, <1>a DEF Answer

\* Every step of the node is a step of the ledger, or none.
LEMMA StepRefines ==
  LockInv /\ ClaimInv /\ ~ReadFaults /\ Orderly /\ [Next]_vars
    => [Ledger!LedgerNext]_(Ledger!ledgerVars)
<1>. SUFFICES ASSUME LockInv, ClaimInv, ~ReadFaults, Orderly, [Next]_vars
              PROVE  Ledger!LedgerNext \/ UNCHANGED Ledger!ledgerVars
  OBVIOUS
<1>1. CASE PluginStep
  <2>1. ASSUME NEW k \in Calls, Handle(k)
        PROVE  Ledger!LedgerNext \/ UNCHANGED Ledger!ledgerVars
    BY <1>1, <2>1, HandleRefines DEF PluginStep
  <2>2. ASSUME \/ \E k \in Calls : Enter(k) \/ Lock(k)
               \/ \E i \in Instances : ProcessStep(i)
        PROVE  UNCHANGED Ledger!ledgerVars
    BY <1>1, <2>2, PluginKeeps DEF PluginStep, Ledger!ledgerVars, LockInv
  <2>. QED
    BY <1>1, <2>1, <2>2 DEF PluginStep, DeviceStateNext
<1>2. ASSUME NEW c \in Claims, Schedule(c) \/ PodGone(c) \/ Rejoin(c)
      PROVE  Ledger!LedgerNext
  <2>1. CASE Schedule(c)
    <3>1. Ledger!Assign(c)
      BY <2>1 DEF Schedule, pluginVars, Ledger!Assign
    <3>. QED
      BY <3>1 DEF Ledger!LedgerNext
  <2>2. CASE PodGone(c)
    <3>1. Ledger!Surrender(c)
      BY <2>2 DEF PodGone, pluginVars, Ledger!Surrender
    <3>. QED
      BY <3>1 DEF Ledger!LedgerNext
  <2>. QED
    BY <1>2, <2>1, <2>2 DEF Rejoin, Orderly
<1>3. ASSUME NEW k \in Calls, KubeletStep(k)
      PROVE  Ledger!LedgerNext \/ UNCHANGED Ledger!ledgerVars
  <2>1. CASE Answer(k)
    BY <2>1, AnswerRefines
  <2>2. CASE ~Answer(k)
    BY <1>3, <2>2 DEF KubeletStep, GiveUp, Orderly, Patient, SendPrepare, SendUnprepare,
       Send, files, Ledger!ledgerVars
  <2>. QED
    BY <2>1, <2>2
<1>4. CASE KubeletRestart \/ Reboot
  <2>1. UNCHANGED <<checkpoint, cdi, alloc>> /\ kube' = Forgotten
    BY <1>4 DEF KubeletRestart, Reboot, PowerCycle, files, Orderly
  <2>2. Ledger!Forget
    BY <2>1 DEF Forgotten, Ledger!Forget
  <2>. QED
    BY <2>2 DEF Ledger!LedgerNext
<1>5. CASE UNCHANGED vars
  BY <1>5 DEF vars, pluginVars, Ledger!ledgerVars
<1>. QED
  BY <1>1, <1>2, <1>3, <1>4, <1>5 DEF Next

\* Locks, calls, processes, crashes, reboots and write errors are invisible: on
\* an orderly node whose checkpoint can be read, the plugin is the ledger.
THEOREM ImplementsLedger ==
  ASSUME Exclusive, Orderly, ~ReadFaults PROVE Spec => LedgerRefinement
<1>1. Init => Ledger!LedgerInit
  BY DEF Init, DeviceStateInit, Ledger!LedgerInit
<1>2. LockInv /\ ClaimInv /\ [Next]_vars => [Ledger!LedgerNext]_(Ledger!ledgerVars)
  BY StepRefines
<1>. QED
  BY <1>1, <1>2, ClaimsAgree, PTL DEF Spec, LedgerRefinement, Ledger!LedgerSpec
================================================================================
