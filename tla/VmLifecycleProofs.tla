------------------------- MODULE VmLifecycleProofs -------------------------
(***************************************************************************)
(* Proofs about VmLifecycle, for any sets of threads, any number of calls, *)
(* any faults and any usage rules but those a theorem assumes, in two      *)
(* parts: what every step keeps (VmInv), one lemma per action; and that no *)
(* calls wait for each other (GoInv), from what steps of a call have in    *)
(* common (StepEffects).                                                   *)
(***************************************************************************)
EXTENDS VmLifecycle, TLAPS

Busy(t) == pc[t] # "idle"

InGetVM(t) == pc[t] \in {"getVM", "vmWait", "haveVM"}

(* t owns javaEnv_mutex *)
InEnv(t) == /\ task[t] \in {"env", "createVM", "JNI_OnLoad"}
            /\ InGetVM(t)

PcOfTask == \A t \in Threads :
  /\ task[t] = "none" => pc[t] = "idle"
  /\ task[t] = "env" => pc[t] = "env" \/ InGetVM(t)
  /\ task[t] = "createVM" => pc[t] \in {"createVM", "findClass", "env", "notify"}
  /\ task[t] = "JNI_OnLoad" => pc[t] \in {"setVM", "notify", "env"} \/ InGetVM(t)
  /\ task[t] = "attachCurrentThread" => pc[t] = "attach" \/ InGetVM(t)
  /\ task[t] = "detachCurrentThread" => InGetVM(t)
  /\ task[t] = "destroyVM" => pc[t] \in {"destroyVM", "destroyWait"}

LockInv == \A t \in Threads :
  /\ javaEnv_mutex = t <=> InEnv(t)
  /\ javaVM_mutex = t <=> pc[t] = "destroyWait"

(* A thread has no result while it is in a call; JNI_OnLoad runs attached. *)
CallInv == \A t \in Threads :
  /\ Busy(t) => result[t] = "none"
  /\ task[t] = "JNI_OnLoad" => t \in attached
  /\ task[t] = "createVM" /\ pc[t] # "createVM" => envInstancePtr[t]

UpInv == attached # {} => jvm \in {"running", "destroying"}

(* The thread-local pointer is of an attached thread, or one that a detach *)
(* of its own thread has left behind.                                      *)
EnvPtrInv == \A t \in Threads : envInstancePtr[t] => t \in attached \/ t \in stale

VmInv ==
  /\ VmTypeOK
  /\ PcOfTask
  /\ LockInv
  /\ CallInv
  /\ UpInv
  /\ PublishedVmIsUp
  /\ EnvPtrInv
  /\ LiveUnlessDetached
  /\ "findClass" \notin Faults => NoLostWakeup

LEMMA CallStep ==
  ASSUME VmInv, NEW t \in Threads, NEW op \in Ops, Call(t, op)
  PROVE  VmInv'
<1> USE DEF VmInv, Call, Entry, Ops, MayCall
<1>1. VmTypeOK'
  BY VmAssumption DEF VmTypeOK, Ops, Results, Pcs
<1>2. PcOfTask'
  BY DEF VmTypeOK, PcOfTask, InGetVM, Ops
<1>3. LockInv'
  BY VmAssumption DEF VmTypeOK, PcOfTask, InGetVM, LockInv, InEnv, Ops
<1>4. CallInv'
  BY DEF VmTypeOK, PcOfTask, InGetVM, CallInv, Busy, Ops
<1>5. UpInv' /\ PublishedVmIsUp'
  BY DEF VmTypeOK, PcOfTask, InGetVM, CallInv, UpInv, PublishedVmIsUp
<1>6. EnvPtrInv' /\ LiveUnlessDetached'
  BY DEF VmTypeOK, PcOfTask, InGetVM, CallInv, UpInv, EnvPtrInv, LiveUnlessDetached, Live, Busy
<1>7. ASSUME "findClass" \notin Faults PROVE NoLostWakeup'
  BY <1>7 DEF VmTypeOK, PcOfTask, InGetVM, CallInv, NoLostWakeup, WillNotify
<1>8. QED
  BY <1>1, <1>2, <1>3, <1>4, <1>5, <1>6, <1>7

LEMMA EnvCachedStep ==
  ASSUME VmInv, NEW t \in Threads, EnvCached(t)
  PROVE  VmInv'
<1> USE DEF VmInv, EnvCached, AfterEnv, Goto, Return
<1>1. VmTypeOK'
  BY VmAssumption DEF VmTypeOK, Ops, Results, Pcs
<1>2. PcOfTask'
  BY DEF VmTypeOK, PcOfTask, InGetVM, Ops
<1>3. LockInv'
  BY VmAssumption DEF VmTypeOK, PcOfTask, InGetVM, LockInv, InEnv, Ops
<1>4. CallInv'
  BY DEF VmTypeOK, PcOfTask, InGetVM, CallInv, Busy, Ops
<1>5. UpInv' /\ PublishedVmIsUp'
  BY DEF VmTypeOK, PcOfTask, InGetVM, CallInv, UpInv, PublishedVmIsUp
<1>6. EnvPtrInv' /\ LiveUnlessDetached'
  BY DEF VmTypeOK, PcOfTask, InGetVM, CallInv, UpInv, EnvPtrInv, LiveUnlessDetached, Live, Busy
<1>7. ASSUME "findClass" \notin Faults PROVE NoLostWakeup'
  BY <1>7 DEF VmTypeOK, PcOfTask, InGetVM, CallInv, NoLostWakeup, WillNotify
<1>8. QED
  BY <1>1, <1>2, <1>3, <1>4, <1>5, <1>6, <1>7

LEMMA EnvUncachedStep ==
  ASSUME VmInv, NEW t \in Threads, EnvUncached(t)
  PROVE  VmInv'
<1> USE DEF VmInv, EnvUncached, Goto
<1>1. VmTypeOK'
  BY VmAssumption DEF VmTypeOK, Ops, Results, Pcs
<1>2. PcOfTask'
  BY DEF VmTypeOK, PcOfTask, CallInv, InGetVM, Ops
<1>3. LockInv'
  BY VmAssumption DEF VmTypeOK, PcOfTask, InGetVM, LockInv, InEnv, Ops
<1>4. CallInv'
  BY DEF VmTypeOK, PcOfTask, InGetVM, CallInv, Busy, Ops
<1>5. UpInv' /\ PublishedVmIsUp'
  BY DEF VmTypeOK, PcOfTask, InGetVM, CallInv, UpInv, PublishedVmIsUp
<1>6. EnvPtrInv' /\ LiveUnlessDetached'
  BY DEF VmTypeOK, PcOfTask, InGetVM, CallInv, UpInv, EnvPtrInv, LiveUnlessDetached, Live, Busy
<1>7. ASSUME "findClass" \notin Faults PROVE NoLostWakeup'
  BY <1>7 DEF VmTypeOK, PcOfTask, InGetVM, CallInv, NoLostWakeup, WillNotify
<1>8. QED
  BY <1>1, <1>2, <1>3, <1>4, <1>5, <1>6, <1>7

LEMMA GetVMStep ==
  ASSUME VmInv, NEW t \in Threads, GetVM(t)
  PROVE  VmInv'
<1> USE DEF VmInv, GetVM, Goto
<1>1. VmTypeOK'
  BY VmAssumption DEF VmTypeOK, Ops, Results, Pcs
<1>2. PcOfTask'
  BY DEF VmTypeOK, PcOfTask, InGetVM, Ops
<1>3. LockInv'
  BY VmAssumption DEF VmTypeOK, PcOfTask, InGetVM, LockInv, InEnv, Ops
<1>4. CallInv'
  BY DEF VmTypeOK, PcOfTask, InGetVM, CallInv, Busy, Ops
<1>5. UpInv' /\ PublishedVmIsUp'
  BY DEF VmTypeOK, PcOfTask, InGetVM, CallInv, UpInv, PublishedVmIsUp
<1>6. EnvPtrInv' /\ LiveUnlessDetached'
  BY DEF VmTypeOK, PcOfTask, InGetVM, CallInv, UpInv, EnvPtrInv, LiveUnlessDetached, Live, Busy
<1>7. ASSUME "findClass" \notin Faults PROVE NoLostWakeup'
  BY <1>7 DEF VmTypeOK, PcOfTask, InGetVM, CallInv, NoLostWakeup, WillNotify
<1>8. QED
  BY <1>1, <1>2, <1>3, <1>4, <1>5, <1>6, <1>7

LEMMA SpuriousWakeStep ==
  ASSUME VmInv, NEW t \in Threads, SpuriousWake(t)
  PROVE  VmInv'
<1> USE DEF VmInv, SpuriousWake, Goto
<1>1. VmTypeOK'
  BY VmAssumption DEF VmTypeOK, Ops, Results, Pcs
<1>2. PcOfTask'
  BY DEF VmTypeOK, PcOfTask, InGetVM, Ops
<1>3. LockInv'
  BY VmAssumption DEF VmTypeOK, PcOfTask, InGetVM, LockInv, InEnv, Ops
<1>4. CallInv'
  BY DEF VmTypeOK, PcOfTask, InGetVM, CallInv, Busy, Ops
<1>5. UpInv' /\ PublishedVmIsUp'
  BY DEF VmTypeOK, PcOfTask, InGetVM, CallInv, UpInv, PublishedVmIsUp
<1>6. EnvPtrInv' /\ LiveUnlessDetached'
  BY DEF VmTypeOK, PcOfTask, InGetVM, CallInv, UpInv, EnvPtrInv, LiveUnlessDetached, Live, Busy
<1>7. ASSUME "findClass" \notin Faults PROVE NoLostWakeup'
  BY <1>7 DEF VmTypeOK, PcOfTask, InGetVM, CallInv, NoLostWakeup, WillNotify
<1>8. QED
  BY <1>1, <1>2, <1>3, <1>4, <1>5, <1>6, <1>7

LEMMA EnvFromVMStep ==
  ASSUME VmInv, NEW t \in Threads, EnvFromVM(t)
  PROVE  VmInv'
<1> USE DEF VmInv, EnvFromVM, AfterEnv, Goto, Return
<1>1. VmTypeOK'
  <2>1. CASE t \notin attached
    BY <2>1, VmAssumption DEF VmTypeOK, Ops, Results, Pcs
  <2>2. CASE task[t] = "env" /\ t \in attached
    <3>1. /\ pc' = [pc EXCEPT ![t] = "idle"]
          /\ task' = [task EXCEPT ![t] = "none"]
          /\ result' = [result EXCEPT ![t] = "env"]
      BY <2>2
    <3>2. /\ envInstancePtr' = [envInstancePtr EXCEPT ![t] = TRUE]
          /\ UNCHANGED <<jvm, attached, GlobalVM, javaVM_mutex, loaded, calls>>
          /\ javaEnv_mutex' = NoThread
      BY <2>2
    <3>3. QED
      BY <3>1, <3>2 DEF VmTypeOK, Ops, Results, Pcs
  <2>3. CASE task[t] = "JNI_OnLoad" /\ t \in attached
    <3>1. /\ pc' = [pc EXCEPT ![t] = "idle"]
          /\ task' = [task EXCEPT ![t] = "none"]
          /\ result' = [result EXCEPT ![t] = "done"]
      BY <2>3
    <3>2. /\ envInstancePtr' = [envInstancePtr EXCEPT ![t] = TRUE]
          /\ UNCHANGED <<jvm, attached, GlobalVM, javaVM_mutex, loaded, calls>>
          /\ javaEnv_mutex' = NoThread
      BY <2>3
    <3>3. QED
      BY <3>1, <3>2 DEF VmTypeOK, Ops, Results, Pcs
  <2>4. QED
    BY <2>1, <2>2, <2>3
<1>2. PcOfTask'
  BY DEF VmTypeOK, PcOfTask, InGetVM, Ops
<1>3. LockInv'
  BY VmAssumption DEF VmTypeOK, PcOfTask, InGetVM, LockInv, InEnv, Ops
<1>4. CallInv'
  BY DEF VmTypeOK, PcOfTask, InGetVM, CallInv, Busy, Ops
<1>5. UpInv' /\ PublishedVmIsUp'
  BY DEF VmTypeOK, PcOfTask, InGetVM, CallInv, UpInv, PublishedVmIsUp
<1>6. EnvPtrInv' /\ LiveUnlessDetached'
  BY DEF VmTypeOK, PcOfTask, InGetVM, CallInv, UpInv, EnvPtrInv, LiveUnlessDetached, Live, Busy
<1>7. ASSUME "findClass" \notin Faults PROVE NoLostWakeup'
  BY <1>7 DEF VmTypeOK, PcOfTask, InGetVM, CallInv, NoLostWakeup, WillNotify
<1>8. QED
  BY <1>1, <1>2, <1>3, <1>4, <1>5, <1>6, <1>7

LEMMA AttachCheckStep ==
  ASSUME VmInv, NEW t \in Threads, AttachCheck(t)
  PROVE  VmInv'
<1> USE DEF VmInv, AttachCheck, Goto, Return
<1>1. VmTypeOK'
  BY VmAssumption DEF VmTypeOK, Ops, Results, Pcs
<1>2. PcOfTask'
  BY DEF VmTypeOK, PcOfTask, InGetVM, Ops
<1>3. LockInv'
  BY VmAssumption DEF VmTypeOK, PcOfTask, InGetVM, LockInv, InEnv, Ops
<1>4. CallInv'
  BY DEF VmTypeOK, PcOfTask, InGetVM, CallInv, Busy, Ops
<1>5. UpInv' /\ PublishedVmIsUp'
  BY DEF VmTypeOK, PcOfTask, InGetVM, CallInv, UpInv, PublishedVmIsUp
<1>6. EnvPtrInv' /\ LiveUnlessDetached'
  BY DEF VmTypeOK, PcOfTask, InGetVM, CallInv, UpInv, EnvPtrInv, LiveUnlessDetached, Live, Busy
<1>7. ASSUME "findClass" \notin Faults PROVE NoLostWakeup'
  BY <1>7 DEF VmTypeOK, PcOfTask, InGetVM, CallInv, NoLostWakeup, WillNotify
<1>8. QED
  BY <1>1, <1>2, <1>3, <1>4, <1>5, <1>6, <1>7

LEMMA AttachFromVMStep ==
  ASSUME VmInv, NEW t \in Threads, AttachFromVM(t)
  PROVE  VmInv'
<1> USE DEF VmInv, AttachFromVM, Return
<1>1. VmTypeOK'
  <2>1. CASE result' = [result EXCEPT ![t] = "true"] /\ attached' = attached \cup {t}
    BY <2>1, VmAssumption DEF VmTypeOK, Ops, Results, Pcs
  <2>2. CASE result' = [result EXCEPT ![t] = "false"] /\ attached' = attached
    BY <2>2, VmAssumption DEF VmTypeOK, Ops, Results, Pcs
  <2>3. QED
    BY <2>1, <2>2
<1>2. PcOfTask'
  BY DEF VmTypeOK, PcOfTask, InGetVM, Ops
<1>3. LockInv'
  BY VmAssumption DEF VmTypeOK, PcOfTask, InGetVM, LockInv, InEnv, Ops
<1>4. CallInv'
  BY DEF VmTypeOK, PcOfTask, InGetVM, CallInv, Busy, Ops
<1>5. UpInv' /\ PublishedVmIsUp'
  BY DEF VmTypeOK, PcOfTask, InGetVM, CallInv, UpInv, PublishedVmIsUp
<1>6. EnvPtrInv' /\ LiveUnlessDetached'
  BY DEF VmTypeOK, PcOfTask, InGetVM, CallInv, UpInv, EnvPtrInv, LiveUnlessDetached, Live, Busy
<1>7. ASSUME "findClass" \notin Faults PROVE NoLostWakeup'
  BY <1>7 DEF VmTypeOK, PcOfTask, InGetVM, CallInv, NoLostWakeup, WillNotify
<1>8. QED
  BY <1>1, <1>2, <1>3, <1>4, <1>5, <1>6, <1>7

LEMMA DetachFromVMStep ==
  ASSUME VmInv, NEW t \in Threads, DetachFromVM(t)
  PROVE  VmInv'
<1> USE DEF VmInv, DetachFromVM, LeavePointer, Return
<1>1. VmTypeOK'
  BY VmAssumption DEF VmTypeOK, Ops, Results, Pcs
<1>2. PcOfTask'
  BY DEF VmTypeOK, PcOfTask, InGetVM, Ops
<1>3. LockInv'
  BY VmAssumption DEF VmTypeOK, PcOfTask, InGetVM, LockInv, InEnv, Ops
<1>4. CallInv'
  BY DEF VmTypeOK, PcOfTask, InGetVM, CallInv, Busy, Ops
<1>5. UpInv' /\ PublishedVmIsUp'
  BY DEF VmTypeOK, PcOfTask, InGetVM, CallInv, UpInv, PublishedVmIsUp
<1>6. EnvPtrInv' /\ LiveUnlessDetached'
  BY DEF VmTypeOK, PcOfTask, InGetVM, CallInv, UpInv, EnvPtrInv, LiveUnlessDetached, Live, Busy
<1>7. ASSUME "findClass" \notin Faults PROVE NoLostWakeup'
  BY <1>7 DEF VmTypeOK, PcOfTask, InGetVM, CallInv, NoLostWakeup, WillNotify
<1>8. QED
  BY <1>1, <1>2, <1>3, <1>4, <1>5, <1>6, <1>7

LEMMA CreateVMStep ==
  ASSUME VmInv, NEW t \in Threads, CreateVM(t)
  PROVE  VmInv'
<1> USE DEF VmInv, CreateVM, Goto, Return
<1>1. VmTypeOK'
  <2>1. /\ jvm' \in {"absent", "running", "destroying", "gone"} /\ attached' \subseteq Threads
        /\ GlobalVM' \in {"null", "vm"} /\ envInstancePtr' \in [Threads -> BOOLEAN]
    BY DEF VmTypeOK
  <2>2. /\ pc' \in [Threads -> Pcs] /\ task' \in [Threads -> Ops \cup {"none"}]
        /\ result' \in [Threads -> Results]
        /\ \A u \in Threads : pc'[u] = "idle" <=> task'[u] = "none"
    BY DEF VmTypeOK, Ops, Results, Pcs
  <2> QED BY <2>1, <2>2 DEF VmTypeOK
<1>2. PcOfTask'
  BY DEF VmTypeOK, PcOfTask, InGetVM, Ops
<1>3. LockInv'
  BY VmAssumption DEF VmTypeOK, PcOfTask, InGetVM, LockInv, InEnv, Ops
<1>4. CallInv'
  BY DEF VmTypeOK, PcOfTask, InGetVM, CallInv, UpInv, Busy, Ops
<1>5. UpInv' /\ PublishedVmIsUp'
  BY DEF VmTypeOK, PcOfTask, InGetVM, CallInv, UpInv, PublishedVmIsUp
<1>6. EnvPtrInv' /\ LiveUnlessDetached'
  BY DEF VmTypeOK, PcOfTask, InGetVM, CallInv, UpInv, EnvPtrInv, LiveUnlessDetached, Live, Busy
<1>7. ASSUME "findClass" \notin Faults PROVE NoLostWakeup'
  BY <1>7 DEF VmTypeOK, PcOfTask, InGetVM, CallInv, NoLostWakeup, WillNotify
<1>8. QED
  BY <1>1, <1>2, <1>3, <1>4, <1>5, <1>6, <1>7

LEMMA FindClassStep ==
  ASSUME VmInv, NEW t \in Threads, FindClass(t)
  PROVE  VmInv'
<1> USE DEF VmInv, FindClass, Goto, Return
<1>1. VmTypeOK'
  BY VmAssumption DEF VmTypeOK, Ops, Results, Pcs
<1>2. PcOfTask'
  BY DEF VmTypeOK, PcOfTask, InGetVM, Ops
<1>3. LockInv'
  BY VmAssumption DEF VmTypeOK, PcOfTask, InGetVM, LockInv, InEnv, Ops
<1>4. CallInv'
  BY DEF VmTypeOK, PcOfTask, InGetVM, CallInv, Busy, Ops
<1>5. UpInv' /\ PublishedVmIsUp'
  BY DEF VmTypeOK, PcOfTask, InGetVM, CallInv, UpInv, PublishedVmIsUp
<1>6. EnvPtrInv' /\ LiveUnlessDetached'
  BY DEF VmTypeOK, PcOfTask, InGetVM, CallInv, UpInv, EnvPtrInv, LiveUnlessDetached, Live, Busy
<1>7. ASSUME "findClass" \notin Faults PROVE NoLostWakeup'
  BY <1>7 DEF VmTypeOK, PcOfTask, InGetVM, CallInv, NoLostWakeup, WillNotify, Ops
<1>8. QED
  BY <1>1, <1>2, <1>3, <1>4, <1>5, <1>6, <1>7

LEMMA SetVMStep ==
  ASSUME VmInv, NEW t \in Threads, SetVM(t)
  PROVE  VmInv'
<1> USE DEF VmInv, SetVM, Goto
<1>1. VmTypeOK'
  BY VmAssumption DEF VmTypeOK, Ops, Results, Pcs
<1>2. PcOfTask'
  BY DEF VmTypeOK, PcOfTask, InGetVM, Ops
<1>3. LockInv'
  BY VmAssumption DEF VmTypeOK, PcOfTask, InGetVM, LockInv, InEnv, Ops
<1>4. CallInv'
  BY DEF VmTypeOK, PcOfTask, InGetVM, CallInv, Busy, Ops
<1>5. UpInv' /\ PublishedVmIsUp'
  BY DEF VmTypeOK, PcOfTask, InGetVM, CallInv, UpInv, PublishedVmIsUp, Ops
<1>6. EnvPtrInv' /\ LiveUnlessDetached'
  BY DEF VmTypeOK, PcOfTask, InGetVM, CallInv, UpInv, EnvPtrInv, LiveUnlessDetached, Live, Busy
<1>7. ASSUME "findClass" \notin Faults PROVE NoLostWakeup'
  BY <1>7 DEF VmTypeOK, PcOfTask, InGetVM, CallInv, NoLostWakeup, WillNotify
<1>8. QED
  BY <1>1, <1>2, <1>3, <1>4, <1>5, <1>6, <1>7

LEMMA NotifyAllStep ==
  ASSUME VmInv, NEW t \in Threads, NotifyAll(t)
  PROVE  VmInv'
<1> USE DEF VmInv, NotifyAll, Woken
<1>1. VmTypeOK'
  <2>1. Woken \in [Threads -> Pcs]
    BY DEF VmTypeOK, Pcs
  <2>2. CASE task[t] = "createVM"
    <3>1. /\ pc' = [Woken EXCEPT ![t] = "idle"]
          /\ task' = [task EXCEPT ![t] = "none"]
          /\ result' = [result EXCEPT ![t] = "true"]
      BY <2>2
    <3>2. \A s \in Threads : pc'[s] = "idle" <=> task'[s] = "none"
      BY <2>1, <3>1 DEF VmTypeOK
    <3>3. QED
      BY <2>1, <3>1, <3>2 DEF VmTypeOK, Pcs, Results
  <2>3. CASE task[t] = "JNI_OnLoad"
    <3>1. pc' = [Woken EXCEPT ![t] = "env"] /\ UNCHANGED <<task, result>>
      BY <2>3
    <3>2. \A s \in Threads : pc'[s] = "idle" <=> task'[s] = "none"
      BY <2>1, <2>3, <3>1 DEF VmTypeOK
    <3>3. QED
      BY <2>1, <3>1, <3>2 DEF VmTypeOK, Pcs
  <2>4. QED
    BY <2>2, <2>3
<1>2. PcOfTask'
  BY DEF VmTypeOK, PcOfTask, InGetVM, Ops
<1>3. LockInv'
  BY VmAssumption DEF VmTypeOK, PcOfTask, InGetVM, LockInv, InEnv, Ops
<1>4. CallInv'
  BY DEF VmTypeOK, PcOfTask, InGetVM, CallInv, Busy, Ops
<1>5. UpInv' /\ PublishedVmIsUp'
  BY DEF VmTypeOK, PcOfTask, InGetVM, CallInv, UpInv, PublishedVmIsUp
<1>6. EnvPtrInv' /\ LiveUnlessDetached'
  BY DEF VmTypeOK, PcOfTask, InGetVM, CallInv, UpInv, EnvPtrInv, LiveUnlessDetached, Live, Busy, Ops
<1>7. ASSUME "findClass" \notin Faults PROVE NoLostWakeup'
  BY <1>7 DEF VmTypeOK, PcOfTask, InGetVM, CallInv, NoLostWakeup, WillNotify, Ops
<1>8. QED
  BY <1>1, <1>2, <1>3, <1>4, <1>5, <1>6, <1>7

LEMMA DestroyVMStep ==
  ASSUME VmInv, NEW t \in Threads, DestroyVM(t)
  PROVE  VmInv'
<1> USE DEF VmInv, DestroyVM, Goto, Return
<1>1. VmTypeOK'
  BY VmAssumption DEF VmTypeOK, Ops, Results, Pcs
<1>2. PcOfTask'
  BY DEF VmTypeOK, PcOfTask, InGetVM, Ops
<1>3. LockInv'
  BY VmAssumption DEF VmTypeOK, PcOfTask, InGetVM, LockInv, InEnv, Ops
<1>4. CallInv'
  BY DEF VmTypeOK, PcOfTask, InGetVM, CallInv, Busy, Ops
<1>5. UpInv' /\ PublishedVmIsUp'
  BY DEF VmTypeOK, PcOfTask, InGetVM, CallInv, UpInv, PublishedVmIsUp
<1>6. EnvPtrInv' /\ LiveUnlessDetached'
  BY DEF VmTypeOK, PcOfTask, InGetVM, CallInv, UpInv, EnvPtrInv, LiveUnlessDetached, Live, Busy
<1>7. ASSUME "findClass" \notin Faults PROVE NoLostWakeup'
  BY <1>7 DEF VmTypeOK, PcOfTask, InGetVM, CallInv, NoLostWakeup, WillNotify
<1>8. QED
  BY <1>1, <1>2, <1>3, <1>4, <1>5, <1>6, <1>7

LEMMA DestroyReturnsStep ==
  ASSUME VmInv, NEW t \in Threads, DestroyReturns(t)
  PROVE  VmInv'
<1> USE DEF VmInv, DestroyReturns, Return
<1>1. VmTypeOK'
  BY VmAssumption DEF VmTypeOK, Ops, Results, Pcs
<1>2. PcOfTask'
  BY DEF VmTypeOK, PcOfTask, InGetVM, Ops
<1>3. LockInv'
  BY VmAssumption DEF VmTypeOK, PcOfTask, InGetVM, LockInv, InEnv, Ops
<1>4. CallInv'
  BY DEF VmTypeOK, PcOfTask, InGetVM, CallInv, Busy, Ops
<1>5. UpInv' /\ PublishedVmIsUp'
  BY DEF VmTypeOK, PcOfTask, InGetVM, CallInv, UpInv, PublishedVmIsUp
<1>6. EnvPtrInv' /\ LiveUnlessDetached'
  BY DEF VmTypeOK, PcOfTask, InGetVM, CallInv, UpInv, EnvPtrInv, LiveUnlessDetached, Live, Busy
<1>7. ASSUME "findClass" \notin Faults PROVE NoLostWakeup'
  BY <1>7 DEF VmTypeOK, PcOfTask, InGetVM, CallInv, NoLostWakeup, WillNotify
<1>8. QED
  BY <1>1, <1>2, <1>3, <1>4, <1>5, <1>6, <1>7

LEMMA JavaThreadStartStep ==
  ASSUME VmInv, NEW t \in Threads, JavaThreadStart(t)
  PROVE  VmInv'
<1> USE DEF VmInv, JavaThreadStart
<1>1. VmTypeOK'
  BY VmAssumption DEF VmTypeOK, Ops, Results, Pcs
<1>2. PcOfTask'
  BY DEF VmTypeOK, PcOfTask, InGetVM, Ops
<1>3. LockInv'
  BY VmAssumption DEF VmTypeOK, PcOfTask, InGetVM, LockInv, InEnv, Ops
<1>4. CallInv'
  BY DEF VmTypeOK, PcOfTask, InGetVM, CallInv, Busy, Ops
<1>5. UpInv' /\ PublishedVmIsUp'
  BY DEF VmTypeOK, PcOfTask, InGetVM, CallInv, UpInv, PublishedVmIsUp
<1>6. EnvPtrInv' /\ LiveUnlessDetached'
  BY DEF VmTypeOK, PcOfTask, InGetVM, CallInv, UpInv, EnvPtrInv, LiveUnlessDetached, Live, Busy
<1>7. ASSUME "findClass" \notin Faults PROVE NoLostWakeup'
  BY <1>7 DEF VmTypeOK, PcOfTask, InGetVM, CallInv, NoLostWakeup, WillNotify
<1>8. QED
  BY <1>1, <1>2, <1>3, <1>4, <1>5, <1>6, <1>7

LEMMA JavaThreadExitStep ==
  ASSUME VmInv, NEW t \in Threads, JavaThreadExit(t)
  PROVE  VmInv'
<1> USE DEF VmInv, JavaThreadExit, LeavePointer
<1>1. VmTypeOK'
  BY VmAssumption DEF VmTypeOK, Ops, Results, Pcs
<1>2. PcOfTask'
  BY DEF VmTypeOK, PcOfTask, InGetVM, Ops
<1>3. LockInv'
  BY VmAssumption DEF VmTypeOK, PcOfTask, InGetVM, LockInv, InEnv, Ops
<1>4. CallInv'
  BY DEF VmTypeOK, PcOfTask, InGetVM, CallInv, Busy, Ops
<1>5. UpInv' /\ PublishedVmIsUp'
  BY DEF VmTypeOK, PcOfTask, InGetVM, CallInv, UpInv, PublishedVmIsUp
<1>6. EnvPtrInv' /\ LiveUnlessDetached'
  BY DEF VmTypeOK, PcOfTask, InGetVM, CallInv, UpInv, EnvPtrInv, LiveUnlessDetached, Live, Busy
<1>7. ASSUME "findClass" \notin Faults PROVE NoLostWakeup'
  BY <1>7 DEF VmTypeOK, PcOfTask, InGetVM, CallInv, NoLostWakeup, WillNotify
<1>8. QED
  BY <1>1, <1>2, <1>3, <1>4, <1>5, <1>6, <1>7

-----------------------------------------------------------------------------
LEMMA VmInvInit ==
  ASSUME VmInit
  PROVE  VmInv
<1>1. VmTypeOK
  <2>1. attached \subseteq Threads
    BY DEF VmInit, Threads
  <2>2. QED
    BY <2>1 DEF VmInit, VmTypeOK, Results, Pcs, Ops
<1>2. PcOfTask /\ CallInv
  BY DEF VmInit, PcOfTask, CallInv, Busy
<1>3. LockInv
  BY VmAssumption DEF VmInit, LockInv, InEnv
<1>4. UpInv /\ PublishedVmIsUp /\ NoLostWakeup
  BY DEF VmInit, UpInv, PublishedVmIsUp, NoLostWakeup
<1>5. EnvPtrInv /\ LiveUnlessDetached
  BY DEF VmInit, EnvPtrInv, LiveUnlessDetached
<1>6. QED
  BY <1>1, <1>2, <1>3, <1>4, <1>5 DEF VmInv

LEMMA VmInvNext ==
  ASSUME VmInv, [VmNext]_vars
  PROVE  VmInv'
<1>1. ASSUME NEW t \in Threads, NEW op \in Ops, Call(t, op) PROVE VmInv'
  BY <1>1, CallStep
<1>2. ASSUME NEW t \in Threads, Step(t) PROVE VmInv'
  BY <1>2, EnvCachedStep, EnvUncachedStep, GetVMStep, EnvFromVMStep, AttachCheckStep,
     AttachFromVMStep, DetachFromVMStep, CreateVMStep, FindClassStep, SetVMStep,
     NotifyAllStep, DestroyVMStep, DestroyReturnsStep DEF Step
<1>3. ASSUME NEW t \in Threads, SpuriousWake(t) PROVE VmInv'
  BY <1>3, SpuriousWakeStep
<1>4. ASSUME NEW t \in Threads, JavaThreadStart(t) \/ JavaThreadExit(t) PROVE VmInv'
  BY <1>4, JavaThreadStartStep, JavaThreadExitStep
<1>5. CASE UNCHANGED vars
  BY <1>5 DEF vars, VmInv, VmTypeOK, PcOfTask, LockInv, CallInv, UpInv, PublishedVmIsUp,
     EnvPtrInv, LiveUnlessDetached, Live, NoLostWakeup, WillNotify, Busy, InEnv, InGetVM
<1>6. QED
  BY <1>1, <1>2, <1>3, <1>4, <1>5 DEF VmNext

LEMMA VmInvariance == VmSpec => []VmInv
  BY VmInvInit, VmInvNext, PTL DEF VmSpec, VmSafetySpec

(* Every variable keeps its type, and a thread is idle exactly when it is  *)
(* in no call, whatever the clients and the JVM do.                        *)
THEOREM VmTypeCorrect == VmSpec => []VmTypeOK
<1>1. VmInv => VmTypeOK
  BY DEF VmInv
<1>2. QED
  BY <1>1, VmInvariance, PTL

(* destroyVM() and createVM() never leave a pointer to a JVM that is not   *)
(* up in GlobalVM, whatever the clients and the JVM do.                    *)
THEOREM PublishedVmIsUpAlways == VmSpec => []PublishedVmIsUp
<1>1. VmInv => PublishedVmIsUp
  BY DEF VmInv
<1>2. QED
  BY <1>1, VmInvariance, PTL

(* If createVM's FindClass cannot fail, no thread is left asleep in        *)
(* getVM() by a creator or a loader that will not notify it.               *)
THEOREM NoLostWakeupAlways ==
  ASSUME "findClass" \notin Faults
  PROVE  VmSpec => []NoLostWakeup
<1>1. VmInv => NoLostWakeup
  BY DEF VmInv
<1>2. QED
  BY <1>1, VmInvariance, PTL

(* env() and attachCurrentThread() answer from a stale JNIEnv pointer only *)
(* in a thread that was detached with the pointer set, whatever the        *)
(* clients call, before and after a detach, and also when destroyVM() is   *)
(* called while other threads are attached or busy.                        *)
THEOREM LiveUnlessDetachedAlways == VmSpec => []LiveUnlessDetached
<1>1. VmInv => LiveUnlessDetached
  BY DEF VmInv
<1>2. QED
  BY <1>1, VmInvariance, PTL

-----------------------------------------------------------------------------
(* No calls wait for each other.  destroyVM() runs alone, so that nobody   *)
(* waits for javaVM_mutex.  env() is called before the VM is published     *)
(* only while JNI_OnLoad is about to publish it, so that a thread that     *)
(* keeps javaEnv_mutex while it waits is woken by somebody who does not    *)
(* need that mutex to get there.                                           *)

Loading == \E u \in Threads : task[u] = "JNI_OnLoad" /\ pc[u] = "setVM"
Notifying == \E u \in Threads : task[u] = "JNI_OnLoad" /\ pc[u] \in {"setVM", "notify"}

DestroyAlone ==
  \A d \in Threads : task[d] = "destroyVM" =>
    \A s \in Threads \ {d} : pc[s] = "idle" /\ s \notin attached

FoundInv == \A t \in Threads : pc[t] = "haveVM" => GlobalVM = "vm"

(* Who publishes the VM has done it. *)
CreatedInv == \A t \in Threads :
  /\ task[t] = "createVM" /\ pc[t] # "createVM" => GlobalVM = "vm" /\ pc[t] # "vmWait"
  /\ task[t] = "JNI_OnLoad" /\ pc[t] # "setVM" => GlobalVM = "vm" /\ pc[t] # "vmWait"

(* Who is attached before the VM is published is a thread of the JVM's.    *)
NullInv ==
  GlobalVM = "null" => /\ attached \subseteq JavaThreads
                       /\ loaded /\ attached # {} => Loading

EarlyInv ==
  GlobalVM = "null" => \A t \in Threads : task[t] = "env" =>
    Loading \/ (pc[t] = "env" /\ envInstancePtr[t])

WaitInv == \A t \in Threads : task[t] = "env" /\ pc[t] = "vmWait" => Notifying

GoInv ==
  DestroyAlone /\ FoundInv /\ CreatedInv /\ NullInv /\ EarlyInv /\ WaitInv

(* What a step of a call leaves alone. *)
OthersKept(t) == \A s \in Threads \ {t} :
  /\ task'[s] = task[s] /\ envInstancePtr'[s] = envInstancePtr[s]
  /\ pc'[s] = pc[s] \/ (pc[s] = "vmWait" /\ pc'[s] = "getVM")
  /\ s \in attached' => s \in attached

(* What it does to GlobalVM, and where it comes from and leads to. *)
Published(t) ==
  \/ GlobalVM' = GlobalVM
  \/ GlobalVM' = "vm"
  \/ GlobalVM' = "null" /\ task[t] = "destroyVM" /\ attached' = {}

GoesTo(t) ==
  /\ pc'[t] = "haveVM" => GlobalVM = "vm" /\ GlobalVM' = GlobalVM
  /\ pc'[t] = "vmWait" => pc[t] = "getVM" /\ GlobalVM = "null" /\ UNCHANGED <<GlobalVM, task>>
  /\ task'[t] = "createVM" /\ pc'[t] # "createVM" =>
       GlobalVM' = "vm" \/ (pc[t] # "createVM" /\ GlobalVM' = GlobalVM)
  /\ task'[t] = "JNI_OnLoad" /\ pc'[t] # "setVM" =>
       GlobalVM' = "vm" \/ (pc[t] # "setVM" /\ GlobalVM' = GlobalVM)
  /\ task[t] = "JNI_OnLoad" /\ pc[t] = "setVM" =>
       GlobalVM' = "vm" /\ pc'[t] = "notify" /\ task'[t] = task[t]
  /\ task[t] = "JNI_OnLoad" /\ pc[t] = "notify" => \A s \in Threads : pc'[s] # "vmWait"
  /\ task'[t] = "env" => GlobalVM' = GlobalVM /\ (pc[t] = "env" => ~envInstancePtr[t])
  /\ GlobalVM' = "null" => attached' \subseteq attached

CallTask(t) == /\ pc[t] # "idle" /\ task[t] # "none" /\ task'[t] \in {task[t], "none"}
               /\ loaded' = loaded

StepEffect(t) == OthersKept(t) /\ Published(t) /\ GoesTo(t) /\ CallTask(t)

LEMMA StepEffects ==
  ASSUME VmInv, FoundInv, NEW t \in Threads, Step(t)
  PROVE  StepEffect(t)
<1> USE DEF VmInv, VmTypeOK, PcOfTask, InGetVM, Goto, Return, StepEffect, OthersKept, Published,
            GoesTo, CallTask
<1>1. CASE EnvCached(t)
  BY <1>1 DEF EnvCached, AfterEnv
<1>2. CASE EnvUncached(t)
  BY <1>2 DEF EnvUncached
<1>3. CASE GetVM(t)
  BY <1>3 DEF GetVM
<1>4. CASE EnvFromVM(t)
  BY <1>4 DEF EnvFromVM, AfterEnv
<1>5. CASE AttachCheck(t)
  BY <1>5 DEF AttachCheck
<1>6. CASE AttachFromVM(t)
  BY <1>6 DEF AttachFromVM, FoundInv
<1>7. CASE DetachFromVM(t)
  BY <1>7 DEF DetachFromVM
<1>8. CASE CreateVM(t)
  BY <1>8 DEF CreateVM
<1>9. CASE FindClass(t)
  BY <1>9 DEF FindClass
<1>10. CASE SetVM(t)
  BY <1>10 DEF SetVM
<1>11. CASE NotifyAll(t)
  BY <1>11 DEF NotifyAll, Woken
<1>12. CASE DestroyVM(t)
  BY <1>12 DEF DestroyVM
<1>13. CASE DestroyReturns(t)
  <2>1. task[t] = "destroyVM"
    BY <1>13 DEF DestroyReturns, Ops
  <2>2. QED
    BY <1>13, <2>1 DEF DestroyReturns
<1>14. QED
  BY <1>1, <1>2, <1>3, <1>4, <1>5, <1>6, <1>7, <1>8, <1>9, <1>10, <1>11, <1>12, <1>13
     DEF Step


(* While destroyVM() runs nobody else is in a call. *)
LEMMA DestroyIsAlone ==
  ASSUME VmInv, DestroyAlone, NEW t \in Threads, task[t] = "destroyVM", NEW s \in Threads \ {t}
  PROVE  pc[s] = "idle" /\ task[s] = "none" /\ s \notin attached
BY DEF VmInv, VmTypeOK, DestroyAlone

LEMMA StepGo ==
  ASSUME VmInv, VmInv', GoInv, NEW t \in Threads, Step(t)
  PROVE  GoInv'
<1> DEFINE lost == GlobalVM = "vm" /\ GlobalVM' = "null"
<1>1. OthersKept(t) /\ Published(t) /\ GoesTo(t) /\ CallTask(t)
  BY StepEffects DEF GoInv, StepEffect
<1>2. GlobalVM \in {"null", "vm"} /\ GlobalVM' \in {"null", "vm"}
  BY DEF VmInv, VmTypeOK
<1>3. lost => /\ task[t] = "destroyVM" /\ attached' = {}
              /\ \A s \in Threads \ {t} : pc[s] = "idle" /\ task[s] = "none"
  BY <1>1, DestroyIsAlone DEF Published, GoInv
<1>4. GlobalVM' = "null" /\ ~lost => GlobalVM = "null" /\ attached' \subseteq attached
  BY <1>1, <1>2 DEF GoesTo
<1>5. DestroyAlone'
  <2> SUFFICES ASSUME NEW d \in Threads, task'[d] = "destroyVM", NEW s \in Threads \ {d}
               PROVE  pc'[s] = "idle" /\ s \notin attached'
    BY DEF DestroyAlone
  <2>1. task[d] = "destroyVM"
    BY <1>1 DEF OthersKept, CallTask
  <2>2. d = t
    BY <1>1, <2>1, DestroyIsAlone DEF CallTask, GoInv
  <2>3. pc[s] = "idle" /\ s \notin attached
    BY <2>1, DestroyIsAlone DEF GoInv
  <2>4. QED
    BY <1>1, <2>2, <2>3 DEF OthersKept
<1>6. FoundInv'
  <2> SUFFICES ASSUME NEW s \in Threads, pc'[s] = "haveVM" PROVE GlobalVM' = "vm"
    BY DEF FoundInv
  <2>1. CASE s = t
    BY <1>1, <2>1 DEF GoesTo
  <2>2. CASE s # t
    <3>1. pc[s] = "haveVM"
      BY <1>1, <2>2 DEF OthersKept
    <3>2. QED
      BY <1>2, <1>3, <2>2, <3>1 DEF GoInv, FoundInv
  <2>3. QED
    BY <2>1, <2>2
<1>7. CreatedInv'
  <2> DEFINE done(s) == \/ task[s] = "createVM" /\ pc[s] # "createVM"
                        \/ task[s] = "JNI_OnLoad" /\ pc[s] # "setVM"
  <2> SUFFICES ASSUME NEW s \in Threads, done(s)' PROVE GlobalVM' = "vm" /\ pc'[s] # "vmWait"
    BY DEF CreatedInv
  <2>1. CASE s = t
    <3>1. GlobalVM' = "vm" \/ (done(t) /\ GlobalVM' = GlobalVM)
      BY <1>1, <2>1 DEF GoesTo, CallTask
    <3>2. GlobalVM' = "vm"
      BY <2>1, <3>1 DEF GoInv, CreatedInv
    <3>3. pc'[t] # "vmWait"
      BY <1>1, <3>2 DEF GoesTo
    <3>4. QED
      BY <2>1, <3>2, <3>3
  <2>2. CASE s # t
    <3>1. /\ task'[s] = task[s]
          /\ pc'[s] = pc[s] \/ (pc[s] = "vmWait" /\ pc'[s] = "getVM")
      BY <1>1, <2>2 DEF OthersKept
    <3>2. done(s)
      BY <3>1
    <3>3. GlobalVM = "vm" /\ pc[s] # "vmWait"
      BY <3>2 DEF GoInv, CreatedInv
    <3>4. GlobalVM' = "vm"
      BY <1>2, <1>3, <2>2, <3>2, <3>3
    <3>5. QED
      BY <3>1, <3>3, <3>4
  <2>3. QED
    BY <2>1, <2>2
<1>8. Loading => Loading' \/ GlobalVM' = "vm"
  <2> SUFFICES ASSUME NEW u \in Threads, task[u] = "JNI_OnLoad" /\ pc[u] = "setVM"
               PROVE  Loading' \/ GlobalVM' = "vm"
    BY DEF Loading
  <2>1. CASE u = t
    BY <1>1, <2>1 DEF GoesTo
  <2>2. CASE u # t
    BY <1>1, <2>2 DEF OthersKept, Loading
  <2>3. QED
    BY <2>1, <2>2
<1>9. NullInv'
  <2>1. CASE lost
    BY <1>3, <2>1 DEF NullInv
  <2>2. CASE ~lost
    BY <1>1, <1>4, <1>8, <2>2 DEF GoInv, NullInv, CallTask
  <2>3. QED
    BY <2>1, <2>2
<1>10. EarlyInv'
  <2> SUFFICES ASSUME GlobalVM' = "null", NEW s \in Threads, task'[s] = "env"
               PROVE  Loading' \/ (pc'[s] = "env" /\ envInstancePtr'[s])
    BY DEF EarlyInv
  <2>1. CASE s = t
    <3>1. GlobalVM = "null" /\ task[t] = "env" /\ (pc[t] = "env" => ~envInstancePtr[t])
      BY <1>1, <2>1 DEF GoesTo, CallTask
    <3>2. Loading
      BY <3>1 DEF GoInv, EarlyInv
    <3>3. QED
      BY <1>8, <3>2
  <2>2. CASE s # t
    <3>1. task[s] = "env" /\ envInstancePtr'[s] = envInstancePtr[s]
          /\ (pc[s] = "env" => pc'[s] = "env")
      BY <1>1, <2>2 DEF OthersKept
    <3>2. GlobalVM = "null"
      BY <1>2, <1>3, <2>2, <3>1
    <3>3. QED
      BY <1>8, <3>1, <3>2 DEF GoInv, EarlyInv
  <2>3. QED
    BY <2>1, <2>2
<1>11. WaitInv'
  <2> SUFFICES ASSUME NEW s \in Threads, task'[s] = "env", pc'[s] = "vmWait"
               PROVE  Notifying'
    BY DEF WaitInv
  <2>1. CASE s = t
    <3>1. GlobalVM' = "null"
      BY <1>1, <2>1 DEF GoesTo
    <3>2. Loading'
      BY <1>10, <2>1, <3>1 DEF EarlyInv
    <3>3. QED
      BY <3>2 DEF Loading, Notifying
  <2>2. CASE s # t
    <3>1. task[s] = "env" /\ pc[s] = "vmWait"
      BY <1>1, <2>2 DEF OthersKept
    <3>2. PICK u \in Threads : task[u] = "JNI_OnLoad" /\ pc[u] \in {"setVM", "notify"}
      BY <3>1 DEF GoInv, WaitInv, Notifying
    <3>3. CASE u # t
      BY <1>1, <3>2, <3>3 DEF OthersKept, Notifying
    <3>4. CASE u = t
      BY <1>1, <3>2, <3>4, <2>2 DEF GoesTo, Notifying
    <3>5. QED
      BY <3>3, <3>4
  <2>3. QED
    BY <2>1, <2>2
<1>12. QED
  BY <1>5, <1>6, <1>7, <1>9, <1>10, <1>11 DEF GoInv


LEMMA SpuriousGo ==
  ASSUME VmInv, GoInv, NEW t \in Threads, SpuriousWake(t)
  PROVE  GoInv'
<1> USE DEF GoInv, SpuriousWake, Goto
<1>1. DestroyAlone' /\ FoundInv' /\ CreatedInv'
  BY DEF VmInv, VmTypeOK, DestroyAlone, FoundInv, CreatedInv
<1>2. Loading <=> Loading'
  BY DEF VmInv, VmTypeOK, Loading
<1>3. NullInv' /\ EarlyInv'
  BY <1>2 DEF VmInv, VmTypeOK, NullInv, EarlyInv
<1>4. WaitInv'
  BY DEF VmInv, VmTypeOK, WaitInv, Notifying
<1>5. QED
  BY <1>1, <1>3, <1>4

LEMMA JavaThreadGo ==
  ASSUME VmInv, GoInv, NEW t \in Threads, JavaThreadStart(t) \/ JavaThreadExit(t)
  PROVE  GoInv'
<1>1. /\ UNCHANGED <<GlobalVM, task, pc, loaded, envInstancePtr>>
      /\ t \in JavaThreads /\ attached' \subseteq attached \cup {t}
      /\ attached' # {} => attached # {}
      /\ JavaThreadStart(t) => \E s \in attached : pc[s] = "idle"
  BY DEF JavaThreadStart, JavaThreadExit
<1>2. DestroyAlone'
  <2> SUFFICES ASSUME NEW d \in Threads, task[d] = "destroyVM", NEW s \in Threads \ {d}
               PROVE  pc[s] = "idle" /\ s \notin attached'
    BY <1>1 DEF DestroyAlone
  <2>1. pc[s] = "idle" /\ s \notin attached
    BY DestroyIsAlone DEF GoInv
  <2>2. ~JavaThreadStart(t)
    <3> SUFFICES ASSUME NEW w \in attached, pc[w] = "idle" PROVE FALSE
      BY <1>1
    <3>1. w \in Threads
      BY DEF VmInv, VmTypeOK
    <3>2. w = d
      BY <3>1, DestroyIsAlone DEF GoInv
    <3>3. QED
      BY <3>2 DEF VmInv, VmTypeOK
  <2>3. s \notin attached'
    BY <2>1, <2>2 DEF JavaThreadExit
  <2>4. QED
    BY <2>1, <2>3
<1>3. FoundInv' /\ CreatedInv' /\ EarlyInv' /\ WaitInv'
  BY <1>1 DEF GoInv, FoundInv, CreatedInv, EarlyInv, WaitInv, Loading, Notifying
<1>4. NullInv'
  BY <1>1 DEF GoInv, NullInv, Loading
<1>5. QED
  BY <1>2, <1>3, <1>4 DEF GoInv

(* A call that starts, of a client or of the wrapper. *)
Starting(t, op) ==
  /\ pc[t] = "idle" /\ op \in Ops
  /\ task' = [task EXCEPT ![t] = op]
  /\ pc' = [pc EXCEPT ![t] = Entry[op]]
  /\ loaded' = (loaded \/ op = "JNI_OnLoad")
  /\ UNCHANGED <<attached, GlobalVM, envInstancePtr>>

LEMMA StartingGo ==
  ASSUME VmInv, GoInv, NEW t \in Threads, NEW op, Starting(t, op),
         \A s \in Threads : task[s] # "destroyVM",
         op = "destroyVM" => \A s \in Threads \ {t} : pc[s] = "idle" /\ s \notin attached,
         op = "env" /\ GlobalVM = "null" => Loading \/ envInstancePtr[t]
  PROVE  GoInv'
<1> USE DEF GoInv, Starting
<1>1. Entry[op] = "env" <=> op = "env"
  BY DEF Entry, Ops
<1>2. Entry[op] \notin {"idle", "haveVM", "vmWait", "notify"}
      /\ (op = "createVM" => Entry[op] = "createVM")
      /\ (op = "JNI_OnLoad" => Entry[op] = "setVM")
  BY DEF Entry, Ops
<1>3. /\ task'[t] = op /\ pc'[t] = Entry[op] /\ task[t] = "none"
      /\ \A s \in Threads \ {t} : task'[s] = task[s] /\ pc'[s] = pc[s]
  BY DEF VmInv, VmTypeOK
<1> HIDE DEF Starting
<1>4. /\ UNCHANGED <<attached, GlobalVM, envInstancePtr>>
      /\ loaded' = (loaded \/ op = "JNI_OnLoad")
  BY DEF Starting
<1>5. DestroyAlone'
  BY <1>3, <1>4 DEF DestroyAlone
<1>6. FoundInv' /\ CreatedInv'
  BY <1>2, <1>3, <1>4 DEF FoundInv, CreatedInv
<1>7. (Loading => Loading') /\ (Notifying => Notifying')
  BY <1>3 DEF Loading, Notifying
<1>8. op = "JNI_OnLoad" => Loading'
  BY <1>2, <1>3 DEF Loading
<1>9. NullInv'
  BY <1>4, <1>7, <1>8 DEF NullInv
<1>10. EarlyInv'
  <2> SUFFICES ASSUME GlobalVM = "null", NEW s \in Threads, task'[s] = "env"
               PROVE  Loading' \/ (pc'[s] = "env" /\ envInstancePtr'[s])
    BY <1>4 DEF EarlyInv
  <2>1. CASE s = t
    BY <1>1, <1>3, <1>4, <1>7, <2>1
  <2>2. CASE s # t
    BY <1>3, <1>4, <1>7, <2>2 DEF EarlyInv
  <2>3. QED
    BY <2>1, <2>2
<1>11. WaitInv'
  BY <1>2, <1>3, <1>7 DEF WaitInv
<1>12. QED
  BY <1>5, <1>6, <1>9, <1>10, <1>11

LEMMA CallGo ==
  ASSUME {"vmFirst", "quiescentDestroy"} \subseteq Contract,
         VmInv, GoInv, NEW t \in Threads, NEW op \in Ops, Call(t, op)
  PROVE  GoInv'
<1>1. Starting(t, op) /\ MayCall(t, op)
  BY DEF Call, Starting
<1>2. /\ \A s \in Threads : task[s] # "destroyVM"
      /\ op = "destroyVM" => \A s \in Threads \ {t} : pc[s] = "idle" /\ s \notin attached
  BY <1>1 DEF MayCall
<1>3. op = "env" /\ GlobalVM = "null" => Loading
  <2> SUFFICES ASSUME op = "env", GlobalVM = "null" PROVE Loading
    OBVIOUS
  <2>1. t \in attached /\ (t \in JavaThreads => loaded)
    BY <1>1 DEF MayCall
  <2>2. QED
    BY <2>1 DEF GoInv, NullInv
<1>4. QED
  BY <1>1, <1>2, <1>3, StartingGo

LEMMA GoInit == VmInit => GoInv
<1> SUFFICES ASSUME VmInit PROVE GoInv
  OBVIOUS
<1>1. \A t \in Threads : task[t] = "none" /\ pc[t] = "idle"
  BY DEF VmInit
<1>2. attached \subseteq JavaThreads /\ ~loaded
  BY DEF VmInit
<1>3. QED
  BY <1>1, <1>2 DEF GoInv, DestroyAlone, FoundInv, CreatedInv, NullInv, EarlyInv, WaitInv

LEMMA GoNext ==
  ASSUME {"vmFirst", "quiescentDestroy"} \subseteq Contract
  PROVE  VmInv /\ GoInv /\ [VmNext]_vars => GoInv'
<1> SUFFICES ASSUME VmInv, GoInv, [VmNext]_vars PROVE GoInv'
  OBVIOUS
<1>1. VmInv'
  BY VmInvNext
<1>2. CASE UNCHANGED vars
  BY <1>2 DEF vars, GoInv, DestroyAlone, FoundInv, CreatedInv, NullInv, EarlyInv, WaitInv,
              Loading, Notifying
<1>3. CASE VmNext
  BY <1>1, <1>3, CallGo, StepGo, SpuriousGo, JavaThreadGo DEF VmNext
<1>4. QED
  BY <1>2, <1>3

-----------------------------------------------------------------------------
(* What the invariant means for the circle of waiting. *)

LEMMA NobodyHasTheVM ==
  ASSUME VmInv, GoInv, NEW t \in Threads, pc[t] # "idle", task[t] # "destroyVM"
  PROVE  javaVM_mutex \notin Threads
<1> SUFFICES ASSUME javaVM_mutex \in Threads PROVE FALSE
  OBVIOUS
<1> DEFINE d == javaVM_mutex
<1>1. pc[d] = "destroyWait"
  BY DEF VmInv, LockInv
<1>2. task[d] = "destroyVM"
  BY <1>1 DEF VmInv, VmTypeOK, PcOfTask, InGetVM, Ops
<1>3. QED
  BY <1>2, DestroyIsAlone DEF GoInv

(* Everybody but who waits for javaEnv_mutex or for a notification.        *)
LEMMA OthersGoOn ==
  ASSUME VmInv, GoInv, NEW t \in Threads, pc[t] \notin {"idle", "vmWait"},
         pc[t] = "env" => javaEnv_mutex \notin Threads
  PROVE  GoesOn(t)
<1>1. CASE task[t] = "destroyVM"
  <2>1. \A s \in Threads \ {t} : pc[s] = "idle" /\ s \notin attached
    BY <1>1, DestroyIsAlone DEF GoInv
  <2>2. pc[t] \in {"destroyVM", "destroyWait"}
    BY <1>1 DEF VmInv, PcOfTask
  <2>3. pc[t] = "destroyVM" => javaVM_mutex \notin Threads
    <3>1. \A s \in Threads : pc[s] = "destroyWait" => s = t
      BY <2>1
    <3>2. QED
      BY <3>1 DEF VmInv, LockInv
  <2>4. QED
    BY <2>1, <2>2, <2>3 DEF GoesOn, Awaits
<1>2. CASE task[t] # "destroyVM"
  <2>1. javaVM_mutex \notin Threads
    BY <1>2, NobodyHasTheVM
  <2>2. pc[t] # "destroyWait"
    BY <2>1 DEF VmInv, LockInv
  <2>3. QED
    BY <2>1, <2>2 DEF GoesOn, Awaits
<1>3. QED
  BY <1>1, <1>2

(* The loader of the library is not kept from publishing and notifying.    *)
LEMMA LoaderGoesOn ==
  ASSUME VmInv, GoInv, Notifying
  PROVE  \E u \in Threads : pc[u] \in {"setVM", "notify"} /\ GoesOn(u)
BY OthersGoOn DEF Notifying

(* Who owns javaEnv_mutex is in getVM(). *)
LEMMA OwnerInGetVM ==
  ASSUME VmInv, GoInv, NEW v \in Threads, javaEnv_mutex = v
  PROVE  /\ pc[v] # "vmWait" => GoesOn(v)
         /\ pc[v] = "vmWait" => Notifying
<1>1. InEnv(v)
  BY DEF VmInv, LockInv
<1>2. pc[v] # "vmWait" => GoesOn(v)
  BY <1>1, OthersGoOn DEF InEnv, InGetVM
<1>3. pc[v] = "vmWait" => task[v] = "env"
  BY <1>1 DEF InEnv, GoInv, CreatedInv
<1>4. QED
  BY <1>2, <1>3 DEF GoInv, WaitInv

LEMMA GoingOn ==
  ASSUME VmInv, GoInv, "findClass" \notin Faults
  PROVE  CallsGoOn
<1> SUFFICES ASSUME GlobalVM = "vm", NEW t \in Threads, pc[t] # "idle"
             PROVE  \E u \in {t} \cup Awaits(t) \cup UNION {Awaits(v) : v \in Awaits(t)} : GoesOn(u)
  BY DEF CallsGoOn
<1>1. CASE pc[t] = "vmWait"
  <2>1. \A u \in Threads : WillNotify(u) \/ pc[u] = "setVM" => u \in Awaits(t)
    BY <1>1 DEF Awaits
  <2>2. CASE Notifying
    BY <2>1, <2>2, LoaderGoesOn DEF WillNotify
  <2>3. CASE ~Notifying
    <3>1. PICK u \in Threads : WillNotify(u)
      BY <1>1 DEF VmInv, NoLostWakeup
    <3>2. u \in Awaits(t) /\ pc[u] \notin {"idle", "vmWait"}
      BY <2>1, <3>1 DEF WillNotify
    <3>3. CASE pc[u] = "env" /\ javaEnv_mutex \in Threads
      <4>1. javaEnv_mutex \in Awaits(u)
        BY <3>3 DEF Awaits
      <4>2. GoesOn(javaEnv_mutex)
        BY <2>3, <3>3, OwnerInGetVM
      <4>3. QED
        BY <3>2, <4>1, <4>2
    <3>4. CASE ~(pc[u] = "env" /\ javaEnv_mutex \in Threads)
      BY <3>2, <3>4, OthersGoOn
    <3>5. QED
      BY <3>3, <3>4
  <2>4. QED
    BY <2>2, <2>3
<1>2. CASE pc[t] = "env" /\ javaEnv_mutex \in Threads
  <2> DEFINE v == javaEnv_mutex
  <2>1. v \in Awaits(t)
    BY <1>2 DEF Awaits
  <2>2. CASE pc[v] # "vmWait"
    BY <1>2, <2>1, <2>2, OwnerInGetVM
  <2>3. CASE pc[v] = "vmWait"
    <3>1. PICK u \in Threads : pc[u] \in {"setVM", "notify"} /\ GoesOn(u)
      BY <1>2, <2>3, OwnerInGetVM, LoaderGoesOn
    <3>2. u \in Awaits(v)
      BY <2>3, <3>1 DEF Awaits, WillNotify
    <3>3. QED
      BY <2>1, <3>1, <3>2
  <2>4. QED
    BY <2>2, <2>3
<1>3. CASE pc[t] # "vmWait" /\ ~(pc[t] = "env" /\ javaEnv_mutex \in Threads)
  BY <1>3, OthersGoOn
<1>4. QED
  BY <1>1, <1>2, <1>3

(* If env() is called when the thread is attached or the VM published, if  *)
(* destroyVM() runs alone and createVM's FindClass does not fail, no calls *)
(* wait for each other while there is a VM (CallsGoOn), for any number of  *)
(* threads and calls, and with createVM or attaching failing at will.      *)
THEOREM CallsGoOnAlways ==
  ASSUME {"vmFirst", "quiescentDestroy"} \subseteq Contract, "findClass" \notin Faults
  PROVE  VmSpec => []CallsGoOn
<1>1. VmInv /\ GoInv => CallsGoOn
  BY GoingOn
<1>2. VmInv /\ GoInv /\ [VmNext]_vars => GoInv'
  BY GoNext
<1>3. QED
  BY <1>1, <1>2, GoInit, VmInvariance, PTL DEF VmSpec, VmSafetySpec
=============================================================================
