------------------------ MODULE ThreadWrapperProofs ------------------------
(***************************************************************************)
(* Proofs about ThreadWrapper, composed with VmLifecycle: for any sets of  *)
(* threads and workers, any number of calls and any faults.                *)
(*                                                                         *)
(* VmInv stays an invariant.  ArgsInv follows args through the stages;     *)
(* TaskOfStage says which library call a stage makes, and that the wrapper *)
(* calls in a thread that was not detached before; AttachInv says who is   *)
(* attached, and that doDetachThread says so, too.  WrapperGoInv is for    *)
(* CallsGoOn.                                                              *)
(***************************************************************************)
EXTENDS ThreadWrapper, VmLifecycleProofs

ArgsInv == \A t \in Workers :
  /\ args[t] # "misused"
  /\ stage[t] = "new" => outcome[t] = "none"
  /\ stage[t] \in {"attach", "env", "bind"} => args[t] = "live" /\ outcome[t] = "none"
  /\ stage[t] = "routine" => args[t] = "freed" /\ outcome[t] = "none"
  /\ stage[t] = "back" => args[t] = "freed"
  /\ outcome[t] \in {"returned", "caught"} => args[t] = "freed"

TaskOfStage == \A t \in Workers :
  /\ stage[t] = "new" /\ calls[t] = 0 =>
       task[t] = "none" /\ result[t] = "none" /\ t \notin attached /\ t \notin stale
  /\ stage[t] = "attach" => task[t] \in {"none", "attachCurrentThread"}
  /\ stage[t] = "env" => task[t] \in {"none", "env"}
  /\ stage[t] = "routine" => task[t] \in {"none", "env", "attachCurrentThread"}
  /\ stage[t] = "detach" => task[t] \in {"none", "detachCurrentThread"}
  /\ stage[t] \in {"bind", "back", "leave", "over"} => task[t] = "none"
  /\ stage[t] \notin {"new", "detach", "over"} => t \notin stale

AttachInv == \A t \in Workers :
  /\ stage[t] = "attach" /\ t \in attached => result[t] = "true"
  /\ stage[t] = "env" /\ t \in attached => doDetachThread[t]
  /\ stage[t] \in {"bind", "routine", "back"} => t \in attached /\ doDetachThread[t]
  /\ stage[t] = "leave" => doDetachThread[t] \/ outcome[t] = "failed"
  /\ stage[t] = "detach" /\ task[t] = "none" => t \notin attached
  /\ stage[t] = "over" => t \notin attached \/ outcome[t] = "failed"

WrapperInv ==
  /\ VmInv
  /\ WrapperTypeOK
  /\ ArgsInv
  /\ TaskOfStage
  /\ AttachInv

-----------------------------------------------------------------------------
(* What steps of VmLifecycle do, as far as the wrapper can tell. *)

LEMMA SubCallStep ==
  ASSUME VmInv, NEW t \in Threads,
         NEW op \in {"env", "attachCurrentThread", "detachCurrentThread"},
         pc[t] = "idle", SubCall(t, op)
  PROVE  VmInv'
<1> USE DEF VmInv, SubCall, Entry
<1>1. VmTypeOK'
  BY VmAssumption DEF VmTypeOK, Ops, Results, Pcs
<1>2. PcOfTask'
  BY DEF VmTypeOK, PcOfTask, InGetVM, Ops
<1>3. LockInv'
  BY VmAssumption DEF VmTypeOK, PcOfTask, InGetVM, LockInv, InEnv, Ops
<1>4. CallInv'
  BY DEF VmTypeOK, PcOfTask, InGetVM, CallInv, Busy, Ops
<1>5. UpInv' /\ PublishedVmIsUp'
  BY DEF VmTypeOK, PcOfTask, InGetVM, CallInv, UpInv, PublishedVmIsUp
<1>6. EnvPtrInv' /\ LiveUnlessDetached'
  BY DEF VmTypeOK, PcOfTask, InGetVM, CallInv, UpInv, EnvPtrInv, LiveUnlessDetached, Live, Busy
<1>7. ASSUME "findClass" \notin Faults PROVE NoLostWakeup'
  BY <1>7 DEF VmTypeOK, PcOfTask, InGetVM, CallInv, NoLostWakeup, WillNotify
<1>8. QED
  BY <1>1, <1>2, <1>3, <1>4, <1>5, <1>6, <1>7

(* A step of one thread neither attaches nor detaches another one, and     *)
(* leaves its call and result alone: destroyVM() ends the JVM only when    *)
(* nobody else is attached.                                                *)
LEMMA StepOfOthers ==
  ASSUME VmInv, NEW t \in Threads, NEW s \in Threads \ {t}, Step(t)
  PROVE  /\ task'[s] = task[s]
         /\ result'[s] = result[s]
         /\ s \in attached' <=> s \in attached
         /\ s \in stale' <=> s \in stale
<1> USE DEF VmInv, VmTypeOK, Goto, Return
<1>1. CASE EnvCached(t)
  BY <1>1 DEF EnvCached, AfterEnv
<1>2. CASE EnvUncached(t)
  BY <1>2 DEF EnvUncached
<1>3. CASE GetVM(t)
  BY <1>3 DEF GetVM
<1>4. CASE EnvFromVM(t)
  BY <1>4 DEF EnvFromVM, AfterEnv
<1>5. CASE AttachCheck(t)
  BY <1>5 DEF AttachCheck
<1>6. CASE AttachFromVM(t)
  BY <1>6 DEF AttachFromVM
<1>7. CASE DetachFromVM(t)
  BY <1>7 DEF DetachFromVM, LeavePointer
<1>8. CASE CreateVM(t)
  BY <1>8 DEF CreateVM, UpInv
<1>9. CASE FindClass(t)
  BY <1>9 DEF FindClass
<1>10. CASE SetVM(t)
  BY <1>10 DEF SetVM
<1>11. CASE NotifyAll(t)
  BY <1>11 DEF NotifyAll
<1>12. CASE DestroyVM(t)
  BY <1>12 DEF DestroyVM
<1>13. CASE DestroyReturns(t)
  BY <1>13 DEF DestroyReturns
<1>14. QED
  BY <1>1, <1>2, <1>3, <1>4, <1>5, <1>6, <1>7, <1>8, <1>9, <1>10, <1>11, <1>12, <1>13
     DEF Step

(* What a thread's own steps make of its call and attachment, for the      *)
(* calls the wrapper makes.                                                *)
LEMMA StepInCall ==
  ASSUME VmInv, NEW t \in Threads, Step(t),
         task[t] \in {"none", "env", "attachCurrentThread", "detachCurrentThread"}
  PROVE  /\ task[t] # "none"
         /\ task'[t] \in {task[t], "none"}
         /\ task'[t] # "none" => result'[t] = result[t] /\ attached' = attached /\ stale' = stale
         /\ task[t] = "env" => attached' = attached /\ stale' = stale
         /\ task[t] = "attachCurrentThread" =>
              /\ stale' = stale
              /\ t \in attached => t \in attached'
              /\ t \in attached' => t \in attached \/ result'[t] = "true"
         /\ task[t] = "detachCurrentThread" /\ task'[t] = "none" => t \notin attached'
<1> USE DEF VmInv, VmTypeOK, PcOfTask, InGetVM, CallInv, Busy, Goto, Return
<1>1. CASE EnvCached(t)
  BY <1>1 DEF EnvCached, AfterEnv
<1>2. CASE EnvUncached(t)
  BY <1>2 DEF EnvUncached
<1>3. CASE GetVM(t)
  BY <1>3 DEF GetVM
<1>4. CASE EnvFromVM(t)
  BY <1>4 DEF EnvFromVM, AfterEnv
<1>5. CASE AttachCheck(t)
  BY <1>5 DEF AttachCheck
<1>6. CASE AttachFromVM(t)
  BY <1>6 DEF AttachFromVM
<1>7. CASE DetachFromVM(t)
  BY <1>7 DEF DetachFromVM, LeavePointer
<1>8. CASE CreateVM(t)
  BY <1>8 DEF CreateVM
<1>9. CASE FindClass(t)
  BY <1>9 DEF FindClass
<1>10. CASE SetVM(t)
  BY <1>10 DEF SetVM
<1>11. CASE NotifyAll(t)
  BY <1>11 DEF NotifyAll
<1>12. CASE DestroyVM(t)
  BY <1>12 DEF DestroyVM
<1>13. CASE DestroyReturns(t)
  BY <1>13 DEF DestroyReturns
<1>14. QED
  BY <1>1, <1>2, <1>3, <1>4, <1>5, <1>6, <1>7, <1>8, <1>9, <1>10, <1>11, <1>12, <1>13
     DEF Step


-----------------------------------------------------------------------------
(* Each action of the wrapper. *)

LEMMA ClientCallStep ==
  ASSUME WrapperInv, NEW t \in Threads, NEW op \in Ops, ClientCall(t, op)
  PROVE  WrapperInv'
<1> USE DEF WrapperInv
<1>0. /\ Call(t, op) /\ UNCHANGED wrapperVars
      /\ t \in Workers => \/ stage[t] = "new"
                          \/ stage[t] = "routine" /\ op \in {"env", "attachCurrentThread"}
  BY Zenon DEF ClientCall
<1>1. VmInv'
  BY <1>0, VmInvNext DEF VmNext
<1>2. WrapperTypeOK' /\ ArgsInv'
  BY <1>0 DEF wrapperVars, WrapperTypeOK, ArgsInv
<1>3. /\ task' = [task EXCEPT ![t] = op]
      /\ result' = [result EXCEPT ![t] = "none"]
      /\ calls' = [calls EXCEPT ![t] = @ + 1]
      /\ attached' = attached /\ stale' = stale /\ pc[t] = "idle"
  BY <1>0 DEF Call
<1>4. TaskOfStage'
  BY <1>0, <1>3 DEF wrapperVars, WrapperTypeOK, TaskOfStage, VmInv, VmTypeOK, Ops
<1>5. AttachInv'
  BY <1>0, <1>3 DEF wrapperVars, WrapperTypeOK, AttachInv, VmInv, VmTypeOK
<1>6. QED
  BY <1>1, <1>2, <1>4, <1>5

LEMMA LibraryStepStep ==
  ASSUME WrapperInv, NEW t \in Threads, LibraryStep(t)
  PROVE  WrapperInv'
<1> USE DEF WrapperInv
<1>0. /\ UNCHANGED <<stage, args, doDetachThread, outcome, packageBase, bound>>
      /\ Step(t) \/ UNCHANGED vars
      /\ initialized' \in BOOLEAN /\ notFound' \in {notFound, "initialize"}
  BY DEF LibraryStep, WrapperTypeOK
<1>1. VmInv'
  BY <1>0, VmInvNext DEF VmNext
<1>2. WrapperTypeOK' /\ ArgsInv'
  BY <1>0 DEF WrapperTypeOK, ArgsInv
<1>3. ASSUME Step(t)
      PROVE  TaskOfStage' /\ AttachInv'
  <2>1. calls' = calls
    BY <1>3 DEF Step, EnvCached, EnvUncached, GetVM, EnvFromVM, AttachCheck, AttachFromVM,
       DetachFromVM, CreateVM, FindClass, SetVM, NotifyAll, DestroyVM, DestroyReturns
  <2>2. \A s \in Threads \ {t} :
          /\ task'[s] = task[s] /\ result'[s] = result[s]
          /\ s \in attached' <=> s \in attached
          /\ s \in stale' <=> s \in stale
    BY <1>3, StepOfOthers
  <2>3. task[t] \in {"none", "env", "attachCurrentThread", "detachCurrentThread"} =>
          /\ task[t] # "none"
          /\ task'[t] \in {task[t], "none"}
          /\ task'[t] # "none" => result'[t] = result[t] /\ attached' = attached /\ stale' = stale
          /\ task[t] = "env" => attached' = attached /\ stale' = stale
          /\ task[t] = "attachCurrentThread" =>
               /\ stale' = stale
               /\ t \in attached => t \in attached'
               /\ t \in attached' => t \in attached \/ result'[t] = "true"
          /\ task[t] = "detachCurrentThread" /\ task'[t] = "none" => t \notin attached'
    BY <1>3, StepInCall
  <2>4. TaskOfStage'
    <3> SUFFICES ASSUME NEW s \in Workers PROVE TaskOfStage!(s)'
      BY DEF TaskOfStage
    <3>1. s \in Threads
      BY WrapperAssumption DEF Threads
    <3>2. CASE s = t
      BY <1>0, <2>1, <2>3, <3>1, <3>2 DEF TaskOfStage, WrapperTypeOK, Stages
    <3>3. CASE s # t
      BY <1>0, <2>1, <2>2, <3>1, <3>3 DEF TaskOfStage
    <3>4. QED
      BY <3>2, <3>3
  <2>5. AttachInv'
    <3> SUFFICES ASSUME NEW s \in Workers PROVE AttachInv!(s)'
      BY DEF AttachInv
    <3>1. s \in Threads
      BY WrapperAssumption DEF Threads
    <3>2. CASE s = t
      BY <1>0, <2>3, <2>5, <3>1, <3>2 DEF AttachInv, TaskOfStage, WrapperTypeOK, Stages,
         VmInv, VmTypeOK, CallInv, Busy
    <3>3. CASE s # t
      BY <1>0, <2>2, <2>5, <3>1, <3>3 DEF AttachInv
    <3>4. QED
      BY <3>2, <3>3
  <2>6. QED
    BY <2>4, <2>5
<1>4. ASSUME UNCHANGED vars
      PROVE  TaskOfStage' /\ AttachInv'
  BY <1>0, <1>4 DEF vars, TaskOfStage, AttachInv
<1>5. QED
  BY <1>0, <1>1, <1>2, <1>3, <1>4

LEMMA OtherStepStep ==
  ASSUME WrapperInv, OtherStep
  PROVE  WrapperInv'
<1> USE DEF WrapperInv
<1> PICK t \in Threads : SpuriousWake(t) \/ JavaThreadStart(t) \/ JavaThreadExit(t)
  BY DEF OtherStep
<1>0. UNCHANGED wrapperVars
  BY DEF OtherStep
<1>1. VmInv'
  BY VmInvNext DEF VmNext
<1>2. WrapperTypeOK' /\ ArgsInv'
  BY <1>0 DEF wrapperVars, WrapperTypeOK, ArgsInv
<1>3. /\ UNCHANGED <<task, calls>>
      /\ \A s \in Workers : /\ result'[s] = result[s]
                            /\ s \in attached' <=> s \in attached
                            /\ s \in stale' <=> s \in stale
  BY VmAssumption, WrapperAssumption
     DEF SpuriousWake, Goto, JavaThreadStart, JavaThreadExit, LeavePointer, VmInv, VmTypeOK, Threads
<1>4. TaskOfStage'
  BY <1>0, <1>3 DEF wrapperVars, TaskOfStage
<1>5. AttachInv'
  BY <1>0, <1>3 DEF wrapperVars, AttachInv
<1>6. QED
  BY <1>1, <1>2, <1>4, <1>5

LEMMA LazyLookupStep ==
  ASSUME WrapperInv, NEW t \in Threads, LazyLookup(t)
  PROVE  WrapperInv'
<1> USE DEF WrapperInv, LazyLookup
<1>1. VmInv'
  BY VmInvNext
<1>2. WrapperTypeOK' /\ ArgsInv' /\ TaskOfStage'
  BY DEF vars, WrapperTypeOK, ArgsInv, TaskOfStage
<1>3. AttachInv'
  BY DEF vars, AttachInv
<1>4. QED
  BY <1>1, <1>2, <1>3

LEMMA SetPackageBaseStep ==
  ASSUME WrapperInv, NEW base \in Bases, SetPackageBase(base)
  PROVE  WrapperInv'
<1> USE DEF WrapperInv, SetPackageBase
<1>1. VmInv'
  BY VmInvNext
<1>2. WrapperTypeOK' /\ ArgsInv' /\ TaskOfStage'
  BY WrapperAssumption DEF vars, WrapperTypeOK, ArgsInv, TaskOfStage
<1>3. AttachInv'
  BY DEF vars, AttachInv
<1>4. QED
  BY <1>1, <1>2, <1>3

LEMMA StartThreadStep ==
  ASSUME WrapperInv, NEW t \in Workers, StartThread(t)
  PROVE  WrapperInv'
<1> USE DEF WrapperInv, StartThread, At, Advance
<1>0. t \in Threads /\ task[t] = "none" /\ result[t] = "none" /\ t \notin attached
  BY WrapperAssumption DEF Threads, TaskOfStage
<1>1. VmInv'
  BY <1>0, SubCallStep
<1>2. WrapperTypeOK' /\ ArgsInv'
  BY DEF WrapperTypeOK, Stages, ArgsInv
<1>3. /\ task' = [task EXCEPT ![t] = "attachCurrentThread"]
      /\ result' = [result EXCEPT ![t] = "none"]
      /\ UNCHANGED <<attached, calls, stale>>
  BY DEF SubCall
<1>4. TaskOfStage'
  BY <1>0, <1>3, WrapperAssumption DEF TaskOfStage, WrapperTypeOK, VmInv, VmTypeOK, Threads
<1>5. AttachInv'
  BY <1>0, <1>3, WrapperAssumption
     DEF AttachInv, WrapperTypeOK, VmInv, VmTypeOK, Threads
<1>6. QED
  BY <1>1, <1>2, <1>4, <1>5

LEMMA AttachedStep ==
  ASSUME WrapperInv, NEW t \in Workers, Attached(t)
  PROVE  WrapperInv'
<1> USE DEF WrapperInv, Attached, At, Advance
<1>0. t \in Threads /\ task[t] = "none"
  BY WrapperAssumption DEF Threads, TaskOfStage, VmInv, VmTypeOK
<1>1. VmInv'
  BY <1>0, SubCallStep
<1>2. args' = args
  BY DEF ArgsInv, Touched
<1>3. WrapperTypeOK' /\ ArgsInv'
  BY <1>2 DEF WrapperTypeOK, Stages, ArgsInv
<1>4. /\ task' = [task EXCEPT ![t] = "env"]
      /\ result' = [result EXCEPT ![t] = "none"]
      /\ UNCHANGED <<attached, calls, stale>>
  BY DEF SubCall
<1>5. TaskOfStage'
  BY <1>0, <1>4, WrapperAssumption DEF TaskOfStage, WrapperTypeOK, VmInv, VmTypeOK, Threads
<1>6. AttachInv'
  BY <1>0, <1>4, <1>6, WrapperAssumption
     DEF AttachInv, WrapperTypeOK, VmInv, VmTypeOK, Threads
<1>7. QED
  BY <1>1, <1>3, <1>5, <1>6

LEMMA LookupStep ==
  ASSUME WrapperInv, NEW t \in Workers, Lookup(t)
  PROVE  WrapperInv'
<1> USE DEF WrapperInv, Lookup, At, Advance, Resolve
<1>0. t \in Threads /\ task[t] = "none"
  BY WrapperAssumption DEF Threads, VmInv, VmTypeOK
<1>1. VmInv'
  BY VmInvNext
<1>2. WrapperTypeOK' /\ ArgsInv' /\ TaskOfStage'
  <2>1. CASE bound \/ SimpleNameFound
    <3>1. stage' = [stage EXCEPT ![t] = "bind"] /\ bound' = TRUE /\ notFound' = notFound
      BY <2>1
    <3>2. WrapperTypeOK' /\ ArgsInv'
      BY <3>1 DEF WrapperTypeOK, Stages, ArgsInv
    <3>3. TaskOfStage'
      BY <1>0, <3>1 DEF vars, WrapperTypeOK, TaskOfStage
    <3>4. QED
      BY <3>2, <3>3
  <2>2. CASE ~(bound \/ SimpleNameFound)
    BY <2>2 DEF vars, WrapperTypeOK, ArgsInv, TaskOfStage
  <2>3. QED
    BY <2>1, <2>2
<1>3. AttachInv'
  <2>1. t \in attached /\ doDetachThread[t]
    BY <1>0 DEF VmInv, LiveUnlessDetached, Live, TaskOfStage, AttachInv
  <2>2. QED
    BY <2>1 DEF vars, WrapperTypeOK, AttachInv
<1>4. QED
  BY <1>1, <1>2, <1>3

LEMMA CallFailsStep ==
  ASSUME WrapperInv, NEW t \in Workers, CallFails(t)
  PROVE  WrapperInv'
<1> USE DEF WrapperInv, CallFails, At, Advance, Fails
<1>0. t \in Threads /\ task[t] = "none"
  BY WrapperAssumption DEF Threads, TaskOfStage, VmInv, VmTypeOK
<1>1. VmInv'
  BY VmInvNext
<1>2. WrapperTypeOK' /\ ArgsInv'
  BY DEF WrapperTypeOK, Stages, ArgsInv
<1>3. TaskOfStage'
  BY <1>0 DEF vars, WrapperTypeOK, TaskOfStage
<1>4. AttachInv'
  BY DEF vars, WrapperTypeOK, AttachInv
<1>5. QED
  BY <1>1, <1>2, <1>3, <1>4

LEMMA NativeThreadWrapperStep ==
  ASSUME WrapperInv, NEW t \in Workers, NativeThreadWrapper(t)
  PROVE  WrapperInv'
<1> USE DEF WrapperInv, NativeThreadWrapper, At, Advance
<1>0. t \in Threads /\ task[t] = "none" /\ args[t] = "live"
  BY WrapperAssumption DEF Threads, VmInv, VmTypeOK, ArgsInv
<1>1. VmInv'
  BY VmInvNext
<1>2. WrapperTypeOK' /\ ArgsInv'
  BY <1>0 DEF WrapperTypeOK, Stages, ArgsInv
<1>3. TaskOfStage'
  BY <1>0 DEF vars, WrapperTypeOK, TaskOfStage
<1>4. AttachInv'
  BY DEF vars, WrapperTypeOK, AttachInv
<1>5. QED
  BY <1>1, <1>2, <1>3, <1>4

LEMMA RoutineEndsStep ==
  ASSUME WrapperInv, NEW t \in Workers, RoutineEnds(t)
  PROVE  WrapperInv'
<1> USE DEF WrapperInv, RoutineEnds, At, Advance
<1>0. t \in Threads /\ task[t] = "none"
  BY WrapperAssumption DEF Threads, VmInv, VmTypeOK
<1>1. VmInv'
  BY VmInvNext
<1>2. PICK o \in {"returned", "caught"} : outcome' = [outcome EXCEPT ![t] = o]
  OBVIOUS
<1>3. WrapperTypeOK' /\ ArgsInv'
  BY <1>2 DEF WrapperTypeOK, Stages, ArgsInv
<1>4. TaskOfStage'
  BY <1>0 DEF vars, WrapperTypeOK, TaskOfStage
<1>5. AttachInv'
  BY <1>2 DEF vars, WrapperTypeOK, AttachInv
<1>6. QED
  BY <1>1, <1>3, <1>4, <1>5

LEMMA BindReturnsStep ==
  ASSUME WrapperInv, NEW t \in Workers, BindReturns(t)
  PROVE  WrapperInv'
<1> USE DEF WrapperInv, BindReturns, At, Advance
<1>0. t \in Threads /\ task[t] = "none"
  BY WrapperAssumption DEF Threads, VmInv, VmTypeOK
<1>1. VmInv'
  BY VmInvNext
<1>2. WrapperTypeOK' /\ ArgsInv'
  BY DEF WrapperTypeOK, Stages, ArgsInv
<1>3. TaskOfStage'
  BY <1>0 DEF vars, WrapperTypeOK, TaskOfStage
<1>4. AttachInv'
  BY DEF vars, WrapperTypeOK, AttachInv
<1>5. QED
  BY <1>1, <1>2, <1>3, <1>4

LEMMA LeaveStep ==
  ASSUME WrapperInv, NEW t \in Workers, Leave(t)
  PROVE  WrapperInv'
<1> USE DEF WrapperInv, Leave, At, Advance
<1>0. t \in Threads /\ task[t] = "none"
  BY WrapperAssumption DEF Threads, TaskOfStage, VmInv, VmTypeOK
<1>1. CASE doDetachThread[t]
  <2>1. VmInv'
    BY <1>0, <1>1, SubCallStep
  <2>2. WrapperTypeOK' /\ ArgsInv'
    BY <1>1 DEF WrapperTypeOK, Stages, ArgsInv
  <2>3. /\ task' = [task EXCEPT ![t] = "detachCurrentThread"]
        /\ result' = [result EXCEPT ![t] = "none"]
        /\ UNCHANGED <<attached, calls, stale>>
    BY <1>1 DEF SubCall
  <2>4. TaskOfStage'
    BY <1>0, <1>1, <2>3, WrapperAssumption
       DEF TaskOfStage, WrapperTypeOK, VmInv, VmTypeOK, Threads
  <2>5. AttachInv'
    BY <1>0, <1>1, <2>3, WrapperAssumption
       DEF AttachInv, WrapperTypeOK, VmInv, VmTypeOK, Threads
  <2>6. QED
    BY <2>1, <2>2, <2>4, <2>5
<1>2. CASE ~doDetachThread[t]
  <2>1. VmInv'
    BY <1>2, VmInvNext
  <2>2. WrapperTypeOK' /\ ArgsInv'
    BY <1>2 DEF WrapperTypeOK, Stages, ArgsInv
  <2>3. TaskOfStage'
    BY <1>0, <1>2 DEF vars, WrapperTypeOK, TaskOfStage
  <2>4. AttachInv'
    BY <1>2 DEF vars, WrapperTypeOK, AttachInv
  <2>5. QED
    BY <2>1, <2>2, <2>3, <2>4
<1>3. QED
  BY <1>1, <1>2

LEMMA DetachedStep ==
  ASSUME WrapperInv, NEW t \in Workers, Detached(t)
  PROVE  WrapperInv'
<1> USE DEF WrapperInv, Detached, At, Advance
<1>0. t \in Threads /\ task[t] = "none"
  BY WrapperAssumption DEF Threads, VmInv, VmTypeOK
<1>1. VmInv'
  BY VmInvNext
<1>2. WrapperTypeOK' /\ ArgsInv'
  BY DEF WrapperTypeOK, Stages, ArgsInv
<1>3. TaskOfStage'
  BY <1>0 DEF vars, WrapperTypeOK, TaskOfStage
<1>4. AttachInv'
  BY <1>0 DEF vars, WrapperTypeOK, AttachInv
<1>5. QED
  BY <1>1, <1>2, <1>3, <1>4

-----------------------------------------------------------------------------
LEMMA WrapperInvInit ==
  ASSUME WrapperInit
  PROVE  WrapperInv
<1>1. VmInv
  BY VmInvInit DEF WrapperInit
<1>2. WrapperTypeOK /\ ArgsInv /\ AttachInv
  BY DEF WrapperInit, WrapperTypeOK, Stages, ArgsInv, AttachInv
<1>3. TaskOfStage
  BY VmAssumption, WrapperAssumption DEF WrapperInit, VmInit, TaskOfStage, Threads
<1>4. QED
  BY <1>1, <1>2, <1>3 DEF WrapperInv

LEMMA WrapperInvNext ==
  ASSUME WrapperInv, [WrapperNext]_allVars
  PROVE  WrapperInv'
<1>1. ASSUME NEW t \in Threads, NEW op \in Ops, ClientCall(t, op) PROVE WrapperInv'
  BY <1>1, ClientCallStep
<1>2. ASSUME NEW t \in Threads, LibraryStep(t) \/ LazyLookup(t) PROVE WrapperInv'
  BY <1>2, LibraryStepStep, LazyLookupStep
<1>3. ASSUME NEW t \in Workers, StartThread(t) \/ RoutineEnds(t) \/ WrapperStep(t)
      PROVE  WrapperInv'
  BY <1>3, StartThreadStep, RoutineEndsStep, AttachedStep, LookupStep, CallFailsStep,
     NativeThreadWrapperStep, BindReturnsStep, LeaveStep, DetachedStep DEF WrapperStep
<1>4. ASSUME NEW base \in Bases, SetPackageBase(base) PROVE WrapperInv'
  BY <1>4, SetPackageBaseStep
<1>5. CASE OtherStep
  BY <1>5, OtherStepStep
<1>6. CASE UNCHANGED allVars
  <2>1. UNCHANGED vars /\ UNCHANGED wrapperVars
    BY <1>6 DEF allVars
  <2>2. VmInv'
    BY <2>1, VmInvNext DEF WrapperInv
  <2>3. WrapperTypeOK' /\ ArgsInv' /\ TaskOfStage'
    BY <2>1 DEF vars, wrapperVars, WrapperInv, WrapperTypeOK, ArgsInv, TaskOfStage
  <2>4. AttachInv'
    BY <2>1 DEF vars, wrapperVars, WrapperInv, AttachInv
  <2>5. QED
    BY <2>2, <2>3, <2>4 DEF WrapperInv
<1>7. QED
  BY <1>1, <1>2, <1>3, <1>4, <1>5, <1>6 DEF WrapperNext

LEMMA WrapperInvariance == WrapperSpec => []WrapperInv
  BY WrapperInvInit, WrapperInvNext, PTL DEF WrapperSpec

(* The variables of the wrapper have their types, and what VmLifecycle     *)
(* promises of the lifecycle's variables it promises with wrapped threads, *)
(* too: types, and a published VM that is up.                              *)
THEOREM WrapperTypeCorrect == WrapperSpec => [](WrapperTypeOK /\ VmTypeOK /\ PublishedVmIsUp)
<1>1. WrapperInv => WrapperTypeOK /\ VmTypeOK /\ PublishedVmIsUp
  BY DEF WrapperInv, VmInv
<1>2. QED
  BY <1>1, WrapperInvariance, PTL

(* The arguments of a thread are freed once and not read after that,       *)
(* whichever calls fail, and whatever the clients do.                      *)
THEOREM ArgsFreedOnceAlways == WrapperSpec => []ArgsFreedOnce
<1>1. WrapperInv => ArgsFreedOnce
  BY DEF WrapperInv, ArgsInv, ArgsFreedOnce
<1>2. QED
  BY <1>1, WrapperInvariance, PTL

(* The routine of a wrapped thread runs attached, on a JVM that is up,     *)
(* whatever the clients call and also when destroyVM is called at any time.*)
THEOREM RoutineHasVmAlways == WrapperSpec => []RoutineHasVm
<1>1. WrapperInv => RoutineHasVm
  BY DEF WrapperInv, VmInv, AttachInv, UpInv, RoutineHasVm
<1>2. QED
  BY <1>1, WrapperInvariance, PTL

(* A thread that the wrapper attached is not left attached, unless the     *)
(* call of bindToAppClassLoader failed.                                    *)
THEOREM AttachmentReturnedAlways == WrapperSpec => []AttachmentReturned
<1>1. WrapperInv => AttachmentReturned
  BY DEF WrapperInv, AttachInv, AttachmentReturned
<1>2. QED
  BY <1>1, WrapperInvariance, PTL

(* Whoever sleeps in getVM() although there is a VM is going to be woken,  *)
(* also if it sleeps there for javaThreadWrapper.                          *)
THEOREM WrappedNoLostWakeup ==
  ASSUME "findClass" \notin Faults
  PROVE  WrapperSpec => []NoLostWakeup
<1>1. WrapperInv => NoLostWakeup
  BY DEF WrapperInv, VmInv
<1>2. QED
  BY <1>1, WrapperInvariance, PTL

(* Neither the wrapper's calls nor those of clients and routines answer    *)
(* from a stale pointer, but in a thread that was detached with it.        *)
THEOREM WrappedLiveUnlessDetached == WrapperSpec => []LiveUnlessDetached
<1>1. WrapperInv => LiveUnlessDetached
  BY DEF WrapperInv, VmInv
<1>2. QED
  BY <1>1, WrapperInvariance, PTL

-----------------------------------------------------------------------------
(* No calls wait for each other (GoInv), with wrapped threads, too.  The   *)
(* env() of a wrapped thread is not called by the rule vmFirst, but after  *)
(* attachCurrentThread(), which returned because the VM is published, or   *)
(* from the JNIEnv pointer of the thread (AttachKnown).                    *)

NoneStarted == \A d \in Threads, t \in Workers : task[d] = "destroyVM" => ~Started(t)

AttachKnown == \A t \in Workers :
  stage[t] = "attach" /\ pc[t] = "idle" => GlobalVM = "vm" \/ envInstancePtr[t]

WrapperGoInv == GoInv /\ NoneStarted /\ AttachKnown

(* How attachCurrentThread() returns. *)
LEMMA AttachReturns ==
  ASSUME VmInv, FoundInv, NEW t \in Threads, Step(t),
         task[t] = "attachCurrentThread", pc'[t] = "idle"
  PROVE  GlobalVM' = "vm" \/ envInstancePtr'[t]
<1> USE DEF VmInv, VmTypeOK, PcOfTask, InGetVM
<1>1. pc[t] \in {"attach", "getVM", "vmWait", "haveVM"}
  BY DEF Ops
<1>2. CASE pc[t] = "attach"
  BY <1>2 DEF Step, EnvCached, EnvUncached, GetVM, EnvFromVM, AttachCheck, AttachFromVM,
     DetachFromVM, CreateVM, FindClass, SetVM, NotifyAll, DestroyVM, DestroyReturns, Goto
<1>3. CASE pc[t] \in {"getVM", "vmWait"}
  BY <1>3 DEF Step, EnvCached, EnvUncached, GetVM, EnvFromVM, AttachCheck, AttachFromVM,
     DetachFromVM, CreateVM, FindClass, SetVM, NotifyAll, DestroyVM, DestroyReturns, Goto
<1>4. CASE pc[t] = "haveVM"
  <2>1. GlobalVM = "vm"
    BY <1>4 DEF FoundInv
  <2>2. AttachFromVM(t)
    BY <1>4 DEF Step, EnvCached, EnvUncached, GetVM, EnvFromVM, AttachCheck,
       DetachFromVM, CreateVM, FindClass, SetVM, NotifyAll, DestroyVM, DestroyReturns
  <2>3. QED
    BY <2>1, <2>2 DEF AttachFromVM
<1>5. QED
  BY <1>1, <1>2, <1>3, <1>4

LEMMA ClientCallGo ==
  ASSUME {"vmFirst", "quiescentDestroy"} \subseteq Contract,
         WrapperInv, WrapperGoInv, NEW t \in Threads, NEW op \in Ops, ClientCall(t, op)
  PROVE  WrapperGoInv'
<1> USE DEF WrapperInv, WrapperGoInv
<1>1. Call(t, op) /\ UNCHANGED wrapperVars
  BY DEF ClientCall
<1>2. GoInv'
  BY <1>1, CallGo
<1>3. op = "destroyVM" => \A s \in Workers : ~Started(s)
  BY DEF ClientCall
<1>4. /\ task' = [task EXCEPT ![t] = op] /\ pc' = [pc EXCEPT ![t] = Entry[op]]
      /\ UNCHANGED <<GlobalVM, envInstancePtr>>
  BY <1>1 DEF Call
<1>5. Entry[op] # "idle"
  BY DEF Entry, Ops
<1>6. NoneStarted'
  BY <1>1, <1>3, <1>4 DEF wrapperVars, NoneStarted, Started, VmInv, VmTypeOK
<1>7. AttachKnown'
  BY <1>1, <1>4, <1>5, WrapperAssumption
     DEF wrapperVars, AttachKnown, VmInv, VmTypeOK, Threads
<1>8. QED
  BY <1>2, <1>6, <1>7

LEMMA LibraryStepGo ==
  ASSUME WrapperInv, WrapperInv', WrapperGoInv, NEW t \in Threads, LibraryStep(t)
  PROVE  WrapperGoInv'
<1> USE DEF WrapperInv, WrapperGoInv
<1>1. stage' = stage /\ (Step(t) \/ UNCHANGED vars)
  BY DEF LibraryStep
<1>2. CASE UNCHANGED vars
  BY <1>1, <1>2 DEF vars, GoInv, DestroyAlone, FoundInv, CreatedInv, NullInv, EarlyInv,
     WaitInv, Loading, Notifying, NoneStarted, Started, AttachKnown
<1>3. CASE Step(t)
  <2>1. GoInv'
    BY <1>3, StepGo
  <2>2. OthersKept(t) /\ Published(t) /\ CallTask(t)
    BY <1>3, StepEffects DEF GoInv, StepEffect
  <2>3. NoneStarted'
    BY <1>1, <2>2 DEF OthersKept, CallTask, NoneStarted, Started
  <2>4. ASSUME NEW s \in Workers, stage[s] = "attach", pc'[s] = "idle"
        PROVE  GlobalVM' = "vm" \/ envInstancePtr'[s]
    <3>1. s \in Threads /\ task[t] # "destroyVM"
      BY <2>4, WrapperAssumption DEF Threads, NoneStarted, Started
    <3>2. CASE s = t
      <4>1. task[t] = "attachCurrentThread"
        BY <2>2, <2>4, <3>2 DEF TaskOfStage, CallTask
      <4>2. QED
        BY <1>3, <2>4, <3>2, <4>1, AttachReturns DEF GoInv
    <3>3. CASE s # t
      <4>1. pc[s] = "idle" /\ envInstancePtr'[s] = envInstancePtr[s]
        BY <2>2, <2>4, <3>1, <3>3 DEF OthersKept
      <4>2. GlobalVM = "vm" => GlobalVM' = "vm"
        BY <2>2, <3>1 DEF Published
      <4>3. QED
        BY <2>4, <4>1, <4>2 DEF AttachKnown
    <3>4. QED
      BY <3>2, <3>3
  <2>5. AttachKnown'
    BY <1>1, <2>4 DEF AttachKnown
  <2>6. QED
    BY <2>1, <2>3, <2>5
<1>4. QED
  BY <1>1, <1>2, <1>3

LEMMA OtherStepGo ==
  ASSUME WrapperInv, WrapperGoInv, OtherStep
  PROVE  WrapperGoInv'
<1> USE DEF WrapperInv, WrapperGoInv
<1> PICK t \in Threads : SpuriousWake(t) \/ JavaThreadStart(t) \/ JavaThreadExit(t)
  BY DEF OtherStep
<1>1. GoInv'
  BY SpuriousGo, JavaThreadGo
<1>2. /\ UNCHANGED wrapperVars /\ UNCHANGED <<task, GlobalVM, envInstancePtr>>
      /\ \A s \in Threads : pc'[s] = "idle" => pc[s] = "idle"
  BY DEF OtherStep, SpuriousWake, Goto, JavaThreadStart, JavaThreadExit, VmInv, VmTypeOK
<1>3. NoneStarted' /\ AttachKnown'
  BY <1>2, WrapperAssumption DEF wrapperVars, NoneStarted, Started, AttachKnown, Threads
<1>4. QED
  BY <1>1, <1>3

(* A call that javaThreadWrapper makes. *)
LEMMA SubCallGo ==
  ASSUME WrapperInv, WrapperGoInv, NEW t \in Workers,
         NEW op \in {"env", "attachCurrentThread", "detachCurrentThread"},
         pc[t] = "idle", SubCall(t, op),
         \A s \in Threads : task[s] # "destroyVM",
         op = "env" => stage[t] = "attach",
         \A s \in Workers \ {t} : stage'[s] = stage[s]
  PROVE  WrapperGoInv'
<1> USE DEF WrapperInv, WrapperGoInv
<1>1. t \in Threads
  BY WrapperAssumption DEF Threads
<1>2. Starting(t, op)
  <2>1. op \in Ops /\ op # "JNI_OnLoad" /\ loaded \in BOOLEAN
    BY DEF Ops, VmInv, VmTypeOK
  <2>2. QED
    BY <2>1 DEF SubCall, Starting
<1>3. op = "env" /\ GlobalVM = "null" => envInstancePtr[t]
  BY DEF AttachKnown
<1>4. GoInv'
  BY <1>1, <1>2, <1>3, StartingGo
<1>5. Entry[op] # "idle" /\ op # "destroyVM"
  BY DEF Entry
<1>6. /\ task' = [task EXCEPT ![t] = op] /\ pc' = [pc EXCEPT ![t] = Entry[op]]
      /\ UNCHANGED <<GlobalVM, envInstancePtr>>
  BY DEF SubCall
<1>7. NoneStarted'
  BY <1>1, <1>5, <1>6 DEF NoneStarted, VmInv, VmTypeOK
<1>8. AttachKnown'
  BY <1>1, <1>5, <1>6, WrapperAssumption DEF AttachKnown, VmInv, VmTypeOK, Threads
<1>9. QED
  BY <1>4, <1>7, <1>8

(* A step of the wrapper that makes no call. *)
LEMMA StageGo ==
  ASSUME WrapperGoInv, UNCHANGED vars,
         \A s \in Workers : stage'[s] = stage[s] \/ (Started(s) /\ stage'[s] # "attach")
  PROVE  WrapperGoInv'
<1> USE DEF WrapperGoInv, vars
<1>1. GoInv'
  BY DEF GoInv, DestroyAlone, FoundInv, CreatedInv, NullInv, EarlyInv, WaitInv, Loading,
     Notifying
<1>2. NoneStarted' /\ AttachKnown'
  BY DEF NoneStarted, Started, AttachKnown
<1>3. QED
  BY <1>1, <1>2

LEMMA WorkerGo ==
  ASSUME "quiescentDestroy" \in Contract, WrapperInv, WrapperGoInv, NEW t \in Workers,
         StartThread(t) \/ RoutineEnds(t) \/ WrapperStep(t)
  PROVE  WrapperGoInv'
<1> USE DEF At, Advance
<1>0. stage \in [Workers -> Stages] /\ (Started(t) => \A s \in Threads : task[s] # "destroyVM")
  BY DEF WrapperInv, WrapperTypeOK, WrapperGoInv, NoneStarted
<1>1. CASE StartThread(t)
  BY <1>0, <1>1, SubCallGo DEF StartThread
<1>2. CASE Attached(t)
  BY <1>0, <1>2, SubCallGo DEF Attached, Started
<1>3. CASE Leave(t)
  <2>1. Started(t) /\ \A s \in Workers \ {t} : stage'[s] = stage[s]
    BY <1>0, <1>3 DEF Leave, Started
  <2>2. CASE doDetachThread[t]
    BY <1>0, <1>3, <2>1, <2>2, SubCallGo DEF Leave
  <2>3. CASE ~doDetachThread[t]
    BY <1>0, <1>3, <2>1, <2>3, StageGo DEF Leave
  <2>4. QED
    BY <2>2, <2>3
<1>4. CASE Lookup(t) \/ CallFails(t) \/ NativeThreadWrapper(t) \/ RoutineEnds(t)
           \/ BindReturns(t) \/ Detached(t)
  <2>1. Started(t) /\ UNCHANGED vars
    BY <1>4 DEF Lookup, CallFails, NativeThreadWrapper, RoutineEnds, BindReturns, Detached,
       Started
  <2>2. PICK s \in Stages \ {"attach"} : stage' \in {stage, [stage EXCEPT ![t] = s]}
    BY <1>4 DEF Lookup, Resolve, CallFails, Fails, NativeThreadWrapper, RoutineEnds,
       BindReturns, Detached, Stages
  <2>3. QED
    BY <1>0, <2>1, <2>2, StageGo
<1>5. QED
  BY <1>1, <1>2, <1>3, <1>4 DEF WrapperStep

LEMMA WrapperGoNext ==
  ASSUME {"vmFirst", "quiescentDestroy"} \subseteq Contract
  PROVE  WrapperInv /\ WrapperGoInv /\ [WrapperNext]_allVars => WrapperGoInv'
<1> SUFFICES ASSUME WrapperInv, WrapperGoInv, [WrapperNext]_allVars PROVE WrapperGoInv'
  OBVIOUS
<1>1. WrapperInv'
  BY WrapperInvNext
<1>2. ASSUME NEW t \in Threads, NEW op \in Ops, ClientCall(t, op) PROVE WrapperGoInv'
  BY <1>2, ClientCallGo
<1>3. ASSUME NEW t \in Threads, LibraryStep(t) PROVE WrapperGoInv'
  BY <1>1, <1>3, LibraryStepGo
<1>4. ASSUME NEW t \in Workers, StartThread(t) \/ RoutineEnds(t) \/ WrapperStep(t)
      PROVE  WrapperGoInv'
  BY <1>4, WorkerGo
<1>5. ASSUME (\E base \in Bases : SetPackageBase(base)) \/ (\E t \in Threads : LazyLookup(t))
      PROVE  WrapperGoInv'
  BY <1>5, StageGo DEF SetPackageBase, LazyLookup
<1>6. CASE OtherStep
  BY <1>6, OtherStepGo
<1>7. CASE UNCHANGED allVars
  BY <1>7, StageGo DEF allVars, wrapperVars
<1>8. QED
  BY <1>2, <1>3, <1>4, <1>5, <1>6, <1>7 DEF WrapperNext

LEMMA WrapperGoInit == WrapperInit => WrapperGoInv
<1> SUFFICES ASSUME WrapperInit PROVE WrapperGoInv
  OBVIOUS
<1>1. GoInv
  BY GoInit DEF WrapperInit
<1>2. NoneStarted /\ AttachKnown
  BY DEF WrapperInit, NoneStarted, AttachKnown, Started
<1>3. QED
  BY <1>1, <1>2 DEF WrapperGoInv

(* The calls of wrapped threads do not make calls wait for each other,     *)
(* though nothing makes a thread wait for a VM before it is started; the   *)
(* rules are those of CallsGoOnAlways, and destroyVM() is not called while *)
(* there are wrapped threads.                                              *)
THEOREM WrappedCallsGoOn ==
  ASSUME {"vmFirst", "quiescentDestroy"} \subseteq Contract, "findClass" \notin Faults
  PROVE  WrapperSpec => []CallsGoOn
<1>1. WrapperInv /\ WrapperGoInv => CallsGoOn
  BY GoingOn DEF WrapperInv, WrapperGoInv
<1>2. WrapperInv /\ WrapperGoInv /\ [WrapperNext]_allVars => WrapperGoInv'
  BY WrapperGoNext
<1>3. QED
  BY <1>1, <1>2, WrapperGoInit, WrapperInvariance, PTL DEF WrapperSpec
=============================================================================
