---------------------------- MODULE VmLifecycle ----------------------------
(***************************************************************************)
(* How the threads of a process reach the Java virtual machine through     *)
(* jni++: the GlobalVM pointer with its mutex and condition variable, the  *)
(* thread-local JNIEnv pointer with the mutex env() takes, and the         *)
(* operations on them (Utilities.cpp 25-229, JNI_OnLoad).                  *)
(*                                                                         *)
(* A critical section that no other thread can observe half done is one    *)
(* step.  javaEnv_mutex is kept explicitly because env() holds it while it *)
(* waits in getVM(), and javaVM_mutex because destroyVM() holds it while   *)
(* the JVM waits for the threads attached to it.                           *)
(***************************************************************************)
EXTENDS Naturals, FiniteSets

CONSTANTS
  NativeThreads,  \* threads started by native code
  JavaThreads,    \* threads started by the JVM, attached from birth to death
  NoThread,       \* the owner of a free mutex
  Contract,       \* usage rules the clients of the library keep
  Faults,         \* JVM calls that may fail
  MaxCalls        \* bound: library calls one thread makes

Threads == NativeThreads \cup JavaThreads

Ops == {"env", "createVM", "destroyVM", "JNI_OnLoad", "attachCurrentThread",
        "detachCurrentThread"}

Results == {"none", "env", "true", "false", "done", "throw", "detached"}

ASSUME VmAssumption ==
  /\ NoThread \notin Threads
  /\ NativeThreads \cap JavaThreads = {}
  /\ Contract \subseteq {"vmFirst", "quiescentDestroy"}
  /\ Faults \subseteq {"create", "findClass", "attach"}
  /\ MaxCalls \in Nat

VARIABLES
  jvm,            \* the JVM itself: absent, running, destroying or gone
  attached,       \* the threads the JVM knows
  GlobalVM,       \* the published pointer: "null" or "vm"
  javaVM_mutex,   \* owner across steps: a thread inside DestroyJavaVM
  javaEnv_mutex,  \* owner across steps: a thread inside env() that has no env yet
  envInstancePtr, \* per thread: is the thread-local JNIEnv pointer set
  task,           \* per thread: the library call it is in
  pc,             \* per thread: where in that call
  result,         \* per thread: outcome of its last call
  loaded,         \* JNI_OnLoad has been called
  calls,          \* per thread: number of calls made
  stale           \* history: threads that were detached with the pointer set

vars == <<jvm, attached, GlobalVM, javaVM_mutex, javaEnv_mutex, envInstancePtr,
          task, pc, result, loaded, calls, stale>>

Pcs == {"idle", "env", "attach", "getVM", "vmWait", "haveVM", "createVM",
        "findClass", "notify", "setVM", "destroyVM", "destroyWait"}

VmTypeOK ==
  /\ jvm \in {"absent", "running", "destroying", "gone"}
  /\ attached \subseteq Threads
  /\ GlobalVM \in {"null", "vm"}
  /\ javaVM_mutex \in Threads \cup {NoThread}
  /\ javaEnv_mutex \in Threads \cup {NoThread}
  /\ envInstancePtr \in [Threads -> BOOLEAN]
  /\ task \in [Threads -> Ops \cup {"none"}]
  /\ pc \in [Threads -> Pcs]
  /\ result \in [Threads -> Results]
  /\ loaded \in BOOLEAN
  /\ calls \in [Threads -> Nat]
  /\ stale \subseteq Threads
  /\ \A t \in Threads : pc[t] = "idle" <=> task[t] = "none"

(* A native process starts without a JVM; a Java process starts with one   *)
(* that runs its threads and has not loaded the library yet.               *)
VmInit ==
  /\ \/ jvm = "absent"  /\ attached = {}
     \/ jvm = "running" /\ attached = JavaThreads /\ JavaThreads # {}
  /\ GlobalVM = "null"
  /\ javaVM_mutex = NoThread /\ javaEnv_mutex = NoThread
  /\ envInstancePtr = [t \in Threads |-> FALSE]
  /\ task = [t \in Threads |-> "none"]
  /\ pc = [t \in Threads |-> "idle"]
  /\ result = [t \in Threads |-> "none"]
  /\ loaded = FALSE
  /\ calls = [t \in Threads |-> 0]
  /\ stale = {}

-----------------------------------------------------------------------------
(* Starting a call. *)

(* What the clients of the library do, by the rules they keep:             *)
(*   vmFirst           env() is called by an attached thread, or when the  *)
(*                     VM pointer is published already;                    *)
(*   quiescentDestroy  destroyVM() is called when no other thread is       *)
(*                     attached or in a call, and runs alone.              *)
(* Java code runs only in attached threads; JNI_OnLoad is called once, by  *)
(* such a thread; clients detach only native threads that are attached.    *)
MayCall(t, op) ==
  /\ t \in JavaThreads => t \in attached /\ (loaded \/ op = "JNI_OnLoad")
  /\ op = "JNI_OnLoad" => t \in attached /\ ~loaded
  /\ op \in {"createVM", "destroyVM"} => t \in NativeThreads
  /\ op = "detachCurrentThread" => t \in NativeThreads \cap attached
  /\ "vmFirst" \in Contract /\ op = "env" => t \in attached \/ GlobalVM = "vm"
  /\ "quiescentDestroy" \in Contract =>
       /\ \A s \in Threads : task[s] # "destroyVM"
       /\ op = "destroyVM" =>
            \A s \in Threads \ {t} : pc[s] = "idle" /\ s \notin attached

Entry == [env |-> "env", createVM |-> "createVM", destroyVM |-> "destroyVM",
          JNI_OnLoad |-> "setVM", attachCurrentThread |-> "attach",
          detachCurrentThread |-> "getVM"]

Call(t, op) ==
  /\ pc[t] = "idle" /\ calls[t] < MaxCalls
  /\ MayCall(t, op)
  /\ task' = [task EXCEPT ![t] = op]
  /\ pc' = [pc EXCEPT ![t] = Entry[op]]
  /\ calls' = [calls EXCEPT ![t] = @ + 1]
  /\ loaded' = (loaded \/ op = "JNI_OnLoad")
  /\ result' = [result EXCEPT ![t] = "none"]
  /\ UNCHANGED <<jvm, attached, GlobalVM, javaVM_mutex, javaEnv_mutex, envInstancePtr,
                 stale>>

Goto(t, l) == pc' = [pc EXCEPT ![t] = l] /\ UNCHANGED <<task, result>>

(* Mutation: a return path that forgets the call it was in. *)
ReturnForgets(t, r) ==
  /\ pc' = [pc EXCEPT ![t] = "idle"]
  /\ result' = [result EXCEPT ![t] = r]
  /\ UNCHANGED task

Return(t, r) ==
  /\ pc' = [pc EXCEPT ![t] = "idle"]
  /\ task' = [task EXCEPT ![t] = "none"]
  /\ result' = [result EXCEPT ![t] = r]

-----------------------------------------------------------------------------
(* env() and getVM() *)

(* env() is a call of its own and a part of createVM and JNI_OnLoad, whose *)
(* initializeEnvironment calls it for every method it looks up.            *)
AfterEnv(t) ==
  \/ task[t] = "env"        /\ Return(t, "env")
  \/ task[t] = "createVM"   /\ Goto(t, "notify")
  \/ task[t] = "JNI_OnLoad" /\ Return(t, "done")

EnvCached(t) ==
  /\ pc[t] = "env" /\ javaEnv_mutex = NoThread
  /\ envInstancePtr[t]
  /\ AfterEnv(t)
  /\ UNCHANGED <<jvm, attached, GlobalVM, javaVM_mutex, javaEnv_mutex, envInstancePtr,
                 loaded, calls, stale>>

EnvUncached(t) ==
  /\ pc[t] = "env" /\ javaEnv_mutex = NoThread
  /\ ~envInstancePtr[t]
  /\ javaEnv_mutex' = t
  /\ Goto(t, "getVM")
  /\ UNCHANGED <<jvm, attached, GlobalVM, javaVM_mutex, envInstancePtr, loaded, calls, stale>>

(* The wait releases javaVM_mutex, and no other mutex. *)
GetVM(t) ==
  /\ pc[t] = "getVM" /\ javaVM_mutex = NoThread
  /\ Goto(t, IF GlobalVM = "null" THEN "vmWait" ELSE "haveVM")
  /\ UNCHANGED <<jvm, attached, GlobalVM, javaVM_mutex, javaEnv_mutex, envInstancePtr,
                 loaded, calls, stale>>

SpuriousWake(t) ==
  /\ pc[t] = "vmWait"
  /\ Goto(t, "getVM")
  /\ UNCHANGED <<jvm, attached, GlobalVM, javaVM_mutex, javaEnv_mutex, envInstancePtr,
                 loaded, calls, stale>>

(* Mutation: the exception path of env() keeps javaEnv_mutex. *)
EnvFromVMLeaksLock(t) ==
  /\ pc[t] = "haveVM" /\ task[t] \in {"env", "JNI_OnLoad"}
  /\ \/ /\ t \in attached
        /\ envInstancePtr' = [envInstancePtr EXCEPT ![t] = TRUE]
        /\ javaEnv_mutex' = NoThread
        /\ AfterEnv(t)
     \/ /\ t \notin attached
        /\ Return(t, "throw")
        /\ UNCHANGED <<envInstancePtr, javaEnv_mutex>>
  /\ UNCHANGED <<jvm, attached, GlobalVM, javaVM_mutex, loaded, calls, stale>>

(* GetEnv answers JNI_EDETACHED to a thread the JVM does not know. *)
EnvFromVM(t) ==
  /\ pc[t] = "haveVM" /\ task[t] \in {"env", "JNI_OnLoad"}
  /\ \/ /\ t \in attached
        /\ envInstancePtr' = [envInstancePtr EXCEPT ![t] = TRUE]
        /\ AfterEnv(t)
     \/ /\ t \notin attached
        /\ Return(t, "throw")
        /\ UNCHANGED envInstancePtr
  /\ javaEnv_mutex' = NoThread
  /\ UNCHANGED <<jvm, attached, GlobalVM, javaVM_mutex, loaded, calls, stale>>

-----------------------------------------------------------------------------
(* attachCurrentThread() and detachCurrentThread() *)

AttachCheck(t) ==
  /\ pc[t] = "attach"
  /\ \/ envInstancePtr[t] /\ Return(t, "true")
     \/ ~envInstancePtr[t] /\ Goto(t, "getVM")
  /\ UNCHANGED <<jvm, attached, GlobalVM, javaVM_mutex, javaEnv_mutex, envInstancePtr,
                 loaded, calls, stale>>

(* The call refuses a thread that is attached already, without caching its *)
(* JNIEnv; the JVM refuses a thread when it is not up any more.            *)
AttachFromVM(t) ==
  /\ pc[t] = "haveVM" /\ task[t] = "attachCurrentThread"
  /\ \/ /\ t \notin attached /\ jvm \in {"running", "destroying"}
        /\ attached' = attached \cup {t}
        /\ envInstancePtr' = [envInstancePtr EXCEPT ![t] = TRUE]
        /\ Return(t, "true")
     \/ /\ t \in attached \/ jvm \notin {"running", "destroying"} \/ "attach" \in Faults
        /\ Return(t, "false")
        /\ UNCHANGED <<attached, envInstancePtr>>
  /\ UNCHANGED <<jvm, GlobalVM, javaVM_mutex, javaEnv_mutex, loaded, calls, stale>>

(* The thread-local pointer survives the detach, if it is set. *)
LeavePointer(t) == stale' = IF envInstancePtr[t] THEN stale \cup {t} ELSE stale

DetachFromVM(t) ==
  /\ pc[t] = "haveVM" /\ task[t] = "detachCurrentThread"
  /\ attached' = attached \ {t}
  /\ LeavePointer(t)
  /\ Return(t, "detached")
  /\ UNCHANGED <<jvm, GlobalVM, javaVM_mutex, javaEnv_mutex, envInstancePtr, loaded, calls>>

-----------------------------------------------------------------------------
(* createVM(), JNI_OnLoad() and destroyVM() *)

(* A process can have one JVM in its life. *)
CreateVM(t) ==
  /\ pc[t] = "createVM" /\ javaVM_mutex = NoThread
  /\ \/ /\ jvm = "absent"
        /\ jvm' = "running" /\ attached' = {t}
        /\ GlobalVM' = "vm"
        /\ envInstancePtr' = [envInstancePtr EXCEPT ![t] = TRUE]
        /\ Goto(t, "findClass")
     \/ /\ jvm # "absent" \/ "create" \in Faults
        /\ Return(t, "false")
        /\ UNCHANGED <<jvm, attached, GlobalVM, envInstancePtr>>
  /\ UNCHANGED <<javaVM_mutex, javaEnv_mutex, loaded, calls, stale>>

(* Without its support class createVM gives up, and the JVM stays. *)
FindClass(t) ==
  /\ pc[t] = "findClass"
  /\ \/ Goto(t, "env")
     \/ "findClass" \in Faults /\ Return(t, "false")
  /\ UNCHANGED <<jvm, attached, GlobalVM, javaVM_mutex, javaEnv_mutex, envInstancePtr,
                 loaded, calls, stale>>

(* Mutation: setVM() forgets to notify. *)
SetVMSilently(t) ==
  /\ pc[t] = "setVM" /\ javaVM_mutex = NoThread
  /\ GlobalVM' = "vm"
  /\ Goto(t, "env")
  /\ UNCHANGED <<jvm, attached, javaVM_mutex, javaEnv_mutex, envInstancePtr, loaded, calls, stale>>

SetVM(t) ==
  /\ pc[t] = "setVM" /\ javaVM_mutex = NoThread
  /\ GlobalVM' = "vm"
  /\ Goto(t, "notify")
  /\ UNCHANGED <<jvm, attached, javaVM_mutex, javaEnv_mutex, envInstancePtr, loaded, calls, stale>>

Woken == [s \in Threads |-> IF pc[s] = "vmWait" THEN "getVM" ELSE pc[s]]

(* createVM notifies after initializeEnvironment, JNI_OnLoad before it. *)
NotifyAll(t) ==
  /\ pc[t] = "notify"
  /\ \/ /\ task[t] = "createVM"
        /\ pc' = [Woken EXCEPT ![t] = "idle"]
        /\ task' = [task EXCEPT ![t] = "none"]
        /\ result' = [result EXCEPT ![t] = "true"]
     \/ /\ task[t] = "JNI_OnLoad"
        /\ pc' = [Woken EXCEPT ![t] = "env"]
        /\ UNCHANGED <<task, result>>
  /\ UNCHANGED <<jvm, attached, GlobalVM, javaVM_mutex, javaEnv_mutex, envInstancePtr,
                 loaded, calls, stale>>

(* DestroyJavaVM attaches its caller and waits, with javaVM_mutex held,    *)
(* until no other thread is attached.                                      *)
DestroyVM(t) ==
  /\ pc[t] = "destroyVM" /\ javaVM_mutex = NoThread
  /\ \/ /\ GlobalVM = "null"
        /\ Return(t, "done")
        /\ UNCHANGED <<jvm, attached, javaVM_mutex>>
     \/ /\ GlobalVM # "null"
        /\ jvm' = "destroying" /\ attached' = attached \cup {t}
        /\ javaVM_mutex' = t
        /\ Goto(t, "destroyWait")
  /\ UNCHANGED <<GlobalVM, javaEnv_mutex, envInstancePtr, loaded, calls, stale>>

(* Mutations: destroyVM() keeps the JNIEnv pointer, or the VM pointer. *)
DestroyKeepsEnv(t) ==
  /\ pc[t] = "destroyWait" /\ attached \subseteq {t}
  /\ jvm' = "gone" /\ attached' = {}
  /\ GlobalVM' = "null"
  /\ stale' = stale \ {t}
  /\ javaVM_mutex' = NoThread
  /\ Return(t, "done")
  /\ UNCHANGED <<javaEnv_mutex, envInstancePtr, loaded, calls>>

DestroyKeepsVM(t) ==
  /\ pc[t] = "destroyWait" /\ attached \subseteq {t}
  /\ jvm' = "gone" /\ attached' = {}
  /\ envInstancePtr' = [envInstancePtr EXCEPT ![t] = FALSE]
  /\ stale' = stale \ {t}
  /\ javaVM_mutex' = NoThread
  /\ Return(t, "done")
  /\ UNCHANGED <<GlobalVM, javaEnv_mutex, loaded, calls>>

(* Only the caller's own thread-local pointer is cleared. *)
DestroyReturns(t) ==
  /\ pc[t] = "destroyWait" /\ attached \subseteq {t}
  /\ jvm' = "gone" /\ attached' = {}
  /\ GlobalVM' = "null"
  /\ envInstancePtr' = [envInstancePtr EXCEPT ![t] = FALSE]
  /\ stale' = stale \ {t}
  /\ javaVM_mutex' = NoThread
  /\ Return(t, "done")
  /\ UNCHANGED <<javaEnv_mutex, loaded, calls>>

-----------------------------------------------------------------------------
(* Threads of the Java side, started by code that runs in an attached one. *)

JavaThreadStart(t) ==
  /\ t \in JavaThreads \ attached /\ result[t] = "none"
  /\ jvm = "running" /\ \E s \in attached : pc[s] = "idle"
  /\ attached' = attached \cup {t}
  /\ UNCHANGED <<jvm, GlobalVM, javaVM_mutex, javaEnv_mutex, envInstancePtr, task, pc,
                 result, loaded, calls, stale>>

JavaThreadExit(t) ==
  /\ t \in JavaThreads \cap attached /\ pc[t] = "idle"
  /\ attached' = attached \ {t}
  /\ LeavePointer(t)
  /\ result' = [result EXCEPT ![t] = "detached"]
  /\ UNCHANGED <<jvm, GlobalVM, javaVM_mutex, javaEnv_mutex, envInstancePtr, task, pc,
                 loaded, calls>>

-----------------------------------------------------------------------------
(* The steps a thread takes once it is in a call. *)
Step(t) ==
  \/ EnvCached(t) \/ EnvUncached(t) \/ GetVM(t) \/ EnvFromVM(t)
  \/ AttachCheck(t) \/ AttachFromVM(t) \/ DetachFromVM(t)
  \/ CreateVM(t) \/ FindClass(t) \/ SetVM(t) \/ NotifyAll(t)
  \/ DestroyVM(t) \/ DestroyReturns(t)

VmNext == \E t \in Threads :
  \/ \E op \in Ops : Call(t, op)
  \/ Step(t)
  \/ SpuriousWake(t)
  \/ JavaThreadStart(t) \/ JavaThreadExit(t)

(* A thread in a call that can step is scheduled eventually; nobody has to *)
(* make a call, and no wakeup comes without a notification.                *)
VmFairness == \A t \in Threads : WF_vars(Step(t))

VmSafetySpec == VmInit /\ [][VmNext]_vars
VmSpec == VmSafetySpec /\ VmFairness
-----------------------------------------------------------------------------
(* Once the pointer is published, whoever sleeps in getVM() is going to be *)
(* woken: a thread that will reach notify_all is still on its way there.   *)
(* Comment at Utilities.cpp 84: threads block until the VM is available.   *)
WillNotify(t) == pc[t] \in {"findClass", "notify"} \/ (pc[t] = "env" /\ task[t] = "createVM")

NoLostWakeup ==
  GlobalVM = "vm" /\ (\E t \in Threads : pc[t] = "vmWait") => \E t \in Threads : WillNotify(t)

(* Who a thread in a call waits for: the owner of a mutex, somebody who    *)
(* will notify it, or the threads the JVM does not end without.            *)
Awaits(t) ==
  {u \in Threads :
     \/ pc[t] = "env" /\ javaEnv_mutex = u
     \/ pc[t] \in {"getVM", "createVM", "setVM", "destroyVM"} /\ javaVM_mutex = u
     \/ pc[t] = "vmWait" /\ (WillNotify(u) \/ pc[u] = "setVM")
     \/ pc[t] = "destroyWait" /\ u \in attached \ {t}}

GoesOn(t) == pc[t] \notin {"idle", "vmWait"} /\ Awaits(t) = {}

(* While there is a VM, no calls wait for each other, or for a thread that *)
(* makes none: a thread in a call, or one it waits for, or one that this   *)
(* one waits for, is in a call and goes on.  Neither the javaEnv_mutex     *)
(* that env() keeps while it waits for the VM (Utilities.cpp 46), nor the  *)
(* javaVM_mutex that destroyVM() keeps while it waits for the threads      *)
(* (154), closes a circle.                                                 *)
CallsGoOn ==
  GlobalVM = "vm" =>
    \A t \in Threads : pc[t] # "idle" =>
      \E u \in {t} \cup Awaits(t) \cup UNION {Awaits(v) : v \in Awaits(t)} : GoesOn(u)

(* What env() and attachCurrentThread() tell a thread is out of date in    *)
(* one case only: the thread was itself detached when it had cached its    *)
(* JNIEnv, and the pointer is still there (Utilities.cpp 207).  Nothing    *)
(* that other threads do to the VM makes it so, whatever the clients call  *)
(* in whatever order; destroyVM() leaves no such pointer in its own thread *)
(* (156), and it removes one that an earlier detach has left.              *)
Live(t) == t \in attached /\ jvm \in {"running", "destroying"}

LiveUnlessDetached ==
  \A t \in Threads : result[t] \in {"env", "true"} => Live(t) \/ t \in stale

(* GlobalVM is never the pointer of a JVM that is gone or not created:     *)
(* destroyVM() clears it before it lets anyone else look at it.            *)
PublishedVmIsUp == GlobalVM = "vm" => jvm \in {"running", "destroying"}

(* A thread that wants the VM (it is in getVM()) and for which the VM is   *)
(* available proceeds, unless the VM is destroyed first: what the comment  *)
(* at Utilities.cpp 84 says.                                               *)
WaitersProceed ==
  \A t \in Threads :
    (pc[t] \in {"getVM", "vmWait"} /\ GlobalVM = "vm")
      ~> (pc[t] \notin {"getVM", "vmWait"} \/ GlobalVM = "null")
=============================================================================
