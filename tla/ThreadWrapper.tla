--------------------------- MODULE ThreadWrapper ---------------------------
(***************************************************************************)
(* Native threads whose main function is javaThreadWrapper                 *)
(* (ThreadWrapper.cpp 27-64, nativeThreadWrapper in JvmNativeImpls.cpp,    *)
(* bindToAppClassLoader in JavaToNativeExporter.java), composed with       *)
(* VmLifecycle: such a thread attaches itself, calls Java, which calls     *)
(* native code back to run the thread's routine, and detaches itself.      *)
(* Its library calls are calls of VmLifecycle.                             *)
(*                                                                         *)
(* The Java method it calls is looked up by a class name to which          *)
(* setPackageBase contributes, like every class the library looks up.  A   *)
(* class that is not found fails an assertion, and the process ends.       *)
(***************************************************************************)
EXTENDS VmLifecycle

CONSTANTS
  Workers,   \* native threads that may be started with javaThreadWrapper
  Bases      \* what clients may pass to setPackageBase

ASSUME WrapperAssumption ==
  /\ Workers \subseteq NativeThreads
  /\ Bases \subseteq {"library", "client"}

VARIABLES
  stage,           \* per worker: where in javaThreadWrapper it is
  args,            \* per worker: the javaThreadArgs its creator allocated
  doDetachThread,  \* per worker
  outcome,         \* per worker: how the call of bindToAppClassLoader ended
  packageBase,     \* "unset", "library" (the package of jni++) or "client" (another)
  initialized,     \* initializeEnvironment has resolved the library's methods
  bound,           \* jBindToAppClassLoader is resolved
  notFound         \* the lookup of a class that ended the process: "none", or of
                   \* "initialize", "thread" (the wrapper) or "lazy" (any other)

wrapperVars == <<stage, args, doDetachThread, outcome, packageBase, initialized, bound, notFound>>
allVars == <<vars, wrapperVars>>

Stages == {"new", "attach", "env", "bind", "routine", "back", "leave", "detach", "over"}

WrapperTypeOK ==
  /\ stage \in [Workers -> Stages]
  /\ args \in [Workers -> {"none", "live", "freed", "misused"}]
  /\ doDetachThread \in [Workers -> BOOLEAN]
  /\ outcome \in [Workers -> {"none", "returned", "caught", "failed"}]
  /\ packageBase \in {"unset", "library", "client"}
  /\ initialized \in BOOLEAN /\ bound \in BOOLEAN
  /\ notFound \in {"none", "initialize", "thread", "lazy"}

WrapperInit ==
  /\ VmInit
  /\ stage = [t \in Workers |-> "new"]
  /\ args = [t \in Workers |-> "none"]
  /\ doDetachThread = [t \in Workers |-> FALSE]
  /\ outcome = [t \in Workers |-> "none"]
  /\ packageBase = "unset"
  /\ initialized = FALSE /\ bound = FALSE /\ notFound = "none"

-----------------------------------------------------------------------------
(* Client code and class names. *)

(* Client code runs in a worker that was never started as one, and in the  *)
(* routine; there it is below Java code, which keeps it from detaching.    *)
(* By the rule quiescentDestroy a started thread counts as one in a call.  *)
Started(t) == stage[t] \notin {"new", "over"}

(* A class that is not found fails an assertion. *)
Goes == notFound = "none"

ClientCall(t, op) ==
  /\ Goes
  /\ t \in Workers => \/ stage[t] = "new"
                      \/ stage[t] = "routine" /\ op \in {"env", "attachCurrentThread"}
  /\ "quiescentDestroy" \in Contract /\ op = "destroyVM" => \A s \in Workers : ~Started(s)
  /\ Call(t, op)
  /\ UNCHANGED wrapperVars

SetPackageBase(base) ==
  /\ Goes /\ packageBase = "unset"
  /\ packageBase' = base
  /\ UNCHANGED <<vars, stage, args, doDetachThread, outcome, initialized, bound, notFound>>

(* calculateClassName puts the base in front of every name, also of a full *)
(* one, unless it is empty (a SWIG package is left out here): a class of   *)
(* the library or of the JDK is found by its full name only as long as the *)
(* base is not set, JavaToNativeExporter by its simple name only when the  *)
(* base is its own package.  A name is computed once, at the first use.    *)
FullNameFound == packageBase = "unset"
(* Mutation: the simple name is taken for a full one. *)
SimpleNameQualified == packageBase = "unset"

SimpleNameFound == packageBase = "library"

(* t is about to have its env in initializeEnvironment. *)
Initializes(t) ==
  /\ task[t] \in {"createVM", "JNI_OnLoad"}
  /\ \/ pc[t] = "env" /\ javaEnv_mutex = NoThread /\ envInstancePtr[t]
     \/ pc[t] = "haveVM"

(* A step of a library call.  If a class that initializeEnvironment looks  *)
(* up by its full name is not found, the process ends.                     *)
LibraryStep(t) ==
  /\ Goes
  /\ IF Initializes(t) /\ ~initialized /\ ~FullNameFound
       THEN notFound' = "initialize" /\ UNCHANGED <<vars, initialized>>
       ELSE /\ Step(t)
            /\ initialized' = (initialized \/ Initializes(t))
            /\ UNCHANGED notFound
  /\ UNCHANGED <<stage, args, doDetachThread, outcome, packageBase, bound>>

(* Client code uses, for the first time, one of the classes that are named *)
(* in full elsewhere: JniLogger in the logger and in setMinimumLogLevel,   *)
(* the boxed classes, the ones its own methods name.  It changes something *)
(* here only when the class is not found.                                  *)
LazyLookup(t) ==
  /\ Goes /\ pc[t] = "idle" /\ t \in attached
  /\ t \in JavaThreads => loaded
  /\ t \in Workers => stage[t] \in {"new", "routine"}
  /\ ~FullNameFound
  /\ notFound' = "lazy"
  /\ UNCHANGED <<vars, stage, args, doDetachThread, outcome, packageBase, initialized, bound>>

OtherStep ==
  /\ Goes
  /\ \E t \in Threads : SpuriousWake(t) \/ JavaThreadStart(t) \/ JavaThreadExit(t)
  /\ UNCHANGED wrapperVars

-----------------------------------------------------------------------------
(* javaThreadWrapper *)

At(t, s) == Goes /\ stage[t] = s /\ pc[t] = "idle"

(* The wrapper calls the library. *)
SubCall(t, op) ==
  /\ task' = [task EXCEPT ![t] = op]
  /\ pc' = [pc EXCEPT ![t] = Entry[op]]
  /\ result' = [result EXCEPT ![t] = "none"]
  /\ UNCHANGED <<jvm, attached, GlobalVM, javaVM_mutex, javaEnv_mutex, envInstancePtr,
                 loaded, calls, stale>>

Advance(t, s) == stage' = [stage EXCEPT ![t] = s]
Touched(t) == IF args[t] = "live" THEN args ELSE [args EXCEPT ![t] = "misused"]

(* Native code starts the thread; nothing makes it wait for a VM. *)
StartThread(t) ==
  /\ At(t, "new") /\ calls[t] = 0
  /\ "quiescentDestroy" \in Contract => \A s \in Threads : task[s] # "destroyVM"
  /\ Advance(t, "attach") /\ SubCall(t, "attachCurrentThread")
  /\ args' = [args EXCEPT ![t] = "live"]
  /\ UNCHANGED <<doDetachThread, outcome, packageBase, initialized, bound, notFound>>

(* The call of bindToAppClassLoader begins with env(), attached or not. *)
Attached(t) ==
  /\ At(t, "attach")
  /\ doDetachThread' = [doDetachThread EXCEPT ![t] = result[t] = "true"]
  /\ args' = Touched(t)
  /\ Advance(t, "env") /\ SubCall(t, "env")
  /\ UNCHANGED <<outcome, packageBase, initialized, bound, notFound>>

(* The class name is computed and the method resolved once; the name given *)
(* has no package.                                                         *)
Resolve(t) ==
  IF bound \/ SimpleNameFound
    THEN bound' = TRUE /\ Advance(t, "bind") /\ UNCHANGED notFound
    ELSE notFound' = "thread" /\ UNCHANGED <<bound, stage>>

(* Mutation: the call goes on without an env. *)
LookupWithoutEnv(t) ==
  /\ At(t, "env") /\ Resolve(t)
  /\ UNCHANGED <<vars, args, doDetachThread, outcome, packageBase, initialized>>

Lookup(t) ==
  /\ At(t, "env") /\ result[t] = "env" /\ Resolve(t)
  /\ UNCHANGED <<vars, args, doDetachThread, outcome, packageBase, initialized>>

(* An exception of any kind from the call: it is logged, and the thread is *)
(* not going to be detached.                                               *)
Fails(t) ==
  /\ Advance(t, "leave")
  /\ outcome' = [outcome EXCEPT ![t] = "failed"]
  /\ doDetachThread' = [doDetachThread EXCEPT ![t] = FALSE]

(* Mutation: the failure is logged with the name in args. *)
CallFailsReadsArgs(t) ==
  /\ \/ At(t, "env") /\ result[t] = "throw"
     \/ At(t, "bind")
     \/ At(t, "back")
  /\ Fails(t)
  /\ args' = Touched(t)
  /\ UNCHANGED <<vars, packageBase, initialized, bound, notFound>>

(* env() throws in a thread that is not attached; Java raises when it sets *)
(* the name of the thread; the routine leaves a Java exception pending.    *)
CallFails(t) ==
  /\ \/ At(t, "env") /\ result[t] = "throw"
     \/ At(t, "bind")
     \/ At(t, "back")
  /\ Fails(t)
  /\ UNCHANGED <<vars, args, packageBase, initialized, bound, notFound>>

(* args are copied and freed before the routine runs. *)
NativeThreadWrapper(t) ==
  /\ At(t, "bind")
  /\ args' = [args EXCEPT ![t] = IF @ = "live" THEN "freed" ELSE "misused"]
  /\ Advance(t, "routine")
  /\ UNCHANGED <<vars, doDetachThread, outcome, packageBase, initialized, bound, notFound>>

(* A C++ exception becomes the result -1. *)
RoutineEnds(t) ==
  /\ At(t, "routine")
  /\ outcome' \in {[outcome EXCEPT ![t] = o] : o \in {"returned", "caught"}}
  /\ Advance(t, "back")
  /\ UNCHANGED <<vars, args, doDetachThread, packageBase, initialized, bound, notFound>>

(* Mutation: a routine that threw counts as a failed call. *)
BindReturnsIfNotCaught(t) ==
  /\ At(t, "back")
  /\ Advance(t, "leave")
  /\ doDetachThread' = [doDetachThread EXCEPT ![t] = @ /\ outcome[t] = "returned"]
  /\ UNCHANGED <<vars, args, outcome, packageBase, initialized, bound, notFound>>

BindReturns(t) ==
  /\ At(t, "back")
  /\ Advance(t, "leave")
  /\ UNCHANGED <<vars, args, doDetachThread, outcome, packageBase, initialized, bound, notFound>>

(* Mutation: the thread ends only after a detach. *)
LeaveNeedsDetach(t) ==
  /\ At(t, "leave") /\ doDetachThread[t]
  /\ Advance(t, "detach") /\ SubCall(t, "detachCurrentThread")
  /\ UNCHANGED <<args, doDetachThread, outcome, packageBase, initialized, bound, notFound>>

Leave(t) ==
  /\ At(t, "leave")
  /\ IF doDetachThread[t]
       THEN Advance(t, "detach") /\ SubCall(t, "detachCurrentThread")
       ELSE Advance(t, "over") /\ UNCHANGED vars
  /\ UNCHANGED <<args, doDetachThread, outcome, packageBase, initialized, bound, notFound>>

(* Mutation: the wrapper starts the thread's life anew. *)
DetachedAnew(t) ==
  /\ At(t, "detach")
  /\ Advance(t, "idle")
  /\ UNCHANGED <<vars, args, doDetachThread, outcome, packageBase, initialized, bound, notFound>>

Detached(t) ==
  /\ At(t, "detach")
  /\ Advance(t, "over")
  /\ UNCHANGED <<vars, args, doDetachThread, outcome, packageBase, initialized, bound, notFound>>

-----------------------------------------------------------------------------
(* What the wrapper does by itself; when the routine ends is its own       *)
(* affair, and so is when threads are started.                             *)
WrapperStep(t) ==
  \/ Attached(t) \/ Lookup(t) \/ CallFails(t) \/ NativeThreadWrapper(t)
  \/ BindReturns(t) \/ Leave(t) \/ Detached(t)

WrapperNext ==
  \/ \E t \in Threads : \/ \E op \in Ops : ClientCall(t, op)
                        \/ LibraryStep(t)
                        \/ LazyLookup(t)
  \/ \E t \in Workers : StartThread(t) \/ RoutineEnds(t) \/ WrapperStep(t)
  \/ \E base \in Bases : SetPackageBase(base)
  \/ OtherStep

WrapperFairness ==
  /\ \A t \in Threads : WF_allVars(LibraryStep(t))
  /\ \A t \in Workers : WF_allVars(WrapperStep(t))

WrapperSpec == WrapperInit /\ [][WrapperNext]_allVars /\ WrapperFairness
-----------------------------------------------------------------------------
(* The arguments are freed exactly by a thread that ran its routine, once, *)
(* and nobody reads them later: not the message of a call that failed      *)
(* after the routine (comment at ThreadWrapper.cpp 38: "save name since    *)
(* args is freed").                                                        *)
ArgsFreedOnce ==
  \A t \in Workers :
    /\ args[t] # "misused"
    /\ stage[t] \in {"routine", "back"} \/ outcome[t] \in {"returned", "caught"}
         => args[t] = "freed"

(* The routine runs in a thread that is attached, on a JVM that is not     *)
(* gone, whatever other threads do to the VM meanwhile.                    *)
RoutineHasVm ==
  \A t \in Workers :
    stage[t] = "routine" => t \in attached /\ jvm \in {"running", "destroying"}

(* A thread that the wrapper attached is detached when it ends, also when  *)
(* its routine threw, so that destroyVM() does not wait for it for ever.   *)
(* After a call that failed this does not hold: line 56 keeps it attached. *)
AttachmentReturned ==
  \A t \in Workers :
    stage[t] = "over" /\ outcome[t] # "failed" => t \notin attached

(* Every thread that is started gets to its routine or ends, while there   *)
(* is a VM, and ends once its routine did.                                 *)
Wrapping(t) == stage[t] \notin {"new", "routine", "over"}

WrappersEnd ==
  \A t \in Workers :
    (Wrapping(t) /\ GlobalVM = "vm") ~> (~Wrapping(t) \/ GlobalVM = "null" \/ ~Goes)

(* No call hangs while there is a VM: every call in progress then returns, *)
(* or the VM is destroyed, or the process ends; destroyVM() itself         *)
(* returns.                                                                *)
WrappedCallsReturn ==
  \A t \in Threads :
    (pc[t] # "idle" /\ GlobalVM = "vm") ~> (pc[t] = "idle" \/ GlobalVM = "null" \/ ~Goes)

(* The comment at Utilities.cpp 216-218 says that initializeEnvironment    *)
(* caches the class of bindToAppClassLoader because new threads "need to   *)
(* be able to call a method on that class": once initializeEnvironment has *)
(* run, the lookup for that method does not fail.                          *)
ThreadClassFound == notFound = "thread" => ~initialized
=============================================================================
