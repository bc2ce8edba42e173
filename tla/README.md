# jni++ in TLA+

jni++ is a C++ library with a small Java part that lets native code call Java
(and be called back) without writing JNI by hand. This directory holds TLA+
models of the parts of it that keep state, TLC runs that check them on small
instances, and TLAPS proofs for instances of any size. Paths below are relative
to the repository; C++ sources are in `jni++/src/main/cpp`, the Java part is
`JavaToNativeExporter.java`.

Contents: 1 the system, 2 the modules and the code, 3 the runs, 4 usage rules
and what happens without them, 5 disagreements found, 6 proofs, 7 what is left
out, 8 plan.

## 1. The system

| Component | Code | State it keeps | Operations |
|---|---|---|---|
| VM lifecycle, thread environment | `Utilities.cpp` 25-229, `JNI_OnLoad` | `GlobalVM`, `javaVM_mutex`, `javaVM_cv`; per thread `envInstancePtr`; `javaEnv_mutex`; the JVM's list of attached threads | `createVM`, `destroyVM`, `setVM`/`JNI_OnLoad`, `env`, `getVM`, `attachCurrentThread`, `detachCurrentThread`, `initializeEnvironment` |
| Singleton registry | `Singletons.cpp`, natives in `JvmNativeImpls.cpp` | `singleton_map` (class name to global reference), `singleton_mutex` | `registerSingleton`, `unregisterSingleton`, `clearSingletonObjects`, `getSingletonObject` |
| Method, field and class caches | `Utilities.cpp` 211-413, `Method`, `Field` in `JniPlusPlus.hpp` | one `once_flag` and one pointer per `Method`/`Field` object; three shared maps; recursive `cacheMutex` | `getMethodInfo`, `getFieldInfo`, `getClass` |
| Invocation | `JniPlusPlus.hpp`, `InvokersHighLevel.hpp`, `References.hpp`, `Converters.hpp`, `Exceptions.cpp` | per thread: the JVM's local frames and its pending exception | `operator()`, `get`, `set`, `create`, element access, `checkForExceptions` |
| Loggers | `Loggers.cpp`, `logger/*.java` | `gLog`, Java `log`, a minimum level on each side | `log_print`, `setLogger`, `setLog`, `setMinimumLogLevel`, `jvmLog`, `nativeLog` |
| Thread wrapper | `ThreadWrapper.cpp`, `nativeThreadWrapper` | the arguments of a new thread, whether to detach it; the package base that its class name depends on | `javaThreadWrapper`, `bindToAppClassLoader`, `setPackageBase` |
| Export policy, member search | `JavaToNativeExporter.java` 38-322 | package to "annotation required" | `setRequiresExport`, `isExportable`, `lookupJavaMember`, `lookupJavaField` |
| Converters, mapping tables, arrays | `Converters.hpp`, `JniMapping.hpp`, `PrimitiveArray`, `InvokersLowLevel.hpp` | element pointers that are out, pinned or copied | conversion of arguments, fields and results; array regions, `get`, `getCritical`, `release` |
| SWIG support | `SwigSupport.hpp` | none | converters for generated classes |

**How they interact.** Every JNI call starts with `env()`, so everything depends
on the VM lifecycle. A call of a `Method` object pushes a local frame, gathers
its arguments, resolves itself through the method cache (which calls the
library's own Java methods, which are `Method` objects too), calls JNI, checks
for a Java exception and passes the result through the end of the frame.
Singleton calls take their target from the registry, which Java code changes on
other threads. Lookups write to the log, and the log may be a method call.
`createVM` and `JNI_OnLoad` run `initializeEnvironment`, which resolves the
library's own methods and passes the log level to Java. A wrapped thread attaches itself,
calls Java through a `Method` object of the library, and Java calls it back to run
its routine. A member JNI does not find by its signature is searched by Java code,
which asks the export policy of each candidate.

**What is hard.** Two mutexes and a condition variable meet in `env()`; a once
flag and a recursive mutex meet in lookups, in both orders; thread-local
pointers outlive the attachment they stand for; raw references outlive the
mutex they were read under; frames and pending exceptions must stay balanced
through nested calls, callbacks and C++ exceptions; the logger calls itself; the
export policy may change during a search; a copy of an array's elements ages
while it is out; a value passes three types of different width and sign, one of
them chosen by overload resolution, on its way to Java.
`PROJECT.json` lists each hazard at its line.

**What makes each component correct.** Lifecycle: nobody waits for a VM that is
there, nobody is told of one that is not. Registry: references are neither lost
nor shared, and it behaves as a map of objects. Cache: one `MethodInfo` per
method, no lock left behind, lookups end. Invocation: frames balance, results
can be used, an exception is reported by the call that caused it. Loggers:
logging ends, both sides filter alike. Thread wrapper: arguments are freed once,
routines run attached, who was attached is detached. Member search: the only
valid match is found, or none if there is not exactly one. Arrays and
conversions: who loads an element gets what was stored last, and a value comes
back as it was.

## 2. The modules and the code

A module that runs start from, `X.tla`, has a `MCX.tla` that defines the constants
of the instances, one `.cfg` per run, and an `XProofs.tla` with its theorems. Operators marked "Mutation" are wrong variants of a
definition beside them; they are not used by the specification, and document
which mistake each property detects.

**VmLifecycle.** One variable per piece of state above, plus `task`/`pc`/
`result` per thread for the call it is in and its outcome. A critical section
nobody can see half done is one step; `javaVM_mutex` and `javaEnv_mutex` are
variables because `destroyVM` holds one while the JVM waits and `env()` the
other while it sleeps. `EnvCached`, `EnvUncached`, `GetVM`, `EnvFromVM` are
`env()`; the JNI side is modelled by what JNI documents: one VM per process,
`GetEnv` refuses threads that are not attached, `DestroyJavaVM` waits until its
caller is the only one attached. The several `env()` calls of
`initializeEnvironment` are one: after the first the pointer is cached. Clients may call on
after they were detached; `stale` remembers the threads whose pointer a detach left behind.

**SingletonRegistry / Singletons.** The first is the promise: a map from names
to objects, and calls that work on the object registered when they looked it
up. The second is the code: handles, what each denotes, deletion, reuse of a
handle by `NewGlobalRef`, and its failure. An entry that is null and one that
is absent are the same to every function, so `NoRef` stands for both. `found`
and `last` are history variables; `last` makes the abstract steps
distinguishable, so that an unregister that removes the wrong object cannot pass
as another operation. `Registry` is the refinement mapping.

**ThreadWrapper** extends VmLifecycle: `stage[t]` is where in `javaThreadWrapper`
a worker is, and its library calls are calls of VmLifecycle (`SubCall`), so that
every interleaving with `createVM`, `destroyVM` and other threads is there. `args`
becomes "misused" when it is read or freed after the free. Class names matter
here as far as they are found: `calculateClassName` puts the package base in front
of every name, `FullNameFound` and `SimpleNameFound` say for which base the class is
found, and a class that is not found ends the process, as the assertion does. The base may
be set at any time. `notFound` tells whose lookup ended the process: one of
`initializeEnvironment`, the wrapper's, or one of those that happen at the first use of a class
(`LazyLookup`: the JVM logger, the boxed classes), which may come long after the base was set.

**MemberTable / MethodCache.** The first is the promise: one table of `MethodInfo` by
key. In the second a `Method` object is a member, `stack[t]` the lookups thread `t`
is in, `Inner(m)` the library methods the lookup of `m` calls. `getClass` is two
steps, a read and a write of `javaClassCache`, since `ObjectArray` calls it without
the mutex, whatever other threads look up; `raced` remembers that two threads were in it,
after which an entry may get lost. A `MethodInfo` is
named by the member that made it, so sharing can be seen. `Initialize` is
`initializeEnvironment`, its last entry the call that passes on the log level.
A search by Java after `GetMethodID` failed runs with an exception pending, which
JNI leaves undefined; this module allows both outcomes, Invocation looks at what
the library makes of it.

**Invocation.** One thread: `frames` is the JVM's stack of sets of local
references, `calls` the library calls in progress, `Route` the order of the
stages of each operation. Calls nest where the code makes them nest: lookups,
conversions of arguments and of boxed results, and native code that Java calls
back. `thrown` unwinds C++ calls up to the native code that made the outermost
one, which is assumed to catch it. A JNI function called with an exception
pending may do anything it may do otherwise. The library's own Java methods make
no callbacks.

**ExportLookup.** One name is looked up again and again while `setRequiresExport`
changes the policy. A member is its class and its signature; `Gather` reads one
class of the chain per step, `Examine` one candidate, as the code takes the
monitor of the map once per candidate. The specification it is compared with is
declarative (`Reaches`, `Meant`, `Valid`): no walk, no order. `MakeKey` is what the code
does: the text from the first occurrence of the name on, so a name that occurs in the
name of its class has that as a `Prefix`.

**Conversions / Cells / Arrays.** Conversions is what a number goes through: the
cast of the converter, the member of the union `jvalue` that overload resolution
picks, and the member Java reads. A byte has `ByteValues` values, `Probes` are the numbers whose casts are
in use, `Garbage` is what may be in the rest of the union: the proofs allow any, TLC small ones. Arrays adds an array
whose elements are Java's, seen from C++ through casts (`View`), and the pointers and
copies that are out; Cells is what those who share it are promised.

**Logging.** Every kind of call is a row of `Route`: writing a message, `env()` in a
thread whose pointer is not set, a call of `jJvmLog`, the lookup of another method,
setting the level. A call that makes a call puts it on its thread's `stack`. The order is
that of `operator()`: the frame and with it `env()` first, then `call_once`. `env()` writes two
messages of its own before it sets the pointer (`Utilities.cpp` 49, 72), with the recursive
`javaEnv_mutex` held, so that other threads wait there (`EnvFree`). The constructor of the
function-local `jSetMinimumLogLevel` logs too, while the compiler's guard makes other
setters wait (`once["static"]`). The model starts when `initializeEnvironment` passes the
level on. Levels and loggers may have been set before there was a VM, except a JVM logger
at the debug level, with which the earlier lookups would not have come to an end. `gLog` is
not null: the `Method` objects with static storage fetch the logger when they are
constructed (`JniPlusPlus.hpp` 121), before `main`. All threads are attached; whether one has
used its env is `envSet`. Setters may overlap, and threads without an env may set the level.

## 3. The runs

Distinct states are for the configuration as it stands.

| Run | Instance | Shows |
|---|---|---|
| `vm_lifecycle` (659,878 states) | ThreadWrapper with VmLifecycle: 2 native threads, one of them a worker, 1 Java thread, 3 calls each, `JNI_CreateJavaVM` and attach may fail, the package base may be set | `NoLostWakeup`, `CallsGoOn` (no calls wait for each other), `LiveUnlessDetached` (an answer is out of date only in a thread that was itself detached), `PublishedVmIsUp`, `ArgsFreedOnce`, `RoutineHasVm`, `AttachmentReturned`; `WrappedCallsReturn`, `WrappersEnd`: no call and no wrapper hangs while there is a VM, unless a class is not found |
| `vm_early_env` | VmLifecycle without `vmFirst` | `WaitersProceed` fails (section 5) |
| `thread_class` | any package base, or none | `ThreadClassFound` fails (section 5) |
| `singletons` (1,698) | 2 threads, 2 classes, 3 objects, 3 handles; one class stable | `RefsBalanced`, `NoStaleUseOfStable`, and the refinement `RegistryImplemented` |
| `method_cache` (508,786) | initializer and 2 threads, two `Method` objects of one method, one field that only the search finds, one `ObjectArray` at any time, 1 exception | `SharedInfo`, `NothingLeftHeld`, `LookupsProceed` (no lookups wait for each other), `ClassRacesAreOfArrays`, the refinement `TableImplemented`, `LookupsReturn` |
| `method_cache_boot` | without `bootFirst` | `LookupsReturn` fails |
| `invocation` (1,639,761) | 3 calls of any kind and nesting, 4 handles, lack of memory, details that raise | `FramesRestored`, `ResultIsLive`, `NothingLeftPending`, `ExceptionIsOwn` |
| `invocation_search` | 3 calls, no faults | `SearchAnswers` fails |
| `logging` (334,328) | 2 threads, each with or without an env, 5 calls, 3 levels, any logger to begin with | `LevelsAgree`, `CallsProceed` (nobody waits in vain), `LogReturns` |
| `logging_jvm` | without `resolvedFirst` | `LogReturns` fails |
| `export_lookup` (1,236,912) | a nested class with a superclass in another package, and the exporter itself; methods, constructors or fields; 2 changes of the policy | `AnswerExplained`, `PolicyIsLocal`, `SearchEnds` |
| `arrays` (93,121) | 2 threads, 2 elements, bytes of four values, six types | `ValuesComeBack`, `WaysAgree`, the refinement `CellsImplemented` |

**Bounds and why they are enough.** `MaxCalls` of VmLifecycle: create or load, use
or detach, destroy is the longest chain that meets itself on one thread; the
other threads run theirs at the same time; a worker's wrapper makes three more. One
worker is enough, as workers share nothing but what VmLifecycle has. `Bases` leaves out a client's package there,
which differs from the library's only in that a wrapper ends at its class (`thread_class` has both). Three handles for three objects force
`NewGlobalRef` to give a deleted handle to another class, with a reference still
held. Two `Method` objects of one key and two threads are a race for one entry;
the third thread is `initializeEnvironment`; an exception may strike any lookup, and its retry
meets what it left. Invocation: three nested calls are lookup within call within callback
or search within lookup within call, and three in sequence leave an exception of
one for the next two; four handles are enough for a string argument, a result
and its copy in the outer frame while one more is held outside. Handles are
symmetric there. `MaxDepth` of Logging leaves room above the deepest nesting that
five calls can reach by the rules (`CallsProceedAlways` shows that `MaxCalls + 4` is enough),
so that only a message going in circles gets stuck there, and `CallsProceed` and `LogReturns` see it. ExportLookup: two configured packages, one
inside of the other, and two changes give each package each setting in each order,
before and during a search (`MaxPolicies`); `Declarable` and `Annotatable` leave out
declarations that are like others: an overload, an overridden method, an inherited one
and two overloads of the exporter remain, with the enclosing class and the superclass
annotated or not. Arrays: with bytes of four values a long has 16 bits, and TLC tries the values at the
edges of both types (`EdgesOfTypes`); two elements are enough for regions
that overlap, miss or exceed the array. `FieldUntouched` keeps fields and arrays,
which do not meet, in separate behaviours.

**Fairness.** Weak fairness per thread on the steps inside of a library call
(`Step`, `LookupStep`, `LogStep`): a thread that can run on does, which is what an
operating system's scheduler gives, and a mutex or once flag that stays free is
eventually taken. `WrapperStep` and `SearchStep` are fair for the same reason; when a
routine ends is its own affair. `Initialize` is fair because `createVM` and `JNI_OnLoad` go through
it. Not fair, because nothing in the code makes them happen: starting a call,
spurious wakeups (a sleeper may not count on one), starting and ending Java
threads. In `method_cache` lookups may throw at most `MaxThrows` times; without
that bound a lookup could fail for ever, which would be no fault of the locks.

`CHECK_DEADLOCK FALSE` is set where the bound on calls lets the system stop;
`singletons` and `export_lookup` do not stop, and check it.

## 4. Usage rules

The library leaves some orders of calls to its clients. The models state them as
members of the constant `Contract` (in Singletons: `Stable`) or as guards of the actions of clients, so that a run or a
theorem says which it needs.

| Rule | Meaning | Without it |
|---|---|---|
| `vmFirst` | `env()` is called by attached threads or once the VM is published | an early `env()` blocks the creator (`vm_early_env`) |
| `quiescentDestroy` | `destroyVM` runs alone, no other thread attached | `destroyVM` holds `javaVM_mutex` while it waits for threads that need it to detach: `WrappedCallsReturn` fails |
| `Stable` | a class's registration is not changed during a call that uses it | a call goes on with a deleted reference: `NoStaleUseOfStable` is only about stable names |
| `bootFirst` | members are looked up once the library methods they need are resolved | two lock orders meet (`method_cache_boot`) |
| `PlainNames` | a looked-up name does not occur in the name of its class | overridden methods count twice, and the search finds two matches |
| one copy (`MayUsePointer`, `MayUseArray`) | while a copy of its elements is out, an array is used through that pointer alone | stores are lost when the copy is written back |
| `notBoth` | not both loggers forward to the other side | messages go in circles (documented at `JniLogger.java` 26-28) |
| `resolvedFirst` | until `jJvmLog` is resolved, the JVM logger is installed only above the debug level, and nobody looks members up | `logging_jvm`; with two threads also once flag against `cacheMutex` |
| `envFirst` | while debug messages go to Java, only threads that have used their env call the library | the message of `env()` needs `env()`: it recurses until the stack is used up (`CallsProceed`, `LogReturns` fail) |

Only `notBoth` is written down in the sources; the others are what the models
showed to be necessary. No rule keeps away what a property is about and the code lets
happen: threads that call on after a detach, an `ObjectArray` that meets a lookup and setters that
overlap are in the runs, and `LiveUnlessDetached`, `ClassRacesAreOfArrays` and `LevelsAgree` say how far
the damage goes: to the detached thread itself, to the map of classes, to the next setter.

## 5. Disagreements between the code and its comments

1. `vm_early_env`: `env()` sleeps in `getVM()` with `javaEnv_mutex` held
   (`Utilities.cpp` 46-50). The creator publishes the VM, needs that mutex for its
   own first JNI call, and never reaches `notify_all` (144). Line 84 says threads
   block "until it becomes available".
2. `method_cache_boot`: a lookup holds `cacheMutex` and waits for the once flag of
   `jIsExportable`; `initializeEnvironment` holds that flag and waits for `cacheMutex`.
3. `invocation_search`: `GetMethodID` failed, its `NoSuchMethodError` stays pending,
   and the check after the Java search throws it: the search that the comment at
   `Utilities.cpp` 317-321 announces can never answer for a method.
4. `logging_jvm`: with `JniJvmLogger` at the debug level, the default, a thread whose env is set resolves a
   method of the log inside of `call_once`, the lookup logs, and that message waits for the same
   `once_flag`; `JniLogger.java` 26-28 names only the two loggers together as a cause of messages that do not end.
5. `thread_class`: `initializeEnvironment` caches the class `JavaToNativeExporter` so that new
   threads can call it (comment at `Utilities.cpp` 216-217), but under its full name, and
   `javaThreadWrapper` asks for the simple one (`ThreadWrapper.cpp` 28): neither the cache
   nor `FindClass` has it. `ThreadClassFound` is what that comment promises, no more.

Met on the way, without a run of their own:

- `createVM` returns at `Utilities.cpp` 140 with the VM published and no `notify_all`; who waits
  already is never woken (`NoLostWakeupAlways` needs that `FindClass` does not fail).
- With a package base, the library's full names get it in front, also those that are resolved at their first
  use, later (`Loggers.cpp` 111, `BoxedPrimatives.hpp` 31-113), and are not found (`LazyLookup`).
- With `JniJvmLogger` at the debug level the first call of a thread does not end: `env()` logs before it has set the
  pointer (`Utilities.cpp` 49), and that message needs `env()` (rule `envFirst`).
- `SingletonMethod::invoke` uses its reference after the mutex is gone (`JniPlusPlus.hpp`
  401-405), against its own comment "Don't ever cache".
- `makeKey` cuts at the first occurrence of the name (`JavaToNativeExporter.java` 290).
- The policy is read once per candidate (line 216): a search during which it changes may
  find a match that was never the only one. `AnswerExplained` says what remains.
- `PrimitiveArray::convert` with a `start` other than 0 creates an array that is too short
  (`JniPlusPlus.hpp` 503); the exception stays pending until some checked call.
- A char above 127 from Java does not come back the same (`Converters.hpp` 282), and for `char`
  the pointer from `PrimitiveArray::get` has elements of another size than Java's.
- `SingletonField` throws a pointer (`JniPlusPlus.hpp` 450).
- A typed array as the result type of `PrimitiveArray::create` ends in the unspecialised
  pass-through, which does not carry the reference out of the frame (479).

## 6. Proofs

TLC checks the instances above; the theorems hold for any sets of threads, names,
objects and handles and any number of calls. Every invariant of every passing run has
one, and so have the action property and the three refinements.

**VmLifecycleProofs.** The inductive invariant `VmInv` adds to the type invariant:
`PcOfTask` (which program points belong to which call), `LockInv` (a mutex is owned
exactly by the thread at the points that hold it), `CallInv` (no result while in
a call; `JNI_OnLoad` runs attached; the creator's own env is cached, so that it never
waits), `UpInv` (attached threads mean a VM that is up), `EnvPtrInv` (a thread-local
pointer belongs to an attached thread, or to one in `stale`) and, under its assumption, `NoLostWakeup`. `UpInv` and `CallInv` are what makes
`PublishedVmIsUp` inductive: `setVM` publishes because its caller is attached. One lemma
per action, one step per conjunct.

`GoInv` is for `CallsGoOn`, which says that the waiting in `env()`, `getVM()` and `destroyVM` has no
circle. `destroyVM` runs alone (`DestroyAlone`), so that nobody waits for `javaVM_mutex`. A thread
inside of `env()` sleeps with `javaEnv_mutex` only if it came before the VM was published, and by
`vmFirst` that is only while `JNI_OnLoad` is about to publish it (`NullInv`, `EarlyInv`, `WaitInv`).
`JNI_OnLoad` notifies before it needs that mutex, unlike `createVM`. So who waits for the mutex waits for
the owner, the owner for the loader, and the loader for nobody: the two steps of the chain in
`CallsGoOn`. Its proof needs no case for each action but `StepEffects`, what steps have in common.

- `VmTypeCorrect`, `PublishedVmIsUpAlways`: no assumption on rules or faults.
- `NoLostWakeupAlways`: assumes that `FindClass` does not fail (section 5).
- `LiveUnlessDetachedAlways`: no assumption: clients may call what they like in any order.
- `CallsGoOnAlways`: assumes `vmFirst`, `quiescentDestroy` and that `FindClass` does not fail; creating and
  attaching may fail.

**ThreadWrapperProofs.** `WrapperInv` adds to `VmInv`: `ArgsInv` follows the arguments through the
stages; `TaskOfStage` says which library call a stage makes, and that a worker in it was not
detached, which is what keeps `VmInv` invariant under calls the wrapper makes by itself
(`SubCallStep`); `AttachInv` says who is attached, and that `doDetachThread` says so too. `StepOfOthers`
is why other threads cannot take a worker's attachment away: `DestroyJavaVM` waits for it.
`WrapperGoInv` adds to `GoInv` why the `env()` of a worker, which no rule guards, is not an early one: it
follows `attachCurrentThread`, which returns once the VM is published, or from a pointer that is
set (`AttachKnown`).

- `WrapperTypeCorrect`, `ArgsFreedOnceAlways`: no assumption.
- `RoutineHasVmAlways`, `AttachmentReturnedAlways`, `WrappedLiveUnlessDetached`: no assumption.
- `WrappedNoLostWakeup`, `WrappedCallsGoOn`: the assumptions of their counterparts above.

**SingletonsProofs.** `SingInv` is the type invariant, `RefsBalanced` and `StableInv`: a call for a
stable name holds the very handle that is in the map, which denotes what the call
found. That, with the one-to-one property of `RefsBalanced`, is why deleting some
other name's handle cannot hit it. Each action lemma shows the invariant and the
abstract step together.

- `SingTypeCorrect`, `RefsBalancedAlways`, `NoStaleUseOfStableAlways`.
- `RegistryRefined`: `Singletons` implements `SingletonRegistry`.

**MethodCacheProofs.** `StackShape`: a lookup that waits for an inner one is inside, and the objects on a
stack have falling ranks, so that no lookup waits for itself and none is deeper than three.
With it goes who owns what: a thread owns exactly the once flags of the lookups on its stack that are
past `call_once`, and the depth of `cacheMutex` is the number of its owner's frames inside. So only one
thread is between the miss and the entry, which gives both sharing and the refinement.

`BootInv` is for `LookupsProceed`: the outermost lookup of every thread calls only library methods that are
resolved (`BottomsKnown`). For user code that is the rule `bootFirst`; within `initializeEnvironment` it is
the order of its list, in which `jIsExportable`, which `jLookupJavaMember` asks for, comes first
(`FirstSet`). So an inner lookup finds its once flag set (`InnersSet`), nobody waits for a flag with the
mutex held, and the owner of the mutex goes on.

- `CacheTypeCorrect`, `SharedInfoAlways`, `NothingLeftHeldAlways`, `TableRefined`: no assumption on rules.
- `ClassRacesAreOfArraysAlways`: no assumption either; the owner of `cacheMutex` is the only thread in
  `getClass` that is not there for an array.
- `LookupsProceedAlways`: assumes `bootFirst`.

**InvocationProofs.** `FramesRestored` is not inductive, because a call without a frame (lack of memory)
leaves references in its caller's. `CallsInv` says that the frames under a call are those it was
made on, but for the innermost, and that only the innermost call may have popped its frame early,
for its result. For exceptions, a pending one that a checked operation raised is found only where a check
follows, or in a member search, which cannot end without one (`PendingInv`); identities of
exceptions grow with the calls that raise them (`IdsInv`, `ThrownInv`).

- `InvocationTypeCorrect`, `FramesRestoredAlways`, `ResultIsLiveAlways`, `NothingLeftPendingAlways`,
  `ExceptionIsOwnAlways`: every invariant of the run, for any nesting, faults and number of references.

**LoggingProofs.** Three parts. Types (`LogInv`): the depth of the recursive mutex is the number of frames on its
owner's stack that are past the lock, so it is bounded by the bound on stacks. Levels (`LevelInv`): a setter
that is `alone` has its env, so it does not turn back at `PassLevel`; from its write on, nobody else writes either
level, and what it reads is what it wrote. Waiting (`NestInv`): `Link` says which call may be on top of which, by
whether the thread has its env and whether `jJvmLog` is resolved. Until it is, debug messages are
filtered (`Unresolved`), so that no message about that lookup goes to Java. Afterwards each message that comes
back from Java came back because a client switched loggers meanwhile, so that `Shallow` bounds the nesting by
the calls made. `EnvFirst` is why a message of `env()` does not go to Java. `Owned` says that a thread owns
flags for its outermost call only. So a thread in `env()` waits for nobody, the owner of
`cacheMutex` at most for one in `env()`, and the owner of a flag at most for these two.

- `LevelsAgreeAlways`: no assumption on rules.
- `LogTypeCorrect`: no assumption on rules.
- `CallsProceedAlways`: assumes the three rules, and room for `MaxCalls + 4` calls on a stack.

**ExportLookupProofs.** `GatherInv`: after `depth` classes the walk has kept nothing that a nearer member overrides, and
for everything it has read something at least as near with the same signature. `ExamineInv`: what was
examined and is not the match found so far was not valid at the moment it was examined.

- `AnswerExplainedAlways` (assuming `PlainNames`), `LookupTypeCorrect`, `PolicyIsLocalAlways`: for any classes,
  members and packages, and any number of policy changes.
- `OnlyMatchAnswered`: what `AnswerExplained` comes to in a search that meets one policy: the answer is the one valid
  match, and there is none if there is not exactly one.

**ArraysProofs.** First the arithmetic: a cast is the number with the same remainder in the range of its type
(`CastDepends`, `CastOfValue`), so casts through a wider type and back, through another sign, or through the
union with anything in its upper bytes, are one cast (`CastTwice`, `RoundTrip`, `ArgumentArrives`). `CastsDo` is what the
arrays need of that. Then `ArrayInv`: at most one thread has a copy, and elements and copies are values of the
element type. Each action lemma shows the invariant and the abstract step together; `Contents` chooses the
one copy.

- `ConversionsInvert`, `WaysAgreeAlways`, `ArrayTypeCorrect`, `CellsRefined`: for any even number of values of a byte, any
  `Probes`, so with `Int` for all values of all types, and anything in the union. 256 values are the real byte.

Only model-checked is liveness: `WrappedCallsReturn`, `WrappersEnd`, `LookupsReturn`, `LogReturns`, `SearchEnds` and, where it fails,
`WaitersProceed`. The prover does not treat fairness. `CallsGoOn`, `LookupsProceed` and `CallsProceed` are the safety that
those rest on: in no state that is reached does everybody wait.

## 7. What is not modelled

- Assertions of lookups other than that the class is found; `setMode`, whose debug mode turns an exception of
  a routine into a failed assertion.
- That `env()` can block or throw inside of a registry function: the natives run on attached threads of a VM
  that is up. Calls made after `destroyVM`, when no VM can be created any more. References of a destroyed VM
  that stay in the caches.
- The chain of causes in `appendStacktrace`: getting the details of an exception is one step.
- Typed arrays as result type of `PrimitiveArray::create`; C++ exception types.
- The lifetime of a logger that is replaced while `log_vprint` uses it without the lock (`Loggers.cpp` 62).
- Contents of strings, floating point; arrays of `char` through pointers, whose elements overlap.
- `JniTypeMapping` beyond the numbers, `LiteralName`: names and types chosen at compile time, without control.
- SWIG support: its converter specialises a member template that is not declared, so it does not compile
  when it is instantiated, and nothing instantiates it.
- Examples, vendored code, build files.

## 8. Plan

Done: every component with state of its own has a module, every module theorems, every invariant of the runs a
proof. Left:

1. Loggers as objects with a lifetime, for the unlocked read at `Loggers.cpp` 62.
2. Chains of causes, which may be cyclic, in Invocation (`Exceptions.cpp` 85).
3. A theorem that a wrapped thread's life is a sequence of calls a client might have made, so that theorems of
   VmLifecycle carry over to ThreadWrapper without proofs of their own.
