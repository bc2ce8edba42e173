---------------------------- MODULE MethodCache ----------------------------
(***************************************************************************)
(* The lookup of methods and fields (Utilities.cpp 211-413, Method and     *)
(* Field in JniPlusPlus.hpp): every Method or Field object resolves itself *)
(* once (std::call_once), under the recursive cacheMutex, into a cache of  *)
(* MethodInfo by key that all objects share.  To resolve a member of user  *)
(* code the library calls its own Java methods, whose Method objects       *)
(* resolve themselves the same way from inside the first lookup;           *)
(* initializeEnvironment resolves those in advance.  The classes have a    *)
(* cache of their own, which ObjectArray uses, too, but without the mutex. *)
(***************************************************************************)
EXTENDS Naturals, Sequences

CONSTANTS
  Threads,
  Initializer,   \* the thread that runs initializeEnvironment
  UserMembers,   \* Method and Field objects of user code
  ObjectArrays,  \* ObjectArray objects of user code
  Keys,          \* cache keys of user members: class, name and signature
  KeyOf,         \* key of each user member; several members may share one
  Kind,          \* how each user member is looked up
  Classes,       \* classes of the members and of the elements of arrays
  ClassOf,       \* class of each of them
  NoThread, NoInfo,
  MaxThrows,     \* bound: lookups that end in a Java exception
  Contract       \* usage rules: "bootFirst"

(* The library's own Method objects, in the order they are initialized;    *)
(* the last one is resolved when the minimum log level is passed on.       *)
Boot == <<"jIsExportable", "jLookupJavaMember", "jLookupJavaField", "jGetFieldClass",
          "jSetMinimumLogLevel">>
BootMembers == {Boot[i] : i \in DOMAIN Boot}
Members == BootMembers \cup UserMembers
AllKeys == BootMembers \cup Keys
Lazy == Members \cup ObjectArrays   \* what is resolved once

(* The library's methods are methods of two classes. *)
BootClasses == {"JavaToNativeExporter", "java.lang.reflect.Field"}
AllClasses == BootClasses \cup Classes

ASSUME CacheAssumption ==
  /\ Initializer \in Threads /\ NoThread \notin Threads
  /\ "set" \notin Threads \cup {NoThread}
  /\ UserMembers \cap BootMembers = {} /\ Keys \cap BootMembers = {}
  /\ ObjectArrays \cap Members = {}
  /\ ClassOf \in [UserMembers \cup ObjectArrays -> AllClasses]
  /\ KeyOf \in [UserMembers -> Keys]
  /\ Kind \in [UserMembers -> {"method", "scannedMethod", "field", "scannedField"}]
  /\ NoInfo \notin Members /\ MaxThrows \in Nat
  /\ Contract \subseteq {"bootFirst"}

KeyFor(m) == IF m \in BootMembers THEN m ELSE KeyOf[m]

ClassFor(m) ==
  IF m \notin BootMembers THEN ClassOf[m]
  ELSE IF m = "jGetFieldClass" THEN "java.lang.reflect.Field" ELSE "JavaToNativeExporter"

(* The library methods that the lookup of m calls, in order: a method that *)
(* JNI finds by its signature is checked for export, one that it does not  *)
(* find is searched in Java; a field is asked for its declaring class too. *)
(* The methods of JavaToNativeExporter itself need none.                   *)
Inner(m) ==
  IF m = "jGetFieldClass" THEN <<"jIsExportable">>
  ELSE IF m \in BootMembers THEN << >>
  ELSE [method        |-> <<"jIsExportable">>,
        scannedMethod |-> <<"jLookupJavaMember">>,
        field         |-> <<"jIsExportable", "jGetFieldClass">>,
        scannedField  |-> <<"jLookupJavaField", "jGetFieldClass">>][Kind[m]]

VARIABLES
  once,        \* per lazy object: the thread that resolves it, NoThread, or "set"
  info,        \* per member: its MethodInfo, named by the member that made it
  cache,       \* per key: the MethodInfo, or NoInfo
  javaClassCache, \* the classes that have an entry
  raced,       \* history: two threads have been in getClass at once
  classRefs,   \* per class: the global references made for it (counted until raced)
  cacheMutex,  \* owner of the recursive mutex, or NoThread
  depth,       \* how many times the owner holds it
  stack,       \* per thread: the lookups it is in, innermost first
  booted,      \* how many of Boot initializeEnvironment has been through
  throws       \* number of lookups that ended in an exception

classes == <<javaClassCache, classRefs, raced>>
mutex == <<cacheMutex, depth>>
bounds == <<booted, throws>>
vars == <<once, info, cache, classes, mutex, stack, bounds>>

(* A lookup in progress: before call_once, before the mutex, in getClass   *)
(* before its entry is read, before it is written, or past it and about to *)
(* make its next-th call of a library method.                              *)
Frames == [m : Lazy, at : {"once", "lock", "class", "find", "inside"}, next : 1..3]

CacheTypeOK ==
  /\ once \in [Lazy -> Threads \cup {NoThread, "set"}]
  /\ info \in [Members -> Members \cup {NoInfo}]
  /\ cache \in [AllKeys -> Members \cup {NoInfo}]
  /\ javaClassCache \subseteq AllClasses
  /\ classRefs \in [AllClasses -> Nat] /\ raced \in BOOLEAN
  /\ cacheMutex \in Threads \cup {NoThread} /\ depth \in 0..3
  /\ stack \in [Threads -> Seq(Frames)]
  /\ \A t \in Threads : Len(stack[t]) <= 3
  /\ booted \in 0..Len(Boot) /\ throws \in 0..MaxThrows
  /\ depth = 0 <=> cacheMutex = NoThread

CacheInit ==
  /\ once = [m \in Lazy |-> NoThread]
  /\ info = [m \in Members |-> NoInfo]
  /\ cache = [k \in AllKeys |-> NoInfo]
  /\ javaClassCache = {} /\ classRefs = [c \in AllClasses |-> 0] /\ raced = FALSE
  /\ cacheMutex = NoThread /\ depth = 0
  /\ stack = [t \in Threads |-> << >>]
  /\ booted = 0 /\ throws = 0

-----------------------------------------------------------------------------
Top(t) == Head(stack[t])
In(t, at) == stack[t] # << >> /\ Top(t).at = at
Frame(m) == [m |-> m, at |-> "once", next |-> 1]

Goes(t, at) == stack' = [stack EXCEPT ![t] = [@ EXCEPT ![1].at = at]]

(* The innermost lookup returns, and its caller goes on to its next call. *)
Popped(s) ==
  LET rest == Tail(s) IN
  IF rest = << >> THEN rest ELSE [rest EXCEPT ![1].next = @ + 1]

Return(t) == stack' = [stack EXCEPT ![t] = Popped(@)]

(* getClass uses the map of classes, with the mutex or without it. *)
InGetClass(t) == In(t, "class") \/ In(t, "find")
OthersInGetClass(t) == \E u \in Threads \ {t} : InGetClass(u)

EnterGetClass(t) ==
  /\ Goes(t, "class")
  /\ raced' = (raced \/ OthersInGetClass(t))
  /\ UNCHANGED <<javaClassCache, classRefs>>

(* initializeEnvironment resolves the library's methods one by one. *)
Initialize ==
  /\ stack[Initializer] = << >> /\ booted < Len(Boot)
  /\ booted' = booted + 1
  /\ stack' = [stack EXCEPT ![Initializer] = <<Frame(Boot[booted + 1])>>]
  /\ UNCHANGED <<once, info, cache, classes, mutex, throws>>

(* bootFirst: user code looks a member up when the library methods this    *)
(* needs are resolved.  The initializer runs no user code before it is     *)
(* done.                                                                   *)
MayLookUp(t, m) ==
  /\ t = Initializer => booted = Len(Boot)
  /\ "bootFirst" \in Contract => \A i \in DOMAIN Inner(m) : once[Inner(m)[i]] = "set"

Use(t, m) ==
  /\ stack[t] = << >> /\ MayLookUp(t, m)
  /\ once[m] # "set"
  /\ stack' = [stack EXCEPT ![t] = <<Frame(m)>>]
  /\ UNCHANGED <<once, info, cache, classes, mutex, bounds>>

(* ObjectArray::getClass, for an array that is created. *)
UseArray(t, a) ==
  /\ stack[t] = << >>
  /\ t = Initializer => booted = Len(Boot)
  /\ once[a] # "set"
  /\ stack' = [stack EXCEPT ![t] = <<Frame(a)>>]
  /\ UNCHANGED <<once, info, cache, classes, mutex, bounds>>

(* call_once: done already. *)
OnceSet(t) ==
  /\ In(t, "once") /\ once[Top(t).m] = "set"
  /\ Return(t)
  /\ UNCHANGED <<once, info, cache, classes, mutex, bounds>>

(* call_once: this thread is the one that resolves the object.  While one  *)
(* thread does, the others wait.  An array goes to getClass at once.       *)
OnceEnter(t) ==
  /\ In(t, "once") /\ once[Top(t).m] = NoThread
  /\ once' = [once EXCEPT ![Top(t).m] = t]
  /\ \/ Top(t).m \in ObjectArrays /\ EnterGetClass(t)
     \/ Top(t).m \in Members /\ Goes(t, "lock") /\ UNCHANGED classes
  /\ UNCHANGED <<info, cache, mutex, bounds>>

(* The mutex is recursive. *)
MutexFree(t) == cacheMutex \in {NoThread, t}

(* The key is cached: the lock is taken and given back in one go. *)
CacheHit(t) ==
  LET m == Top(t).m IN
  /\ In(t, "lock") /\ MutexFree(t)
  /\ cache[KeyFor(m)] # NoInfo
  /\ info' = [info EXCEPT ![m] = cache[KeyFor(m)]]
  /\ once' = [once EXCEPT ![m] = "set"]
  /\ Return(t)
  /\ UNCHANGED <<cache, classes, mutex, bounds>>

(* Mutation: the key is looked up again although it is cached. *)
CacheMissAlways(t) ==
  /\ In(t, "lock") /\ MutexFree(t)
  /\ cacheMutex' = t /\ depth' = depth + 1
  /\ EnterGetClass(t)
  /\ UNCHANGED <<once, info, cache, bounds>>

(* Mutation: the mutex is not waited for. *)
CacheMissUnlocked(t) ==
  /\ In(t, "lock") /\ cache[KeyFor(Top(t).m)] = NoInfo
  /\ cacheMutex' = t /\ depth' = IF MutexFree(t) THEN depth + 1 ELSE 1
  /\ EnterGetClass(t)
  /\ UNCHANGED <<once, info, cache, bounds>>

CacheMiss(t) ==
  /\ In(t, "lock") /\ MutexFree(t)
  /\ cache[KeyFor(Top(t).m)] = NoInfo
  /\ cacheMutex' = t /\ depth' = depth + 1
  /\ EnterGetClass(t)
  /\ UNCHANGED <<once, info, cache, bounds>>

(* getClass: the class is cached, or FindClass finds it, which the code    *)
(* asserts, and it gets a global reference and an entry.  The std::map has *)
(* no lock of its own: an entry that is written while another thread is    *)
(* about to write one may get lost.  (What else a map does that two        *)
(* threads change at once is undefined, and left out.)                     *)
ClassCached(t) ==
  /\ In(t, "class") /\ ClassFor(Top(t).m) \in javaClassCache
  /\ Goes(t, "inside")
  /\ UNCHANGED <<once, info, cache, classes, mutex, bounds>>

ClassMissing(t) ==
  /\ In(t, "class") /\ ClassFor(Top(t).m) \notin javaClassCache
  /\ Goes(t, "find")
  /\ UNCHANGED <<once, info, cache, classes, mutex, bounds>>

ClassFound(t) ==
  LET c == ClassFor(Top(t).m) IN
  /\ In(t, "find")
  /\ \/ javaClassCache' = javaClassCache \cup {c}
     \/ (\E u \in Threads \ {t} : In(u, "find")) /\ UNCHANGED javaClassCache
  /\ classRefs' = IF raced THEN classRefs ELSE [classRefs EXCEPT ![c] = @ + 1]
  /\ Goes(t, "inside")
  /\ UNCHANGED <<once, info, cache, raced, mutex, bounds>>

(* The array has its class. *)
ArrayResolved(t) ==
  /\ In(t, "inside") /\ Top(t).m \in ObjectArrays
  /\ once' = [once EXCEPT ![Top(t).m] = "set"]
  /\ Return(t)
  /\ UNCHANGED <<info, cache, classes, mutex, bounds>>

(* The lookup calls a library method, which resolves itself first. *)
CallInner(t) ==
  /\ In(t, "inside") /\ Top(t).m \in Members /\ Top(t).next <= Len(Inner(Top(t).m))
  /\ stack' = [stack EXCEPT ![t] = <<Frame(Inner(Top(t).m)[Top(t).next])>> \o @]
  /\ UNCHANGED <<once, info, cache, classes, mutex, bounds>>

(* Mutation: the mutex is given back without its owner. *)
UnlockKeepsOwner == depth' = depth - 1 /\ UNCHANGED cacheMutex

Unlock == /\ depth' = depth - 1
          /\ cacheMutex' = IF depth = 1 THEN NoThread ELSE cacheMutex

(* Mutation: the resolved member is not stored under its key. *)
ResolvedUncached(t) ==
  LET m == Top(t).m IN
  /\ In(t, "inside") /\ m \in Members /\ Top(t).next > Len(Inner(m))
  /\ info' = [info EXCEPT ![m] = m]
  /\ once' = [once EXCEPT ![m] = "set"]
  /\ Unlock /\ Return(t)
  /\ UNCHANGED <<cache, classes, bounds>>

Resolved(t) ==
  LET m == Top(t).m IN
  /\ In(t, "inside") /\ m \in Members /\ Top(t).next > Len(Inner(m))
  /\ cache' = [cache EXCEPT ![KeyFor(m)] = m]
  /\ info' = [info EXCEPT ![m] = m]
  /\ once' = [once EXCEPT ![m] = "set"]
  /\ Unlock /\ Return(t)
  /\ UNCHANGED <<classes, bounds>>

(* Mutation: the exception leaves the once_flag taken. *)
ThrowsKeepsOnce(t) ==
  /\ In(t, "inside") /\ Top(t).m \in UserMembers
  /\ Top(t).next > 1 /\ throws < MaxThrows
  /\ throws' = throws + 1
  /\ Unlock /\ Return(t)
  /\ UNCHANGED <<once, info, cache, classes, booted>>

(* Mutation: the exception leaves cacheMutex locked. *)
ThrowsKeepsLock(t) ==
  /\ In(t, "inside") /\ Top(t).m \in UserMembers
  /\ Top(t).next > 1 /\ throws < MaxThrows
  /\ throws' = throws + 1
  /\ once' = [once EXCEPT ![Top(t).m] = NoThread]
  /\ Return(t)
  /\ UNCHANGED <<info, cache, classes, mutex, booted>>

(* A library method that was called for a user's member came back with a   *)
(* Java exception: the lookup gives up the lock and leaves its once flag   *)
(* unset, so that the next use tries again.                                *)
Throws(t) ==
  /\ In(t, "inside") /\ Top(t).m \in UserMembers
  /\ Top(t).next > 1 /\ throws < MaxThrows
  /\ throws' = throws + 1
  /\ once' = [once EXCEPT ![Top(t).m] = NoThread]
  /\ Unlock /\ Return(t)
  /\ UNCHANGED <<info, cache, classes, booted>>

-----------------------------------------------------------------------------
LookupStep(t) ==
  \/ OnceSet(t) \/ OnceEnter(t) \/ CacheHit(t) \/ CacheMiss(t)
  \/ ClassCached(t) \/ ClassMissing(t) \/ ClassFound(t) \/ ArrayResolved(t)
  \/ CallInner(t) \/ Resolved(t) \/ Throws(t)

CacheNext ==
  \/ Initialize
  \/ \E t \in Threads : \/ LookupStep(t)
                        \/ \E m \in UserMembers : Use(t, m)
                        \/ \E a \in ObjectArrays : UseArray(t, a)

(* A lookup that can go on does; initializeEnvironment is called. *)
CacheFairness == WF_vars(Initialize) /\ \A t \in Threads : WF_vars(LookupStep(t))

CacheSpec == CacheInit /\ [][CacheNext]_vars /\ CacheFairness
-----------------------------------------------------------------------------
(* All Method objects for one JVM method share one MethodInfo (comment at  *)
(* JniPlusPlus.hpp 67-69): whoever is resolved has the one that is cached  *)
(* under its key, also when several threads resolve them at once or an     *)
(* exception cut a lookup short.                                           *)
SharedInfo ==
  \A m \in Members : once[m] = "set" => info[m] # NoInfo /\ info[m] = cache[KeyFor(m)]

(* The caches are a table in which the first of several lookups of one key *)
(* puts an entry, and from which the others take it: no step in between,   *)
(* no exception and no race shows, and no entry is ever replaced, whose    *)
(* pointer the Method objects keep.                                        *)
Table == INSTANCE MemberTable
  WITH table <- cache, resolved <- info, Key <- [m \in Members |-> KeyFor(m)]

TableImplemented == Table!TableSpec

(* Two threads use the map of classes at once only if one of them looks a  *)
(* class up for an ObjectArray (JniPlusPlus.hpp 356): methods and fields   *)
(* are kept apart by cacheMutex, which is held all through getClass        *)
(* (Utilities.cpp 265, 345).  Until that happens every class that was      *)
(* asked for has one global reference, and one entry.                      *)
ClassRacesAreOfArrays ==
  /\ \A t, u \in Threads : InGetClass(t) /\ InGetClass(u) /\ t # u =>
       Top(t).m \in ObjectArrays \/ Top(u).m \in ObjectArrays
  /\ ~raced => \A c \in AllClasses : classRefs[c] = IF c \in javaClassCache THEN 1 ELSE 0

(* Locks and once flags are held by lookups in progress only: an exception *)
(* or a return on any path leaves neither behind.                          *)
NothingLeftHeld ==
  /\ \A m \in Lazy : once[m] \in Threads =>
       \E i \in DOMAIN stack[once[m]] : stack[once[m]][i].m = m /\ stack[once[m]][i].at # "once"
  /\ cacheMutex # NoThread => \E i \in DOMAIN stack[cacheMutex] :
       /\ stack[cacheMutex][i].m \in Members
       /\ stack[cacheMutex][i].at \in {"class", "find", "inside"}

(* Who a lookup waits for: the thread that resolves its object, or the     *)
(* owner of the mutex.                                                     *)
WaitsFor(t) ==
  {u \in Threads : \/ In(t, "once") /\ once[Top(t).m] = u
                   \/ In(t, "lock") /\ cacheMutex = u /\ u # t}

(* No lookups wait for each other, whatever they look up on the way: a     *)
(* thread that waits for a once flag or for the mutex, or whoever it waits *)
(* for, or whoever that one waits for, is in a lookup and can go on.       *)
LookupsProceed ==
  \A t \in Threads : stack[t] # << >> =>
    \E u \in {t} \cup WaitsFor(t) \cup UNION {WaitsFor(v) : v \in WaitsFor(t)} :
      stack[u] # << >> /\ WaitsFor(u) = {}

(* Every lookup returns: no thread waits for ever for a once flag whose    *)
(* owner waits for cacheMutex.  The comments at JniPlusPlus.hpp 90 and     *)
(* Utilities.cpp 213-215 promise it.                                       *)
LookupsReturn == \A t \in Threads : stack[t] # << >> ~> stack[t] = << >>
=============================================================================
