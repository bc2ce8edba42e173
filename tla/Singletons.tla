----------------------------- MODULE Singletons -----------------------------
(***************************************************************************)
(* The singleton registry of jni++ (Singletons.cpp) with the Java natives  *)
(* that change it (JvmNativeImpls.cpp 38-53) and the calls that use it     *)
(* (SingletonMethod::invoke and SingletonField, JniPlusPlus.hpp 398-460).  *)
(*                                                                         *)
(* The registry maps a class name to a JNI global reference.  A reference  *)
(* is a handle: the JVM keeps what it denotes, a deleted handle denotes    *)
(* nothing, and NewGlobalRef may give it out again for another object.     *)
(* Each registry function is one critical section of singleton_mutex, so   *)
(* one step.  A singleton call is two: it looks the handle up, drops the   *)
(* mutex, and hands the raw handle to JNI later.                           *)
(***************************************************************************)
EXTENDS FiniteSets

CONSTANTS
  Threads,   \* threads that call singleton methods
  Names,     \* class names
  Objects,   \* Java objects
  ClassOf,   \* class name of each object: registerSingleton(Object) takes it from there
  Refs,      \* bound: handles the JVM has for global references
  NoObject, NoRef, NoName,
  Stable     \* names whose registration the client keeps while a call uses it

ASSUME SingletonAssumption ==
  /\ ClassOf \in [Objects -> Names]
  /\ NoObject \notin Objects /\ NoRef \notin Refs /\ NoName \notin Names
  /\ Stable \subseteq Names

VARIABLES
  singleton_map,  \* per class name: a handle, or NoRef when absent (or null)
  denotes,        \* per handle: the object it keeps alive, or NoObject when deleted
  className,      \* per thread: the name its singleton call is for, or NoName
  object,         \* per thread: the handle it holds, or NoRef
  found,          \* per thread: what the handle denoted at the lookup (history)
  last            \* the last operation and the object it was given (history)

vars == <<singleton_map, denotes, className, object, found, last>>

SingTypeOK ==
  /\ singleton_map \in [Names -> Refs \cup {NoRef}]
  /\ denotes \in [Refs -> Objects \cup {NoObject}]
  /\ className \in [Threads -> Names \cup {NoName}]
  /\ object \in [Threads -> Refs \cup {NoRef}]
  /\ found \in [Threads -> Objects \cup {NoObject}]
  /\ \A t \in Threads : /\ object[t] = NoRef <=> className[t] = NoName
                        /\ object[t] = NoRef <=> found[t] = NoObject

SingInit ==
  /\ singleton_map = [n \in Names |-> NoRef]
  /\ denotes = [r \in Refs |-> NoObject]
  /\ className = [t \in Threads |-> NoName]
  /\ object = [t \in Threads |-> NoRef]
  /\ found = [t \in Threads |-> NoObject]
  /\ last = <<"init", NoObject>>

-----------------------------------------------------------------------------
(* Usage rule: the registration of a stable name is not taken away while a *)
(* call uses it.                                                           *)
MayChange(n) == n \in Stable => \A t \in Threads : className[t] # n

(* IsSameObject(singleton_map[name], o); false for a name without handle.  *)
Registered(o) ==
  LET r == singleton_map[ClassOf[o]] IN r # NoRef /\ denotes[r] = o

(* What the handles denote once those in gone are deleted. *)
Deleted(gone) == [r \in Refs |-> IF r \in gone THEN NoObject ELSE denotes[r]]

(* Mutation: the handle of the replaced object is not deleted. *)
RegisterLeaks(o) ==
  LET n == ClassOf[o] IN
  /\ ~Registered(o) /\ MayChange(n)
  /\ \E r \in Refs : /\ denotes[r] = NoObject
                     /\ denotes' = [denotes EXCEPT ![r] = o]
                     /\ singleton_map' = [singleton_map EXCEPT ![n] = r]
  /\ last' = <<"register", o>>
  /\ UNCHANGED <<className, object, found>>

(* Mutation: the object that is mapped already gets a new handle. *)
RegisterAgain(o) ==
  LET n == ClassOf[o]  left == Deleted({singleton_map[n]}) IN
  /\ Registered(o) \/ MayChange(n)
  /\ \E r \in Refs : /\ left[r] = NoObject
                     /\ denotes' = [left EXCEPT ![r] = o]
                     /\ singleton_map' = [singleton_map EXCEPT ![n] = r]
  /\ last' = <<"register", o>>
  /\ UNCHANGED <<className, object, found>>

(* registerSingleton: nothing to do when the object is mapped already;     *)
(* otherwise the old handle is deleted before the new one is asked for,    *)
(* and NewGlobalRef answers null when the JVM is out of memory.            *)
RegisterSingleton(o) ==
  LET n == ClassOf[o]  left == Deleted({singleton_map[n]}) IN
  /\ ~Registered(o) /\ MayChange(n)
  /\ \/ \E r \in Refs : /\ left[r] = NoObject
                        /\ denotes' = [left EXCEPT ![r] = o]
                        /\ singleton_map' = [singleton_map EXCEPT ![n] = r]
     \/ /\ denotes' = left
        /\ singleton_map' = [singleton_map EXCEPT ![n] = NoRef]
  /\ last' = <<"register", o>>
  /\ UNCHANGED <<className, object, found>>

(* Mutation: any object of the class unregisters the one that is mapped. *)
UnregisterAny(o) ==
  LET n == ClassOf[o] IN
  /\ singleton_map[n] # NoRef /\ MayChange(n)
  /\ denotes' = Deleted({singleton_map[n]})
  /\ singleton_map' = [singleton_map EXCEPT ![n] = NoRef]
  /\ last' = <<"unregister", o>>
  /\ UNCHANGED <<className, object, found>>

UnregisterSingleton(o) ==
  LET n == ClassOf[o] IN
  /\ Registered(o) /\ MayChange(n)
  /\ denotes' = Deleted({singleton_map[n]})
  /\ singleton_map' = [singleton_map EXCEPT ![n] = NoRef]
  /\ last' = <<"unregister", o>>
  /\ UNCHANGED <<className, object, found>>

ClearSingletonObjects ==
  /\ \A n \in Names : singleton_map[n] # NoRef => MayChange(n)
  /\ denotes' = Deleted({singleton_map[n] : n \in Names})
  /\ singleton_map' = [n \in Names |-> NoRef]
  /\ last' = <<"clear", NoObject>>
  /\ UNCHANGED <<className, object, found>>

-----------------------------------------------------------------------------
(* A singleton call. *)

(* getSingletonObject; without an object the call throws and is over. *)
Lookup(t, n) ==
  /\ object[t] = NoRef
  /\ singleton_map[n] # NoRef
  /\ className' = [className EXCEPT ![t] = n]
  /\ object' = [object EXCEPT ![t] = singleton_map[n]]
  /\ found' = [found EXCEPT ![t] = denotes[singleton_map[n]]]
  /\ last' = <<"lookup", NoObject>>
  /\ UNCHANGED <<singleton_map, denotes>>

(* Mutation: the end of a call leaves its handle behind. *)
InvokeKeepsHandle(t) ==
  /\ object[t] # NoRef
  /\ className' = [className EXCEPT ![t] = NoName]
  /\ found' = [found EXCEPT ![t] = NoObject]
  /\ last' = <<"done", NoObject>>
  /\ UNCHANGED <<singleton_map, denotes, object>>

(* The JNI call takes the handle, or getMethodInfo throws before it. *)
Invoke(t) ==
  /\ object[t] # NoRef
  /\ className' = [className EXCEPT ![t] = NoName]
  /\ object' = [object EXCEPT ![t] = NoRef]
  /\ found' = [found EXCEPT ![t] = NoObject]
  /\ last' = <<"done", NoObject>>
  /\ UNCHANGED <<singleton_map, denotes>>

-----------------------------------------------------------------------------
SingNext ==
  \/ \E o \in Objects : RegisterSingleton(o) \/ UnregisterSingleton(o)
  \/ ClearSingletonObjects
  \/ \E t \in Threads : Invoke(t) \/ \E n \in Names : Lookup(t, n)

SingSpec == SingInit /\ [][SingNext]_vars
-----------------------------------------------------------------------------
(* The registry owns its global references one to one: every handle in the *)
(* map is live and of an object of that class, no two names share one (one *)
(* name's removal would delete the other's), and no handle is live outside *)
(* of the map (nobody would ever delete it).                               *)
MapIsLive ==
  \A n \in Names : singleton_map[n] # NoRef =>
    /\ denotes[singleton_map[n]] \in Objects
    /\ ClassOf[denotes[singleton_map[n]]] = n

NoLeak ==
  \A r \in Refs : denotes[r] # NoObject => \E n \in Names : singleton_map[n] = r

RefsBalanced == MapIsLive /\ NoLeak

(* The handle a call holds still denotes the object the call looked up:    *)
(* the purpose of the rule in the comment at JniPlusPlus.hpp 400, "Don't   *)
(* ever cache the singleton object.  It might change...".                  *)
HandleIsValid(t) == object[t] # NoRef => denotes[object[t]] = found[t]

(* That holds when the call is for a name whose registration the client    *)
(* keeps during calls, whatever happens to the other names and however the *)
(* JVM gives out handles again.                                            *)
NoStaleUseOfStable ==
  \A t \in Threads : className[t] \in Stable => HandleIsValid(t)

(* The registry does what SingletonRegistry promises. *)
CurrentObject(n) == IF singleton_map[n] = NoRef THEN NoObject ELSE denotes[singleton_map[n]]

Registry == INSTANCE SingletonRegistry
  WITH current <- [n \in Names |-> CurrentObject(n)], target <- found

RegistryImplemented == Registry!RegSpec
=============================================================================
