------------------------- MODULE SingletonRegistry -------------------------
(***************************************************************************)
(* What the singleton registry promises (Singletons.hpp): one object per   *)
(* class name at most, operations that take effect at once, and calls that *)
(* work on the object that was registered when they looked it up.          *)
(***************************************************************************)
CONSTANTS Threads, Names, Objects, NoObject, ClassOf

VARIABLES
  current,  \* per class name: the registered object, or NoObject
  target,   \* per thread: the object its singleton call works on, or NoObject
  last      \* the last operation and the object it was given (history)

regVars == <<current, target, last>>

RegInit ==
  /\ current = [n \in Names |-> NoObject]
  /\ target = [t \in Threads |-> NoObject]
  /\ last = <<"init", NoObject>>

RegRegister(o) ==
  /\ current' = [current EXCEPT ![ClassOf[o]] = o]
  /\ last' = <<"register", o>>
  /\ UNCHANGED target

(* Out of references: the name loses the object it had. *)
RegRegisterFails(o) ==
  /\ current[ClassOf[o]] # o
  /\ current' = [current EXCEPT ![ClassOf[o]] = NoObject]
  /\ last' = <<"register", o>>
  /\ UNCHANGED target

RegUnregister(o) ==
  /\ current[ClassOf[o]] = o
  /\ current' = [current EXCEPT ![ClassOf[o]] = NoObject]
  /\ last' = <<"unregister", o>>
  /\ UNCHANGED target

RegClear ==
  /\ current' = [n \in Names |-> NoObject]
  /\ last' = <<"clear", NoObject>>
  /\ UNCHANGED target

RegLookup(t, n) ==
  /\ target[t] = NoObject /\ current[n] # NoObject
  /\ target' = [target EXCEPT ![t] = current[n]]
  /\ last' = <<"lookup", NoObject>>
  /\ UNCHANGED current

RegDone(t) ==
  /\ target[t] # NoObject
  /\ target' = [target EXCEPT ![t] = NoObject]
  /\ last' = <<"done", NoObject>>
  /\ UNCHANGED current

RegNext ==
  \/ \E o \in Objects : RegRegister(o) \/ RegRegisterFails(o) \/ RegUnregister(o)
  \/ RegClear
  \/ \E t \in Threads : RegDone(t) \/ \E n \in Names : RegLookup(t, n)

RegSpec == RegInit /\ [][RegNext]_regVars
=============================================================================
