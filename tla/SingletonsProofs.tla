-------------------------- MODULE SingletonsProofs --------------------------
(***************************************************************************)
(* Proofs about Singletons, for any classes, objects, handles and threads. *)
(***************************************************************************)
EXTENDS Singletons, TLAPS

(* A call for a stable name holds the handle that is in the map. *)
StableInv ==
  \A t \in Threads : className[t] \in Stable =>
    /\ object[t] = singleton_map[className[t]]
    /\ denotes[object[t]] = found[t]

SingInv == SingTypeOK /\ RefsBalanced /\ StableInv

-----------------------------------------------------------------------------
(* Each action of the registry keeps the invariant and is an operation of  *)
(* the abstract registry.                                                  *)
LEMMA SingInvInit ==
  ASSUME SingInit
  PROVE  SingInv /\ Registry!RegInit
BY SingletonAssumption DEF SingInit, SingInv, SingTypeOK, RefsBalanced, MapIsLive, NoLeak,
   StableInv, Registry!RegInit, CurrentObject

(* A change of the registration of one name, while no call for a stable    *)
(* name is under way there, does not touch the handles of stable calls.    *)
LEMMA StableKept ==
  ASSUME SingInv, NEW n \in Names, MayChange(n), UNCHANGED <<className, object, found>>,
         \A m \in Names \ {n} :
           /\ singleton_map'[m] = singleton_map[m]
           /\ singleton_map[m] # NoRef => denotes'[singleton_map[m]] = denotes[singleton_map[m]]
  PROVE  StableInv'
<1>1. SUFFICES ASSUME NEW t \in Threads, className[t] \in Stable
               PROVE  /\ object[t] = singleton_map'[className[t]]
                      /\ denotes'[object[t]] = found[t]
  BY DEF StableInv
<1>2. className[t] \in Names \ {n}
  BY <1>1, SingletonAssumption DEF MayChange
<1>3. /\ object[t] = singleton_map[className[t]]
      /\ denotes[object[t]] = found[t]
      /\ object[t] # NoRef
  BY <1>1, <1>2, SingletonAssumption DEF SingInv, SingTypeOK, StableInv
<1>4. QED
  BY <1>2, <1>3

LEMMA RegisterStep ==
  ASSUME SingInv, NEW o \in Objects, RegisterSingleton(o)
  PROVE  SingInv' /\ (Registry!RegRegister(o) \/ Registry!RegRegisterFails(o))
<1> DEFINE n == ClassOf[o]
           left == Deleted({singleton_map[n]})
<1> USE SingletonAssumption DEF SingInv, SingTypeOK
<1>1. n \in Names /\ left \in [Refs -> Objects \cup {NoObject}]
  BY DEF Deleted
<1>2. /\ UNCHANGED <<className, object, found>> /\ MayChange(n) /\ ~Registered(o)
      /\ last' = <<"register", o>>
  BY DEF RegisterSingleton
<1>3. CASE \E r \in Refs : /\ left[r] = NoObject
                           /\ denotes' = [left EXCEPT ![r] = o]
                           /\ singleton_map' = [singleton_map EXCEPT ![n] = r]
  <2>1. PICK r \in Refs : /\ left[r] = NoObject
                          /\ denotes' = [left EXCEPT ![r] = o]
                          /\ singleton_map' = [singleton_map EXCEPT ![n] = r]
    BY <1>3
  <2>2. SingTypeOK'
    BY <1>1, <1>2, <2>1
  <2>3. \A m \in Names \ {n} : singleton_map[m] # NoRef =>
           /\ singleton_map[m] # singleton_map[n]
           /\ singleton_map[m] # r
           /\ left[singleton_map[m]] = denotes[singleton_map[m]]
    BY <1>1, <2>1 DEF RefsBalanced, MapIsLive, Deleted
  <2>4. MapIsLive'
    <3>1. denotes'[singleton_map'[n]] = o
      BY <1>1, <2>1
    <3>2. \A m \in Names \ {n} : /\ singleton_map'[m] = singleton_map[m]
                                 /\ singleton_map[m] # NoRef =>
                                      denotes'[singleton_map[m]] = denotes[singleton_map[m]]
      BY <1>1, <2>1, <2>3
    <3>3. QED
      BY <3>1, <3>2 DEF RefsBalanced, MapIsLive
  <2>5. NoLeak'
    BY <1>1, <2>1 DEF RefsBalanced, NoLeak, Deleted
  <2>6. StableInv'
    BY <1>1, <1>2, <2>1, <2>3, StableKept
  <2>7. [m \in Names |-> CurrentObject(m)]'
          = [[m \in Names |-> CurrentObject(m)] EXCEPT ![ClassOf[o]] = o]
    BY <1>1, <2>1, <2>3 DEF CurrentObject
  <2>8. QED
    BY <1>2, <2>2, <2>4, <2>5, <2>6, <2>7 DEF RefsBalanced, Registry!RegRegister
<1>4. CASE /\ denotes' = left
           /\ singleton_map' = [singleton_map EXCEPT ![n] = NoRef]
  <2>1. SingTypeOK'
    BY <1>1, <1>2, <1>4
  <2>2. \A m \in Names \ {n} : singleton_map[m] # NoRef =>
           left[singleton_map[m]] = denotes[singleton_map[m]]
    BY <1>1 DEF RefsBalanced, MapIsLive, Deleted
  <2>3. MapIsLive'
    BY <1>1, <1>4, <2>2 DEF RefsBalanced, MapIsLive
  <2>4. NoLeak'
    BY <1>1, <1>4 DEF RefsBalanced, NoLeak, Deleted
  <2>5. StableInv'
    BY <1>1, <1>2, <1>4, <2>2, StableKept
  <2>6. [m \in Names |-> CurrentObject(m)]'
          = [[m \in Names |-> CurrentObject(m)] EXCEPT ![ClassOf[o]] = NoObject]
    BY <1>1, <1>4, <2>2 DEF CurrentObject
  <2>7. CurrentObject(ClassOf[o]) # o
    BY <1>2 DEF Registered, CurrentObject
  <2>8. QED
    BY <1>1, <1>2, <2>1, <2>3, <2>4, <2>5, <2>6, <2>7
       DEF RefsBalanced, Registry!RegRegisterFails
<1>5. QED
  BY <1>3, <1>4 DEF RegisterSingleton

LEMMA UnregisterStep ==
  ASSUME SingInv, NEW o \in Objects, UnregisterSingleton(o)
  PROVE  SingInv' /\ Registry!RegUnregister(o)
<1> DEFINE n == ClassOf[o]
           left == Deleted({singleton_map[n]})
<1> USE SingletonAssumption DEF SingInv, SingTypeOK
<1>1. n \in Names /\ left \in [Refs -> Objects \cup {NoObject}]
  BY DEF Deleted
<1>2. /\ denotes' = left
      /\ singleton_map' = [singleton_map EXCEPT ![n] = NoRef]
      /\ UNCHANGED <<className, object, found>> /\ MayChange(n) /\ Registered(o)
      /\ last' = <<"unregister", o>>
  BY DEF UnregisterSingleton
<1>3. SingTypeOK'
  BY <1>1, <1>2
<1>4. \A m \in Names \ {n} : singleton_map[m] # NoRef =>
         left[singleton_map[m]] = denotes[singleton_map[m]]
  BY <1>1 DEF RefsBalanced, MapIsLive, Deleted, Registered
<1>5. MapIsLive'
  BY <1>1, <1>2, <1>4 DEF RefsBalanced, MapIsLive
<1>6. NoLeak'
  BY <1>1, <1>2 DEF RefsBalanced, NoLeak, Deleted
<1>7. StableInv'
  BY <1>1, <1>2, <1>4, StableKept
<1>8. [m \in Names |-> CurrentObject(m)]'
        = [[m \in Names |-> CurrentObject(m)] EXCEPT ![ClassOf[o]] = NoObject]
  BY <1>1, <1>2, <1>4 DEF CurrentObject
<1>9. CurrentObject(ClassOf[o]) = o
  BY <1>2 DEF Registered, CurrentObject
<1>10. QED
  BY <1>1, <1>2, <1>3, <1>5, <1>6, <1>7, <1>8, <1>9 DEF RefsBalanced, Registry!RegUnregister

LEMMA ClearStep ==
  ASSUME SingInv, ClearSingletonObjects
  PROVE  SingInv' /\ Registry!RegClear
<1> USE SingletonAssumption DEF SingInv, SingTypeOK
<1>1. /\ denotes' = Deleted({singleton_map[n] : n \in Names})
      /\ singleton_map' = [n \in Names |-> NoRef]
      /\ UNCHANGED <<className, object, found>> /\ last' = <<"clear", NoObject>>
      /\ \A n \in Names : singleton_map[n] # NoRef => MayChange(n)
  BY DEF ClearSingletonObjects
<1>2. \A r \in Refs : denotes'[r] = NoObject
  BY <1>1 DEF RefsBalanced, NoLeak, Deleted
<1>3. SingTypeOK'
  BY <1>1 DEF Deleted
<1>4. RefsBalanced'
  BY <1>1, <1>2 DEF RefsBalanced, MapIsLive, NoLeak
<1>5. StableInv'
  BY <1>1 DEF StableInv, MayChange
<1>6. [m \in Names |-> CurrentObject(m)]' = [m \in Names |-> NoObject]
  BY <1>1 DEF CurrentObject
<1>7. QED
  BY <1>1, <1>3, <1>4, <1>5, <1>6 DEF Registry!RegClear

LEMMA LookupStep ==
  ASSUME SingInv, NEW t \in Threads, NEW n \in Names, Lookup(t, n)
  PROVE  SingInv' /\ Registry!RegLookup(t, n)
<1> USE SingletonAssumption DEF SingInv, SingTypeOK, Lookup
<1>1. singleton_map[n] \in Refs /\ denotes[singleton_map[n]] \in Objects
  BY DEF RefsBalanced, MapIsLive
<1>2. SingTypeOK'
  BY <1>1
<1>3. RefsBalanced'
  BY DEF RefsBalanced, MapIsLive, NoLeak
<1>4. StableInv'
  BY <1>1 DEF StableInv
<1>5. [m \in Names |-> CurrentObject(m)]' = [m \in Names |-> CurrentObject(m)]
  BY DEF CurrentObject
<1>6. QED
  BY <1>1, <1>2, <1>3, <1>4, <1>5 DEF Registry!RegLookup, CurrentObject

LEMMA InvokeStep ==
  ASSUME SingInv, NEW t \in Threads, Invoke(t)
  PROVE  SingInv' /\ Registry!RegDone(t)
<1> USE SingletonAssumption DEF SingInv, SingTypeOK, Invoke
<1>1. SingTypeOK'
  OBVIOUS
<1>2. RefsBalanced'
  BY DEF RefsBalanced, MapIsLive, NoLeak
<1>3. StableInv'
  BY DEF StableInv
<1>4. [m \in Names |-> CurrentObject(m)]' = [m \in Names |-> CurrentObject(m)]
  BY DEF CurrentObject
<1>5. QED
  BY <1>1, <1>2, <1>3, <1>4 DEF Registry!RegDone

-----------------------------------------------------------------------------
LEMMA SingInvNext ==
  ASSUME SingInv, [SingNext]_vars
  PROVE  SingInv' /\ [Registry!RegNext]_(Registry!regVars)
<1>1. CASE UNCHANGED vars
  BY <1>1 DEF vars, SingInv, SingTypeOK, RefsBalanced, MapIsLive, NoLeak, StableInv,
     Registry!regVars, CurrentObject
<1>2. ASSUME NEW o \in Objects, RegisterSingleton(o) \/ UnregisterSingleton(o)
      PROVE  SingInv' /\ Registry!RegNext
  BY <1>2, RegisterStep, UnregisterStep DEF Registry!RegNext
<1>3. CASE ClearSingletonObjects
  BY <1>3, ClearStep DEF Registry!RegNext
<1>4. ASSUME NEW t \in Threads, Invoke(t) \/ \E n \in Names : Lookup(t, n)
      PROVE  SingInv' /\ Registry!RegNext
  BY <1>4, InvokeStep, LookupStep DEF Registry!RegNext
<1>5. QED
  BY <1>1, <1>2, <1>3, <1>4 DEF SingNext

LEMMA SingInvariance == SingSpec => []SingInv
  BY SingInvInit, SingInvNext, PTL DEF SingSpec

(* Every variable of the registry keeps its type, and a thread has a       *)
(* handle exactly while it is in a singleton call.                         *)
THEOREM SingTypeCorrect == SingSpec => []SingTypeOK
<1>1. SingInv => SingTypeOK
  BY DEF SingInv
<1>2. QED
  BY <1>1, SingInvariance, PTL

(* No operation of the registry, in any order, leaks a global reference,   *)
(* deletes one that is mapped, or maps a class to another class's object.  *)
THEOREM RefsBalancedAlways == SingSpec => []RefsBalanced
<1>1. SingInv => RefsBalanced
  BY DEF SingInv
<1>2. QED
  BY <1>1, SingInvariance, PTL

(* While the client keeps a registration during the calls that use it, the *)
(* raw handle getSingletonObject gave out stays valid for the whole call.  *)
THEOREM NoStaleUseOfStableAlways == SingSpec => []NoStaleUseOfStable
<1>1. SingInv => NoStaleUseOfStable
  BY DEF SingInv, StableInv, NoStaleUseOfStable, HandleIsValid
<1>2. QED
  BY <1>1, SingInvariance, PTL

(* The registry of global references implements the abstract registry:     *)
(* what IsSameObject, DeleteGlobalRef and NewGlobalRef do in the order of  *)
(* Singletons.cpp is one atomic change of one class's object.              *)
THEOREM RegistryRefined == SingSpec => RegistryImplemented
<1>1. SingInit => Registry!RegInit
  BY SingInvInit
<1>2. SingInv /\ [SingNext]_vars => [Registry!RegNext]_(Registry!regVars)
  BY SingInvNext
<1>3. QED
  BY <1>1, <1>2, SingInvariance, PTL DEF SingSpec, RegistryImplemented, Registry!RegSpec
=============================================================================
