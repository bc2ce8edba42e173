------------------------------- MODULE Arrays -------------------------------
(***************************************************************************)
(* PrimitiveArray (JniPlusPlus.hpp 320-347 and 468-546): arrays that       *)
(* native code creates, fills by regions, and reads and writes through     *)
(* pointers, which are the array itself or a copy, while Java code and     *)
(* other native threads use the array.                                     *)
(*                                                                         *)
(* Functions that need a pointer to the Java element type compile only if  *)
(* that is the C++ type; the critical ones take any.  For char, C++ and    *)
(* Java disagree on the size of an element; it is left out here.           *)
(***************************************************************************)
EXTENDS Conversions, Sequences, FiniteSets

CONSTANTS
  Threads,   \* native threads
  Size       \* length of the array

ASSUME ArrayAssumption == Size \in Nat \ {0}

VARIABLES
  created,     \* the array exists
  javaArray,   \* its elements, as Java has them
  elements,    \* per thread: the pointer it has from get or getCritical
  pending,     \* per thread: an exception is pending
  last         \* history: the last access, see Cells

arrayVars == <<created, javaArray, elements, pending, last>>
vars == <<convVars, arrayVars>>

Indices == 0..Size - 1
Kinds == {"none", "pinned", "copy"}
CppValues == CppSample(type)
SameType == type \in {"short", "int", "long"}

NoPointer == [kind |-> "none", critical |-> FALSE, buffer |-> << >>]

ArrayTypeOK ==
  /\ type \in CppTypes
  /\ sent \in CppValues \union {Nothing}
  /\ created \in BOOLEAN
  /\ javaArray \in [Indices -> JavaSample(type)]
  /\ \A t \in Threads :
       LET e == elements[t]
       IN  /\ e.kind \in Kinds /\ e.critical \in BOOLEAN
           /\ e.kind = "copy" => e.buffer \in [Indices -> CppValues]
  /\ pending \in [Threads -> BOOLEAN]

ArrayInit ==
  /\ ConvInit
  /\ created = FALSE
  /\ javaArray = [i \in Indices |-> 0]
  /\ elements = [t \in Threads |-> NoPointer]
  /\ pending = [t \in Threads |-> FALSE]
  /\ last = [op |-> "none", at |-> {}, values |-> << >>]

Stored(S, f) == last' = [op |-> "store", at |-> S, values |-> f]
Loaded(i, v) == last' = [op |-> "load", at |-> {i}, values |-> [k \in {i} |-> v]]
NoAccess == last' = [op |-> "none", at |-> {}, values |-> << >>]

-----------------------------------------------------------------------------
(* What clients keep to: while a thread has a copy of the elements, which  *)
(* isCopy tells it, the array is used only through the pointer to it.      *)
HasCopy(t) == elements[t].kind = "copy"
MayUsePointer(t) == \A u \in Threads \ {t} : ~HasCopy(u)
MayUseArray == \A u \in Threads : ~HasCopy(u)

(* The thread is in library code that calls JNI: not with an exception     *)
(* pending, and not between getCritical and releaseCritical.               *)
MayCallJni(t) == ~pending[t] /\ ~elements[t].critical

-----------------------------------------------------------------------------
(* Bound: the field of Conversions and the array have nothing in common,   *)
(* so that a behavior is about one of them.                                *)
FieldUntouched == field = 0 /\ sent = Nothing

(* create: new arrays are zero. *)
Create(t) ==
  /\ ~created /\ FieldUntouched /\ MayCallJni(t)
  /\ created' = TRUE
  /\ NoAccess
  /\ UNCHANGED <<convVars, javaArray, elements, pending>>

(* Mutation: elements are taken as Java has them. *)
ViewAsJava(i) == javaArray[i]

(* An element seen from C++: the bits are those Java has. *)
View(i) == Cast(type, javaArray[i])

(* A region is stored as a whole, or not at all: JNI raises an exception   *)
(* if it is out of bounds, and nothing here looks at it.                   *)
Region(start, len) == start..start + len - 1

SetElements(t, start, len, cppArray) ==
  IF Region(start, len) \subseteq Indices
    THEN /\ javaArray' = [i \in Indices |-> IF i \in Region(start, len)
                                              THEN ConvertToJava(type, cppArray[i - start])
                                              ELSE javaArray[i]]
         /\ Stored(Region(start, len), [i \in Region(start, len) |-> cppArray[i - start]])
         /\ UNCHANGED pending
    ELSE /\ pending' = [pending EXCEPT ![t] = TRUE]
         /\ NoAccess
         /\ UNCHANGED javaArray

Set(t, start, len, cppArray) ==
  /\ created /\ SameType /\ MayCallJni(t) /\ MayUseArray
  /\ SetElements(t, start, len, cppArray)
  /\ UNCHANGED <<convVars, created, elements>>

(* convert: the new array has size elements, and yet the region begins at  *)
(* start.                                                                  *)
Convert(t, start, cppArray) ==
  /\ ~created /\ FieldUntouched /\ SameType /\ MayCallJni(t)
  /\ created' = TRUE
  /\ SetElements(t, start, Size, cppArray)
  /\ UNCHANGED <<convVars, elements>>

(* get and getCritical: the JVM decides whether to copy, and isCopy says   *)
(* what it did.                                                            *)
Get(t, kind, critical) ==
  /\ created /\ elements[t].kind = "none" /\ MayCallJni(t) /\ MayUseArray
  /\ type # "char"
  /\ elements' = [elements EXCEPT ![t] =
       [kind |-> kind, critical |-> critical,
        buffer |-> IF kind = "copy" THEN [i \in Indices |-> View(i)]
                                    ELSE << >>]]
  /\ NoAccess
  /\ UNCHANGED <<convVars, created, javaArray, pending>>

(* Through the pointer; the bits of an element are those Java has. *)
WriteElement(t, i, value) ==
  /\ elements[t].kind # "none" /\ MayUsePointer(t)
  /\ IF HasCopy(t)
       THEN elements' = [elements EXCEPT ![t].buffer[i] = value] /\ UNCHANGED javaArray
       ELSE /\ javaArray' = [javaArray EXCEPT ![i] = Cast(JniType[type], value)]
            /\ UNCHANGED elements
  /\ Stored({i}, [k \in {i} |-> value])
  /\ UNCHANGED <<convVars, created, pending>>

ReadElement(t, i) ==
  /\ elements[t].kind # "none" /\ MayUsePointer(t)
  /\ Loaded(i, IF HasCopy(t) THEN elements[t].buffer[i]
                                            ELSE View(i))
  /\ UNCHANGED <<convVars, created, javaArray, elements, pending>>

(* Mutation: the mode is JNI_ABORT. *)
Discarded(t) == FALSE

(* The mode is 0: a copy is written back, all of it. *)
WrittenBack(t) == HasCopy(t)

Release(t) ==
  /\ elements[t].kind # "none"
  /\ elements[t].critical \/ SameType
  /\ javaArray' = IF WrittenBack(t)
                    THEN [i \in Indices |-> Cast(JniType[type], elements[t].buffer[i])]
                    ELSE javaArray
  /\ elements' = [elements EXCEPT ![t] = NoPointer]
  /\ NoAccess
  /\ UNCHANGED <<convVars, created, pending>>

(* The next call that checks for exceptions throws and clears it. *)
Checked(t) ==
  /\ pending[t]
  /\ pending' = [pending EXCEPT ![t] = FALSE]
  /\ NoAccess
  /\ UNCHANGED <<convVars, created, javaArray, elements>>

JavaStores(i, value) ==
  /\ created /\ MayUseArray
  /\ javaArray' = [javaArray EXCEPT ![i] = value]
  /\ Stored({i}, [k \in {i} |-> Cast(type, value)])
  /\ UNCHANGED <<convVars, created, elements, pending>>

JavaLoads(i) ==
  /\ created /\ MayUseArray
  /\ Loaded(i, View(i))
  /\ UNCHANGED <<convVars, created, javaArray, elements, pending>>
-----------------------------------------------------------------------------
Buffers == [Indices -> CppValues]

NativeStep(t) ==
  \/ Create(t)
  \/ \E start \in {0, 1} : \E b \in Buffers : Convert(t, start, b)
  \/ \E start \in Indices, len \in 1..Size : \E b \in Buffers : Set(t, start, len, b)
  \/ \E k \in {"pinned", "copy"}, c \in BOOLEAN : Get(t, k, c)
  \/ \E i \in Indices : ReadElement(t, i) \/ (\E v \in CppValues : WriteElement(t, i, v))
  \/ Release(t)
  \/ Checked(t)

TransferNext ==
  \/ ~created /\ ConvNext /\ NoAccess /\ UNCHANGED <<created, javaArray, elements, pending>>
  \/ \E t \in Threads : NativeStep(t)
  \/ \E i \in Indices : JavaLoads(i) \/ (\E v \in JavaSample(type) : JavaStores(i, v))

TransferSpec == ArrayInit /\ [][TransferNext]_vars
-----------------------------------------------------------------------------
(* The array is a row of cells: the contents are those of the copy, if a   *)
(* thread has one.                                                         *)
Contents ==
  [i \in Indices |->
     IF \E t \in Threads : HasCopy(t)
       THEN elements[CHOOSE t \in Threads : HasCopy(t)].buffer[i]
       ELSE View(i)]

Shared == INSTANCE Cells WITH cells <- Contents, Values <- UNION {CppSample(t) : t \in CppTypes}

(* Whoever loads an element, through a pointer or in Java, gets the value  *)
(* that was stored last, whether the JVM pins or copies, and no release    *)
(* undoes a store; a region that is out of bounds stores nothing.          *)
CellsImplemented == Shared!CellsSpec
=============================================================================
