---------------------------- MODULE Conversions ----------------------------
(***************************************************************************)
(* What becomes of a number on its way between C++ and Java                *)
(* (Converters.hpp, Converters.cpp): the declared C++ type selects a JNI   *)
(* type, a value is converted by the default cast or a specialisation, an  *)
(* argument also goes through the union jvalue, in the member that         *)
(* overload resolution picks, and Java reads the member its signature      *)
(* names.  A byte has ByteValues values, so that TLC can go through them;  *)
(* char is signed, and the machine is little-endian.  Floating point,      *)
(* strings and objects take the same ways without a change.                *)
(***************************************************************************)
EXTENDS Integers

CONSTANTS
  ByteValues,  \* how many values a byte has
  Probes,      \* per type: the numbers whose casts are the values in use
  Garbage,     \* what may be in the unwritten bytes of a union
  Nothing      \* no value

ASSUME ConversionAssumption ==
  /\ ByteValues \in Nat /\ ByteValues >= 2 /\ ByteValues % 2 = 0
  /\ \A t \in {"bool", "uchar", "char", "short", "int", "long"} :
       0 \in Probes[t] /\ Probes[t] \subseteq Int
  /\ Probes["bool"] \subseteq {0, 1}
  /\ Garbage \subseteq Int

VARIABLES
  type,   \* the declared C++ type
  field,  \* a Java variable of the type Java has for it: what it holds
  sent    \* the last C++ value sent to it, unless Java changed it since

convVars == <<type, field, sent>>

CppTypes == {"bool", "uchar", "char", "short", "int", "long"}

(* JniTypeMapping, and JniSignature, which agrees with it *)
JniType == [bool |-> "jboolean", uchar |-> "jbyte", char |-> "jchar",
            short |-> "jshort", int |-> "jint", long |-> "jlong"]
Signature == JniType

Bytes == [bool |-> 1, uchar |-> 1, char |-> 1, short |-> 2, int |-> 4, long |-> 8,
          jboolean |-> 1, jbyte |-> 1, jchar |-> 2, jshort |-> 2, jint |-> 4, jlong |-> 8]

Unsigned == {"bool", "uchar", "jboolean", "jchar"}

(* How many values so many bytes have. *)
ValuesOfBytes ==
  LET two == ByteValues * ByteValues
  IN  [n \in {1, 2, 4, 8} |-> CASE n = 1 -> ByteValues
                              [] n = 2 -> two
                              [] n = 4 -> two * two
                              [] n = 8 -> (two * two) * (two * two)]
Modulus(t) == ValuesOfBytes[Bytes[t]]

(* The value of the low bits of n as a t. *)
Cast(t, n) ==
  LET low == n % Modulus(t)
  IN  IF t = "bool" THEN (IF n = 0 THEN 0 ELSE 1)
      ELSE IF t \in Unsigned \/ low < Modulus(t) \div 2 THEN low
      ELSE low - Modulus(t)

IsBoolean(t) == t \in {"bool", "jboolean"}
Largest(t) == IF IsBoolean(t) THEN 1
              ELSE IF t \in Unsigned THEN Modulus(t) - 1 ELSE Modulus(t) \div 2 - 1
Smallest(t) == IF t \in Unsigned THEN 0 ELSE -(Modulus(t) \div 2)

(* Bound: the values in use.  With Int for Probes, they are all there are. *)
CppSample(t) == {Cast(t, n) : n \in Probes[t]}
JavaSample(t) == {Cast(JniType[t], n) : n \in Probes[t]}

-----------------------------------------------------------------------------
(* Mutation: a value is taken as it is. *)
TakeAsIs(t, value) == value

(* ToJavaConverter and ToCppConverter: casts, for char too *)
ConvertToJava(t, value) == Cast(JniType[t], value)

ConvertToCpp(t, value) == Cast(t, value)

(* Mutation: jchar goes to the overload for char, which the sources have.  *)
MemberOfNarrowChar ==
  [jboolean |-> "jbyte", jbyte |-> "jint", jchar |-> "jbyte",
   jshort |-> "jshort", jint |-> "jint", jlong |-> "jlong"]

(* The member of jvalue that convertToJValue writes: there is no overload  *)
(* for jbyte and jchar, which become int, and a jboolean is an unsigned    *)
(* char like any other.                                                    *)
MemberWritten ==
  [jboolean |-> "jbyte", jbyte |-> "jint", jchar |-> "jint",
   jshort |-> "jshort", jint |-> "jint", jlong |-> "jlong"]

(* The union as a number: its low bytes are the member that was written,   *)
(* the rest is whatever was there.                                         *)
ConvertToJValue(j, value, garbage) ==
  (Cast(MemberWritten[j], value) % Modulus(MemberWritten[j]))
    + garbage * Modulus(MemberWritten[j])

(* What Java gets as an argument. *)
GatherArgument(t, value, garbage) ==
  Cast(Signature[t], ConvertToJValue(JniType[t], ConvertToJava(t, value), garbage))

-----------------------------------------------------------------------------
ConvInit ==
  /\ type \in CppTypes
  /\ field = 0
  /\ sent = Nothing

(* set() of a field object *)
SetField(value) ==
  /\ field' = ConvertToJava(type, value)
  /\ sent' = value
  /\ UNCHANGED type

(* The value is an argument of a method that stores it. *)
PassArgument(value) ==
  /\ \E garbage \in Garbage : field' = GatherArgument(type, value, garbage)
  /\ sent' = value
  /\ UNCHANGED type

(* Java code stores a value of its type. *)
JavaAssigns(value) ==
  /\ field' = value
  /\ sent' = Nothing
  /\ UNCHANGED type

ConvNext ==
  \/ \E v \in CppSample(type) : SetField(v) \/ PassArgument(v)
  \/ \E v \in JavaSample(type) : JavaAssigns(v)

(* What get() of the field, or a method that returns it, gives to C++. *)
Received == ConvertToCpp(type, field)
-----------------------------------------------------------------------------
(* A C++ value that went to Java, as an argument or into a field, is a     *)
(* value of the Java type there, and it comes back as what it was, by      *)
(* whichever way; the remark in Converters.cpp 35 has doubts about bytes.  *)
(* A Java value that C++ gets and sends back is the same again, too, but   *)
(* for characters that a char of C++ does not have: there a cast widens a  *)
(* negative char with ones.                                                *)
ValuesComeBack ==
  /\ Smallest(JniType[type]) <= field /\ field <= Largest(JniType[type])
  /\ sent # Nothing => Received = sent
  /\ (type = "char" => field <= Largest("char")) => ConvertToJava(type, Received) = field

(* Both ways leave the same value in Java. *)
WaysAgree ==
  \A v \in CppSample(type) : \A garbage \in Garbage :
    GatherArgument(type, v, garbage) = ConvertToJava(type, v)
=============================================================================
