---------------------------- MODULE ArraysProofs ----------------------------
(***************************************************************************)
(* Arrays implements Cells, for arrays of any length and any number of     *)
(* threads.  The inductive invariant: at most one thread has a copy of the *)
(* elements, and elements are values of their types, which come back from  *)
(* Java as they were.                                                      *)
(***************************************************************************)
EXTENDS Arrays, TLAPS

(* Remainders, and what a cast keeps of a number. *)
LEMMA MulBound == ASSUME NEW N \in Int, N > 0, NEW k \in Int, k >= 1 PROVE N * k >= N
<1>1. N * (k - 1) >= 0
  OBVIOUS
<1>2. N * (k - 1) = N * k - N
  OBVIOUS
<1> QED BY <1>1, <1>2

LEMMA Division ==
  ASSUME NEW N \in Int, N > 0, NEW a \in Int
  PROVE  /\ a % N \in Int /\ a \div N \in Int
         /\ 0 <= a % N /\ a % N < N
         /\ a = N * (a \div N) + (a % N)
  OBVIOUS

LEMMA DivisionUnique ==
  ASSUME NEW N \in Int, N > 0, NEW a \in Int, NEW q \in Int, NEW r \in Int,
         a = N * q + r, 0 <= r, r < N
  PROVE  a % N = r
<1> DEFINE d == a \div N
           m == a % N
<1>1. d \in Int /\ m \in Int /\ 0 <= m /\ m < N /\ a = N * d + m
  BY Division
<1> HIDE DEF d, m
<1>2. N * (q - d) = m - r
  <2>1. N * (q - d) = N * q - N * d
    BY <1>1
  <2> QED BY <1>1, <2>1
<1>3. q = d
  <2>1. CASE q - d >= 1
    BY <1>1, <1>2, <2>1, MulBound
  <2>2. CASE d - q >= 1
    <3>1. N * (d - q) = r - m
      <4>1. N * (d - q) = N * d - N * q
        BY <1>1
      <4> QED BY <1>1, <4>1
    <3> QED BY <1>1, <3>1, <2>2, MulBound
  <2> QED BY <1>1, <2>1, <2>2
<1> QED BY <1>1, <1>3 DEF m

LEMMA RemainderOfSum ==
  ASSUME NEW N \in Int, N > 0, NEW a \in Int, NEW k \in Int
  PROVE  (a + k * N) % N = a % N
<1> DEFINE d == a \div N
           m == a % N
<1>1. d \in Int /\ m \in Int /\ 0 <= m /\ m < N /\ a = N * d + m
  BY Division
<1> HIDE DEF d, m
<1>2. a + k * N = N * (d + k) + m
  <2>1. N * (d + k) = N * d + k * N
    BY <1>1
  <2> QED BY <1>1, <2>1
<1>3. (a + k * N) % N = m
  BY <1>1, <1>2, DivisionUnique
<1> QED BY <1>3 DEF m

LEMMA RemainderOfRemainder ==
  ASSUME NEW N \in Int, N > 0, NEW c \in Int, c > 0, NEW a \in Int
  PROVE  (a % (c * N)) % N = a % N
<1> DEFINE M == c * N
           d == a \div M
           m == a % M
<1>0. M \in Int /\ M > 0
  <2>1. N * c >= N
    BY MulBound
  <2> QED BY <2>1
<1>1. d \in Int /\ m \in Int /\ a = M * d + m
  BY <1>0, Division
<1>2. m = a + (-(c * d)) * N
  <2> HIDE DEF d, m
  <2>1. M * d = (c * d) * N
    BY <1>1
  <2>2. (-(c * d)) * N = -((c * d) * N)
    BY <1>1
  <2> QED BY <1>1, <2>1, <2>2
<1>3. (a + (-(c * d)) * N) % N = a % N
  <2>1. -(c * d) \in Int
    BY <1>1
  <2> QED BY <2>1, RemainderOfSum
<1> QED BY <1>2, <1>3

Types == DOMAIN Bytes
Modular == Types \ {"bool"}

LEMMA TypesListed ==
  /\ CppTypes \subseteq Types
  /\ \A t \in CppTypes : JniType[t] \in Modular
  /\ \A t \in CppTypes \ {"bool", "char"} : t \in Modular /\ Bytes[JniType[t]] = Bytes[t]
  /\ \A t \in Types : Bytes[t] \in {1, 2, 4, 8}
  BY DEF CppTypes, Types, Modular, Bytes, JniType

LEMMA Squares ==
  ASSUME NEW c \in Int, c >= 2, c % 2 = 0
  PROVE  /\ c * c \in Int /\ c * c >= c
         /\ (c * c) % 2 = 0
<1>1. PICK h \in Int : c = 2 * h
  <2>1. c = 2 * (c \div 2) + (c % 2) /\ c \div 2 \in Int
    OBVIOUS
  <2> QED BY <2>1
<1>2. c * c = 2 * (h * c) + 0 /\ h * c \in Int
  BY <1>1
<1>3. (c * c) % 2 = 0
  BY <1>2, DivisionUnique
<1>4. c * c >= c
  BY MulBound
<1> QED BY <1>3, <1>4

LEMMA Powers ==
  /\ \A n \in {1, 2, 4, 8} :
       /\ ValuesOfBytes[n] \in Int /\ ValuesOfBytes[n] >= 2
       /\ ValuesOfBytes[n] % 2 = 0
  /\ ValuesOfBytes[1] = ByteValues
  /\ ValuesOfBytes[2] = ByteValues * ValuesOfBytes[1]
  /\ ValuesOfBytes[4] = ValuesOfBytes[2] * ValuesOfBytes[2]
<1> DEFINE two == ByteValues * ByteValues
           four == two * two
           eight == four * four
<1>1. ByteValues \in Int /\ ByteValues >= 2 /\ ByteValues % 2 = 0
  BY ConversionAssumption
<1>2. two \in Int /\ two >= 2 /\ two % 2 = 0
  BY <1>1, Squares
<1>3. four \in Int /\ four >= 2 /\ four % 2 = 0
  <2> HIDE DEF two
  <2> QED BY <1>2, Squares
<1>4. eight \in Int /\ eight >= 2 /\ eight % 2 = 0
  <2> HIDE DEF two, four
  <2> QED BY <1>3, Squares
<1>5. ValuesOfBytes = [n \in {1, 2, 4, 8} |-> CASE n = 1 -> ByteValues
                              [] n = 2 -> two
                              [] n = 4 -> four
                              [] n = 8 -> eight]
  BY Zenon DEF ValuesOfBytes
<1> HIDE DEF two, four, eight
<1>6. /\ ValuesOfBytes[1] = ByteValues /\ ValuesOfBytes[2] = two
      /\ ValuesOfBytes[4] = four /\ ValuesOfBytes[8] = eight
  BY <1>5
<1>7. two = ByteValues * ByteValues /\ four = two * two
  BY DEF two, four
<1> QED BY <1>1, <1>2, <1>3, <1>4, <1>6, <1>7

(* An even number of values, half of them negative if the type is signed.  *)
LEMMA ModulusFacts ==
  ASSUME NEW t \in Types
  PROVE  /\ Modulus(t) \in Int /\ Modulus(t) >= 2
         /\ Modulus(t) \div 2 \in Int /\ Modulus(t) \div 2 >= 1
         /\ Modulus(t) = 2 * (Modulus(t) \div 2)
<1>1. Modulus(t) \in Int /\ Modulus(t) >= 2 /\ Modulus(t) % 2 = 0
  BY TypesListed, Powers DEF Modulus
<1> QED BY <1>1

(* A cast changes a number by a multiple of the modulus, so as to bring it *)
(* into the range of the type.                                             *)
LEMMA CastFacts ==
  ASSUME NEW t \in Modular, NEW n \in Int
  PROVE  /\ Cast(t, n) \in Int
         /\ t \in Unsigned => 0 <= Cast(t, n) /\ Cast(t, n) < Modulus(t)
         /\ t \notin Unsigned => /\ -(Modulus(t) \div 2) <= Cast(t, n)
                                 /\ Cast(t, n) < Modulus(t) \div 2
         /\ \E k \in Int : Cast(t, n) = n + k * Modulus(t)
<1> DEFINE M == Modulus(t)
           low == n % M
           q == n \div M
           half == M \div 2
<1>0. t \in Types /\ t # "bool"
  BY DEF Modular
<1>1. M \in Int /\ M >= 2 /\ half \in Int /\ half >= 1 /\ M = 2 * half
  BY <1>0, ModulusFacts
<1> HIDE DEF M
<1>2. low \in Int /\ q \in Int /\ 0 <= low /\ low < M /\ n = M * q + low
  BY <1>1, Division
<1>3. Cast(t, n) = IF t \in Unsigned \/ low < half THEN low ELSE low - M
  BY <1>0, Zenon DEF Cast, M
<1> HIDE DEF low, q, half
<1>4. low = n + (-q) * M /\ low - M = n + (-q - 1) * M
  <2>1. (-q) * M = -(M * q)
    BY <1>1, <1>2
  <2>2. (-q - 1) * M = -(M * q) - M
    BY <1>1, <1>2
  <2> QED BY <1>1, <1>2, <2>1, <2>2
<1>5. -q \in Int /\ -q - 1 \in Int
  BY <1>2
<1>6. \E k \in Int : Cast(t, n) = n + k * M
  BY <1>3, <1>4, <1>5
<1>7. CASE t \in Unsigned \/ low < half
  BY <1>1, <1>2, <1>3, <1>6, <1>7 DEF M, half
<1>8. CASE ~(t \in Unsigned \/ low < half)
  BY <1>1, <1>2, <1>3, <1>6, <1>8 DEF M, half
<1> QED BY <1>7, <1>8

LEMMA CastDepends ==
  ASSUME NEW t \in Modular, NEW a \in Int, NEW b \in Int, a % Modulus(t) = b % Modulus(t)
  PROVE  Cast(t, a) = Cast(t, b)
  BY Zenon DEF Cast, Modular

LEMMA CastOfValue ==
  ASSUME NEW t \in Modular, NEW n \in Int,
         IF t \in Unsigned THEN 0 <= n /\ n < Modulus(t)
         ELSE -(Modulus(t) \div 2) <= n /\ n < Modulus(t) \div 2
  PROVE  Cast(t, n) = n
<1> DEFINE M == Modulus(t)
           half == M \div 2
<1>0. t \in Types /\ t # "bool"
  BY DEF Modular
<1>1. M \in Int /\ M >= 2 /\ half \in Int /\ half >= 1 /\ M = 2 * half
  BY <1>0, ModulusFacts
<1>2. Cast(t, n) = IF t \in Unsigned \/ n % M < half THEN n % M ELSE (n % M) - M
  BY <1>0, Zenon DEF Cast
<1>3. IF t \in Unsigned THEN 0 <= n /\ n < M ELSE -half <= n /\ n < half
  OBVIOUS
<1> HIDE DEF M
<1>4. CASE 0 <= n
  <2>1. n < M
    BY <1>1, <1>3, <1>4
  <2>2. n = M * 0 + n
    BY <1>1
  <2>3. n % M = n
    BY <1>1, <1>4, <2>1, <2>2, DivisionUnique
  <2> QED BY <1>1, <1>2, <1>3, <2>3
<1>5. CASE n < 0
  <2>1. t \notin Unsigned /\ -half <= n
    BY <1>3, <1>5
  <2>2. n = M * (-1) + (n + M) /\ 0 <= n + M /\ n + M < M /\ n + M \in Int
    BY <1>1, <1>5, <2>1
  <2>3. n % M = n + M
    BY <1>1, <2>2, DivisionUnique
  <2> QED BY <1>1, <1>2, <2>1, <2>2, <2>3
<1> QED BY <1>4, <1>5

(* A cast to a type that is no smaller makes no difference to a next one.  *)
LEMMA CastAgain ==
  ASSUME NEW t \in Modular, NEW u \in Modular, NEW n \in Int,
         NEW c \in Int, c > 0, Modulus(u) = c * Modulus(t)
  PROVE  Cast(t, Cast(u, n)) = Cast(t, n)
<1>1. PICK k \in Int : Cast(u, n) = n + k * Modulus(u)
  BY CastFacts
<1>2. Modulus(t) \in Int /\ Modulus(t) > 0
  BY ModulusFacts DEF Modular
<1>3. Cast(u, n) = n + (k * c) * Modulus(t) /\ k * c \in Int
  BY <1>1, <1>2
<1>4. (n + (k * c) * Modulus(t)) % Modulus(t) = n % Modulus(t)
  BY <1>2, <1>3, RemainderOfSum
<1>5. Cast(u, n) \in Int
  BY CastFacts
<1> QED BY <1>3, <1>4, <1>5, CastDepends

LEMMA SizesFit ==
  /\ \A t \in CppTypes \ {"bool", "char"} : Modulus(JniType[t]) = 1 * Modulus(t)
  /\ "char" \in Modular /\ Modulus("jchar") = ByteValues * Modulus("char")
  /\ \A t \in CppTypes :
       /\ MemberWritten[JniType[t]] \in Modular
       /\ \E c \in Int : c > 0 /\ Modulus(MemberWritten[JniType[t]]) = c * Modulus(JniType[t])
<1>1. /\ \A n \in {1, 2, 4, 8} : ValuesOfBytes[n] \in Int /\ ValuesOfBytes[n] >= 2
      /\ ByteValues \in Int /\ ByteValues >= 2
  BY Powers, ConversionAssumption
<1>2. \A t \in Types : Modulus(t) \in Int /\ 1 * Modulus(t) = Modulus(t)
  BY <1>1, TypesListed DEF Modulus
<1>3. \A t \in CppTypes \ {"bool", "char"} : Modulus(JniType[t]) = 1 * Modulus(t)
  BY <1>2, TypesListed DEF Modulus, Modular
<1>4. "char" \in Modular /\ Modulus("jchar") = ByteValues * Modulus("char")
  BY Powers DEF Modular, Types, Modulus, Bytes
<1>5. /\ Modulus("jboolean") = ByteValues /\ Modulus("jbyte") = ByteValues
      /\ Modulus("jchar") = ValuesOfBytes[2] /\ Modulus("jshort") = ValuesOfBytes[2]
      /\ Modulus("jint") = ValuesOfBytes[2] * ValuesOfBytes[2]
      /\ Modulus("jlong") = ValuesOfBytes[8]
  BY Powers DEF Modulus, Bytes
<1>6. /\ ValuesOfBytes[2] = ByteValues * ByteValues
      /\ ValuesOfBytes[2] * ValuesOfBytes[2] = (ByteValues * ValuesOfBytes[2]) * ByteValues
      /\ ByteValues * ValuesOfBytes[2] \in Int /\ ByteValues * ValuesOfBytes[2] > 0
  <2>1. ValuesOfBytes[2] = ByteValues * ByteValues
    BY Powers
  <2> DEFINE two == ValuesOfBytes[2]
  <2>2. two \in Int /\ two >= 2 /\ two = ByteValues * ByteValues
    BY <1>1, <2>1
  <2> HIDE DEF two
  <2>3. two * two = (ByteValues * two) * ByteValues
    BY <1>1, <2>2
  <2>4. ByteValues * two >= ByteValues
    BY <1>1, <2>2, MulBound
  <2> QED BY <1>1, <2>2, <2>3, <2>4 DEF two
<1>7. ASSUME NEW t \in CppTypes
      PROVE  \E c \in Int : c > 0 /\ Modulus(MemberWritten[JniType[t]]) = c * Modulus(JniType[t])
  <2> DEFINE j == JniType[t]
  <2>1. CASE t = "bool"
    <3>1. Modulus(MemberWritten[j]) = 1 * Modulus(j)
      BY <1>1, <1>5, <2>1 DEF MemberWritten, JniType
    <3> QED BY <3>1
  <2>2. CASE t = "uchar"
    <3>1. Modulus(MemberWritten[j]) = (ByteValues * ValuesOfBytes[2]) * Modulus(j)
      BY <1>5, <1>6, <2>2 DEF MemberWritten, JniType
    <3> QED BY <1>6, <3>1
  <2>3. CASE t = "char"
    <3>1. Modulus(MemberWritten[j]) = ValuesOfBytes[2] * Modulus(j)
      BY <1>5, <2>3 DEF MemberWritten, JniType
    <3> QED BY <1>1, <3>1
  <2>4. CASE t \in {"short", "int", "long"}
    <3>1. Modulus(MemberWritten[j]) = 1 * Modulus(j)
      BY <1>2, <2>4 DEF MemberWritten, JniType, Types, Bytes
    <3> QED BY <3>1
  <2> QED BY <2>1, <2>2, <2>3, <2>4 DEF CppTypes
<1>8. \A t \in CppTypes : MemberWritten[JniType[t]] \in Modular
  BY DEF CppTypes, MemberWritten, JniType, Modular, Types, Bytes
<1> QED BY <1>3, <1>4, <1>7, <1>8

(* Booleans are zero and one on both sides. *)
LEMMA BooleanCasts ==
  /\ \A n \in Int : Cast("bool", n) \in {0, 1}
  /\ \A b \in {0, 1} : Cast("bool", b) = b /\ Cast("jboolean", b) = b
<1>1. \A n \in Int : Cast("bool", n) = IF n = 0 THEN 0 ELSE 1
  BY DEF Cast
<1>2. "jboolean" \in Modular /\ "jboolean" \in Unsigned /\ "jboolean" \in Types
  BY DEF Modular, Types, Bytes, Unsigned
<1>3. Modulus("jboolean") >= 2 /\ Modulus("jboolean") \in Int
  BY <1>2, ModulusFacts
<1>4. \A b \in {0, 1} : Cast("jboolean", b) = b
  BY <1>2, <1>3, CastOfValue
<1> QED BY <1>1, <1>4

LEMMA ZeroCast ==
  ASSUME NEW t \in CppTypes
  PROVE  Cast(JniType[t], 0) = 0
<1>1. JniType[t] \in Modular
  BY TypesListed
<1>2. /\ Modulus(JniType[t]) \in Int /\ Modulus(JniType[t]) >= 2
      /\ Modulus(JniType[t]) \div 2 \in Int /\ Modulus(JniType[t]) \div 2 >= 1
  BY <1>1, ModulusFacts DEF Modular
<1> QED BY <1>1, <1>2, CastOfValue

(* A cast to the type a number already has, or has once more. *)
LEMMA CastTwice ==
  ASSUME NEW t \in Modular, NEW n \in Int
  PROVE  Cast(t, Cast(t, n)) = Cast(t, n)
<1>1. Modulus(t) = 1 * Modulus(t)
  BY ModulusFacts DEF Modular
<1> QED BY <1>1, CastAgain

(* A value that C++ has comes back from Java as it was. *)
LEMMA RoundTrip ==
  ASSUME NEW t \in CppTypes, NEW v \in CppSample(t)
  PROVE  v \in Int /\ Cast(t, Cast(JniType[t], v)) = v
<1>1. PICK n \in Probes[t] : v = Cast(t, n)
  BY DEF CppSample
<1>2. n \in Int /\ (t = "bool" => n \in {0, 1})
  BY ConversionAssumption DEF CppTypes
<1>3. CASE t = "bool"
  BY <1>1, <1>2, <1>3, BooleanCasts DEF JniType
<1>4. CASE t # "bool"
  <2>1. t \in Modular /\ JniType[t] \in Modular
    BY <1>4, TypesListed, SizesFit
  <2>2. \E c \in Int : c > 0 /\ Modulus(JniType[t]) = c * Modulus(t)
    <3>1. CASE t = "char"
      BY <3>1, SizesFit, ConversionAssumption DEF JniType
    <3>2. CASE t # "char"
      BY <1>4, <3>2, SizesFit
    <3> QED BY <3>1, <3>2
  <2>3. v \in Int
    BY <1>1, <1>2, <2>1, CastFacts
  <2>4. Cast(t, Cast(JniType[t], v)) = Cast(t, v)
    BY <2>1, <2>2, <2>3, CastAgain
  <2> QED BY <1>1, <1>2, <2>1, <2>3, <2>4, CastTwice
<1> QED BY <1>3, <1>4

(* What the code relies on the casts for: elements of the types arrays are *)
(* used with come back from Java.                                          *)
CastsMatch ==
  \A t \in CppTypes :
    /\ Cast(t, 0) = 0
    /\ \A j \in JavaSample(t) : Cast(t, j) \in CppSample(t)
    /\ t # "char" => \A v \in CppSample(t) :
         /\ Cast(JniType[t], v) \in JavaSample(t)
         /\ Cast(t, Cast(JniType[t], v)) = v

LEMMA CastsDo == CastsMatch
<1> SUFFICES ASSUME NEW t \in CppTypes
             PROVE  CastsMatch!(t)
  BY DEF CastsMatch
<1>0. Probes[t] \subseteq Int /\ 0 \in Probes[t] /\ (t = "bool" => Probes[t] \subseteq {0, 1})
  BY ConversionAssumption DEF CppTypes
<1>1. CASE t = "bool"
  <2>1. \A n \in Probes[t] : Cast(t, n) = n /\ Cast(JniType[t], n) = n
    BY <1>0, <1>1, BooleanCasts DEF JniType
  <2> QED BY <1>0, <2>1 DEF CppSample, JavaSample
<1>2. CASE t # "bool"
  <2> DEFINE j == JniType[t]
  <2>1. t \in Modular /\ j \in Modular
    BY <1>2, TypesListed, SizesFit
  <2>2. Cast(t, 0) = 0
    <3>1. /\ Modulus(t) \in Int /\ Modulus(t) >= 2
          /\ Modulus(t) \div 2 \in Int /\ Modulus(t) \div 2 >= 1
      BY <2>1, ModulusFacts DEF Modular
    <3> QED BY <2>1, <3>1, CastOfValue
  <2>3. \A n \in Int : Cast(t, Cast(j, n)) = Cast(t, n)
    <3>1. \E c \in Int : c > 0 /\ Modulus(j) = c * Modulus(t)
      <4>1. CASE t = "char"
        BY <4>1, SizesFit, ConversionAssumption DEF JniType
      <4>2. CASE t # "char"
        BY <1>2, <4>2, SizesFit
      <4> QED BY <4>1, <4>2
    <3> QED BY <2>1, <3>1, CastAgain
  <2>4. ASSUME t # "char"
        PROVE  \A n \in Int : Cast(j, Cast(t, n)) = Cast(j, n)
    <3>1. Modulus(t) = 1 * Modulus(j)
      BY <1>2, <2>1, <2>4, SizesFit, ModulusFacts DEF Modular
    <3> QED BY <2>1, <3>1, CastAgain
  <2>5. \A v \in CppSample(t) : Cast(t, Cast(j, v)) = v
    BY RoundTrip
  <2> HIDE DEF j
  <2>6. JavaSample(t) = {Cast(j, n) : n \in Probes[t]}
    BY DEF JavaSample, j
  <2>7. \A w \in JavaSample(t) : Cast(t, w) \in CppSample(t)
    BY <1>0, <2>3, <2>6 DEF CppSample
  <2>8. t # "char" => \A v \in CppSample(t) : Cast(j, v) \in JavaSample(t)
    BY <1>0, <2>4, <2>6 DEF CppSample
  <2> QED BY <2>2, <2>5, <2>7, <2>8 DEF j
<1> QED BY <1>1, <1>2

-----------------------------------------------------------------------------
(* Numbers on their way: whatever was in the union before, Java reads the  *)
(* argument as a cast would have it.                                       *)
LEMMA ArgumentArrives ==
  ASSUME NEW t \in CppTypes, NEW v \in CppSample(t), NEW garbage \in Int
  PROVE  GatherArgument(t, v, garbage) = ConvertToJava(t, v)
<1> DEFINE j == JniType[t]
           m == MemberWritten[j]
           arg == Cast(j, v)
           mod == Modulus(m)
           written == Cast(m, arg) % mod
<1>1. j \in Modular /\ m \in Modular /\ v \in Int
  BY TypesListed, SizesFit, RoundTrip
<1>2. PICK c \in Int : c > 0 /\ mod = c * Modulus(j)
  BY SizesFit
<1>3. arg \in Int /\ Cast(m, arg) \in Int
  BY <1>1, CastFacts
<1>4. /\ Modulus(j) \in Int /\ Modulus(j) > 0 /\ mod \in Int /\ mod > 0
      /\ written \in Int
  <2>1. Modulus(j) \in Int /\ Modulus(j) >= 2 /\ mod \in Int /\ mod >= 2
    BY <1>1, ModulusFacts DEF Modular
  <2> HIDE DEF mod
  <2>2. \A n \in Int : n % mod \in Int
    BY <2>1, Division
  <2> QED BY <1>3, <2>1, <2>2
<1>5. GatherArgument(t, v, garbage) = Cast(j, written + garbage * mod)
  BY Zenon DEF GatherArgument, ConvertToJValue, ConvertToJava, Signature
<1>6. written % Modulus(j) = Cast(m, arg) % Modulus(j)
  <2>1. (Cast(m, arg) % (c * Modulus(j))) % Modulus(j) = Cast(m, arg) % Modulus(j)
    <3> HIDE DEF m, arg, j
    <3> QED BY <1>2, <1>3, <1>4, RemainderOfRemainder
  <2>2. written = Cast(m, arg) % (c * Modulus(j))
    <3> HIDE DEF m, arg, j
    <3> QED BY <1>2, Zenon
  <2> QED BY <2>1, <2>2, Zenon
<1>7. (written + garbage * mod) % Modulus(j) = written % Modulus(j)
  <2> HIDE DEF written, mod, j
  <2>1. garbage * mod = (garbage * c) * Modulus(j) /\ garbage * c \in Int
    BY <1>2, <1>4
  <2> QED BY <1>4, <2>1, RemainderOfSum
<1>8. written + garbage * mod \in Int
  <2> HIDE DEF written, mod
  <2> QED BY <1>4
<1>9. Cast(j, written + garbage * mod) = Cast(j, Cast(m, arg))
  <2> HIDE DEF written, mod, m, j, arg
  <2> QED BY <1>1, <1>3, <1>6, <1>7, <1>8, CastDepends
<1>10. Cast(j, Cast(m, arg)) = Cast(j, arg)
  <2> HIDE DEF m, j, arg
  <2> QED BY <1>1, <1>2, <1>3, CastAgain DEF mod
<1>11. Cast(j, arg) = arg
  BY <1>1, CastTwice
<1> QED BY <1>5, <1>9, <1>10, <1>11 DEF ConvertToJava

(* A Java value of its type. *)
JavaValue(t, f) ==
  /\ f \in Int
  /\ Smallest(JniType[t]) <= f /\ f <= Largest(JniType[t])

LEMMA JavaCast ==
  ASSUME NEW t \in CppTypes, NEW n \in Int, t = "bool" => n \in {0, 1}
  PROVE  JavaValue(t, Cast(JniType[t], n))
<1> DEFINE j == JniType[t]
<1>1. j \in Modular /\ j # "bool" /\ j \in Types
  BY TypesListed DEF Modular
<1>2. CASE t = "bool"
  BY <1>2, BooleanCasts DEF JavaValue, JniType, Smallest, Largest, IsBoolean, Unsigned
<1>3. CASE t # "bool"
  <2>1. ~IsBoolean(j)
    BY <1>3 DEF IsBoolean, CppTypes, JniType
  <2>2. /\ Modulus(j) \in Int /\ Modulus(j) >= 2
        /\ Modulus(j) \div 2 \in Int
    BY <1>1, ModulusFacts
  <2>3. /\ Cast(j, n) \in Int
        /\ j \in Unsigned => 0 <= Cast(j, n) /\ Cast(j, n) < Modulus(j)
        /\ j \notin Unsigned => /\ -(Modulus(j) \div 2) <= Cast(j, n)
                                /\ Cast(j, n) < Modulus(j) \div 2
    BY <1>1, CastFacts
  <2> HIDE DEF j
  <2>4. /\ Smallest(j) = IF j \in Unsigned THEN 0 ELSE -(Modulus(j) \div 2)
        /\ Largest(j) = IF j \in Unsigned THEN Modulus(j) - 1 ELSE Modulus(j) \div 2 - 1
    BY <2>1, Zenon DEF Smallest, Largest
  <2>5. Smallest(j) <= Cast(j, n) /\ Cast(j, n) <= Largest(j)
    BY <2>2, <2>3, <2>4
  <2> QED BY <2>3, <2>5 DEF JavaValue, j
<1> QED BY <1>2, <1>3

(* A Java value that C++ gets and sends back is the same, if it is not a   *)
(* character that char does not have.                                      *)
LEMMA JavaRoundTrip ==
  ASSUME NEW t \in CppTypes, NEW f, JavaValue(t, f), t = "char" => f <= Largest("char")
  PROVE  Cast(JniType[t], Cast(t, f)) = f
<1> DEFINE j == JniType[t]
<1>1. j \in Modular /\ j \in Types /\ f \in Int
  BY TypesListed DEF Modular, JavaValue
<1>2. /\ Modulus(j) \in Int /\ Modulus(j) >= 2
      /\ Modulus(j) \div 2 \in Int
  BY <1>1, ModulusFacts
<1>3. CASE t = "bool"
  <2>1. f \in {0, 1}
    BY <1>1, <1>3 DEF JavaValue, JniType, Smallest, Largest, IsBoolean, Unsigned
  <2> QED BY <1>3, <2>1, BooleanCasts DEF JniType
<1>4. CASE t # "bool"
  <2>1. ~IsBoolean(j)
    BY <1>4 DEF IsBoolean, CppTypes, JniType
  <2>2. Cast(j, f) = f
    <3> HIDE DEF j
    <3>1. /\ Smallest(j) = IF j \in Unsigned THEN 0 ELSE -(Modulus(j) \div 2)
          /\ Largest(j) = IF j \in Unsigned THEN Modulus(j) - 1 ELSE Modulus(j) \div 2 - 1
      BY <2>1, Zenon DEF Smallest, Largest
    <3>2. Smallest(j) <= f /\ f <= Largest(j)
      BY DEF JavaValue, j
    <3>3. IF j \in Unsigned THEN 0 <= f /\ f < Modulus(j)
          ELSE -(Modulus(j) \div 2) <= f /\ f < Modulus(j) \div 2
      BY <1>1, <1>2, <3>1, <3>2
    <3> QED BY <1>1, <3>3, CastOfValue
  <2>3. CASE t = "char"
    <3>1. /\ "char" \in Modular /\ "char" \in Types /\ "char" \notin Unsigned
      BY SizesFit DEF Modular, Unsigned
    <3>2. Modulus("char") \in Int /\ Modulus("char") \div 2 \in Int /\ Modulus("char") \div 2 >= 1
      BY <3>1, ModulusFacts
    <3>3. Largest("char") = Modulus("char") \div 2 - 1
      BY <3>1 DEF Largest, IsBoolean
    <3>4. 0 <= f
      BY <2>3 DEF JavaValue, JniType, Smallest, Unsigned
    <3>5. Cast("char", f) = f
      BY <1>1, <2>3, <3>1, <3>2, <3>3, <3>4, CastOfValue
    <3> QED BY <2>2, <2>3, <3>5
  <2>4. CASE t # "char"
    <3>1. t \in Modular /\ Modulus(t) = 1 * Modulus(j)
      BY <1>1, <1>2, <1>4, <2>4, TypesListed, SizesFit, ModulusFacts DEF Modular
    <3>2. Cast(j, Cast(t, f)) = Cast(j, f)
      BY <1>1, <3>1, CastAgain
    <3> QED BY <2>2, <3>2
  <2> QED BY <2>3, <2>4
<1> QED BY <1>3, <1>4

-----------------------------------------------------------------------------
(* What was sent is what the field holds, converted. *)
ConvInv ==
  /\ type \in CppTypes
  /\ JavaValue(type, field)
  /\ sent # Nothing => sent \in CppSample(type) /\ field = Cast(JniType[type], sent)

LEMMA ConvInvInit ==
  ASSUME ConvInit
  PROVE  ConvInv
<1>1. field = 0 /\ type \in CppTypes /\ sent = Nothing
  BY DEF ConvInit
<1>2. Cast(JniType[type], 0) = 0
  BY <1>1, ZeroCast
<1>3. JavaValue(type, 0)
  BY <1>1, <1>2, JavaCast
<1> QED BY <1>1, <1>3 DEF ConvInv

LEMMA ConvInvNext ==
  ASSUME ConvInv, ConvNext
  PROVE  ConvInv'
<1>0. type \in CppTypes /\ type' = type
  BY DEF ConvInv, ConvNext, SetField, PassArgument, JavaAssigns
<1>1. ASSUME NEW v \in CppSample(type), field' = Cast(JniType[type], v), sent' = v
      PROVE  ConvInv'
  <2>1. v \in Int /\ (type = "bool" => v \in {0, 1})
    <3>1. v \in Int
      BY <1>0, RoundTrip
    <3>2. type = "bool" => v \in {0, 1}
      <4>1. PICK n \in Probes[type] : v = Cast(type, n)
        BY DEF CppSample
      <4>2. n \in Int
        BY <1>0, ConversionAssumption DEF CppTypes
      <4> QED BY <4>1, <4>2, BooleanCasts
    <3> QED BY <3>1, <3>2
  <2>2. JavaValue(type, field')
    BY <1>0, <1>1, <2>1, JavaCast
  <2> QED BY <1>0, <1>1, <2>2 DEF ConvInv, JavaValue, CppSample
<1>2. ASSUME NEW v \in CppSample(type), SetField(v)
      PROVE  ConvInv'
  BY <1>1, <1>2 DEF SetField, ConvertToJava
<1>3. ASSUME NEW v \in CppSample(type), PassArgument(v)
      PROVE  ConvInv'
  <2>1. PICK garbage \in Garbage : field' = GatherArgument(type, v, garbage)
    BY <1>3 DEF PassArgument
  <2>2. garbage \in Int
    BY ConversionAssumption
  <2>3. field' = Cast(JniType[type], v)
    BY <1>0, <2>1, <2>2, ArgumentArrives DEF ConvertToJava
  <2> QED BY <1>1, <1>3, <2>3 DEF PassArgument
<1>4. ASSUME NEW f \in JavaSample(type), JavaAssigns(f)
      PROVE  ConvInv'
  <2>1. PICK n \in Probes[type] : f = Cast(JniType[type], n)
    BY DEF JavaSample
  <2>2. n \in Int /\ (type = "bool" => n \in {0, 1})
    BY <1>0, ConversionAssumption DEF CppTypes
  <2>3. JavaValue(type, f)
    BY <1>0, <2>1, <2>2, JavaCast
  <2>4. field' = f /\ sent' = Nothing
    BY <1>4 DEF JavaAssigns
  <2> QED BY <1>0, <2>3, <2>4 DEF ConvInv, JavaValue
<1> QED BY <1>2, <1>3, <1>4 DEF ConvNext

LEMMA ConvInvImplies ==
  ASSUME ConvInv
  PROVE  ValuesComeBack /\ WaysAgree
<1>1. sent # Nothing => Received = sent
  BY RoundTrip DEF ConvInv, Received, ConvertToCpp
<1>2. (type = "char" => field <= Largest("char")) => ConvertToJava(type, Received) = field
  BY JavaRoundTrip DEF ConvInv, Received, ConvertToCpp, ConvertToJava
<1>3. ValuesComeBack
  BY <1>1, <1>2 DEF ValuesComeBack, ConvInv, JavaValue
<1>4. WaysAgree
  BY ArgumentArrives, ConversionAssumption DEF ConvInv, WaysAgree
<1> QED BY <1>3, <1>4

LEMMA Conversion == TransferSpec => []ConvInv
<1>1. ArrayInit => ConvInv
  BY ConvInvInit DEF ArrayInit
<1>2. ConvInv /\ [TransferNext]_vars => ConvInv'
  <2> SUFFICES ASSUME ConvInv, [TransferNext]_vars
               PROVE  ConvInv'
    OBVIOUS
  <2>1. CASE ConvNext
    BY <2>1, ConvInvNext
  <2>2. CASE UNCHANGED convVars
    BY <2>2 DEF ConvInv, convVars, JavaValue
  <2>3. ConvNext \/ UNCHANGED convVars
    BY DEF TransferNext, vars, NativeStep, Create, Convert, Set, Get, ReadElement, WriteElement,
       Release, Checked, JavaLoads, JavaStores
  <2> QED BY <2>1, <2>2, <2>3
<1> QED BY <1>1, <1>2, PTL DEF TransferSpec

(* For bytes of any even number of values, any values of the types and     *)
(* whatever is in the unused bytes of the union: a value that went to Java *)
(* is one of Java's type and comes back as what it was, and so does one    *)
(* that came from there.                                                   *)
THEOREM ConversionsInvert == TransferSpec => []ValuesComeBack
  BY Conversion, ConvInvImplies, PTL

(* Fields and arguments convert alike, for all values of all the types.    *)
THEOREM WaysAgreeAlways == TransferSpec => []WaysAgree
  BY Conversion, ConvInvImplies, PTL

-----------------------------------------------------------------------------
(* Elements of arrays. *)
Buffered == [Indices -> CppValues] \union {<< >>}

OneCopy == \A t, u \in Threads : HasCopy(t) /\ HasCopy(u) => t = u

(* Pointers are only had to arrays that exist, and of other types than     *)
(* char.                                                                   *)
PointerInv == \A t \in Threads :
  /\ elements[t].kind # "none" => created /\ type # "char"
  /\ HasCopy(t) => elements[t].buffer \in [Indices -> CppValues]

ArrayInv ==
  /\ type \in CppTypes
  /\ sent \in CppValues \union {Nothing}
  /\ created \in BOOLEAN
  /\ javaArray \in [Indices -> JavaSample(type)]
  /\ elements \in [Threads -> [kind : Kinds, critical : BOOLEAN, buffer : Buffered]]
  /\ pending \in [Threads -> BOOLEAN]
  /\ OneCopy
  /\ PointerInv

(* What the abstract steps are given. *)
AllValues == UNION {CppSample(t) : t \in CppTypes}

LEMMA SingleChoice ==
  ASSUME NEW S, NEW e, NEW t \in S, e[t].kind = "copy",
         \A u \in S : e[u].kind = "copy" => u = t
  PROVE  (CHOOSE u \in S : e[u].kind = "copy") = t
  OBVIOUS

(* The contents are those of the one copy, or of the array. *)
LEMMA ContentsOfCopy ==
  ASSUME OneCopy, NEW t \in Threads, HasCopy(t)
  PROVE  Contents = [i \in Indices |-> elements[t].buffer[i]]
<1>1. (CHOOSE u \in Threads : elements[u].kind = "copy") = t
  BY SingleChoice DEF OneCopy, HasCopy
<1>2. QED
  BY <1>1 DEF Contents, HasCopy

LEMMA ContentsOfArray ==
  ASSUME \A t \in Threads : ~HasCopy(t)
  PROVE  Contents = [i \in Indices |-> View(i)]
  BY DEF Contents

(* Steps that change neither the elements nor the pointers to them. *)
LEMMA ContentsKept ==
  ASSUME UNCHANGED <<type, javaArray, elements>>
  PROVE  Contents' = Contents
  BY DEF Contents, HasCopy, View

LEMMA ValuesKnown ==
  ASSUME type \in CppTypes, NEW v \in CppValues
  PROVE  v \in AllValues
  BY DEF CppValues, AllValues

(* A step of Arrays that stores is a Store of Cells, if the contents       *)
(* change by it as they should; the same for loads and for no access.      *)
LEMMA StoreStep ==
  ASSUME ArrayInv, NEW S \in SUBSET Indices, NEW f \in [S -> CppValues],
         Stored(S, f),
         Contents' = [i \in Indices |-> IF i \in S THEN f[i] ELSE Contents[i]]
  PROVE  Shared!CellsNext
<1>1. f \in [S -> AllValues]
  BY ValuesKnown DEF ArrayInv
<1>2. last'.at = S /\ last'.values = f
  BY DEF Stored
<1>3. Shared!Store(S, f)
  BY DEF Stored, Shared!Store, Shared!Access
<1>4. Shared!StoreAny
  BY <1>1, <1>2, <1>3 DEF Shared!StoreAny, AllValues
<1>5. QED
  BY <1>4 DEF Shared!CellsNext

LEMMA LoadStep ==
  ASSUME NEW i \in Indices, Loaded(i, Contents[i]), Contents' = Contents
  PROVE  Shared!CellsNext
  BY DEF Loaded, Shared!CellsNext, Shared!Load, Shared!Access

LEMMA NoAccessStep ==
  ASSUME NoAccess, Contents' = Contents
  PROVE  Shared!CellsNext
  BY DEF NoAccess, Shared!CellsNext, Shared!NoAccess

-----------------------------------------------------------------------------
(* Every step keeps the invariant and maps to a step of Cells. *)

LEMMA CreateStep ==
  ASSUME ArrayInv, NEW t \in Threads, Create(t)
  PROVE  ArrayInv' /\ Shared!CellsNext
<1>1. ArrayInv'
  BY DEF ArrayInv, Create, convVars, CppValues, Buffered, OneCopy, PointerInv, HasCopy
<1>2. QED
  BY <1>1, ContentsKept, NoAccessStep DEF Create, convVars

LEMMA SetElementsStep ==
  ASSUME ArrayInv, CastsMatch, SameType, MayUseArray, NEW t \in Threads, NEW start \in Nat,
         NEW len \in Nat, len <= Size,
         NEW b \in Buffers, SetElements(t, start, len, b),
         UNCHANGED <<convVars, elements>>, created' \in BOOLEAN, created => created'
  PROVE  ArrayInv' /\ Shared!CellsNext
<1> USE ArrayAssumption
<1> DEFINE R == Region(start, len)
           f == [i \in R |-> b[i - start]]
<1>0. type \in CppTypes /\ type # "char" /\ UNCHANGED <<type, sent, elements>>
  BY DEF ArrayInv, SameType, convVars
<1>1. CASE R \subseteq Indices
  <2>1. /\ javaArray' = [i \in Indices |-> IF i \in R THEN Cast(JniType[type], b[i - start])
                                                     ELSE javaArray[i]]
        /\ Stored(R, f) /\ pending' = pending
    BY <1>1 DEF SetElements, ConvertToJava
  <2>2. \A i \in R : b[i - start] \in CppValues
    BY DEF Region, Indices, Buffers
  <2>3. /\ \A i \in R : /\ Cast(JniType[type], b[i - start]) \in JavaSample(type)
                        /\ Cast(type, Cast(JniType[type], b[i - start])) = b[i - start]
    BY <1>0, <2>2 DEF CastsMatch, CppValues
  <2>4. javaArray' \in [Indices -> JavaSample(type)]
    BY <2>1, <2>3 DEF ArrayInv
  <2>5. ArrayInv'
    BY <1>0, <2>1, <2>4 DEF ArrayInv, CppValues, Buffered, OneCopy, PointerInv, HasCopy
  <2>6. \A u \in Threads : ~HasCopy(u) /\ ~HasCopy(u)'
    BY <1>0 DEF MayUseArray, HasCopy
  <2>7. /\ Contents = [i \in Indices |-> View(i)]
        /\ Contents' = [i \in Indices |-> View(i)']
    BY <2>6 DEF Contents
  <2>8. Contents' = [i \in Indices |-> IF i \in R THEN f[i] ELSE Contents[i]]
    BY <1>0, <2>1, <2>3, <2>7 DEF View
  <2>9. f \in [R -> CppValues] /\ R \in SUBSET Indices
    BY <1>1, <2>2
  <2>10. QED
    BY <2>1, <2>5, <2>8, <2>9, StoreStep
<1>2. CASE ~(R \subseteq Indices)
  <2>1. pending' = [pending EXCEPT ![t] = TRUE] /\ NoAccess /\ javaArray' = javaArray
    BY <1>2 DEF SetElements
  <2>2. ArrayInv'
    BY <1>0, <2>1 DEF ArrayInv, CppValues, Buffered, OneCopy, PointerInv, HasCopy
  <2>3. QED
    BY <1>0, <2>1, <2>2, ContentsKept, NoAccessStep
<1>3. QED
  BY <1>1, <1>2

LEMMA SetStep ==
  ASSUME ArrayInv, CastsMatch, NEW t \in Threads, NEW start \in Indices, NEW len \in 1..Size,
         NEW b \in Buffers, Set(t, start, len, b)
  PROVE  ArrayInv' /\ Shared!CellsNext
<1>1. start \in Nat /\ len \in Nat /\ len <= Size
  BY ArrayAssumption DEF Indices
<1>2. QED
  BY <1>1, SetElementsStep DEF Set, ArrayInv

(* A new array is in nobody's hands. *)
LEMMA ConvertStep ==
  ASSUME ArrayInv, CastsMatch, NEW t \in Threads, NEW start \in {0, 1}, NEW b \in Buffers,
         Convert(t, start, b)
  PROVE  ArrayInv' /\ Shared!CellsNext
<1>1. MayUseArray
  BY DEF ArrayInv, PointerInv, Convert, MayUseArray, HasCopy
<1>2. start \in Nat /\ Size \in Nat /\ Size <= Size
  BY ArrayAssumption
<1>3. QED
  BY <1>1, <1>2, SetElementsStep DEF Convert

(* A pointer, to the array or to a copy, shows what the array holds.       *)
LEMMA GetStep ==
  ASSUME ArrayInv, CastsMatch, NEW t \in Threads, NEW kind \in {"pinned", "copy"},
         NEW critical \in BOOLEAN, Get(t, kind, critical)
  PROVE  ArrayInv' /\ Shared!CellsNext
<1> DEFINE b == IF kind = "copy" THEN [i \in Indices |-> View(i)] ELSE << >>
           e == [kind |-> kind, critical |-> critical, buffer |-> b]
<1>1. /\ elements' = [elements EXCEPT ![t] = e]
      /\ UNCHANGED <<type, sent, created, javaArray, pending>>
      /\ NoAccess /\ created /\ type # "char"
  BY DEF Get, convVars
<1>2. \A u \in Threads : ~HasCopy(u)
  BY DEF Get, MayUseArray, HasCopy
<1>3. [i \in Indices |-> View(i)] \in [Indices -> CppValues]
  BY DEF ArrayInv, CastsMatch, View, CppValues
<1>4. b \in Buffered /\ (kind = "copy" => b \in [Indices -> CppValues])
  BY <1>3 DEF Buffered
<1> HIDE DEF b
<1>5. e \in [kind : Kinds, critical : BOOLEAN, buffer : Buffered]
  BY <1>4 DEF Kinds
<1>6. \A u \in Threads : elements'[u] = IF u = t THEN e ELSE elements[u]
  BY <1>1 DEF ArrayInv
<1>7. elements' \in [Threads -> [kind : Kinds, critical : BOOLEAN, buffer : Buffered]]
  BY <1>1, <1>5 DEF ArrayInv
<1>8. CppValues' = CppValues /\ Buffered' = Buffered
  BY <1>1 DEF CppValues, Buffered
<1>9. OneCopy'
  BY <1>2, <1>6 DEF OneCopy, HasCopy
<1>10. PointerInv'
  BY <1>1, <1>2, <1>4, <1>6, <1>8 DEF ArrayInv, PointerInv, HasCopy
<1>11. ArrayInv'
  BY <1>1, <1>7, <1>8, <1>9, <1>10 DEF ArrayInv
<1>12. Contents' = Contents
  <2>1. Contents = [i \in Indices |-> View(i)]
    BY <1>2, ContentsOfArray
  <2>2. CASE kind = "copy"
    <3>1. b = [i \in Indices |-> View(i)]
      BY <2>2 DEF b
    <3>2. elements'[t].kind = "copy" /\ elements'[t].buffer = b
      BY <1>6, <2>2
    <3>3. elements'[t].kind = "copy" /\ elements'[t].buffer = [i \in Indices |-> View(i)]
      BY <3>1, <3>2, Zenon
    <3>4. (CHOOSE u \in Threads : elements'[u].kind = "copy") = t
      BY <1>9, <3>3, SingleChoice DEF OneCopy, HasCopy
    <3>5. Contents' = [i \in Indices |-> elements'[t].buffer[i]]
      BY <3>3, <3>4 DEF Contents, HasCopy
    <3>6. QED
      BY <2>1, <3>3, <3>5
  <2>3. CASE kind # "copy"
    <3>1. \A u \in Threads : ~(elements'[u].kind = "copy")
      BY <1>2, <1>6, <2>3 DEF HasCopy
    <3>2. QED
      BY <1>1, <2>1, <3>1 DEF Contents, HasCopy, View
  <2>4. QED
    BY <2>2, <2>3
<1>13. QED
  BY <1>1, <1>11, <1>12, NoAccessStep

(* Who writes has the copy, or there is none. *)
LEMMA WriteElementStep ==
  ASSUME ArrayInv, CastsMatch, NEW t \in Threads, NEW i \in Indices, NEW v \in CppValues,
         WriteElement(t, i, v)
  PROVE  ArrayInv' /\ Shared!CellsNext
<1> DEFINE f == [k \in {i} |-> v]
<1>0. /\ UNCHANGED <<type, sent, created, pending>>
      /\ Stored({i}, f)
      /\ type # "char"
      /\ \A u \in Threads \ {t} : ~HasCopy(u)
  BY DEF WriteElement, convVars, ArrayInv, PointerInv, MayUsePointer
<1>1. f \in [{i} -> CppValues] /\ {i} \in SUBSET Indices
  OBVIOUS
<1>2. CppValues' = CppValues /\ Buffered' = Buffered
  BY <1>0 DEF CppValues, Buffered
<1>3. ASSUME HasCopy(t)
      PROVE  ArrayInv' /\ Contents' = [k \in Indices |-> IF k \in {i} THEN f[k] ELSE Contents[k]]
  <2> DEFINE b == [elements[t].buffer EXCEPT ![i] = v]
             e == [elements[t] EXCEPT !.buffer = b]
  <2>1. elements' = [elements EXCEPT ![t] = e] /\ javaArray' = javaArray
    BY <1>3 DEF WriteElement
  <2>2. elements[t].buffer \in [Indices -> CppValues]
    BY <1>3 DEF ArrayInv, PointerInv
  <2>3. b \in [Indices -> CppValues] /\ \A k \in Indices : b[k] = IF k = i THEN v ELSE elements[t].buffer[k]
    BY <2>2
  <2> HIDE DEF b
  <2>4. elements[t] \in [kind : Kinds, critical : BOOLEAN, buffer : Buffered]
    BY DEF ArrayInv
  <2>5. /\ e \in [kind : Kinds, critical : BOOLEAN, buffer : Buffered]
        /\ e.kind = "copy" /\ e.buffer = b
    BY <1>3, <2>3, <2>4 DEF Buffered, HasCopy
  <2> HIDE DEF e
  <2>6. elements' \in [Threads -> [kind : Kinds, critical : BOOLEAN, buffer : Buffered]]
    BY <2>1, <2>5 DEF ArrayInv
  <2>7. \A u \in Threads : elements'[u] = IF u = t THEN e ELSE elements[u]
    BY <2>1 DEF ArrayInv
  <2>8. OneCopy'
    BY <1>0, <2>7 DEF OneCopy, HasCopy
  <2>9. PointerInv'
    BY <1>0, <1>2, <1>3, <2>3, <2>5, <2>7 DEF ArrayInv, PointerInv, HasCopy
  <2>10. ArrayInv'
    BY <1>0, <1>2, <2>1, <2>6, <2>8, <2>9 DEF ArrayInv
  <2>11. Contents = [k \in Indices |-> elements[t].buffer[k]]
    BY <1>3, ContentsOfCopy DEF ArrayInv
  <2>12. elements'[t].kind = "copy" /\ elements'[t].buffer = b
    BY <2>5, <2>7
  <2>13. (CHOOSE u \in Threads : elements'[u].kind = "copy") = t
    BY <2>8, <2>12, SingleChoice DEF OneCopy, HasCopy
  <2>14. Contents' = [k \in Indices |-> b[k]]
    BY <2>12, <2>13 DEF Contents, HasCopy
  <2>15. QED
    BY <2>3, <2>10, <2>11, <2>14
<1>4. ASSUME ~HasCopy(t)
      PROVE  ArrayInv' /\ Contents' = [k \in Indices |-> IF k \in {i} THEN f[k] ELSE Contents[k]]
  <2>1. javaArray' = [javaArray EXCEPT ![i] = Cast(JniType[type], v)] /\ elements' = elements
    BY <1>4 DEF WriteElement
  <2>2. Cast(JniType[type], v) \in JavaSample(type) /\ Cast(type, Cast(JniType[type], v)) = v
    BY <1>0 DEF ArrayInv, CastsMatch, CppValues
  <2>3. javaArray' \in [Indices -> JavaSample(type)]
    BY <2>1, <2>2 DEF ArrayInv
  <2>4. ArrayInv'
    BY <1>0, <1>2, <2>1, <2>3 DEF ArrayInv, OneCopy, PointerInv, HasCopy
  <2>5. \A u \in Threads : ~HasCopy(u) /\ ~HasCopy(u)'
    BY <1>0, <1>4, <2>1 DEF HasCopy
  <2>6. /\ Contents = [k \in Indices |-> View(k)]
        /\ Contents' = [k \in Indices |-> View(k)']
    BY <2>5 DEF Contents
  <2>7. \A k \in Indices : View(k)' = IF k = i THEN v ELSE View(k)
    BY <1>0, <2>1, <2>2 DEF View, ArrayInv
  <2>8. QED
    BY <2>4, <2>6, <2>7
<1>5. QED
  BY <1>0, <1>1, <1>3, <1>4, StoreStep

LEMMA ReadElementStep ==
  ASSUME ArrayInv, NEW t \in Threads, NEW i \in Indices, ReadElement(t, i)
  PROVE  ArrayInv' /\ Shared!CellsNext
<1>1. ArrayInv'
  BY DEF ArrayInv, ReadElement, convVars, CppValues, Buffered, OneCopy, PointerInv, HasCopy
<1>2. Contents' = Contents
  BY ContentsKept DEF ReadElement, convVars
<1>3. CASE HasCopy(t)
  <2>1. Contents[i] = elements[t].buffer[i]
    BY <1>3, ContentsOfCopy DEF ArrayInv
  <2>2. QED
    BY <1>1, <1>2, <1>3, <2>1, LoadStep DEF ReadElement
<1>4. CASE ~HasCopy(t)
  <2>1. Contents[i] = View(i)
    BY <1>4, ContentsOfArray DEF ReadElement, MayUsePointer
  <2>2. QED
    BY <1>1, <1>2, <1>4, <2>1, LoadStep DEF ReadElement
<1>5. QED
  BY <1>3, <1>4

(* A copy that is written back leaves the array as the copy was. *)
LEMMA ReleaseStep ==
  ASSUME ArrayInv, CastsMatch, NEW t \in Threads, Release(t)
  PROVE  ArrayInv' /\ Shared!CellsNext
<1>0. /\ UNCHANGED <<type, sent, created, pending>>
      /\ elements' = [elements EXCEPT ![t] = NoPointer]
      /\ NoAccess /\ type # "char"
      /\ javaArray' = IF HasCopy(t)
                        THEN [i \in Indices |-> Cast(JniType[type], elements[t].buffer[i])]
                        ELSE javaArray
  BY DEF Release, WrittenBack, convVars, ArrayInv, PointerInv
<1>1. CppValues' = CppValues /\ Buffered' = Buffered
  BY <1>0 DEF CppValues, Buffered
<1>2. HasCopy(t) => \A i \in Indices :
        /\ Cast(JniType[type], elements[t].buffer[i]) \in JavaSample(type)
        /\ Cast(type, Cast(JniType[type], elements[t].buffer[i])) = elements[t].buffer[i]
  <2>1. HasCopy(t) => \A i \in Indices : elements[t].buffer[i] \in CppSample(type)
    BY DEF ArrayInv, PointerInv, CppValues
  <2>2. QED
    BY <1>0, <2>1 DEF ArrayInv, CastsMatch
<1>3. javaArray' \in [Indices -> JavaSample(type)]
  BY <1>0, <1>2 DEF ArrayInv
<1>4. NoPointer \in [kind : Kinds, critical : BOOLEAN, buffer : Buffered] /\ NoPointer.kind = "none"
  BY DEF NoPointer, Kinds, Buffered
<1>5. elements' \in [Threads -> [kind : Kinds, critical : BOOLEAN, buffer : Buffered]]
  BY <1>0, <1>4 DEF ArrayInv
<1>6. \A u \in Threads : elements'[u] = IF u = t THEN NoPointer ELSE elements[u]
  BY <1>0 DEF ArrayInv
<1>7. OneCopy' /\ PointerInv'
  BY <1>0, <1>1, <1>4, <1>6 DEF ArrayInv, OneCopy, PointerInv, HasCopy
<1>8. ArrayInv'
  BY <1>0, <1>1, <1>3, <1>5, <1>7 DEF ArrayInv
<1>9. Contents' = Contents
  <2>1. CASE HasCopy(t)
    <3>1. \A u \in Threads : ~HasCopy(u)'
      BY <1>4, <1>6, <2>1 DEF ArrayInv, OneCopy, HasCopy
    <3>2. Contents' = [i \in Indices |-> View(i)']
      BY <3>1 DEF Contents
    <3>3. \A i \in Indices : View(i)' = elements[t].buffer[i]
      BY <1>0, <1>2, <2>1 DEF View
    <3>4. Contents = [i \in Indices |-> elements[t].buffer[i]]
      BY <2>1, ContentsOfCopy DEF ArrayInv
    <3>5. QED
      BY <3>2, <3>3, <3>4
  <2>2. CASE ~HasCopy(t) /\ \E u \in Threads : HasCopy(u)
    <3>1. PICK u \in Threads : HasCopy(u)
      BY <2>2
    <3>2. elements'[u] = elements[u] /\ elements'[u].kind = "copy"
      BY <1>6, <2>2, <3>1 DEF HasCopy
    <3>3. (CHOOSE w \in Threads : elements'[w].kind = "copy") = u
      BY <1>7, <3>2, SingleChoice DEF OneCopy, HasCopy
    <3>4. Contents' = [i \in Indices |-> elements[u].buffer[i]]
      BY <3>2, <3>3 DEF Contents, HasCopy
    <3>5. QED
      BY <3>1, <3>4, ContentsOfCopy DEF ArrayInv
  <2>3. CASE \A u \in Threads : ~HasCopy(u)
    <3>1. \A u \in Threads : ~HasCopy(u)'
      BY <1>4, <1>6, <2>3 DEF HasCopy
    <3>2. QED
      BY <1>0, <2>3, <3>1 DEF Contents, View
  <2>4. QED
    BY <2>1, <2>2, <2>3
<1>10. QED
  BY <1>0, <1>8, <1>9, NoAccessStep

LEMMA CheckedStep ==
  ASSUME ArrayInv, NEW t \in Threads, Checked(t)
  PROVE  ArrayInv' /\ Shared!CellsNext
<1>1. ArrayInv'
  BY DEF ArrayInv, Checked, convVars, CppValues, Buffered, OneCopy, PointerInv, HasCopy
<1>2. QED
  BY <1>1, ContentsKept, NoAccessStep DEF Checked, convVars

LEMMA JavaStoresStep ==
  ASSUME ArrayInv, CastsMatch, NEW i \in Indices, NEW v \in JavaSample(type), JavaStores(i, v)
  PROVE  ArrayInv' /\ Shared!CellsNext
<1> DEFINE f == [k \in {i} |-> Cast(type, v)]
<1>0. /\ UNCHANGED <<type, sent, created, elements, pending>>
      /\ javaArray' = [javaArray EXCEPT ![i] = v]
      /\ Stored({i}, f)
  BY DEF JavaStores, convVars
<1>1. f \in [{i} -> CppValues] /\ {i} \in SUBSET Indices
  BY DEF ArrayInv, CastsMatch, CppValues
<1>2. ArrayInv'
  BY <1>0 DEF ArrayInv, CppValues, Buffered, OneCopy, PointerInv, HasCopy
<1>3. \A u \in Threads : ~HasCopy(u) /\ ~HasCopy(u)'
  BY <1>0 DEF JavaStores, MayUseArray, HasCopy
<1>4. /\ Contents = [k \in Indices |-> View(k)]
      /\ Contents' = [k \in Indices |-> View(k)']
  BY <1>3 DEF Contents
<1>5. \A k \in Indices : View(k)' = IF k = i THEN Cast(type, v) ELSE View(k)
  BY <1>0 DEF View, ArrayInv
<1>6. Contents' = [k \in Indices |-> IF k \in {i} THEN f[k] ELSE Contents[k]]
  BY <1>4, <1>5
<1>7. QED
  BY <1>0, <1>1, <1>2, <1>6, StoreStep

LEMMA JavaLoadsStep ==
  ASSUME ArrayInv, NEW i \in Indices, JavaLoads(i)
  PROVE  ArrayInv' /\ Shared!CellsNext
<1>1. ArrayInv'
  BY DEF ArrayInv, JavaLoads, convVars, CppValues, Buffered, OneCopy, PointerInv, HasCopy
<1>2. Contents' = Contents
  BY ContentsKept DEF JavaLoads, convVars
<1>3. Contents[i] = View(i)
  BY ContentsOfArray DEF JavaLoads, MayUseArray
<1>4. QED
  BY <1>1, <1>2, <1>3, LoadStep DEF JavaLoads

(* Fields come and go without a touch of the array. *)
LEMMA ConvStep ==
  ASSUME ArrayInv, ConvNext, NoAccess, UNCHANGED <<created, javaArray, elements, pending>>
  PROVE  ArrayInv' /\ Shared!CellsNext
<1>1. type' = type /\ sent' \in CppValues \union {Nothing}
  BY DEF ConvNext, SetField, PassArgument, JavaAssigns, CppValues
<1>2. ArrayInv'
  BY <1>1 DEF ArrayInv, CppValues, Buffered, OneCopy, PointerInv, HasCopy
<1>3. QED
  BY <1>1, <1>2, ContentsKept, NoAccessStep

-----------------------------------------------------------------------------
LEMMA ArrayInvInit ==
  ASSUME ArrayInit, CastsMatch
  PROVE  ArrayInv /\ Shared!CellsInit
<1>1. type \in CppTypes /\ sent = Nothing
  BY DEF ArrayInit, ConvInit
<1>2. 0 \in JavaSample(type)
  BY <1>1, ZeroCast, ConversionAssumption DEF JavaSample, CppTypes
<1>3. elements \in [Threads -> [kind : Kinds, critical : BOOLEAN, buffer : Buffered]]
  BY DEF ArrayInit, NoPointer, Kinds, Buffered
<1>4. \A t \in Threads : elements[t].kind = "none"
  BY DEF ArrayInit, NoPointer
<1>5. ArrayInv
  BY <1>1, <1>2, <1>3, <1>4 DEF ArrayInit, ArrayInv, OneCopy, PointerInv, HasCopy
<1>6. Contents = [i \in Indices |-> 0]
  BY <1>1, <1>4 DEF ArrayInit, Contents, HasCopy, View, CastsMatch
<1>7. QED
  BY <1>5, <1>6 DEF ArrayInit, Shared!CellsInit

LEMMA ArrayNext ==
  ASSUME ArrayInv, CastsMatch, [TransferNext]_vars
  PROVE  ArrayInv' /\ [Shared!CellsNext]_<<Contents, last>>
<1>1. ASSUME ConvNext, NoAccess, UNCHANGED <<created, javaArray, elements, pending>>
      PROVE  ArrayInv' /\ Shared!CellsNext
  BY <1>1, ConvStep
<1>2. ASSUME NEW t \in Threads, NativeStep(t)
      PROVE  ArrayInv' /\ Shared!CellsNext
  BY <1>2, CreateStep, ConvertStep, SetStep, GetStep, ReadElementStep, WriteElementStep,
     ReleaseStep, CheckedStep DEF NativeStep
<1>3. ASSUME NEW i \in Indices, JavaLoads(i) \/ (\E v \in JavaSample(type) : JavaStores(i, v))
      PROVE  ArrayInv' /\ Shared!CellsNext
  BY <1>3, JavaLoadsStep, JavaStoresStep
<1>4. CASE UNCHANGED vars
  <2>1. UNCHANGED <<type, sent, created, javaArray, elements, pending, last>>
    BY <1>4 DEF vars, convVars, arrayVars
  <2>2. ArrayInv'
    BY <2>1 DEF ArrayInv, CppValues, Buffered, OneCopy, PointerInv, HasCopy
  <2>3. QED
    BY <2>1, <2>2, ContentsKept
<1>5. QED
  BY <1>1, <1>2, <1>3, <1>4 DEF TransferNext

(* The variables have their types; above all, elements and the copies of   *)
(* them are values of the element type, however they got there.            *)
THEOREM ArrayTypeCorrect == TransferSpec => []ArrayTypeOK
<1>1. ArrayInv => ArrayTypeOK
  BY DEF ArrayInv, ArrayTypeOK, PointerInv, HasCopy
<1>2. ArrayInit => ArrayInv
  BY CastsDo, ArrayInvInit
<1>3. ArrayInv /\ [TransferNext]_vars => ArrayInv'
  BY CastsDo, ArrayNext
<1>4. QED
  BY <1>1, <1>2, <1>3, PTL DEF TransferSpec

(* For any length and any number of threads, whoever loads an element gets *)
(* the value that was stored last, if the array is used through the        *)
(* pointer alone while a thread has a copy.                                *)
THEOREM CellsRefined == TransferSpec => CellsImplemented
<1>1. ArrayInit => ArrayInv /\ Shared!CellsInit
  BY CastsDo, ArrayInvInit
<1>2. ArrayInv /\ [TransferNext]_vars => ArrayInv' /\ [Shared!CellsNext]_<<Contents, last>>
  BY CastsDo, ArrayNext
<1>3. QED
  BY <1>1, <1>2, PTL DEF TransferSpec, CellsImplemented, Shared!CellsSpec
=============================================================================
