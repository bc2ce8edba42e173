------------------------- MODULE MethodCacheProofs -------------------------
(***************************************************************************)
(* Proofs about MethodCache, for any members, classes, threads and usage   *)
(* rules.  What makes them work is the shape of the stacks: a lookup that  *)
(* waits for an inner one is inside, holds the mutex and its once flag,    *)
(* and the objects of a stack have falling ranks, so that no lookup waits  *)
(* for itself and no stack is deeper than three.  The last part adds what  *)
(* bootFirst gives: no lookup but those of initializeEnvironment waits for *)
(* the once flag of a library method (BootInv).                            *)
(***************************************************************************)
EXTENDS MethodCache, TLAPS

(* How deep the lookups are that the lookup of m makes. *)
Rank(m) == IF m \notin BootMembers THEN 2 ELSE IF m = "jGetFieldClass" THEN 1 ELSE 0

Holds(f) == f.m \in Members /\ f.at \in {"class", "find", "inside"}
Past(f) == f.at # "once"

StackShape(s) ==
  /\ s \in Seq(Frames)
  /\ \A i \in 1..Len(s) : Len(s) - i + Rank(s[i].m) <= 2
  /\ \A i \in 2..Len(s) : /\ s[i].at = "inside" /\ s[i].m \in Members
                          /\ s[i].next <= Len(Inner(s[i].m))
  /\ \A i, j \in 1..Len(s) : i < j => Rank(s[i].m) < Rank(s[j].m)
  /\ s # << >> => (s[1].m \in ObjectArrays => s[1].at # "lock")

LEMMA OneCall ==
  ASSUME NEW S, NEW x \in S
  PROVE  <<x>> \in Seq(S) /\ Len(<<x>>) = 1 /\ \A k \in 1..1 : <<x>>[k] = x
OBVIOUS

LEMMA TwoCalls ==
  ASSUME NEW S, NEW x \in S, NEW y \in S
  PROVE  /\ <<x, y>> \in Seq(S) /\ Len(<<x, y>>) = 2
         /\ \A k \in 1..2 : <<x, y>>[k] \in {x, y}
OBVIOUS

LEMMA InnerFacts ==
  ASSUME NEW m \in Members
  PROVE  /\ Inner(m) \in Seq(BootMembers) /\ Len(Inner(m)) <= 2
         /\ \A k \in 1..Len(Inner(m)) : Inner(m)[k] \in BootMembers /\ Rank(Inner(m)[k]) < Rank(m)
<1>1. BootMembers = {"jIsExportable", "jLookupJavaMember", "jLookupJavaField",
                     "jGetFieldClass", "jSetMinimumLogLevel"}
  BY DEF BootMembers, Boot
<1>2. CASE m = "jGetFieldClass"
  <2>1. Inner(m) = <<"jIsExportable">>
    BY <1>1, <1>2 DEF Inner
  <2>2. "jIsExportable" \in BootMembers /\ Rank("jIsExportable") < Rank(m)
    BY <1>1, <1>2 DEF Rank
  <2>3. QED
    BY <2>1, <2>2, OneCall
<1>3. CASE m \in BootMembers \ {"jGetFieldClass"}
  <2>1. Inner(m) = << >>
    BY <1>1, <1>3, CacheAssumption DEF Inner
  <2>2. QED
    BY <2>1
<1>4. CASE m \in UserMembers
  <2>1. m \notin BootMembers /\ m # "jGetFieldClass"
    BY <1>1, <1>4, CacheAssumption
  <2>2. Inner(m) \in {<<"jIsExportable">>, <<"jLookupJavaMember">>,
                      <<"jIsExportable", "jGetFieldClass">>,
                      <<"jLookupJavaField", "jGetFieldClass">>}
    <3>1. Kind[m] \in {"method", "scannedMethod", "field", "scannedField"}
      BY <1>4, CacheAssumption
    <3>2. QED
      BY <1>4, <2>1, <3>1 DEF Inner
  <2>3. Rank(m) = 2
    BY <2>1 DEF Rank
  <2>4. \A x \in BootMembers : Rank(x) < Rank(m)
    BY <1>1, <2>3 DEF Rank
  <2>5. ASSUME NEW x \in BootMembers, NEW y \in BootMembers,
               Inner(m) = <<x>> \/ Inner(m) = <<x, y>>
        PROVE  /\ Inner(m) \in Seq(BootMembers) /\ Len(Inner(m)) <= 2
               /\ \A k \in 1..Len(Inner(m)) : Inner(m)[k] \in BootMembers
    <3>1. CASE Inner(m) = <<x>>
      BY <3>1, OneCall
    <3>2. CASE Inner(m) = <<x, y>>
      BY <3>2, TwoCalls
    <3>3. QED
      BY <2>5, <3>1, <3>2
  <2>6. \E x, y \in BootMembers : Inner(m) = <<x>> \/ Inner(m) = <<x, y>>
    BY <1>1, <2>2
  <2>7. QED
    BY <2>4, <2>5, <2>6
<1>5. QED
  BY <1>2, <1>3, <1>4 DEF Members

-----------------------------------------------------------------------------
(* The three things that happen to the stack of a thread. *)

LEMMA HeadReplaced ==
  ASSUME NEW S, NEW q \in Seq(S), q # << >>, NEW f \in S
  PROVE  LET p == [q EXCEPT ![1] = f] IN
         /\ p \in Seq(S) /\ Len(p) = Len(q) /\ p # << >> /\ p[1] = f
         /\ \A i \in 2..Len(q) : p[i] = q[i]
OBVIOUS

Callers(s) == {s[i].m : i \in 2..Len(s)}

Moved(s, a) == [s EXCEPT ![1].at = a]
Places == {"once", "lock", "class", "find", "inside"}

LEMMA Moves ==
  ASSUME NEW s, StackShape(s), s # << >>, NEW a \in Places,
         s[1].m \in ObjectArrays => a # "lock",
         NEW p, p = Moved(s, a)
  PROVE  /\ StackShape(p) /\ Callers(p) = Callers(s) /\ p # << >> /\ Len(p) = Len(s)
         /\ p[1].m = s[1].m /\ p[1].at = a /\ p[1].next = s[1].next
<1>1. s \in Seq(Frames) /\ s[1] \in Frames /\ Len(s) \in Nat /\ Len(s) >= 1
  BY DEF StackShape
<1>2. [s[1] EXCEPT !.at = a] \in Frames
  BY <1>1 DEF Frames, Places
<1>3. p \in Seq(Frames) /\ Len(p) = Len(s) /\ p[1] = [s[1] EXCEPT !.at = a]
      /\ \A i \in 2..Len(s) : p[i] = s[i]
  BY <1>1, <1>2 DEF Moved
<1>4. p[1].m = s[1].m /\ p[1].at = a /\ p[1].next = s[1].next
  BY <1>1, <1>3 DEF Frames
<1>5. \A i \in 1..Len(s) : p[i].m = s[i].m
  <2> SUFFICES ASSUME NEW i \in 1..Len(s) PROVE p[i].m = s[i].m
    OBVIOUS
  <2>1. CASE i = 1
    BY <2>1, <1>4
  <2>2. CASE i \in 2..Len(s)
    BY <2>2, <1>3
  <2>3. QED
    BY <1>1, <2>1, <2>2
<1>6. p # << >>
  BY <1>1, <1>3
<1>7. StackShape(p)
  BY <1>1, <1>3, <1>4, <1>5 DEF StackShape
<1>8. Callers(p) = Callers(s)
  BY <1>3 DEF Callers
<1>9. QED
  BY <1>3, <1>4, <1>6, <1>7, <1>8

Pushed(s, m) == <<Frame(m)>> \o s

LEMMA Pushes ==
  ASSUME NEW s \in Seq(Frames), NEW m \in Lazy, NEW p, p = Pushed(s, m)
  PROVE  /\ p \in Seq(Frames) /\ Len(p) = Len(s) + 1 /\ p # << >>
         /\ p[1] = Frame(m) /\ p[1].m = m /\ p[1].at = "once"
         /\ \A i \in 1..Len(s) : p[i + 1] = s[i]
         /\ \A i \in 2..Len(p) : p[i] = s[i - 1]
<1>1. Frame(m) \in Frames /\ Frame(m).m = m /\ Frame(m).at = "once"
  BY DEF Frame, Frames
<1>2. QED
  BY <1>1 DEF Pushed

(* Called by a lookup that is inside, or by nobody. *)
LEMMA PushesShape ==
  ASSUME NEW s, StackShape(s), NEW m \in Lazy,
         s # << >> => /\ s[1].at = "inside" /\ s[1].m \in Members
                      /\ s[1].next <= Len(Inner(s[1].m)) /\ m = Inner(s[1].m)[s[1].next]
  PROVE  StackShape(Pushed(s, m))
<1> DEFINE p == Pushed(s, m)
<1>1. /\ s \in Seq(Frames) /\ Len(s) \in Nat
      /\ \A i \in 1..Len(s) : s[i] \in Frames
  BY DEF StackShape
<1>2. /\ p \in Seq(Frames) /\ Len(p) = Len(s) + 1 /\ p # << >>
      /\ p[1].m = m /\ p[1].at = "once"
      /\ \A i \in 2..Len(p) : p[i] = s[i - 1]
  BY <1>1, Pushes
<1>3. Rank(m) \in 0..2 /\ \A i \in 1..Len(s) : Rank(s[i].m) \in 0..2
  BY DEF Rank
<1>4. s # << >> => Rank(m) < Rank(s[1].m)
  <2> SUFFICES ASSUME s # << >> PROVE Rank(m) < Rank(s[1].m)
    OBVIOUS
  <2>1. s[1].next \in 1..Len(Inner(s[1].m))
    <3>1. s[1].next \in 1..3
      BY <1>1 DEF Frames
    <3>2. Len(Inner(s[1].m)) \in Nat
      BY InnerFacts
    <3>3. QED
      BY <3>1, <3>2
  <2>2. QED
    BY <2>1, InnerFacts
<1>5. \A i \in 1..Len(p) : Len(p) - i + Rank(p[i].m) <= 2
  <2> SUFFICES ASSUME NEW i \in 1..Len(p) PROVE Len(p) - i + Rank(p[i].m) <= 2
    OBVIOUS
  <2>1. CASE i = 1
    <3>1. CASE s = << >>
      BY <1>2, <1>3, <2>1, <3>1
    <3>2. CASE s # << >>
      <4>1. Len(s) - 1 + Rank(s[1].m) <= 2
        BY <1>1, <3>2 DEF StackShape
      <4>2. QED
        BY <1>1, <1>2, <1>3, <1>4, <2>1, <3>2, <4>1
    <3>3. QED
      BY <3>1, <3>2
  <2>2. CASE i # 1
    <3>1. i - 1 \in 1..Len(s) /\ p[i] = s[i - 1]
      BY <1>1, <1>2, <2>2
    <3>2. Len(s) - (i - 1) + Rank(s[i - 1].m) <= 2
      BY <3>1 DEF StackShape
    <3>3. QED
      BY <1>1, <1>2, <1>3, <3>1, <3>2
  <2>3. QED
    BY <2>1, <2>2
<1>6. \A i \in 2..Len(p) : /\ p[i].at = "inside" /\ p[i].m \in Members
                           /\ p[i].next <= Len(Inner(p[i].m))
  <2> SUFFICES ASSUME NEW i \in 2..Len(p)
               PROVE  /\ p[i].at = "inside" /\ p[i].m \in Members
                      /\ p[i].next <= Len(Inner(p[i].m))
    OBVIOUS
  <2>1. p[i] = s[i - 1] /\ i - 1 \in 1..Len(s) /\ s # << >>
    BY <1>1, <1>2
  <2>2. CASE i = 2
    BY <2>1, <2>2
  <2>3. CASE i # 2
    <3>1. i - 1 \in 2..Len(s)
      BY <1>1, <2>1, <2>3
    <3>2. QED
      BY <2>1, <3>1 DEF StackShape
  <2>4. QED
    BY <2>2, <2>3
<1>7. \A i, j \in 1..Len(p) : i < j => Rank(p[i].m) < Rank(p[j].m)
  <2> SUFFICES ASSUME NEW i \in 1..Len(p), NEW j \in 1..Len(p), i < j
               PROVE  Rank(p[i].m) < Rank(p[j].m)
    OBVIOUS
  <2>1. j - 1 \in 1..Len(s) /\ p[j] = s[j - 1] /\ s # << >>
    BY <1>1, <1>2
  <2>2. Rank(s[1].m) <= Rank(s[j - 1].m)
    <3>1. CASE j = 2
      BY <1>3, <3>1, <2>1
    <3>2. CASE j # 2
      <4>1. 1 \in 1..Len(s) /\ 1 < j - 1
        BY <1>1, <2>1, <3>2
      <4>2. Rank(s[1].m) < Rank(s[j - 1].m)
        BY <2>1, <4>1 DEF StackShape
      <4>3. QED
        BY <1>3, <4>1, <4>2, <2>1
    <3>3. QED
      BY <3>1, <3>2
  <2>3. CASE i = 1
    BY <1>2, <1>3, <1>4, <2>1, <2>2, <2>3
  <2>4. CASE i # 1
    <3>1. i - 1 \in 1..Len(s) /\ p[i] = s[i - 1] /\ i - 1 < j - 1
      BY <1>1, <1>2, <2>1, <2>4
    <3>2. QED
      BY <2>1, <3>1 DEF StackShape
  <2>5. QED
    BY <2>3, <2>4
<1>8. QED
  BY <1>2, <1>5, <1>6, <1>7 DEF StackShape

LEMMA Pops ==
  ASSUME NEW s, StackShape(s), s # << >>, NEW p, p = Popped(s)
  PROVE  /\ StackShape(p) /\ Len(p) = Len(s) - 1
         /\ \A i \in 1..Len(p) : p[i].m = s[i + 1].m /\ p[i].at = s[i + 1].at
         /\ \A i \in 2..Len(s) : p[i - 1].m = s[i].m /\ p[i - 1].at = s[i].at
<1> DEFINE r == Tail(s)
<1>1. /\ r \in Seq(Frames) /\ Len(r) = Len(s) - 1 /\ Len(s) \in Nat /\ Len(s) >= 1
      /\ \A i \in 1..Len(r) : r[i] = s[i + 1]
  BY DEF StackShape
<1>2. p = IF r = << >> THEN r ELSE [r EXCEPT ![1].next = @ + 1]
  BY DEF Popped
<1> HIDE DEF r
<1>3. CASE r = << >>
  <2>1. p = << >> /\ Len(p) = 0 /\ Len(s) = 1
    <3>1. Len(<< >>) = 0
      OBVIOUS
    <3>2. p = << >> /\ Len(r) = 0
      BY <1>2, <1>3, <3>1
    <3>3. Len(s) = 1
      BY <1>1, <3>2
    <3>4. QED
      BY <3>1, <3>2, <3>3
  <2>2. StackShape(p)
    BY <2>1 DEF StackShape
  <2>3. QED
    BY <2>1, <2>2
<1>4. CASE r # << >>
  <2>1. Len(r) >= 1 /\ Len(s) >= 2 /\ 2 \in 2..Len(s) /\ r[1] = s[2]
    BY <1>1, <1>4
  <2>2. s[2].at = "inside" /\ s[2].m \in Members /\ s[2].next <= Len(Inner(s[2].m))
    BY <2>1 DEF StackShape
  <2>3. r[1] \in Frames /\ r[1].next + 1 \in 1..3
    <3>1. r[1] \in Frames
      BY <1>1, <2>1
    <3>2. Len(Inner(s[2].m)) <= 2 /\ Len(Inner(s[2].m)) \in Nat
      BY <2>2, InnerFacts
    <3>3. QED
      BY <2>1, <2>2, <3>1, <3>2 DEF Frames
  <2>4. [r[1] EXCEPT !.next = @ + 1] \in Frames
    BY <2>3 DEF Frames
  <2>5. /\ p \in Seq(Frames) /\ Len(p) = Len(r)
        /\ p[1].m = r[1].m /\ p[1].at = r[1].at
        /\ \A i \in 2..Len(r) : p[i] = r[i]
    <3> DEFINE f == [r[1] EXCEPT !.next = @ + 1]
    <3>1. p = [r EXCEPT ![1] = f]
      BY <1>2, <1>4
    <3>2. f \in Frames /\ f.m = r[1].m /\ f.at = r[1].at
      BY <2>3, <2>4 DEF Frames
    <3> HIDE DEF f
    <3>3. /\ p \in Seq(Frames) /\ Len(p) = Len(r) /\ p[1] = f
          /\ \A i \in 2..Len(r) : p[i] = r[i]
      <4>1. r \in Seq(Frames) /\ r # << >> /\ f \in Frames
        BY <1>1, <1>4, <3>2
      <4> HIDE DEF r
      <4>2. QED
        BY <3>1, <4>1, HeadReplaced
    <3>4. QED
      BY <3>2, <3>3
  <2>7. \A i \in 1..Len(p) : p[i].m = s[i + 1].m /\ p[i].at = s[i + 1].at
    <3> SUFFICES ASSUME NEW i \in 1..Len(p)
                 PROVE  p[i].m = s[i + 1].m /\ p[i].at = s[i + 1].at
      OBVIOUS
    <3>1. CASE i = 1
      BY <2>1, <2>5, <3>1
    <3>2. CASE i # 1
      BY <1>1, <2>5, <3>2
    <3>3. QED
      BY <3>1, <3>2
  <2>8. \A i \in 2..Len(s) : p[i - 1].m = s[i].m /\ p[i - 1].at = s[i].at
    <3> SUFFICES ASSUME NEW i \in 2..Len(s)
                 PROVE  p[i - 1].m = s[i].m /\ p[i - 1].at = s[i].at
      OBVIOUS
    <3>1. i - 1 \in 1..Len(p) /\ (i - 1) + 1 = i
      BY <1>1, <2>5
    <3>2. QED
      BY <2>7, <3>1
  <2>9. \A i \in 1..Len(p) : Len(p) - i + Rank(p[i].m) <= 2
    <3> SUFFICES ASSUME NEW i \in 1..Len(p) PROVE Len(p) - i + Rank(p[i].m) <= 2
      OBVIOUS
    <3>1. i + 1 \in 1..Len(s) /\ p[i].m = s[i + 1].m
      BY <1>1, <2>5, <2>7
    <3>2. Len(s) - (i + 1) + Rank(s[i + 1].m) <= 2
      BY <3>1 DEF StackShape
    <3>3. Rank(s[i + 1].m) \in 0..2
      BY DEF Rank
    <3>4. QED
      BY <1>1, <2>5, <3>1, <3>2, <3>3
  <2>10. \A i \in 2..Len(p) : /\ p[i].at = "inside" /\ p[i].m \in Members
                              /\ p[i].next <= Len(Inner(p[i].m))
    <3> SUFFICES ASSUME NEW i \in 2..Len(p)
                 PROVE  /\ p[i].at = "inside" /\ p[i].m \in Members
                        /\ p[i].next <= Len(Inner(p[i].m))
      OBVIOUS
    <3>1. i + 1 \in 2..Len(s) /\ p[i] = s[i + 1]
      BY <1>1, <2>5
    <3>2. QED
      BY <3>1 DEF StackShape
  <2>11. \A i, j \in 1..Len(p) : i < j => Rank(p[i].m) < Rank(p[j].m)
    <3> SUFFICES ASSUME NEW i \in 1..Len(p), NEW j \in 1..Len(p), i < j
                 PROVE  Rank(p[i].m) < Rank(p[j].m)
      OBVIOUS
    <3>1. /\ i + 1 \in 1..Len(s) /\ j + 1 \in 1..Len(s) /\ i + 1 < j + 1
          /\ p[i].m = s[i + 1].m /\ p[j].m = s[j + 1].m
      BY <1>1, <2>5, <2>7
    <3>2. QED
      BY <3>1 DEF StackShape
  <2>12. p # << >> /\ p[1].at # "lock"
    BY <2>1, <2>2, <2>5
  <2>13. QED
    BY <1>1, <2>5, <2>7, <2>8, <2>9, <2>10, <2>11, <2>12 DEF StackShape
<1>5. QED
  BY <1>3, <1>4

-----------------------------------------------------------------------------
(* What a thread has from its stack: the objects whose once flag it has,   *)
(* those for which it holds the mutex, and how often it holds it.          *)
Pasts(s) == IF s # << >> /\ Past(s[1]) THEN Callers(s) \cup {s[1].m} ELSE Callers(s)
Held(s) == IF s # << >> /\ Holds(s[1]) THEN Callers(s) \cup {s[1].m} ELSE Callers(s)
Depth(s) == IF s = << >> THEN 0 ELSE IF Holds(s[1]) THEN Len(s) ELSE Len(s) - 1

LEMMA ShapeFacts ==
  ASSUME NEW s, StackShape(s)
  PROVE  /\ s \in Seq(Frames) /\ Len(s) \in 0..3 /\ Depth(s) \in 0..3
         /\ Callers(s) \subseteq Members
         /\ s = << >> => Callers(s) = {}
         /\ s # << >> => /\ s[1] \in Frames /\ s[1].m \notin Callers(s)
                         /\ \A m \in Callers(s) : Rank(s[1].m) < Rank(m)
         /\ Held(s) # {} => Depth(s) > 0
<1>1. s \in Seq(Frames) /\ Len(s) \in Nat
  BY DEF StackShape
<1>2. \A x : Rank(x) \in 0..2
  BY DEF Rank
<1>3. Len(s) \in 0..3
  <2>1. CASE s = << >>
    BY <2>1
  <2>2. CASE s # << >>
    <3>1. 1 \in 1..Len(s)
      BY <1>1, <2>2
    <3>2. Len(s) - 1 + Rank(s[1].m) <= 2
      BY <3>1 DEF StackShape
    <3>3. Rank(s[1].m) \in 0..2
      BY <1>2
    <3>4. \A n \in Nat, k \in 0..2 : n - 1 + k <= 2 => n \in 0..3
      OBVIOUS
    <3>5. QED
      BY <1>1, <3>2, <3>3, <3>4
  <2>3. QED
    BY <2>1, <2>2
<1>4. s # << >> => Len(s) >= 1 /\ s[1] \in Frames
  BY <1>1
<1>5. s = << >> => Len(s) = 0
  OBVIOUS
<1>6. Callers(s) \subseteq Members
  BY DEF Callers, StackShape
<1>7. s # << >> => \A m \in Callers(s) : Rank(s[1].m) < Rank(m)
  <2> SUFFICES ASSUME s # << >>, NEW i \in 2..Len(s) PROVE Rank(s[1].m) < Rank(s[i].m)
    BY DEF Callers
  <2>1. 1 \in 1..Len(s) /\ i \in 1..Len(s) /\ 1 < i
    BY <1>1, <1>4
  <2>2. QED
    BY <2>1 DEF StackShape
<1>8. s # << >> => s[1].m \notin Callers(s)
  <2> SUFFICES ASSUME s # << >>, s[1].m \in Callers(s) PROVE FALSE
    OBVIOUS
  <2>1. Rank(s[1].m) < Rank(s[1].m)
    BY <1>7
  <2>2. QED
    BY <1>2, <2>1
<1>9. Callers(s) # {} => Len(s) >= 2
  BY <1>3 DEF Callers
<1>10. Depth(s) \in 0..3 /\ (Held(s) # {} => Depth(s) > 0)
  BY <1>3, <1>4, <1>9 DEF Depth, Held
<1>11. s = << >> => Callers(s) = {}
  BY <1>5 DEF Callers
<1>12. QED
  BY <1>1, <1>3, <1>4, <1>6, <1>7, <1>8, <1>10, <1>11

LEMMA PushSets ==
  ASSUME NEW s, StackShape(s), NEW m \in Lazy,
         s # << >> => /\ s[1].at = "inside" /\ s[1].m \in Members
                      /\ s[1].next <= Len(Inner(s[1].m)) /\ m = Inner(s[1].m)[s[1].next],
         NEW p, p = Pushed(s, m)
  PROVE  /\ StackShape(p) /\ p # << >> /\ p[1].m = m /\ p[1].at = "once"
         /\ Pasts(p) = Pasts(s) /\ Held(p) = Held(s) /\ Depth(p) = Depth(s)
<1>1. s \in Seq(Frames) /\ Len(s) \in Nat
  BY DEF StackShape
<1>2. StackShape(p)
  BY PushesShape
<1>3. /\ Len(p) = Len(s) + 1 /\ p # << >> /\ p[1].m = m /\ p[1].at = "once"
      /\ \A i \in 2..Len(p) : p[i] = s[i - 1]
  BY <1>1, Pushes
<1>4. CASE s = << >>
  <2>1. Len(s) = 0 /\ Callers(s) = {} /\ Callers(p) = {}
    BY <1>3, <1>4 DEF Callers
  <2>2. QED
    BY <1>2, <1>3, <1>4, <2>1 DEF Pasts, Held, Depth, Past, Holds
<1>5. CASE s # << >>
  <2>1. Callers(p) = Callers(s) \cup {s[1].m}
    <3>1. \A i \in 2..Len(p) : i = 2 \/ (i - 1 \in 2..Len(s))
      BY <1>1, <1>3
    <3>2. \A i \in 2..Len(s) : i + 1 \in 2..Len(p) /\ p[i + 1] = s[i]
      <4> SUFFICES ASSUME NEW i \in 2..Len(s) PROVE i + 1 \in 2..Len(p) /\ p[i + 1] = s[i]
        OBVIOUS
      <4>1. i + 1 \in 2..Len(p) /\ (i + 1) - 1 = i
        BY <1>1, <1>3
      <4>2. QED
        BY <1>3, <4>1
    <3>3. 2 \in 2..Len(p) /\ p[2] = s[1]
      BY <1>1, <1>3, <1>5
    <3>4. Callers(p) \subseteq Callers(s) \cup {s[1].m}
      <4> SUFFICES ASSUME NEW i \in 2..Len(p)
                   PROVE  p[i].m \in Callers(s) \cup {s[1].m}
        BY DEF Callers
      <4>1. CASE i = 2
        BY <3>3, <4>1
      <4>2. CASE i - 1 \in 2..Len(s)
        BY <1>3, <4>2 DEF Callers
      <4>3. QED
        BY <3>1, <4>1, <4>2
    <3>5. Callers(s) \subseteq Callers(p)
      <4> SUFFICES ASSUME NEW i \in 2..Len(s) PROVE s[i].m \in Callers(p)
        BY DEF Callers
      <4>1. QED
        BY <3>2 DEF Callers
    <3>6. s[1].m \in Callers(p)
      BY <3>3 DEF Callers
    <3>7. QED
      BY <3>4, <3>5, <3>6
  <2>2. QED
    BY <1>1, <1>2, <1>3, <1>5, <2>1 DEF Pasts, Held, Depth, Past, Holds
<1>6. QED
  BY <1>4, <1>5

LEMMA PopSets ==
  ASSUME NEW s, StackShape(s), s # << >>, NEW p, p = Popped(s)
  PROVE  /\ StackShape(p) /\ Pasts(p) = Callers(s) /\ Held(p) = Callers(s)
         /\ Depth(p) = Len(s) - 1
         /\ p # << >> => p[1].at = "inside" /\ p[1].m \in Members
<1>1. /\ StackShape(p) /\ Len(p) = Len(s) - 1
      /\ \A i \in 1..Len(p) : p[i].m = s[i + 1].m /\ p[i].at = s[i + 1].at
      /\ \A i \in 2..Len(s) : p[i - 1].m = s[i].m /\ p[i - 1].at = s[i].at
  BY Pops
<1>2. Len(s) \in Nat /\ Len(s) >= 1 /\ p \in Seq(Frames)
  BY <1>1 DEF StackShape
<1>3. CASE p = << >>
  <2>1. Len(p) = 0 /\ Len(s) = 1
    BY <1>1, <1>2, <1>3
  <2>2. Callers(p) = {} /\ Callers(s) = {}
    BY <2>1 DEF Callers
  <2>3. QED
    BY <1>1, <1>3, <2>1, <2>2 DEF Pasts, Held, Depth
<1>4. CASE p # << >>
  <2>1. Len(p) >= 1 /\ 2 \in 2..Len(s) /\ 1 \in 1..Len(p)
    BY <1>1, <1>2, <1>4
  <2>2. p[1].m = s[2].m /\ p[1].at = s[2].at /\ s[2].at = "inside" /\ s[2].m \in Members
    <3>1. p[1].m = s[1 + 1].m /\ p[1].at = s[1 + 1].at
      BY <1>1, <2>1
    <3>2. s[2].at = "inside" /\ s[2].m \in Members
      BY <2>1 DEF StackShape
    <3>3. QED
      BY <3>1, <3>2
  <2>3. Callers(s) = Callers(p) \cup {p[1].m}
    <3>1. \A i \in 2..Len(p) : i + 1 \in 2..Len(s) /\ p[i].m = s[i + 1].m
      BY <1>1, <1>2
    <3>2. \A i \in 2..Len(s) : i = 2 \/ (i - 1 \in 2..Len(p) /\ p[i - 1].m = s[i].m)
      BY <1>1, <1>2
    <3>3. Callers(p) \subseteq Callers(s)
      BY <3>1 DEF Callers
    <3>4. Callers(s) \subseteq Callers(p) \cup {p[1].m}
      <4> SUFFICES ASSUME NEW i \in 2..Len(s) PROVE s[i].m \in Callers(p) \cup {p[1].m}
        BY DEF Callers
      <4>1. CASE i = 2
        BY <2>2, <4>1
      <4>2. CASE i - 1 \in 2..Len(p) /\ p[i - 1].m = s[i].m
        BY <4>2 DEF Callers
      <4>3. QED
        BY <3>2, <4>1, <4>2
    <3>5. p[1].m \in Callers(s)
      BY <2>1, <2>2 DEF Callers
    <3>6. QED
      BY <3>3, <3>4, <3>5
  <2>4. QED
    BY <1>1, <1>2, <1>4, <2>1, <2>2, <2>3 DEF Pasts, Held, Depth, Past, Holds
<1>5. QED
  BY <1>3, <1>4

-----------------------------------------------------------------------------
(* The inductive invariant. *)

Types ==
  /\ once \in [Lazy -> Threads \cup {NoThread, "set"}]
  /\ info \in [Members -> Members \cup {NoInfo}]
  /\ cache \in [AllKeys -> Members \cup {NoInfo}]
  /\ javaClassCache \subseteq AllClasses
  /\ classRefs \in [AllClasses -> Nat]
  /\ cacheMutex \in Threads \cup {NoThread} /\ depth \in Nat
  /\ stack \in [Threads -> Seq(Frames)]
  /\ booted \in 0..Len(Boot) /\ throws \in 0..MaxThrows

Shapes == \A t \in Threads : StackShape(stack[t])

MutexInv ==
  /\ cacheMutex = NoThread => depth = 0
  /\ \A t \in Threads : /\ cacheMutex = t <=> Depth(stack[t]) > 0
                        /\ cacheMutex = t => depth = Depth(stack[t])

OnceInv == \A m \in Lazy : \A t \in Threads : once[m] = t <=> m \in Pasts(stack[t])

(* What is held is not cached, and whoever is not resolved has nothing. *)
TableInv ==
  /\ \A m \in Members : once[m] = "set" => info[m] # NoInfo /\ info[m] = cache[KeyFor(m)]
  /\ \A m \in Members : once[m] # "set" => info[m] = NoInfo
  /\ \A t \in Threads : \A m \in Held(stack[t]) : cache[KeyFor(m)] = NoInfo

IInv == Types /\ Shapes /\ MutexInv /\ OnceInv /\ TableInv

-----------------------------------------------------------------------------
(* What a step does to the stack of its thread, and what that leaves alone. *)

Others(t) == \A u \in Threads \ {t} : stack'[u] = stack[u]

StackOK == stack \in [Threads -> Seq(Frames)] /\ Shapes

LEMMA StackStep ==
  ASSUME StackOK, NEW t \in Threads, NEW p, StackShape(p), stack' = [stack EXCEPT ![t] = p]
  PROVE  StackOK' /\ Others(t) /\ stack'[t] = p
<1>1. p \in Seq(Frames)
  BY DEF StackShape
<1>2. stack' \in [Threads -> Seq(Frames)] /\ Others(t) /\ stack'[t] = p
  BY <1>1 DEF StackOK, Others
<1>3. \A u \in Threads : StackShape(stack'[u])
  BY <1>2 DEF StackOK, Shapes, Others
<1>4. QED
  BY <1>2, <1>3 DEF StackOK, Shapes

LEMMA Going ==
  ASSUME StackOK, NEW t \in Threads, stack[t] # << >>, NEW a \in Places,
         stack[t][1].m \in ObjectArrays => a # "lock", Goes(t, a)
  PROVE  /\ StackOK' /\ Others(t)
         /\ Callers(stack'[t]) = Callers(stack[t]) /\ stack'[t] # << >>
         /\ Len(stack'[t]) = Len(stack[t])
         /\ stack'[t][1].m = stack[t][1].m /\ stack'[t][1].at = a
<1> DEFINE s == stack[t]
           p == Moved(s, a)
<1>1. stack' = [stack EXCEPT ![t] = p]
  BY DEF Goes, Moved
<1>2. StackShape(s)
  BY DEF StackOK, Shapes
<1>3. /\ StackShape(p) /\ Callers(p) = Callers(s) /\ p # << >> /\ Len(p) = Len(s)
      /\ p[1].m = s[1].m /\ p[1].at = a
  BY <1>2, Moves
<1> HIDE DEF p
<1>4. StackOK' /\ Others(t) /\ stack'[t] = p
  BY <1>1, <1>3, StackStep
<1>5. QED
  BY <1>3, <1>4

LEMMA Returning ==
  ASSUME StackOK, NEW t \in Threads, stack[t] # << >>, Return(t)
  PROVE  /\ StackOK' /\ Others(t)
         /\ Pasts(stack'[t]) = Callers(stack[t]) /\ Held(stack'[t]) = Callers(stack[t])
         /\ Depth(stack'[t]) = Len(stack[t]) - 1
         /\ stack'[t] # << >> => stack'[t][1].at = "inside" /\ stack'[t][1].m \in Members
<1> DEFINE s == stack[t]
           p == Popped(s)
<1>1. stack' = [stack EXCEPT ![t] = p]
  BY DEF Return
<1>2. StackShape(s)
  BY DEF StackOK, Shapes
<1>3. /\ StackShape(p) /\ Pasts(p) = Callers(s) /\ Held(p) = Callers(s)
      /\ Depth(p) = Len(s) - 1
      /\ p # << >> => p[1].at = "inside" /\ p[1].m \in Members
  BY <1>2, PopSets
<1> HIDE DEF p
<1>4. StackOK' /\ Others(t) /\ stack'[t] = p
  BY <1>1, <1>3, StackStep
<1>5. QED
  BY <1>3, <1>4

LEMMA Calling ==
  ASSUME StackOK, NEW t \in Threads, NEW m \in Lazy,
         stack[t] # << >> =>
           /\ stack[t][1].at = "inside" /\ stack[t][1].m \in Members
           /\ stack[t][1].next <= Len(Inner(stack[t][1].m))
           /\ m = Inner(stack[t][1].m)[stack[t][1].next],
         stack' = [stack EXCEPT ![t] = Pushed(stack[t], m)]
  PROVE  /\ StackOK' /\ Others(t) /\ stack'[t] # << >>
         /\ Pasts(stack'[t]) = Pasts(stack[t]) /\ Held(stack'[t]) = Held(stack[t])
         /\ Depth(stack'[t]) = Depth(stack[t])
         /\ stack'[t][1].m = m /\ stack'[t][1].at = "once"
<1> DEFINE s == stack[t]
           p == Pushed(s, m)
<1>1. StackShape(s)
  BY DEF StackOK, Shapes
<1>2. /\ StackShape(p) /\ p # << >> /\ p[1].m = m /\ p[1].at = "once"
      /\ Pasts(p) = Pasts(s) /\ Held(p) = Held(s) /\ Depth(p) = Depth(s)
  BY <1>1, PushSets
<1> HIDE DEF p
<1>3. StackOK' /\ Others(t) /\ stack'[t] = p
  BY <1>2, StackStep DEF p
<1>4. QED
  BY <1>2, <1>3

-----------------------------------------------------------------------------
(* What the three parts of the invariant need of a step. *)

LEMMA Tops ==
  ASSUME NEW s, StackShape(s), s # << >>
  PROVE  /\ s[1] \in Frames /\ s[1].m \in Lazy /\ s[1].at \in Places
         /\ s[1].m \notin Callers(s)
         /\ Past(s[1]) => Pasts(s) = Callers(s) \cup {s[1].m}
         /\ ~Past(s[1]) => Pasts(s) = Callers(s)
         /\ Holds(s[1]) => Held(s) = Callers(s) \cup {s[1].m} /\ Depth(s) = Len(s)
         /\ ~Holds(s[1]) => Held(s) = Callers(s) /\ Depth(s) = Len(s) - 1
<1>1. s[1] \in Frames /\ s[1].m \notin Callers(s)
  BY ShapeFacts
<1>2. QED
  BY <1>1 DEF Frames, Places, Pasts, Held, Depth

LEMMA InFacts ==
  ASSUME StackOK, NEW t \in Threads, NEW at, In(t, at)
  PROVE  /\ stack[t] # << >> /\ stack[t][1].at = at /\ Top(t) = stack[t][1]
         /\ StackShape(stack[t])
BY DEF In, Top, StackOK, Shapes

LEMMA MutexKept ==
  ASSUME IInv, NEW t \in Threads, Others(t), Depth(stack'[t]) = Depth(stack[t]),
         UNCHANGED mutex
  PROVE  MutexInv'
<1>1. \A u \in Threads : Depth(stack'[u]) = Depth(stack[u])
  BY DEF Others
<1>2. QED
  BY <1>1 DEF IInv, MutexInv, mutex

LEMMA MutexTaken ==
  ASSUME IInv, NEW t \in Threads, Others(t), Depth(stack'[t]) = Depth(stack[t]) + 1,
         MutexFree(t), cacheMutex' = t, depth' = depth + 1
  PROVE  MutexInv'
<1>1. Depth(stack[t]) \in Nat
  BY ShapeFacts DEF IInv, Shapes
<1>2. depth' = Depth(stack'[t]) /\ Depth(stack'[t]) > 0
  BY <1>1 DEF IInv, MutexInv, MutexFree
<1>3. \A u \in Threads \ {t} : ~(Depth(stack'[u]) > 0)
  BY DEF IInv, MutexInv, MutexFree, Others
<1>4. QED
  BY <1>2, <1>3, CacheAssumption DEF MutexInv

LEMMA MutexReturned ==
  ASSUME IInv, NEW t \in Threads, Others(t), Depth(stack[t]) > 0,
         Depth(stack'[t]) = Depth(stack[t]) - 1, Unlock
  PROVE  MutexInv'
<1>1. Depth(stack[t]) \in Nat /\ cacheMutex = t /\ depth = Depth(stack[t])
  BY ShapeFacts DEF IInv, Shapes, MutexInv
<1>2. depth' = Depth(stack'[t]) /\ depth' \in Nat
  BY <1>1 DEF Unlock
<1>3. \A u \in Threads \ {t} : ~(Depth(stack'[u]) > 0)
  BY <1>1 DEF IInv, MutexInv, Others
<1>4. CASE depth = 1
  BY <1>1, <1>2, <1>3, <1>4, CacheAssumption DEF MutexInv, Unlock
<1>5. CASE depth # 1
  <2>1. cacheMutex' = t /\ depth' > 0
    BY <1>1, <1>2, <1>5 DEF Unlock
  <2>2. QED
    BY <1>2, <1>3, <2>1, CacheAssumption DEF MutexInv
<1>6. QED
  BY <1>4, <1>5

LEMMA OnceKept ==
  ASSUME IInv, NEW t \in Threads, Others(t), Pasts(stack'[t]) = Pasts(stack[t]),
         UNCHANGED once
  PROVE  OnceInv'
<1>1. \A u \in Threads : Pasts(stack'[u]) = Pasts(stack[u])
  BY DEF Others
<1>2. QED
  BY <1>1 DEF IInv, OnceInv

LEMMA OnceTaken ==
  ASSUME IInv, NEW t \in Threads, Others(t), NEW m \in Lazy, once[m] = NoThread,
         Pasts(stack'[t]) = Pasts(stack[t]) \cup {m}, once' = [once EXCEPT ![m] = t]
  PROVE  OnceInv'
<1>1. \A u \in Threads \ {t} : Pasts(stack'[u]) = Pasts(stack[u])
  BY DEF Others
<1>2. \A u \in Threads : m \notin Pasts(stack[u])
  BY CacheAssumption DEF IInv, OnceInv
<1>3. \A n \in Lazy : once'[n] = IF n = m THEN t ELSE once[n]
  BY DEF IInv, Types
<1>4. QED
  BY <1>1, <1>2, <1>3 DEF IInv, OnceInv

LEMMA OnceLeft ==
  ASSUME IInv, NEW t \in Threads, Others(t), NEW m \in Lazy, NEW v \in {"set", NoThread},
         m \notin Pasts(stack'[t]), Pasts(stack[t]) = Pasts(stack'[t]) \cup {m},
         once' = [once EXCEPT ![m] = v]
  PROVE  OnceInv'
<1>1. \A u \in Threads \ {t} : Pasts(stack'[u]) = Pasts(stack[u])
  BY DEF Others
<1>2. once[m] = t
  BY DEF IInv, OnceInv
<1>3. \A u \in Threads : m \notin Pasts(stack'[u])
  BY <1>1, <1>2 DEF IInv, OnceInv
<1>4. v \notin Threads
  BY CacheAssumption
<1>5. \A n \in Lazy : once'[n] = IF n = m THEN v ELSE once[n]
  BY DEF IInv, Types
<1>6. QED
  BY <1>1, <1>3, <1>4, <1>5 DEF IInv, OnceInv

LEMMA TableKept ==
  ASSUME IInv, NEW t \in Threads, Others(t), UNCHANGED <<info, cache>>,
         \A m \in Members : once'[m] = "set" <=> once[m] = "set",
         \A m \in Held(stack'[t]) : m \in Held(stack[t]) \/ cache[KeyFor(m)] = NoInfo
  PROVE  TableInv'
<1>1. \A u \in Threads \ {t} : Held(stack'[u]) = Held(stack[u])
  BY DEF Others
<1>2. \A u \in Threads : \A m \in Held(stack'[u]) : cache'[KeyFor(m)] = NoInfo
  BY <1>1 DEF IInv, TableInv
<1>3. QED
  BY <1>2 DEF IInv, TableInv

(* A step that is none of the lookup's own: only the stack changes. *)
LEMMA StackOnly ==
  ASSUME IInv, NEW t \in Threads, StackOK', Others(t),
         Pasts(stack'[t]) = Pasts(stack[t]), Held(stack'[t]) = Held(stack[t]),
         Depth(stack'[t]) = Depth(stack[t]),
         UNCHANGED <<once, info, cache, mutex>>,
         javaClassCache' \subseteq AllClasses, classRefs' \in [AllClasses -> Nat],
         booted' \in 0..Len(Boot), throws' \in 0..MaxThrows
  PROVE  IInv'
<1>1. MutexInv'
  BY MutexKept
<1>2. OnceInv'
  BY OnceKept
<1>3. TableInv'
  BY TableKept
<1>4. Types' /\ Shapes'
  BY DEF IInv, Types, StackOK, mutex
<1>5. QED
  BY <1>1, <1>2, <1>3, <1>4 DEF IInv

-----------------------------------------------------------------------------
(* One lemma per action. *)

LEMMA Start ==
  ASSUME IInv, NEW t \in Threads, NEW m \in Lazy, stack[t] = << >>,
         stack' = [stack EXCEPT ![t] = <<Frame(m)>>],
         UNCHANGED <<once, info, cache, classes, mutex, throws>>,
         booted' \in 0..Len(Boot)
  PROVE  IInv'
<1>1. StackOK
  BY DEF IInv, Types, StackOK
<1>2. <<Frame(m)>> = Pushed(stack[t], m)
  <2>1. <<Frame(m)>> \o << >> = <<Frame(m)>>
    OBVIOUS
  <2>2. QED
    BY <2>1 DEF Pushed
<1>3. /\ StackOK' /\ Others(t)
      /\ Pasts(stack'[t]) = Pasts(stack[t]) /\ Held(stack'[t]) = Held(stack[t])
      /\ Depth(stack'[t]) = Depth(stack[t])
  BY <1>1, <1>2, Calling
<1>4. QED
  BY <1>3, StackOnly DEF IInv, Types, classes

LEMMA InitializeKeeps == IInv /\ Initialize => IInv'
<1> SUFFICES ASSUME IInv, Initialize PROVE IInv'
  OBVIOUS
<1>1. Len(Boot) = 5 /\ booted \in 0..5 /\ booted < 5
  BY DEF Initialize, Boot, IInv, Types
<1>2. booted + 1 \in DOMAIN Boot
  BY <1>1 DEF Boot
<1>3. Boot[booted + 1] \in Lazy /\ booted + 1 \in 0..Len(Boot)
  BY <1>1, <1>2 DEF Lazy, Members, BootMembers
<1>4. QED
  BY <1>3, Start, CacheAssumption DEF Initialize

LEMMA UseKeeps ==
  ASSUME IInv, NEW t \in Threads, NEW m \in UserMembers, Use(t, m)
  PROVE  IInv'
BY Start DEF Use, bounds, IInv, Types, Lazy, Members

LEMMA UseArrayKeeps ==
  ASSUME IInv, NEW t \in Threads, NEW a \in ObjectArrays, UseArray(t, a)
  PROVE  IInv'
BY Start DEF UseArray, bounds, IInv, Types, Lazy

(* The lookup goes on where its flag and its lock do not change. *)
LEMMA GoesOn ==
  ASSUME IInv, NEW t \in Threads, stack[t] # << >>, NEW a \in Places,
         stack[t][1].at \in {"class", "find"}, a \in {"find", "inside"}, Goes(t, a),
         UNCHANGED <<once, info, cache, mutex, bounds>>,
         javaClassCache' \subseteq AllClasses, classRefs' \in [AllClasses -> Nat]
  PROVE  IInv'
<1>1. StackOK /\ StackShape(stack[t])
  BY DEF IInv, Types, StackOK, Shapes
<1>2. /\ StackOK' /\ Others(t) /\ StackShape(stack'[t])
      /\ Callers(stack'[t]) = Callers(stack[t]) /\ stack'[t] # << >>
      /\ Len(stack'[t]) = Len(stack[t])
      /\ stack'[t][1].m = stack[t][1].m /\ stack'[t][1].at = a
  BY <1>1, Going DEF StackOK, Shapes
<1>3. /\ Past(stack[t][1]) /\ Past(stack'[t][1])
      /\ Holds(stack[t][1]) <=> Holds(stack'[t][1])
  BY <1>2 DEF Past, Holds
<1>4. /\ Pasts(stack'[t]) = Pasts(stack[t]) /\ Held(stack'[t]) = Held(stack[t])
      /\ Depth(stack'[t]) = Depth(stack[t])
  BY <1>1, <1>2, <1>3, Tops
<1>5. QED
  BY <1>2, <1>4, StackOnly DEF bounds, IInv, Types

LEMMA ClassCachedKeeps ==
  ASSUME IInv, NEW t \in Threads, ClassCached(t)
  PROVE  IInv'
<1>1. StackOK
  BY DEF IInv, Types, StackOK
<1>2. stack[t] # << >> /\ stack[t][1].at = "class"
  BY <1>1, InFacts DEF ClassCached
<1>3. QED
  BY <1>2, GoesOn DEF ClassCached, Places, classes, IInv, Types

LEMMA ClassMissingKeeps ==
  ASSUME IInv, NEW t \in Threads, ClassMissing(t)
  PROVE  IInv'
<1>1. StackOK
  BY DEF IInv, Types, StackOK
<1>2. stack[t] # << >> /\ stack[t][1].at = "class"
  BY <1>1, InFacts DEF ClassMissing
<1>3. QED
  BY <1>2, GoesOn DEF ClassMissing, Places, classes, IInv, Types

LEMMA ClassForType == \A m \in Lazy : ClassFor(m) \in AllClasses
BY CacheAssumption DEF ClassFor, Lazy, Members, AllClasses, BootClasses

LEMMA ClassFoundKeeps ==
  ASSUME IInv, NEW t \in Threads, ClassFound(t)
  PROVE  IInv'
<1>1. StackOK
  BY DEF IInv, Types, StackOK
<1>2. /\ stack[t] # << >> /\ stack[t][1].at = "find" /\ Top(t) = stack[t][1]
      /\ StackShape(stack[t])
  BY <1>1, InFacts DEF ClassFound
<1>3. ClassFor(Top(t).m) \in AllClasses
  BY <1>2, Tops, ClassForType
<1>4. javaClassCache' \subseteq AllClasses /\ classRefs' \in [AllClasses -> Nat]
  BY <1>3 DEF ClassFound, IInv, Types
<1>5. QED
  BY <1>2, <1>4, GoesOn DEF ClassFound, Places

LEMMA OnceSetKeeps ==
  ASSUME IInv, NEW t \in Threads, OnceSet(t)
  PROVE  IInv'
<1>1. StackOK
  BY DEF IInv, Types, StackOK
<1>2. stack[t] # << >> /\ stack[t][1].at = "once" /\ StackShape(stack[t])
  BY <1>1, InFacts DEF OnceSet
<1>3. /\ StackOK' /\ Others(t)
      /\ Pasts(stack'[t]) = Callers(stack[t]) /\ Held(stack'[t]) = Callers(stack[t])
      /\ Depth(stack'[t]) = Len(stack[t]) - 1
  BY <1>1, <1>2, Returning DEF OnceSet
<1>4. ~Past(stack[t][1]) /\ ~Holds(stack[t][1])
  BY <1>2 DEF Past, Holds
<1>5. /\ Pasts(stack[t]) = Callers(stack[t]) /\ Held(stack[t]) = Callers(stack[t])
      /\ Depth(stack[t]) = Len(stack[t]) - 1
  BY <1>2, <1>4, Tops
<1>6. QED
  BY <1>3, <1>5, StackOnly DEF OnceSet, classes, bounds, IInv, Types

LEMMA CallInnerKeeps ==
  ASSUME IInv, NEW t \in Threads, CallInner(t)
  PROVE  IInv'
<1>1. StackOK
  BY DEF IInv, Types, StackOK
<1>2. /\ stack[t] # << >> /\ stack[t][1].at = "inside" /\ Top(t) = stack[t][1]
      /\ StackShape(stack[t]) /\ Top(t).m \in Members
      /\ Top(t).next <= Len(Inner(Top(t).m))
  BY <1>1, InFacts DEF CallInner
<1> DEFINE m == Inner(Top(t).m)[Top(t).next]
<1>3. m \in Lazy
  <2>1. Top(t).next \in 1..3
    BY <1>2, Tops DEF Frames
  <2>2. Len(Inner(Top(t).m)) \in Nat
    BY <1>2, InnerFacts
  <2>3. Top(t).next \in 1..Len(Inner(Top(t).m))
    BY <1>2, <2>1, <2>2
  <2>4. m \in BootMembers
    BY <1>2, <2>3, InnerFacts
  <2>5. QED
    BY <2>4 DEF Lazy, Members
<1>4. stack' = [stack EXCEPT ![t] = Pushed(stack[t], m)]
  BY DEF CallInner, Pushed
<1>5. m = Inner(stack[t][1].m)[stack[t][1].next]
  BY <1>2
<1> HIDE DEF m
<1>6. /\ StackOK' /\ Others(t)
      /\ Pasts(stack'[t]) = Pasts(stack[t]) /\ Held(stack'[t]) = Held(stack[t])
      /\ Depth(stack'[t]) = Depth(stack[t])
  BY <1>1, <1>2, <1>3, <1>4, <1>5, Calling
<1>7. QED
  BY <1>6, StackOnly DEF CallInner, classes, bounds, IInv, Types


LEMMA OnceEnterKeeps ==
  ASSUME IInv, NEW t \in Threads, OnceEnter(t)
  PROVE  IInv'
<1> DEFINE a == IF Top(t).m \in ObjectArrays THEN "class" ELSE "lock"
<1>1. StackOK
  BY DEF IInv, Types, StackOK
<1>2. /\ stack[t] # << >> /\ stack[t][1].at = "once" /\ Top(t) = stack[t][1]
      /\ StackShape(stack[t]) /\ Top(t).m \in Lazy
  BY <1>1, InFacts, Tops DEF OnceEnter
<1>3. a \in Places /\ (stack[t][1].m \in ObjectArrays => a # "lock") /\ a \in {"class", "lock"}
      /\ Goes(t, a)
  BY <1>2, CacheAssumption DEF Places, OnceEnter, EnterGetClass, Lazy
<1> HIDE DEF a
<1>4. /\ StackOK' /\ Others(t)
      /\ Callers(stack'[t]) = Callers(stack[t]) /\ stack'[t] # << >>
      /\ Len(stack'[t]) = Len(stack[t])
      /\ stack'[t][1].m = stack[t][1].m /\ stack'[t][1].at = a
  BY <1>1, <1>2, <1>3, Going
<1>5. StackShape(stack'[t])
  BY <1>4 DEF StackOK, Shapes
<1>6. a = "class" => Top(t).m \notin Members
  BY <1>2, CacheAssumption DEF a
<1>7. ~Past(stack[t][1]) /\ ~Holds(stack[t][1]) /\ Past(stack'[t][1]) /\ ~Holds(stack'[t][1])
  BY <1>2, <1>3, <1>4, <1>6 DEF Past, Holds
<1>8. /\ Pasts(stack[t]) = Callers(stack[t])
      /\ Held(stack[t]) = Callers(stack[t]) /\ Depth(stack[t]) = Len(stack[t]) - 1
  BY <1>2, <1>7, Tops
<1>9. /\ Pasts(stack'[t]) = Callers(stack[t]) \cup {Top(t).m}
      /\ Held(stack'[t]) = Callers(stack[t]) /\ Depth(stack'[t]) = Len(stack[t]) - 1
  BY <1>2, <1>4, <1>5, <1>7, Tops
<1>10. MutexInv'
  BY <1>4, <1>8, <1>9, MutexKept DEF OnceEnter
<1>11. OnceInv'
  BY <1>2, <1>4, <1>8, <1>9, OnceTaken DEF OnceEnter
<1>12. \A m \in Members : once'[m] = "set" <=> once[m] = "set"
  BY <1>2, CacheAssumption DEF OnceEnter, IInv, Types
<1>13. TableInv'
  BY <1>4, <1>8, <1>9, <1>12, TableKept DEF OnceEnter
<1>14. Types' /\ Shapes'
  BY <1>2, <1>4 DEF IInv, Types, StackOK, OnceEnter, EnterGetClass, classes, mutex, bounds
<1>15. QED
  BY <1>10, <1>11, <1>13, <1>14 DEF IInv

LEMMA KeyForType == \A m \in Members : KeyFor(m) \in AllKeys
BY CacheAssumption DEF KeyFor, Members, AllKeys

LEMMA CacheHitKeeps ==
  ASSUME IInv, NEW t \in Threads, CacheHit(t)
  PROVE  IInv'
<1> DEFINE m == Top(t).m
<1>1. StackOK
  BY DEF IInv, Types, StackOK
<1>2. /\ stack[t] # << >> /\ stack[t][1].at = "lock" /\ Top(t) = stack[t][1]
      /\ StackShape(stack[t]) /\ m \in Lazy /\ m \notin Callers(stack[t])
  BY <1>1, InFacts, Tops DEF CacheHit
<1>3. m \in Members
  BY <1>2 DEF StackShape, Lazy
<1>4. /\ StackOK' /\ Others(t)
      /\ Pasts(stack'[t]) = Callers(stack[t]) /\ Held(stack'[t]) = Callers(stack[t])
      /\ Depth(stack'[t]) = Len(stack[t]) - 1
  BY <1>1, <1>2, Returning DEF CacheHit
<1>5. Past(stack[t][1]) /\ ~Holds(stack[t][1])
  BY <1>2 DEF Past, Holds
<1>6. /\ Pasts(stack[t]) = Callers(stack[t]) \cup {m}
      /\ Held(stack[t]) = Callers(stack[t]) /\ Depth(stack[t]) = Len(stack[t]) - 1
  BY <1>2, <1>5, Tops
<1>7. MutexInv'
  BY <1>4, <1>6, MutexKept DEF CacheHit
<1>8. /\ once' = [once EXCEPT ![m] = "set"] /\ info' = [info EXCEPT ![m] = cache[KeyFor(m)]]
      /\ cache' = cache /\ cache[KeyFor(m)] # NoInfo
  BY DEF CacheHit
<1> HIDE DEF m
<1>9. OnceInv'
  BY <1>2, <1>4, <1>6, <1>8, OnceLeft
<1>10. /\ \A n \in Members : once'[n] = IF n = m THEN "set" ELSE once[n]
       /\ \A n \in Members : info'[n] = IF n = m THEN cache[KeyFor(m)] ELSE info[n]
  BY <1>3, <1>8 DEF IInv, Types, Lazy
<1>11. \A u \in Threads : Held(stack'[u]) = Held(stack[u])
  BY <1>4, <1>6 DEF Others
<1>12. TableInv'
  BY <1>3, <1>8, <1>10, <1>11 DEF IInv, TableInv
<1>13. Types' /\ Shapes'
  <2>1. cache[KeyFor(m)] \in Members \cup {NoInfo}
    BY <1>3, KeyForType DEF IInv, Types
  <2>2. QED
    BY <1>2, <1>3, <1>4, <1>8, <2>1 DEF IInv, Types, StackOK, CacheHit, classes, mutex, bounds
<1>14. QED
  BY <1>7, <1>9, <1>12, <1>13 DEF IInv

LEMMA CacheMissKeeps ==
  ASSUME IInv, NEW t \in Threads, CacheMiss(t)
  PROVE  IInv'
<1>1. StackOK
  BY DEF IInv, Types, StackOK
<1>2. /\ stack[t] # << >> /\ stack[t][1].at = "lock" /\ Top(t) = stack[t][1]
      /\ StackShape(stack[t]) /\ Top(t).m \in Lazy
  BY <1>1, InFacts, Tops DEF CacheMiss
<1>3. Top(t).m \in Members
  BY <1>2 DEF StackShape, Lazy
<1>4. "class" \in Places /\ Goes(t, "class")
  BY DEF Places, CacheMiss, EnterGetClass
<1>5. /\ StackOK' /\ Others(t)
      /\ Callers(stack'[t]) = Callers(stack[t]) /\ stack'[t] # << >>
      /\ Len(stack'[t]) = Len(stack[t])
      /\ stack'[t][1].m = stack[t][1].m /\ stack'[t][1].at = "class"
  BY <1>1, <1>2, <1>4, Going
<1>6. StackShape(stack'[t])
  BY <1>5 DEF StackOK, Shapes
<1>7. Past(stack[t][1]) /\ ~Holds(stack[t][1]) /\ Past(stack'[t][1]) /\ Holds(stack'[t][1])
  BY <1>2, <1>3, <1>5 DEF Past, Holds
<1>8. /\ Pasts(stack[t]) = Callers(stack[t]) \cup {Top(t).m}
      /\ Held(stack[t]) = Callers(stack[t]) /\ Depth(stack[t]) = Len(stack[t]) - 1
  BY <1>2, <1>7, Tops
<1>9. /\ Pasts(stack'[t]) = Callers(stack[t]) \cup {Top(t).m}
      /\ Held(stack'[t]) = Callers(stack[t]) \cup {Top(t).m}
      /\ Depth(stack'[t]) = Len(stack[t])
  BY <1>2, <1>5, <1>6, <1>7, Tops
<1>10. Depth(stack'[t]) = Depth(stack[t]) + 1
  BY <1>2, <1>8, <1>9 DEF StackShape
<1>11. MutexInv'
  BY <1>5, <1>10, MutexTaken DEF CacheMiss
<1>12. OnceInv'
  BY <1>5, <1>8, <1>9, OnceKept DEF CacheMiss
<1>13. TableInv'
  BY <1>5, <1>8, <1>9, TableKept DEF CacheMiss
<1>14. Types' /\ Shapes'
  BY <1>5 DEF IInv, Types, StackOK, CacheMiss, EnterGetClass, bounds
<1>15. QED
  BY <1>11, <1>12, <1>13, <1>14 DEF IInv

LEMMA ArrayResolvedKeeps ==
  ASSUME IInv, NEW t \in Threads, ArrayResolved(t)
  PROVE  IInv'
<1> DEFINE a == Top(t).m
<1>1. StackOK
  BY DEF IInv, Types, StackOK
<1>2. /\ stack[t] # << >> /\ stack[t][1].at = "inside" /\ Top(t) = stack[t][1]
      /\ StackShape(stack[t]) /\ a \in Lazy /\ a \notin Callers(stack[t])
  BY <1>1, InFacts, Tops DEF ArrayResolved
<1>3. a \notin Members
  BY CacheAssumption DEF ArrayResolved
<1>4. /\ StackOK' /\ Others(t)
      /\ Pasts(stack'[t]) = Callers(stack[t]) /\ Held(stack'[t]) = Callers(stack[t])
      /\ Depth(stack'[t]) = Len(stack[t]) - 1
  BY <1>1, <1>2, Returning DEF ArrayResolved
<1>5. Past(stack[t][1]) /\ ~Holds(stack[t][1])
  BY <1>2, <1>3 DEF Past, Holds
<1>6. /\ Pasts(stack[t]) = Callers(stack[t]) \cup {a}
      /\ Held(stack[t]) = Callers(stack[t]) /\ Depth(stack[t]) = Len(stack[t]) - 1
  BY <1>2, <1>5, Tops
<1>7. MutexInv'
  BY <1>4, <1>6, MutexKept DEF ArrayResolved
<1>8. once' = [once EXCEPT ![a] = "set"]
  BY DEF ArrayResolved
<1> HIDE DEF a
<1>9. OnceInv'
  BY <1>2, <1>4, <1>6, <1>8, OnceLeft
<1>10. \A n \in Members : once'[n] = once[n]
  BY <1>3, <1>8 DEF IInv, Types, Lazy
<1>11. TableInv'
  BY <1>4, <1>6, <1>10, TableKept DEF ArrayResolved
<1>12. Types' /\ Shapes'
  BY <1>2, <1>4, <1>8 DEF IInv, Types, StackOK, ArrayResolved, classes, mutex, bounds
<1>13. QED
  BY <1>7, <1>9, <1>11, <1>12 DEF IInv

(* The key of a lookup is not the key of a lookup that waits for it. *)
LEMMA OtherKeys ==
  ASSUME NEW s, StackShape(s), s # << >>, s[1].m \in Members, NEW n \in Callers(s)
  PROVE  KeyFor(n) # KeyFor(s[1].m)
<1> DEFINE m == s[1].m
<1>1. n \in Members /\ n # m /\ Rank(m) < Rank(n)
  BY ShapeFacts
<1> HIDE DEF m
<1>2. m \in BootMembers
  BY <1>1 DEF Rank
<1>3. CASE n \in BootMembers
  BY <1>1, <1>2, <1>3 DEF KeyFor, m
<1>4. CASE n \notin BootMembers
  <2>1. KeyFor(n) \in Keys
    BY <1>1, <1>4, CacheAssumption DEF KeyFor, Members
  <2>2. KeyFor(m) = m
    BY <1>2 DEF KeyFor
  <2>3. QED
    BY <1>2, <2>1, <2>2, CacheAssumption DEF m
<1>5. QED
  BY <1>3, <1>4

(* Only the owner of the mutex is at work for a key that is not cached. *)
LEMMA OneHolder ==
  ASSUME IInv, NEW t \in Threads, NEW u \in Threads,
         Held(stack[t]) # {}, Held(stack[u]) # {}
  PROVE  t = u
<1>1. StackShape(stack[t]) /\ StackShape(stack[u])
  BY DEF IInv, Shapes
<1>2. Depth(stack[t]) > 0 /\ Depth(stack[u]) > 0
  BY <1>1, ShapeFacts
<1>3. QED
  BY <1>2 DEF IInv, MutexInv

LEMMA ResolvedKeeps ==
  ASSUME IInv, NEW t \in Threads, Resolved(t)
  PROVE  IInv' /\ cache[KeyFor(Top(t).m)] = NoInfo /\ info[Top(t).m] = NoInfo
<1> DEFINE m == Top(t).m
<1>1. StackOK
  BY DEF IInv, Types, StackOK
<1>2. /\ stack[t] # << >> /\ stack[t][1].at = "inside" /\ Top(t) = stack[t][1]
      /\ StackShape(stack[t]) /\ m \in Lazy /\ m \notin Callers(stack[t])
  BY <1>1, InFacts, Tops DEF Resolved
<1>3. m \in Members
  BY DEF Resolved
<1>4. /\ StackOK' /\ Others(t)
      /\ Pasts(stack'[t]) = Callers(stack[t]) /\ Held(stack'[t]) = Callers(stack[t])
      /\ Depth(stack'[t]) = Len(stack[t]) - 1
  BY <1>1, <1>2, Returning DEF Resolved
<1>5. Past(stack[t][1]) /\ Holds(stack[t][1])
  BY <1>2, <1>3 DEF Past, Holds
<1>6. /\ Pasts(stack[t]) = Callers(stack[t]) \cup {m}
      /\ Held(stack[t]) = Callers(stack[t]) \cup {m} /\ Depth(stack[t]) = Len(stack[t])
  BY <1>2, <1>5, Tops
<1>7. MutexInv'
  <2>1. Depth(stack[t]) > 0
    BY <1>2, <1>6, ShapeFacts
  <2>2. QED
    BY <1>4, <1>6, <2>1, MutexReturned DEF Resolved
<1>8. /\ once' = [once EXCEPT ![m] = "set"] /\ info' = [info EXCEPT ![m] = m]
      /\ cache' = [cache EXCEPT ![KeyFor(m)] = m]
  BY DEF Resolved
<1>9. \A n \in Callers(stack[t]) : KeyFor(n) # KeyFor(m)
  BY <1>2, <1>3, OtherKeys
<1> HIDE DEF m
<1>10. OnceInv'
  BY <1>2, <1>4, <1>6, <1>8, OnceLeft
<1>11. m # NoInfo /\ KeyFor(m) \in AllKeys
  BY <1>3, KeyForType, CacheAssumption
<1>12. cache[KeyFor(m)] = NoInfo
  BY <1>6 DEF IInv, TableInv
<1>13. /\ \A n \in Members : once'[n] = IF n = m THEN "set" ELSE once[n]
       /\ \A n \in Members : info'[n] = IF n = m THEN m ELSE info[n]
       /\ \A k \in AllKeys : cache'[k] = IF k = KeyFor(m) THEN m ELSE cache[k]
  BY <1>3, <1>8 DEF IInv, Types, Lazy
<1>14. \A u \in Threads : \A n \in Held(stack'[u]) : cache'[KeyFor(n)] = NoInfo
  <2> SUFFICES ASSUME NEW u \in Threads, NEW n \in Held(stack'[u])
               PROVE  cache'[KeyFor(n)] = NoInfo
    OBVIOUS
  <2>1. u = t
    <3> SUFFICES ASSUME u # t PROVE FALSE
      OBVIOUS
    <3>1. Held(stack[u]) # {} /\ Held(stack[t]) # {}
      BY <1>4, <1>6 DEF Others
    <3>2. QED
      BY <3>1, OneHolder
  <2>2. n \in Callers(stack[t]) /\ n \in Held(stack[t]) /\ n \in Members
    BY <1>2, <1>4, <1>6, <2>1, ShapeFacts
  <2>3. KeyFor(n) \in AllKeys /\ cache[KeyFor(n)] = NoInfo
    BY <2>2, KeyForType DEF IInv, TableInv
  <2>4. QED
    BY <1>9, <1>13, <2>2, <2>3
<1>15. \A n \in Members : once'[n] = "set" => info'[n] # NoInfo /\ info'[n] = cache'[KeyFor(n)]
  <2> SUFFICES ASSUME NEW n \in Members, once'[n] = "set"
               PROVE  info'[n] # NoInfo /\ info'[n] = cache'[KeyFor(n)]
    OBVIOUS
  <2>1. KeyFor(n) \in AllKeys
    BY KeyForType
  <2>2. CASE n = m
    BY <1>11, <1>13, <2>1, <2>2
  <2>3. CASE n # m
    <3>1. once[n] = "set" /\ info'[n] = info[n]
      BY <1>13, <2>3
    <3>2. info[n] # NoInfo /\ info[n] = cache[KeyFor(n)]
      BY <3>1 DEF IInv, TableInv
    <3>3. KeyFor(n) # KeyFor(m)
      BY <1>12, <3>2
    <3>4. QED
      BY <1>13, <2>1, <3>1, <3>2, <3>3
  <2>4. QED
    BY <2>2, <2>3
<1>16. TableInv'
  <2>1. \A n \in Members : once'[n] # "set" => info'[n] = NoInfo
    BY <1>13 DEF IInv, TableInv
  <2>2. QED
    BY <1>14, <1>15, <2>1 DEF TableInv
<1>17. info[m] = NoInfo
  <2>1. once[m] = t
    BY <1>2, <1>6 DEF IInv, OnceInv
  <2>2. QED
    BY <1>3, <2>1, CacheAssumption DEF IInv, TableInv
<1>18. Types' /\ Shapes'
  <2>1. cacheMutex' \in Threads \cup {NoThread} /\ depth' \in Nat
    <3>1. Depth(stack[t]) \in Nat /\ Depth(stack[t]) > 0
      BY <1>2, <1>6, ShapeFacts
    <3>2. depth = Depth(stack[t])
      BY <3>1 DEF IInv, MutexInv
    <3>3. QED
      BY <3>1, <3>2 DEF Resolved, Unlock, IInv, Types
  <2>2. QED
    BY <1>2, <1>3, <1>4, <1>8, <2>1 DEF IInv, Types, StackOK, Resolved, classes, bounds
<1>19. QED
  BY <1>7, <1>10, <1>12, <1>16, <1>17, <1>18 DEF IInv, m

LEMMA ThrowsKeeps ==
  ASSUME IInv, NEW t \in Threads, Throws(t)
  PROVE  IInv'
<1> DEFINE m == Top(t).m
<1>1. StackOK
  BY DEF IInv, Types, StackOK
<1>2. /\ stack[t] # << >> /\ stack[t][1].at = "inside" /\ Top(t) = stack[t][1]
      /\ StackShape(stack[t]) /\ m \in Lazy /\ m \notin Callers(stack[t])
  BY <1>1, InFacts, Tops DEF Throws
<1>3. m \in Members
  BY DEF Throws, Members
<1>4. /\ StackOK' /\ Others(t)
      /\ Pasts(stack'[t]) = Callers(stack[t]) /\ Held(stack'[t]) = Callers(stack[t])
      /\ Depth(stack'[t]) = Len(stack[t]) - 1
  BY <1>1, <1>2, Returning DEF Throws
<1>5. Past(stack[t][1]) /\ Holds(stack[t][1])
  BY <1>2, <1>3 DEF Past, Holds
<1>6. /\ Pasts(stack[t]) = Callers(stack[t]) \cup {m}
      /\ Held(stack[t]) = Callers(stack[t]) \cup {m} /\ Depth(stack[t]) = Len(stack[t])
  BY <1>2, <1>5, Tops
<1>7. Depth(stack[t]) \in Nat /\ Depth(stack[t]) > 0
  BY <1>2, <1>6, ShapeFacts
<1>8. MutexInv'
  BY <1>4, <1>6, <1>7, MutexReturned DEF Throws
<1>9. once' = [once EXCEPT ![m] = NoThread]
  BY DEF Throws
<1> HIDE DEF m
<1>10. once[m] = t
  BY <1>2, <1>6 DEF IInv, OnceInv
<1>11. OnceInv'
  BY <1>2, <1>4, <1>6, <1>9, OnceLeft
<1>12. \A n \in Members : once'[n] = "set" <=> once[n] = "set"
  BY <1>3, <1>9, <1>10, CacheAssumption DEF IInv, Types, Lazy
<1>13. TableInv'
  BY <1>4, <1>6, <1>12, TableKept DEF Throws
<1>14. Types' /\ Shapes'
  <2>1. cacheMutex' \in Threads \cup {NoThread} /\ depth' \in Nat
    <3>1. depth = Depth(stack[t])
      BY <1>7 DEF IInv, MutexInv
    <3>2. QED
      BY <1>7, <3>1 DEF Throws, Unlock, IInv, Types
  <2>2. throws' \in 0..MaxThrows
    BY CacheAssumption DEF Throws, IInv, Types
  <2>3. QED
    BY <1>2, <1>4, <1>9, <2>1, <2>2 DEF IInv, Types, StackOK, Throws, classes
<1>15. QED
  BY <1>8, <1>11, <1>13, <1>14 DEF IInv


-----------------------------------------------------------------------------
LEMMA EmptyStack ==
  /\ StackShape(<< >>) /\ Pasts(<< >>) = {} /\ Held(<< >>) = {} /\ Depth(<< >>) = 0
<1>1. Len(<< >>) = 0 /\ << >> \in Seq(Frames)
  OBVIOUS
<1>2. StackShape(<< >>)
  BY <1>1 DEF StackShape
<1>3. Callers(<< >>) = {}
  BY <1>2, ShapeFacts
<1>4. QED
  BY <1>2, <1>3 DEF Pasts, Held, Depth

LEMMA InitInv == CacheInit => IInv
<1> SUFFICES ASSUME CacheInit PROVE IInv
  OBVIOUS
<1>1. Types
  <2>1. Len(Boot) = 5
    BY DEF Boot
  <2>2. << >> \in Seq(Frames)
    OBVIOUS
  <2>3. QED
    BY <2>1, <2>2, CacheAssumption DEF CacheInit, Types
<1>2. \A t \in Threads : stack[t] = << >>
  BY DEF CacheInit
<1>3. Shapes
  BY <1>2, EmptyStack DEF Shapes
<1>4. MutexInv
  BY <1>2, EmptyStack, CacheAssumption DEF CacheInit, MutexInv
<1>5. OnceInv
  BY <1>2, EmptyStack, CacheAssumption DEF CacheInit, OnceInv
<1>6. TableInv
  <2>1. \A m \in Members : once[m] # "set" /\ info[m] = NoInfo
    BY CacheAssumption DEF CacheInit, Lazy
  <2>2. QED
    BY <1>2, <2>1, EmptyStack DEF TableInv
<1>7. QED
  BY <1>1, <1>3, <1>4, <1>5, <1>6 DEF IInv

LEMMA StepInv == IInv /\ [CacheNext]_vars => IInv'
<1> SUFFICES ASSUME IInv, [CacheNext]_vars PROVE IInv'
  OBVIOUS
<1>1. CASE Initialize
  BY <1>1, InitializeKeeps
<1>2. ASSUME NEW t \in Threads, LookupStep(t)
      PROVE  IInv'
  BY <1>2, OnceSetKeeps, OnceEnterKeeps, CacheHitKeeps, CacheMissKeeps, ClassCachedKeeps,
     ClassMissingKeeps, ClassFoundKeeps, ArrayResolvedKeeps, CallInnerKeeps, ResolvedKeeps,
     ThrowsKeeps DEF LookupStep
<1>3. ASSUME NEW t \in Threads, NEW m \in UserMembers, Use(t, m)
      PROVE  IInv'
  BY <1>3, UseKeeps
<1>4. ASSUME NEW t \in Threads, NEW a \in ObjectArrays, UseArray(t, a)
      PROVE  IInv'
  BY <1>4, UseArrayKeeps
<1>5. CASE UNCHANGED vars
  BY <1>5 DEF vars, classes, mutex, bounds, IInv, Types, Shapes, MutexInv, OnceInv, TableInv
<1>6. QED
  BY <1>1, <1>2, <1>3, <1>4, <1>5 DEF CacheNext

RacedOK == raced \in BOOLEAN

LEMMA RacedType == CacheSpec => []RacedOK
<1>1. CacheInit => RacedOK
  BY DEF CacheInit, RacedOK
<1>2. RacedOK /\ [CacheNext]_vars => RacedOK'
  <2> SUFFICES ASSUME RacedOK, [CacheNext]_vars PROVE RacedOK'
    OBVIOUS
  <2>1. ASSUME NEW t \in Threads, EnterGetClass(t)
        PROVE  RacedOK'
    BY <2>1 DEF EnterGetClass, RacedOK
  <2>2. CASE UNCHANGED raced
    BY <2>2 DEF RacedOK
  <2>3. UNCHANGED raced \/ \E t \in Threads : EnterGetClass(t)
    BY DEF CacheNext, LookupStep, Initialize, Use, UseArray, OnceSet, OnceEnter, CacheHit,
       CacheMiss, ClassCached, ClassMissing, ClassFound, ArrayResolved, CallInner, Resolved,
       Throws, vars, classes
  <2>4. QED
    BY <2>1, <2>2, <2>3
<1>3. QED
  BY <1>1, <1>2, PTL DEF CacheSpec

LEMMA InvAlways == CacheSpec => []IInv
<1>1. QED
  BY InitInv, StepInv, PTL DEF CacheSpec

(* The variables have their types, no stack is deeper than three and the   *)
(* mutex is counted as often as its owner has locked it (CacheTypeOK,      *)
(* lookupMethod, lookupField and their locks, Utilities.cpp 211-413).      *)
THEOREM CacheTypeCorrect == CacheSpec => []CacheTypeOK
<1>1. IInv /\ RacedOK => CacheTypeOK
  <2> SUFFICES ASSUME IInv, RacedOK PROVE CacheTypeOK
    OBVIOUS
  <2>1. \A t \in Threads : Len(stack[t]) \in 0..3 /\ Depth(stack[t]) \in 0..3
    <3>1. \A t \in Threads : StackShape(stack[t])
      BY DEF IInv, Shapes
    <3>2. QED
      BY <3>1, ShapeFacts
  <2>2. \A t \in Threads : Len(stack[t]) <= 3
    <3>1. \A n \in 0..3 : n <= 3
      OBVIOUS
    <3>2. QED
      BY <2>1, <3>1
  <2>3. depth \in 0..3
    <3>1. CASE cacheMutex = NoThread
      BY <3>1 DEF IInv, MutexInv
    <3>2. CASE cacheMutex \in Threads
      <4>1. depth = Depth(stack[cacheMutex])
        BY <3>2 DEF IInv, MutexInv
      <4>2. QED
        BY <2>1, <3>2, <4>1
    <3>3. QED
      BY <3>1, <3>2 DEF IInv, Types
  <2>4. depth = 0 <=> cacheMutex = NoThread
    BY <2>1, CacheAssumption DEF IInv, Types, MutexInv
  <2>5. QED
    BY <2>2, <2>3, <2>4 DEF CacheTypeOK, IInv, Types, RacedOK
<1>2. QED
  BY <1>1, InvAlways, RacedType, PTL

(* Whoever is resolved has the MethodInfo that is cached under its key     *)
(* (SharedInfo), for any members, keys, threads and usage rules: the       *)
(* cache is only filled by the owner of the mutex, for a key without entry.*)
THEOREM SharedInfoAlways == CacheSpec => []SharedInfo
<1>1. IInv => SharedInfo
  BY DEF IInv, TableInv, SharedInfo
<1>2. QED
  BY <1>1, InvAlways, PTL

(* Once flags and the mutex are only held by lookups that are in progress  *)
(* (NothingLeftHeld), on all paths out of them, exceptions included.       *)
THEOREM NothingLeftHeldAlways == CacheSpec => []NothingLeftHeld
<1>1. IInv => NothingLeftHeld
  <2> SUFFICES ASSUME IInv PROVE NothingLeftHeld
    OBVIOUS
  <2>1. ASSUME NEW m \in Lazy, once[m] \in Threads
        PROVE  \E i \in DOMAIN stack[once[m]] :
                 stack[once[m]][i].m = m /\ stack[once[m]][i].at # "once"
    <3> DEFINE s == stack[once[m]]
    <3>1. StackShape(s) /\ m \in Pasts(s)
      BY <2>1 DEF IInv, Shapes, OnceInv
    <3> HIDE DEF s
    <3>2. s \in Seq(Frames) /\ DOMAIN s = 1..Len(s) /\ Len(s) \in Nat
      BY <3>1 DEF StackShape
    <3>3. CASE s # << >> /\ Past(s[1]) /\ m = s[1].m
      BY <3>2, <3>3 DEF Past, s
    <3>4. CASE m \in Callers(s)
      <4>1. PICK i \in 2..Len(s) : s[i].m = m
        BY <3>4 DEF Callers
      <4>2. i \in 1..Len(s) /\ s[i].at = "inside"
        BY <3>1, <3>2, <4>1 DEF StackShape
      <4>3. QED
        BY <3>2, <4>1, <4>2 DEF s
    <3>5. QED
      BY <3>1, <3>3, <3>4 DEF Pasts
  <2>2. ASSUME cacheMutex # NoThread
        PROVE  \E i \in DOMAIN stack[cacheMutex] :
                 /\ stack[cacheMutex][i].m \in Members
                 /\ stack[cacheMutex][i].at \in {"class", "find", "inside"}
    <3> DEFINE s == stack[cacheMutex]
    <3>1. StackShape(s) /\ Depth(s) > 0
      BY <2>2 DEF IInv, Types, Shapes, MutexInv
    <3> HIDE DEF s
    <3>2. s \in Seq(Frames) /\ DOMAIN s = 1..Len(s) /\ Len(s) \in Nat /\ s # << >>
      BY <3>1 DEF StackShape, Depth
    <3>3. CASE Holds(s[1])
      BY <3>2, <3>3 DEF Holds, s
    <3>4. CASE ~Holds(s[1])
      <4>1. Len(s) >= 2 /\ 2 \in 2..Len(s) /\ 2 \in 1..Len(s)
        BY <3>1, <3>2, <3>4 DEF Depth
      <4>2. s[2].at = "inside" /\ s[2].m \in Members
        BY <3>1, <4>1 DEF StackShape
      <4>3. QED
        BY <3>2, <4>1, <4>2 DEF s
    <3>5. QED
      BY <3>3, <3>4
  <2>3. QED
    BY <2>1, <2>2 DEF NothingLeftHeld
<1>2. QED
  BY <1>1, InvAlways, PTL

-----------------------------------------------------------------------------
(* The caches implement a table in which the first lookup of a key puts an *)
(* entry and the others find it (TableImplemented): every step of a lookup *)
(* is one of the table's or does not show.                                 *)
THEOREM TableRefined == CacheSpec => TableImplemented
<1> DEFINE Key == [m \in Members |-> KeyFor(m)]
<1>1. CacheInit => Table!TableInit
  <2>1. \A m \in Members : Key[m] \in AllKeys
    BY KeyForType
  <2>2. QED
    BY <2>1 DEF CacheInit, Table!TableInit
<1>2. IInv /\ [CacheNext]_vars => [Table!TableNext]_<<cache, info>>
  <2> SUFFICES ASSUME IInv, [CacheNext]_vars PROVE [Table!TableNext]_<<cache, info>>
    OBVIOUS
  <2>1. ASSUME NEW t \in Threads, CacheHit(t)
        PROVE  Table!TableNext
    <3> DEFINE m == Top(t).m
    <3>1. StackOK
      BY DEF IInv, Types, StackOK
    <3>2. /\ stack[t] # << >> /\ stack[t][1].at = "lock" /\ Top(t) = stack[t][1]
          /\ StackShape(stack[t]) /\ m \in Lazy
      BY <2>1, <3>1, InFacts, Tops DEF CacheHit
    <3>3. m \in Members
      BY <3>2 DEF StackShape, Lazy
    <3>4. info[m] = NoInfo
      <4>1. m \in Pasts(stack[t])
        BY <3>2, Tops DEF Past
      <4>2. once[m] = t
        BY <3>2, <4>1 DEF IInv, OnceInv
      <4>3. QED
        BY <3>3, <4>2, CacheAssumption DEF IInv, TableInv
    <3>5. Table!Share(m)
      <4>1. /\ cache[KeyFor(m)] # NoInfo /\ info' = [info EXCEPT ![m] = cache[KeyFor(m)]]
            /\ cache' = cache
        BY <2>1 DEF CacheHit
      <4> HIDE DEF m
      <4>2. QED
        BY <3>3, <3>4, <4>1 DEF Table!Share
    <3>6. QED
      BY <3>3, <3>5 DEF Table!TableNext
  <2>2. ASSUME NEW t \in Threads, Resolved(t)
        PROVE  Table!TableNext
    <3> DEFINE m == Top(t).m
    <3>1. m \in Members /\ cache[KeyFor(m)] = NoInfo /\ info[m] = NoInfo
      BY <2>2, ResolvedKeeps DEF Resolved
    <3>2. Key[m] = KeyFor(m)
      BY <3>1
    <3>3. Table!Find(m)
      BY <2>2, <3>1, <3>2 DEF Resolved, Table!Find
    <3>4. QED
      BY <3>1, <3>3 DEF Table!TableNext
  <2>3. CASE UNCHANGED <<cache, info>>
    BY <2>3
  <2>4. ASSUME NEW t \in Threads, LookupStep(t), ~CacheHit(t), ~Resolved(t)
        PROVE  UNCHANGED <<cache, info>>
    BY <2>4 DEF LookupStep, OnceSet, OnceEnter, CacheMiss, ClassCached, ClassMissing,
                ClassFound, ArrayResolved, CallInner, Throws
  <2>5. QED
    BY <2>1, <2>2, <2>3, <2>4 DEF CacheNext, Initialize, Use, UseArray, vars
<1>3. QED
  BY <1>1, <1>2, InvAlways, PTL DEF CacheSpec, TableImplemented, Table!TableSpec


-----------------------------------------------------------------------------
(* The map of classes: who is in getClass at the same time, and what the   *)
(* entries are worth until two threads have been.                          *)

At(s, at) == s # << >> /\ s[1].at = at
InClass(s) == At(s, "class") \/ At(s, "find")

Apart == ~raced => \A t, u \in Threads : InClass(stack[t]) /\ InClass(stack[u]) => t = u
FindsMissing ==
  ~raced =>
    \A t \in Threads : At(stack[t], "find") => ClassFor(stack[t][1].m) \notin javaClassCache
RefsCounted ==
  ~raced => \A c \in AllClasses : classRefs[c] = IF c \in javaClassCache THEN 1 ELSE 0

ClassInv == Apart /\ FindsMissing /\ RefsCounted

LEMMA InClassTop ==
  ASSUME IInv, NEW t \in Threads
  PROVE  /\ InGetClass(t) <=> InClass(stack[t])
         /\ stack[t] # << >> => Top(t) = stack[t][1]
BY DEF InGetClass, In, InClass, At, Top, IInv, Types

(* The mutex keeps methods and fields apart. *)
LEMMA MembersApart ==
  ASSUME IInv, NEW t \in Threads, NEW u \in Threads, InClass(stack[t]), InClass(stack[u]),
         stack[t][1].m \notin ObjectArrays, stack[u][1].m \notin ObjectArrays
  PROVE  t = u
<1>1. StackShape(stack[t]) /\ StackShape(stack[u]) /\ stack[t] # << >> /\ stack[u] # << >>
  BY DEF IInv, Shapes, InClass, At
<1>2. stack[t][1].m \in Members /\ stack[u][1].m \in Members
  BY <1>1, Tops DEF Lazy
<1>3. Holds(stack[t][1]) /\ Holds(stack[u][1])
  BY <1>2 DEF InClass, At, Holds
<1>4. Held(stack[t]) # {} /\ Held(stack[u]) # {}
  BY <1>1, <1>3, Tops
<1>5. QED
  BY <1>4, OneHolder

(* What a lookup step does to the top of the stack: who comes to getClass  *)
(* has seen whether others are there.                                      *)
TopStep(t) ==
  /\ Others(t) /\ stack[t] # << >>
  /\ At(stack'[t], "find") => ClassMissing(t) /\ stack'[t][1].m = stack[t][1].m
  /\ ~raced' => ~raced
  /\ ~raced' /\ InClass(stack'[t]) => InClass(stack[t]) \/ ~OthersInGetClass(t)

LEMMA Enters ==
  ASSUME NEW t \in Threads, EnterGetClass(t)
  PROVE  ~raced' => ~raced /\ ~OthersInGetClass(t)
BY DEF EnterGetClass

LEMMA GoingTop ==
  ASSUME IInv, NEW t \in Threads, stack[t] # << >>, NEW a \in Places,
         stack[t][1].m \in ObjectArrays => a # "lock", Goes(t, a), a = "find" => ClassMissing(t),
         EnterGetClass(t) \/ (UNCHANGED raced /\ (a = "class" => InClass(stack[t])))
  PROVE  TopStep(t)
<1>1. StackOK
  BY DEF IInv, Types, StackOK
<1>2. /\ Others(t) /\ stack'[t] # << >>
      /\ stack'[t][1].m = stack[t][1].m /\ stack'[t][1].at = a
  BY <1>1, Going
<1>3. At(stack'[t], "find") => ClassMissing(t) /\ stack'[t][1].m = stack[t][1].m
  BY <1>2 DEF At
<1>4. CASE EnterGetClass(t)
  BY <1>2, <1>3, <1>4, Enters DEF TopStep
<1>5. CASE UNCHANGED raced /\ (a = "class" => InClass(stack[t]))
  <2>1. ClassMissing(t) => InClass(stack[t])
    BY <1>1, InFacts DEF ClassMissing, InClass, At
  <2>2. InClass(stack'[t]) => a \in {"class", "find"}
    BY <1>2 DEF InClass, At
  <2>3. InClass(stack'[t]) => InClass(stack[t])
    BY <1>5, <2>1, <2>2
  <2>4. QED
    BY <1>2, <1>3, <1>5, <2>3 DEF TopStep
<1>6. QED
  BY <1>4, <1>5

LEMMA ReturningTop ==
  ASSUME IInv, NEW t \in Threads, stack[t] # << >>, Return(t), UNCHANGED raced
  PROVE  TopStep(t)
<1>1. StackOK
  BY DEF IInv, Types, StackOK
<1>2. /\ Others(t)
      /\ stack'[t] # << >> => stack'[t][1].at = "inside"
  BY <1>1, Returning
<1>3. ~InClass(stack'[t]) /\ ~At(stack'[t], "find")
  BY <1>2 DEF InClass, At
<1>4. QED
  BY <1>2, <1>3 DEF TopStep

LEMMA LookupTop ==
  ASSUME IInv, NEW t \in Threads, LookupStep(t)
  PROVE  TopStep(t)
<1>1. StackOK
  BY DEF IInv, Types, StackOK
<1>2. CASE OnceSet(t) \/ CacheHit(t) \/ ArrayResolved(t) \/ Resolved(t) \/ Throws(t)
  BY <1>2, ReturningTop DEF OnceSet, CacheHit, ArrayResolved, Resolved, Throws, In, classes
<1>3. CASE OnceEnter(t)
  <2>1. stack[t] # << >> /\ Top(t) = stack[t][1]
    BY <1>1, <1>3, InFacts DEF OnceEnter
  <2>2. CASE Top(t).m \in ObjectArrays /\ EnterGetClass(t)
    <3>1. Goes(t, "class") /\ "class" \in Places
      BY <2>2 DEF EnterGetClass, Places
    <3>2. QED
      BY <2>1, <2>2, <3>1, GoingTop
  <2>3. CASE Top(t).m \in Members /\ Goes(t, "lock") /\ UNCHANGED classes
    <3>1. "lock" \in Places /\ UNCHANGED raced /\ stack[t][1].m \notin ObjectArrays
      BY <2>1, <2>3, CacheAssumption DEF classes, Places
    <3>2. QED
      BY <2>1, <2>3, <3>1, GoingTop
  <2>4. QED
    BY <1>3, <2>2, <2>3 DEF OnceEnter
<1>4. CASE CacheMiss(t)
  <2>1. stack[t] # << >> /\ Goes(t, "class") /\ EnterGetClass(t) /\ "class" \in Places
    BY <1>4 DEF CacheMiss, EnterGetClass, In, Places
  <2>2. QED
    BY <2>1, GoingTop
<1>5. CASE ClassCached(t) \/ ClassMissing(t) \/ ClassFound(t)
  <2>1. PICK a \in {"inside", "find"} : Goes(t, a) /\ (a = "find" => ClassMissing(t))
    BY <1>5 DEF ClassCached, ClassMissing, ClassFound
  <2>2. stack[t] # << >> /\ a \in Places /\ a # "lock" /\ a # "class" /\ UNCHANGED raced
    BY <1>5 DEF ClassCached, ClassMissing, ClassFound, In, Places, classes
  <2>3. QED
    BY <2>1, <2>2, GoingTop
<1>6. CASE CallInner(t)
  <2> DEFINE m == Inner(Top(t).m)[Top(t).next]
  <2>1. /\ stack[t] # << >> /\ Top(t) = stack[t][1] /\ StackShape(stack[t])
        /\ Top(t).m \in Members /\ Top(t).next <= Len(Inner(Top(t).m))
    BY <1>1, <1>6, InFacts DEF CallInner
  <2>2. m \in BootMembers
    <3>1. Top(t).next \in 1..3
      BY <2>1, Tops DEF Frames
    <3>2. Len(Inner(Top(t).m)) \in Nat
      BY <2>1, InnerFacts
    <3>3. Top(t).next \in 1..Len(Inner(Top(t).m))
      BY <2>1, <3>1, <3>2
    <3>4. QED
      BY <2>1, <3>3, InnerFacts
  <2>3. stack' = [stack EXCEPT ![t] = Pushed(stack[t], m)] /\ UNCHANGED raced
    BY <1>6 DEF CallInner, Pushed, classes
  <2> HIDE DEF m
  <2>4. m \in Lazy
    BY <2>2 DEF Members, Lazy
  <2>5. StackShape(stack[t]) /\ stack[t] \in Seq(Frames)
    BY <2>1 DEF StackShape
  <2>6. Pushed(stack[t], m)[1].at = "once"
    BY <2>4, <2>5, Pushes
  <2>7. Others(t) /\ stack'[t] = Pushed(stack[t], m)
    BY <1>1, <2>3 DEF StackOK, Others
  <2>8. QED
    BY <2>1, <2>3, <2>6, <2>7 DEF TopStep, InClass, At
<1>7. QED
  BY <1>2, <1>3, <1>4, <1>5, <1>6 DEF LookupStep

LEMMA LookupApart ==
  ASSUME IInv, Apart, NEW t \in Threads, TopStep(t)
  PROVE  Apart'
<1> SUFFICES ASSUME ~raced', NEW x \in Threads, NEW y \in Threads,
                    InClass(stack'[x]), InClass(stack'[y]), x # y
             PROVE  FALSE
  BY DEF Apart
<1>1. \A u \in Threads \ {t} : stack'[u] = stack[u]
  BY DEF TopStep, Others
<1>2. \A u, v \in Threads : InClass(stack[u]) /\ InClass(stack[v]) => u = v
  BY DEF TopStep, Apart
<1>3. x = t \/ y = t
  BY <1>1, <1>2
<1>4. PICK u \in {x, y} : u # t
  OBVIOUS
<1>5. InClass(stack[u]) /\ u \in Threads
  BY <1>1, <1>4
<1>6. InClass(stack[t]) \/ ~OthersInGetClass(t)
  BY <1>3 DEF TopStep
<1>7. OthersInGetClass(t)
  BY <1>4, <1>5, InClassTop DEF OthersInGetClass
<1>8. QED
  BY <1>2, <1>4, <1>5, <1>6, <1>7

LEMMA LookupClasses ==
  ASSUME IInv, ClassInv, NEW t \in Threads, LookupStep(t)
  PROVE  ClassInv'
<1>1. TopStep(t)
  BY LookupTop
<1>2. Apart'
  BY <1>1, LookupApart DEF ClassInv
<1>3. ASSUME ~raced', UNCHANGED <<javaClassCache, classRefs>>
      PROVE  FindsMissing' /\ RefsCounted'
  <2>1. ~raced
    BY <1>1, <1>3 DEF TopStep
  <2>2. FindsMissing'
    <3> SUFFICES ASSUME NEW u \in Threads, At(stack'[u], "find")
                 PROVE  ClassFor(stack'[u][1].m) \notin javaClassCache
      BY <1>3 DEF FindsMissing
    <3>1. CASE u = t
      <4>1. ClassMissing(t) /\ stack'[t][1].m = stack[t][1].m
        BY <1>1, <3>1 DEF TopStep
      <4>2. Top(t) = stack[t][1]
        BY <4>1, InFacts DEF ClassMissing, IInv, Types, StackOK
      <4>3. QED
        BY <3>1, <4>1, <4>2 DEF ClassMissing
    <3>2. CASE u # t
      BY <1>1, <2>1, <3>2 DEF TopStep, Others, ClassInv, FindsMissing
    <3>3. QED
      BY <3>1, <3>2
  <2>3. QED
    BY <1>3, <2>1, <2>2 DEF ClassInv, RefsCounted
<1>4. ASSUME ~raced', ClassFound(t)
      PROVE  FindsMissing' /\ RefsCounted'
  <2> DEFINE c == ClassFor(Top(t).m)
  <2>1. /\ At(stack[t], "find") /\ Top(t) = stack[t][1] /\ StackShape(stack[t])
    BY <1>4, InFacts DEF ClassFound, IInv, Types, StackOK, At
  <2>2. ~raced
    BY <1>1, <1>4 DEF TopStep
  <2>3. c \in AllClasses /\ c \notin javaClassCache
    <3>1. stack[t][1].m \in Lazy
      BY <2>1, Tops DEF At
    <3>2. QED
      BY <2>1, <2>2, <3>1, ClassForType DEF ClassInv, FindsMissing
  <2>4. \A u \in Threads \ {t} : ~InClass(stack[u])
    BY <2>1, <2>2 DEF ClassInv, Apart, InClass
  <2>5. javaClassCache' = javaClassCache \cup {c} /\ classRefs' = [classRefs EXCEPT ![c] = @ + 1]
    <3>1. \A u \in Threads \ {t} : ~In(u, "find")
      BY <2>4, InClassTop DEF InGetClass
    <3>2. QED
      BY <1>4, <2>2, <3>1 DEF ClassFound
  <2> HIDE DEF c
  <2>6. RefsCounted'
    BY <2>2, <2>3, <2>5 DEF ClassInv, RefsCounted, IInv, Types
  <2>7. ~At(stack'[t], "find")
    <3>1. ~ClassMissing(t)
      BY <1>4 DEF ClassFound, ClassMissing, In
    <3>2. QED
      BY <1>1, <3>1 DEF TopStep
  <2>8. \A u \in Threads : ~At(stack'[u], "find")
    BY <1>1, <2>4, <2>7 DEF TopStep, Others, InClass
  <2>9. QED
    BY <2>6, <2>8 DEF FindsMissing
<1>5. ~ClassFound(t) => UNCHANGED <<javaClassCache, classRefs>>
  BY DEF LookupStep, OnceSet, OnceEnter, CacheHit, CacheMiss, ClassCached, ClassMissing,
         ArrayResolved, CallInner, Resolved, Throws, classes, EnterGetClass
<1>6. CASE raced'
  BY <1>2, <1>6 DEF ClassInv, FindsMissing, RefsCounted
<1>7. QED
  BY <1>2, <1>3, <1>4, <1>5, <1>6 DEF ClassInv

(* A lookup that starts. *)
LEMMA StartClasses ==
  ASSUME IInv, ClassInv, NEW t \in Threads, NEW m \in Lazy, stack[t] = << >>,
         stack' = [stack EXCEPT ![t] = <<Frame(m)>>], UNCHANGED classes
  PROVE  ClassInv'
<1>1. Others(t) /\ stack'[t] = <<Frame(m)>>
  BY DEF IInv, Types, Others
<1>2. stack'[t] # << >> /\ stack'[t][1].m = m /\ stack'[t][1].at = "once"
  BY <1>1 DEF Frame
<1>3. ~InClass(stack'[t]) /\ ~At(stack'[t], "find")
  BY <1>2 DEF InClass, At
<1>4. UNCHANGED <<javaClassCache, classRefs, raced>>
  BY DEF classes
<1>5. Apart' /\ FindsMissing'
  BY <1>1, <1>3, <1>4 DEF ClassInv, Apart, FindsMissing, Others
<1>6. QED
  BY <1>4, <1>5 DEF ClassInv, RefsCounted

LEMMA StepClasses == IInv /\ ClassInv /\ [CacheNext]_vars => ClassInv'
<1> SUFFICES ASSUME IInv, ClassInv, [CacheNext]_vars PROVE ClassInv'
  OBVIOUS
<1>1. CASE Initialize
  <2>1. Len(Boot) = 5 /\ booted \in 0..5 /\ booted < 5
    BY <1>1 DEF Initialize, Boot, IInv, Types
  <2>2. booted + 1 \in DOMAIN Boot
    BY <2>1 DEF Boot
  <2>3. Boot[booted + 1] \in Lazy
    BY <2>2 DEF Lazy, Members, BootMembers
  <2>4. QED
    BY <1>1, <2>3, StartClasses, CacheAssumption DEF Initialize
<1>2. ASSUME NEW t \in Threads, LookupStep(t)
      PROVE  ClassInv'
  BY <1>2, LookupClasses
<1>3. ASSUME NEW t \in Threads, NEW m \in UserMembers, Use(t, m)
      PROVE  ClassInv'
  BY <1>3, StartClasses DEF Use, Lazy, Members
<1>4. ASSUME NEW t \in Threads, NEW a \in ObjectArrays, UseArray(t, a)
      PROVE  ClassInv'
  BY <1>4, StartClasses DEF UseArray, Lazy
<1>5. CASE UNCHANGED vars
  BY <1>5 DEF vars, classes, ClassInv, Apart, FindsMissing, RefsCounted
<1>6. QED
  BY <1>1, <1>2, <1>3, <1>4, <1>5 DEF CacheNext

(* Whatever client code does, two threads are in the unlocked map of       *)
(* classes at once only if one of them looks a class up for an ObjectArray *)
(* (JniPlusPlus.hpp 356), and until that happens every class that was      *)
(* asked for has one global reference and one entry                        *)
(* (ClassRacesAreOfArrays): methods and fields are kept apart by the mutex.*)
THEOREM ClassRacesAreOfArraysAlways == CacheSpec => []ClassRacesAreOfArrays
<1>1. CacheInit => ClassInv
  BY DEF CacheInit, ClassInv, Apart, FindsMissing, RefsCounted, InClass, At
<1>2. IInv /\ ClassInv /\ [CacheNext]_vars => ClassInv'
  BY StepClasses
<1>3. IInv /\ ClassInv => ClassRacesAreOfArrays
  <2> SUFFICES ASSUME IInv, ClassInv PROVE ClassRacesAreOfArrays
    OBVIOUS
  <2>1. ASSUME NEW t \in Threads, NEW u \in Threads, InGetClass(t), InGetClass(u), t # u
        PROVE  Top(t).m \in ObjectArrays \/ Top(u).m \in ObjectArrays
    <3>1. InClass(stack[t]) /\ InClass(stack[u])
      BY <2>1, InClassTop
    <3>2. Top(t) = stack[t][1] /\ Top(u) = stack[u][1]
      BY <3>1, InClassTop DEF InClass, At
    <3>3. QED
      BY <2>1, <3>1, <3>2, MembersApart
  <2>2. QED
    BY <2>1 DEF ClassRacesAreOfArrays, ClassInv, RefsCounted
<1>4. QED
  BY <1>1, <1>2, <1>3, InvAlways, PTL DEF CacheSpec


-----------------------------------------------------------------------------
(* No lookups wait for each other, if the library's own methods are        *)
(* resolved before user code needs them: the outermost lookup of a thread  *)
(* knows all it calls, so that an inner one only finds its flag set.       *)

Bottom(s) == s[Len(s)].m
Known(m) == m \in Members => \A k \in 1..Len(Inner(m)) : once[Inner(m)[k]] = "set"

BottomsKnown == \A t \in Threads : stack[t] # << >> => Known(Bottom(stack[t]))
InnersSet ==
  \A t \in Threads : /\ Len(stack[t]) <= 2
                     /\ Len(stack[t]) >= 2 => /\ At(stack[t], "once")
                                              /\ once[stack[t][1].m] = "set"
FirstSet ==
  booted >= 1 => \/ once["jIsExportable"] = "set"
                 \/ /\ booted = 1 /\ Len(stack[Initializer]) = 1
                    /\ stack[Initializer][1].m = "jIsExportable"

BootInv == BottomsKnown /\ InnersSet /\ FirstSet

LEMMA BootSet ==
  /\ BootMembers = {"jIsExportable", "jLookupJavaMember", "jLookupJavaField",
                    "jGetFieldClass", "jSetMinimumLogLevel"}
  /\ BootMembers \subseteq Members /\ Members \subseteq Lazy
BY DEF BootMembers, Boot, Members, Lazy

(* No flag of a library method that is set is lost. *)
LEMMA BootStaysSet ==
  ASSUME IInv, NEW t \in Threads, LookupStep(t), NEW b \in BootMembers, once[b] = "set"
  PROVE  once'[b] = "set"
<1>1. b \in Lazy /\ b \notin UserMembers
  BY BootSet, CacheAssumption
<1>2. once \in [Lazy -> Threads \cup {NoThread, "set"}]
  BY DEF IInv, Types
<1>3. CASE OnceEnter(t)
  BY <1>1, <1>2, <1>3, CacheAssumption DEF OnceEnter
<1>4. CASE CacheHit(t) \/ ArrayResolved(t) \/ Resolved(t)
  BY <1>1, <1>2, <1>4 DEF CacheHit, ArrayResolved, Resolved
<1>5. CASE Throws(t)
  BY <1>1, <1>2, <1>5 DEF Throws
<1>6. CASE UNCHANGED once
  BY <1>6
<1>7. QED
  BY <1>3, <1>4, <1>5, <1>6 DEF LookupStep, OnceSet, CacheMiss, ClassCached, ClassMissing,
                                ClassFound, CallInner

LEMMA KnownStays ==
  ASSUME IInv, NEW m \in Lazy, Known(m),
         \A b \in BootMembers : once[b] = "set" => once'[b] = "set"
  PROVE  Known(m)'
<1>1. m \in Members => \A k \in 1..Len(Inner(m)) : Inner(m)[k] \in BootMembers
  BY InnerFacts
<1>2. QED
  BY <1>1 DEF Known

(* An inner lookup is one of a library method. *)
LEMMA InnerTop ==
  ASSUME NEW s, StackShape(s), Len(s) >= 2
  PROVE  s # << >> /\ s[1].m \in BootMembers
<1>1. Len(s) \in Nat /\ 1 \in 1..Len(s) /\ 2 \in 1..Len(s) /\ s # << >>
  BY DEF StackShape
<1>2. Rank(s[1].m) < Rank(s[2].m)
  BY <1>1 DEF StackShape
<1>3. QED
  BY <1>1, <1>2 DEF Rank

(* What a lookup step does to a stack: it moves the innermost lookup, ends *)
(* it, or calls a library method from it.                                  *)
Moving(s, p) == p # << >> /\ Len(p) = Len(s) /\ p[1].m = s[1].m /\ ~At(s, "inside")
Ending(s, p) == /\ Len(p) = Len(s) - 1
                /\ Len(p) >= 1 => p # << >> /\ Bottom(p) = Bottom(s)
CallingIt(s, p) ==
  /\ At(s, "inside") /\ At(p, "once") /\ Len(p) = Len(s) + 1 /\ Bottom(p) = Bottom(s)
  /\ s[1].m \in Members
  /\ \E k \in 1..Len(Inner(s[1].m)) : p[1].m = Inner(s[1].m)[k]

LEMMA MovesIt ==
  ASSUME IInv, NEW t \in Threads, stack[t] # << >>, ~At(stack[t], "inside"), NEW a \in Places,
         stack[t][1].m \in ObjectArrays => a # "lock", Goes(t, a)
  PROVE  Moving(stack[t], stack'[t])
<1>1. StackOK
  BY DEF IInv, Types, StackOK
<1>2. QED
  BY <1>1, Going DEF Moving

LEMMA EndsIt ==
  ASSUME IInv, NEW t \in Threads, stack[t] # << >>, Return(t)
  PROVE  Ending(stack[t], stack'[t])
<1> DEFINE s == stack[t]
           p == Popped(s)
<1>1. stack'[t] = p
  BY DEF IInv, Types, Return
<1>2. StackShape(s)
  BY DEF IInv, Shapes
<1>3. /\ StackShape(p) /\ Len(p) = Len(s) - 1
      /\ \A i \in 1..Len(p) : p[i].m = s[i + 1].m
  BY <1>2, Pops
<1>4. Len(s) \in Nat /\ Len(p) \in Nat
  BY <1>2, <1>3 DEF StackShape
<1> HIDE DEF s, p
<1>5. Len(p) >= 1 => Bottom(p) = Bottom(s)
  <2>1. Len(p) + 1 = Len(s)
    BY <1>3, <1>4
  <2>2. Len(p) >= 1 => Len(p) \in 1..Len(p)
    BY <1>4
  <2>3. QED
    BY <1>3, <2>1, <2>2 DEF Bottom
<1>6. Len(p) >= 1 => p # << >>
  BY <1>3 DEF StackShape
<1>7. QED
  BY <1>1, <1>3, <1>5, <1>6 DEF Ending, s

LEMMA CallsIt ==
  ASSUME IInv, NEW t \in Threads, CallInner(t)
  PROVE  CallingIt(stack[t], stack'[t])
<1> DEFINE s == stack[t]
           m == Inner(Top(t).m)[Top(t).next]
           p == Pushed(s, m)
<1>1. /\ s # << >> /\ s[1].at = "inside" /\ Top(t) = s[1] /\ StackShape(s)
      /\ Top(t).m \in Members /\ Top(t).next <= Len(Inner(Top(t).m))
  BY InFacts DEF CallInner, IInv, Types, StackOK
<1>2. Top(t).next \in 1..Len(Inner(Top(t).m))
  <2>1. Top(t).next \in 1..3
    BY <1>1, Tops DEF Frames
  <2>2. Len(Inner(Top(t).m)) \in Nat
    BY <1>1, InnerFacts
  <2>3. QED
    BY <1>1, <2>1, <2>2
<1>3. m \in Lazy
  BY <1>1, <1>2, InnerFacts, BootSet
<1>4. stack'[t] = p
  BY DEF CallInner, Pushed, IInv, Types
<1>5. s \in Seq(Frames) /\ Len(s) \in Nat /\ Len(s) >= 1
  BY <1>1 DEF StackShape
<1>6. /\ Len(p) = Len(s) + 1 /\ p # << >> /\ p[1].m = m /\ p[1].at = "once"
      /\ \A i \in 1..Len(s) : p[i + 1] = s[i]
  BY <1>3, <1>5, Pushes
<1> HIDE DEF p
<1>7. Bottom(p) = Bottom(s)
  <2>1. Len(s) \in 1..Len(s)
    BY <1>5
  <2>2. QED
    BY <1>6, <2>1 DEF Bottom
<1>8. \E k \in 1..Len(Inner(s[1].m)) : p[1].m = Inner(s[1].m)[k]
  BY <1>1, <1>2, <1>6
<1>9. QED
  BY <1>1, <1>4, <1>6, <1>7, <1>8 DEF CallingIt, At

LEMMA GoesMoves ==
  ASSUME IInv, NEW t \in Threads,
         \/ OnceEnter(t) \/ CacheMiss(t) \/ ClassCached(t) \/ ClassMissing(t) \/ ClassFound(t)
  PROVE  Moving(stack[t], stack'[t])
<1>1. StackOK
  BY DEF IInv, Types, StackOK
<1>2. CASE OnceEnter(t)
  <2> DEFINE a == IF Top(t).m \in ObjectArrays THEN "class" ELSE "lock"
  <2>1. stack[t] # << >> /\ stack[t][1].at = "once" /\ Top(t) = stack[t][1]
    BY <1>1, <1>2, InFacts DEF OnceEnter
  <2>2. /\ a \in Places /\ Goes(t, a)
        /\ stack[t][1].m \in ObjectArrays => a # "lock"
    BY <1>2, <2>1, CacheAssumption DEF OnceEnter, EnterGetClass, Places
  <2> HIDE DEF a
  <2>3. QED
    BY <2>1, <2>2, MovesIt DEF At
<1>3. CASE ~OnceEnter(t)
  <2>1. PICK a \in {"class", "inside", "find"} : Goes(t, a)
    BY <1>3 DEF CacheMiss, EnterGetClass, ClassCached, ClassMissing, ClassFound
  <2>2. stack[t] # << >> /\ a \in Places /\ a # "lock" /\ ~At(stack[t], "inside")
    BY <1>1, <1>3, InFacts DEF CacheMiss, ClassCached, ClassMissing, ClassFound, Places, At
  <2>3. QED
    BY <2>1, <2>2, MovesIt
<1>4. QED
  BY <1>2, <1>3

LEMMA LookupMoves ==
  ASSUME IInv, NEW t \in Threads, LookupStep(t)
  PROVE  \/ Moving(stack[t], stack'[t])
         \/ Ending(stack[t], stack'[t])
         \/ CallingIt(stack[t], stack'[t])
<1>1. CASE OnceSet(t) \/ CacheHit(t) \/ ArrayResolved(t) \/ Resolved(t) \/ Throws(t)
  BY <1>1, EndsIt DEF OnceSet, CacheHit, ArrayResolved, Resolved, Throws, In
<1>2. QED
  BY <1>1, GoesMoves, CallsIt DEF LookupStep

(* A library method whose lookup ends is resolved. *)
LEMMA EndsSet ==
  ASSUME IInv, NEW t \in Threads, LookupStep(t), stack[t] # << >>,
         stack[t][1].m \in BootMembers, Ending(stack[t], stack'[t])
  PROVE  once'[stack[t][1].m] = "set"
<1> DEFINE m == stack[t][1].m
<1>1. Top(t) = stack[t][1]
  BY DEF Top
<1>2. m \in Lazy /\ m \notin UserMembers /\ m \notin ObjectArrays
  BY BootSet, CacheAssumption
<1>3. once \in [Lazy -> Threads \cup {NoThread, "set"}]
  BY DEF IInv, Types
<1>4. CASE OnceSet(t) \/ CacheHit(t) \/ Resolved(t)
  BY <1>1, <1>2, <1>3, <1>4 DEF OnceSet, CacheHit, Resolved
<1>5. ~ArrayResolved(t) /\ ~Throws(t)
  BY <1>1, <1>2 DEF ArrayResolved, Throws
<1>6. Len(stack[t]) \in Nat
  BY DEF IInv, Shapes, StackShape
<1>7. /\ ~OnceEnter(t) /\ ~CacheMiss(t) /\ ~ClassCached(t) /\ ~ClassMissing(t)
      /\ ~ClassFound(t) /\ ~CallInner(t)
  BY <1>6, GoesMoves, CallsIt DEF Moving, Ending, CallingIt
<1>8. QED
  BY <1>4, <1>5, <1>7 DEF LookupStep

(* An inner lookup finds its flag set, and returns. *)
LEMMA InnerReturns ==
  ASSUME IInv, InnersSet, NEW t \in Threads, LookupStep(t), Len(stack[t]) >= 2
  PROVE  Ending(stack[t], stack'[t])
<1>1. At(stack[t], "once") /\ once[stack[t][1].m] = "set"
  BY DEF InnersSet
<1>2. StackOK /\ stack[t] # << >> /\ stack[t][1].at = "once"
  BY <1>1 DEF IInv, Types, StackOK, At
<1>3. ASSUME NEW at, In(t, at) PROVE at = "once" /\ Top(t) = stack[t][1]
  BY <1>2, <1>3, InFacts
<1>4. OnceSet(t)
  BY <1>1, <1>3, CacheAssumption
     DEF LookupStep, OnceEnter, CacheHit, CacheMiss, ClassCached, ClassMissing, ClassFound,
         ArrayResolved, CallInner, Resolved, Throws
<1>5. QED
  BY <1>2, <1>4, EndsIt DEF OnceSet


LEMMA BottomType ==
  ASSUME IInv, NEW t \in Threads, stack[t] # << >>
  PROVE  Bottom(stack[t]) \in Lazy /\ (Len(stack[t]) = 1 => Bottom(stack[t]) = stack[t][1].m)
<1>1. Len(stack[t]) \in 1..Len(stack[t]) /\ stack[t] \in Seq(Frames)
  BY DEF IInv, Shapes, StackShape
<1>2. stack[t][Len(stack[t])] \in Frames
  BY <1>1
<1>3. QED
  BY <1>2 DEF Bottom, Frames

LEMMA StepLengths ==
  ASSUME NEW s, NEW p, Len(s) \in Nat, Len(p) \in Nat, Len(s) # 0, Len(s) <= 2,
         Moving(s, p) \/ Ending(s, p) \/ CallingIt(s, p), Len(s) >= 2 => Ending(s, p)
  PROVE  /\ Len(s) \in 1..2 /\ Len(p) \in 0..2
         /\ Len(p) >= 2 => CallingIt(s, p) /\ Len(s) = 1
         /\ Moving(s, p) => Len(s) = 1 /\ Len(p) = 1
<1>1. Len(s) = 1 \/ Len(s) = 2
  <2>1. \A n \in Nat : n # 0 /\ n <= 2 => n = 1 \/ n = 2
    OBVIOUS
  <2>2. QED
    BY <2>1
<1>2. CASE Len(s) = 2
  <2>1. Len(p) = 1 /\ ~Moving(s, p)
    BY <1>2 DEF Ending, Moving
  <2>2. QED
    BY <1>2, <2>1
<1>3. CASE Len(s) = 1
  <2>1. Moving(s, p) => Len(p) = 1
    BY <1>3 DEF Moving
  <2>2. Ending(s, p) => Len(p) = 0
    BY <1>3 DEF Ending
  <2>3. CallingIt(s, p) => Len(p) = 2
    BY <1>3 DEF CallingIt
  <2>4. QED
    BY <1>3, <2>1, <2>2, <2>3
<1>4. QED
  BY <1>1, <1>2, <1>3

LEMMA LookupBoot ==
  ASSUME IInv, BootInv, NEW t \in Threads, LookupStep(t)
  PROVE  BootInv'
<1> DEFINE s == stack[t]
           p == stack'[t]
<1>1. Others(t) /\ s # << >>
  BY LookupTop DEF TopStep
<1>2. IInv'
  BY StepInv DEF CacheNext
<1>3. \A b \in BootMembers : once[b] = "set" => once'[b] = "set"
  BY BootStaysSet
<1>4. booted' = booted
  BY DEF LookupStep, OnceSet, OnceEnter, CacheHit, CacheMiss, ClassCached, ClassMissing,
         ClassFound, ArrayResolved, CallInner, Resolved, Throws, bounds
<1>5. Moving(s, p) \/ Ending(s, p) \/ CallingIt(s, p)
  BY LookupMoves
<1>6. Len(s) >= 2 => Ending(s, p)
  BY InnerReturns DEF BootInv
<1>7. StackShape(s) /\ StackShape(p) /\ Len(s) \in 1..2 /\ Len(p) \in 0..2
      /\ (Len(p) = 0 <=> p = << >>)
  <2>1. StackShape(s) /\ StackShape(p)
    BY <1>2 DEF IInv, Shapes
  <2>2. Len(s) \in Nat /\ Len(s) # 0 /\ Len(s) <= 2
    BY <1>1, <2>1 DEF StackShape, BootInv, InnersSet
  <2>3. Len(p) \in Nat /\ (Len(p) = 0 <=> p = << >>)
    BY <2>1 DEF StackShape
  <2>4. Len(p) \in 0..2 /\ Len(s) \in 1..2
    BY <1>5, <1>6, <2>2, <2>3, StepLengths
  <2>5. QED
    BY <2>1, <2>3, <2>4
<1>8. /\ Len(p) >= 2 => CallingIt(s, p) /\ Len(s) = 1
      /\ Moving(s, p) => Len(s) = 1 /\ Len(p) = 1
  <2> HIDE DEF s, p
  <2>1. Len(s) \in Nat /\ Len(p) \in Nat /\ Len(s) # 0 /\ Len(s) <= 2
    BY <1>7
  <2>2. QED
    BY <1>5, <1>6, <2>1, StepLengths
<1>9. \A m \in Lazy : Known(m) => Known(m)'
  BY <1>3, KnownStays
<1>10. p # << >> => Bottom(p) = Bottom(s)
  <2> SUFFICES ASSUME p # << >> PROVE Bottom(p) = Bottom(s)
    OBVIOUS
  <2>1. CASE Moving(s, p)
    <3>1. Len(s) = 1 /\ Len(p) = 1 /\ p[1].m = s[1].m
      BY <1>8, <2>1 DEF Moving
    <3>2. QED
      BY <3>1 DEF Bottom
  <2>2. CASE Ending(s, p)
    BY <1>7, <2>2 DEF Ending
  <2>3. CASE CallingIt(s, p)
    BY <2>3 DEF CallingIt
  <2>4. QED
    BY <1>5, <2>1, <2>2, <2>3
<1>11. BottomsKnown'
  <2> SUFFICES ASSUME NEW u \in Threads, stack'[u] # << >>
               PROVE  Known(Bottom(stack[u]))'
    BY DEF BottomsKnown
  <2>1. stack[u] # << >> /\ Bottom(stack'[u]) = Bottom(stack[u])
    BY <1>1, <1>10 DEF Others
  <2>2. Bottom(stack[u]) \in Lazy /\ Known(Bottom(stack[u]))
    BY <2>1, BottomType DEF BootInv, BottomsKnown
  <2>3. PICK m \in Lazy : m = Bottom(stack[u])
    BY <2>2
  <2>4. Known(m)'
    BY <1>9, <2>2, <2>3
  <2>5. Bottom(stack'[u]) = m
    BY <2>1, <2>3
  <2>6. QED
    BY <2>4, <2>5 DEF Known, Bottom
<1>12. InnersSet'
  <2> SUFFICES ASSUME NEW u \in Threads
               PROVE  /\ Len(stack'[u]) <= 2
                      /\ Len(stack'[u]) >= 2 => /\ At(stack'[u], "once")
                                                /\ once'[stack'[u][1].m] = "set"
    BY DEF InnersSet, At
  <2>1. CASE u # t
    <3>1. stack'[u] = stack[u] /\ Len(stack[u]) <= 2 /\ StackShape(stack[u])
      BY <1>1, <2>1 DEF Others, BootInv, InnersSet, IInv, Shapes
    <3>2. Len(stack[u]) >= 2 => stack[u][1].m \in BootMembers
      BY <3>1, InnerTop
    <3>3. QED
      BY <1>3, <3>1, <3>2 DEF BootInv, InnersSet
  <2>2. CASE u = t
    <3>6. Len(p) <= 2
      <4> HIDE DEF p
      <4>1. \A n \in 0..2 : n <= 2
        OBVIOUS
      <4>2. QED
        BY <1>7, <4>1
    <3> SUFFICES ASSUME Len(p) >= 2 PROVE At(p, "once") /\ once'[p[1].m] = "set"
      BY <2>2, <3>6
    <3>1. CallingIt(s, p) /\ Len(s) = 1
      BY <1>8
    <3>2. p[1].m \in BootMembers
      BY <1>7, InnerTop
    <3>3. Known(s[1].m) /\ s[1].m \in Members
      BY <1>1, <3>1, BottomType DEF BootInv, BottomsKnown, CallingIt
    <3>4. once[p[1].m] = "set"
      BY <3>1, <3>3 DEF CallingIt, Known
    <3>5. QED
      BY <1>3, <3>1, <3>2, <3>4 DEF CallingIt
  <2>3. QED
    BY <2>1, <2>2
<1>13. FirstSet'
  <2>1. "jIsExportable" \in BootMembers
    BY BootSet
  <2>2. CASE booted < 1 \/ once["jIsExportable"] = "set"
    BY <1>3, <1>4, <2>1, <2>2 DEF FirstSet, IInv, Types
  <2>3. CASE booted = 1 /\ Len(stack[Initializer]) = 1 /\ stack[Initializer][1].m = "jIsExportable"
    <3>1. CASE t # Initializer
      BY <1>1, <1>4, <2>3, <3>1, CacheAssumption DEF FirstSet, Others
    <3>2. CASE t = Initializer /\ Moving(s, p)
      BY <1>4, <2>3, <3>2 DEF FirstSet, Moving
    <3>3. CASE t = Initializer /\ Ending(s, p)
      <4>1. once'["jIsExportable"] = "set"
        BY <1>1, <2>1, <2>3, <3>3, EndsSet
      <4>2. QED
        BY <4>1 DEF FirstSet
    <3>4. ~(t = Initializer /\ CallingIt(s, p))
      <4>1. Inner("jIsExportable") = << >>
        BY BootSet DEF Inner
      <4>2. 1..Len(<< >>) = {}
        OBVIOUS
      <4>3. 1..Len(Inner("jIsExportable")) = {}
        BY <4>1, <4>2
      <4>4. QED
        BY <2>3, <4>3 DEF CallingIt
    <3>5. QED
      BY <1>5, <3>1, <3>2, <3>3, <3>4
  <2>4. QED
    BY <2>2, <2>3 DEF BootInv, FirstSet, IInv, Types
<1>14. QED
  BY <1>11, <1>12, <1>13 DEF BootInv

(* A lookup that starts. *)
LEMMA StartBoot ==
  ASSUME IInv, BootInv, NEW t \in Threads, NEW m \in Lazy, stack[t] = << >>, Known(m),
         stack' = [stack EXCEPT ![t] = <<Frame(m)>>], UNCHANGED once, FirstSet'
  PROVE  BootInv'
<1>1. Others(t) /\ stack'[t] = <<Frame(m)>>
  BY DEF IInv, Types, Others
<1>2. Frame(m).m = m
  BY DEF Frame
<1>3. Len(stack'[t]) = 1 /\ Bottom(stack'[t]) = m
  BY <1>1, <1>2 DEF Bottom
<1>4. InnersSet'
  BY <1>1, <1>3 DEF Others, BootInv, InnersSet, At
<1>5. BottomsKnown'
  <2> SUFFICES ASSUME NEW u \in Threads, stack'[u] # << >>
               PROVE  Known(Bottom(stack[u]))'
    BY DEF BottomsKnown
  <2>1. CASE u = t
    BY <1>3, <2>1 DEF Known, Bottom
  <2>2. CASE u # t
    <3>1. stack'[u] = stack[u]
      BY <1>1, <2>2 DEF Others
    <3>2. Known(Bottom(stack[u]))
      BY <3>1 DEF BootInv, BottomsKnown
    <3>3. QED
      BY <3>1, <3>2 DEF Known, Bottom
  <2>3. QED
    BY <2>1, <2>2
<1>6. QED
  BY <1>4, <1>5 DEF BootInv


LEMMA BootsKnown ==
  ASSUME NEW m \in BootMembers, m = "jGetFieldClass" => once["jIsExportable"] = "set"
  PROVE  Known(m)
<1>1. CASE m = "jGetFieldClass"
  <2>1. Inner(m) = <<"jIsExportable">>
    BY <1>1 DEF Inner
  <2>2. Len(Inner(m)) = 1 /\ Inner(m)[1] = "jIsExportable"
    BY <2>1
  <2>3. \A k \in 1..Len(Inner(m)) : Inner(m)[k] = "jIsExportable"
    BY <2>2
  <2>4. QED
    BY <1>1, <2>3 DEF Known
<1>2. CASE m # "jGetFieldClass"
  <2>1. Inner(m) = << >>
    BY <1>2 DEF Inner
  <2>2. 1..Len(<< >>) = {}
    OBVIOUS
  <2>3. QED
    BY <2>1, <2>2 DEF Known
<1>3. QED
  BY <1>1, <1>2

LEMMA InitializeBoot == IInv /\ BootInv /\ Initialize => BootInv'
<1> SUFFICES ASSUME IInv, BootInv, Initialize PROVE BootInv'
  OBVIOUS
<1> DEFINE m == Boot[booted + 1]
<1>1. booted \in 0..4 /\ stack[Initializer] = << >>
  BY DEF Initialize, Boot, IInv, Types
<1>2. booted >= 1 => once["jIsExportable"] = "set"
  <2>1. Len(<< >>) = 0
    OBVIOUS
  <2>2. Len(stack[Initializer]) # 1
    BY <1>1, <2>1
  <2>3. QED
    BY <2>2 DEF BootInv, FirstSet
<1>3. m \in BootMembers /\ (m = "jGetFieldClass" => booted = 3)
      /\ (booted = 0 => m = "jIsExportable")
  BY <1>1, BootSet DEF Boot
<1>4. Known(m)
  BY <1>2, <1>3, BootsKnown
<1>5. stack' = [stack EXCEPT ![Initializer] = <<Frame(m)>>] /\ booted' = booted + 1
      /\ UNCHANGED once
  BY DEF Initialize
<1>6. FirstSet'
  <2>1. CASE booted >= 1
    BY <1>2, <1>5, <2>1 DEF FirstSet
  <2>2. CASE booted = 0
    <3>1. stack'[Initializer] = <<Frame(m)>>
      BY <1>5, CacheAssumption DEF IInv, Types
    <3>2. Len(stack'[Initializer]) = 1 /\ stack'[Initializer][1].m = "jIsExportable"
      BY <1>3, <2>2, <3>1 DEF Frame
    <3>3. QED
      BY <1>5, <2>2, <3>2 DEF FirstSet
  <2>3. QED
    BY <1>1, <2>1, <2>2
<1> HIDE DEF m
<1>7. QED
  BY <1>1, <1>3, <1>4, <1>5, <1>6, StartBoot, BootSet, CacheAssumption

LEMMA UserStarts ==
  ASSUME IInv, BootInv, NEW t \in Threads, NEW m \in Lazy, stack[t] = << >>, Known(m),
         t = Initializer => booted = Len(Boot),
         stack' = [stack EXCEPT ![t] = <<Frame(m)>>], UNCHANGED <<once, booted>>
  PROVE  BootInv'
<1>1. FirstSet'
  <2>1. CASE t = Initializer
    <3>1. booted = 5
      BY <2>1 DEF Boot
    <3>2. QED
      BY <3>1 DEF BootInv, FirstSet
  <2>2. CASE t # Initializer
    <3>1. stack'[Initializer] = stack[Initializer]
      BY <2>2, CacheAssumption DEF IInv, Types
    <3>2. QED
      BY <3>1 DEF BootInv, FirstSet
  <2>3. QED
    BY <2>1, <2>2
<1>2. QED
  BY <1>1, StartBoot

LEMMA StepBoot ==
  ASSUME "bootFirst" \in Contract
  PROVE  IInv /\ BootInv /\ [CacheNext]_vars => BootInv'
<1> SUFFICES ASSUME IInv, BootInv, [CacheNext]_vars PROVE BootInv'
  OBVIOUS
<1>1. CASE Initialize
  BY <1>1, InitializeBoot
<1>2. ASSUME NEW t \in Threads, LookupStep(t)
      PROVE  BootInv'
  BY <1>2, LookupBoot
<1>3. ASSUME NEW t \in Threads, NEW m \in UserMembers, Use(t, m)
      PROVE  BootInv'
  <2>1. m \in Lazy /\ m \in Members
    BY DEF Lazy, Members
  <2>2. Known(m)
    <3>1. DOMAIN Inner(m) = 1..Len(Inner(m))
      BY <2>1, InnerFacts
    <3>2. QED
      BY <1>3, <3>1 DEF Use, MayLookUp, Known
  <2>3. QED
    BY <1>3, <2>1, <2>2, UserStarts DEF Use, MayLookUp, bounds
<1>4. ASSUME NEW t \in Threads, NEW a \in ObjectArrays, UseArray(t, a)
      PROVE  BootInv'
  <2>1. a \in Lazy /\ Known(a)
    BY CacheAssumption DEF Lazy, Known
  <2>2. QED
    BY <1>4, <2>1, UserStarts DEF UseArray, bounds
<1>5. CASE UNCHANGED vars
  BY <1>5 DEF vars, bounds, BootInv, BottomsKnown, InnersSet, FirstSet, Known, Bottom, At
<1>6. QED
  BY <1>1, <1>2, <1>3, <1>4, <1>5 DEF CacheNext

-----------------------------------------------------------------------------
(* Who can go on: an inner lookup, the owner of the mutex, and whoever does*)
(* not wait at a once flag, or else the owner of the mutex.                *)
GoesFurther(u) == stack[u] # << >> /\ WaitsFor(u) = {}

LEMMA WaitsAt ==
  ASSUME IInv, NEW t \in Threads, NEW u \in WaitsFor(t)
  PROVE  /\ stack[t] # << >> /\ u \in Threads
         /\ \/ At(stack[t], "once") /\ once[stack[t][1].m] = u
            \/ At(stack[t], "lock") /\ cacheMutex = u
<1>1. StackOK
  BY DEF IInv, Types, StackOK
<1>2. u \in Threads
  BY DEF WaitsFor
<1>3. CASE In(t, "once") /\ once[Top(t).m] = u
  BY <1>1, <1>2, <1>3, InFacts DEF At
<1>4. CASE In(t, "lock") /\ cacheMutex = u
  BY <1>1, <1>2, <1>4, InFacts DEF At
<1>5. QED
  BY <1>3, <1>4 DEF WaitsFor

LEMMA InnerGoes ==
  ASSUME IInv, BootInv, NEW u \in Threads, Len(stack[u]) >= 2
  PROVE  GoesFurther(u)
<1>1. At(stack[u], "once") /\ once[stack[u][1].m] = "set"
  BY DEF BootInv, InnersSet
<1>2. \A v \in WaitsFor(u) : FALSE
  BY <1>1, WaitsAt, CacheAssumption DEF At
<1>3. QED
  BY <1>1, <1>2 DEF GoesFurther, At

LEMMA OwnerGoes ==
  ASSUME IInv, BootInv, NEW u \in Threads, Depth(stack[u]) > 0
  PROVE  GoesFurther(u)
<1>1. CASE Len(stack[u]) >= 2
  BY <1>1, InnerGoes
<1>2. CASE ~(Len(stack[u]) >= 2)
  <2>1. stack[u] # << >>
    BY DEF Depth
  <2>2. Len(stack[u]) \in Nat
    BY DEF IInv, Shapes, StackShape
  <2>3. Holds(stack[u][1])
    BY <1>2, <2>1, <2>2 DEF Depth
  <2>4. \A v \in WaitsFor(u) : FALSE
    BY <2>3, WaitsAt DEF At, Holds
  <2>5. QED
    BY <2>1, <2>4 DEF GoesFurther
<1>3. QED
  BY <1>1, <1>2

LEMMA PastGoes ==
  ASSUME IInv, BootInv, NEW u \in Threads, stack[u] # << >>, ~At(stack[u], "once")
  PROVE  GoesFurther(u) \/ \E v \in WaitsFor(u) : GoesFurther(v)
<1> SUFFICES ASSUME NEW v \in WaitsFor(u)
             PROVE  GoesFurther(v)
  BY DEF GoesFurther
<1>1. v \in Threads /\ cacheMutex = v
  BY WaitsAt
<1>2. Depth(stack[v]) > 0
  BY <1>1 DEF IInv, MutexInv
<1>3. QED
  BY <1>1, <1>2, OwnerGoes

(* If the library's methods are resolved before user code needs them, no   *)
(* lookups wait for each other (LookupsProceed): the lock order of once    *)
(* flags and cacheMutex, which inner lookups take the other way around,    *)
(* deadlocks for no number of threads and members.                         *)
THEOREM LookupsProceedAlways ==
  ASSUME "bootFirst" \in Contract
  PROVE  CacheSpec => []LookupsProceed
<1>1. CacheInit => BootInv
  <2> SUFFICES ASSUME CacheInit PROVE BootInv
    OBVIOUS
  <2>1. \A t \in Threads : stack[t] = << >>
    BY DEF CacheInit
  <2>2. Len(<< >>) = 0
    OBVIOUS
  <2>3. InnersSet /\ BottomsKnown
    BY <2>1, <2>2 DEF InnersSet, BottomsKnown
  <2>4. FirstSet
    BY DEF CacheInit, FirstSet
  <2>5. QED
    BY <2>3, <2>4 DEF BootInv
<1>2. IInv /\ BootInv /\ [CacheNext]_vars => BootInv'
  BY StepBoot
<1>3. IInv /\ BootInv => LookupsProceed
  <2> SUFFICES ASSUME IInv, BootInv, NEW t \in Threads, stack[t] # << >>
               PROVE  \E u \in {t} \cup WaitsFor(t) \cup UNION {WaitsFor(v) : v \in WaitsFor(t)} :
                        GoesFurther(u)
    BY DEF LookupsProceed, GoesFurther
  <2>1. CASE ~At(stack[t], "once")
    BY <2>1, PastGoes
  <2>2. CASE At(stack[t], "once") /\ WaitsFor(t) = {}
    BY <2>2 DEF GoesFurther
  <2>3. ASSUME At(stack[t], "once"), NEW o \in WaitsFor(t)
        PROVE  GoesFurther(o) \/ \E v \in WaitsFor(o) : GoesFurther(v)
    <3> DEFINE m == stack[t][1].m
    <3>1. o \in Threads /\ once[m] = o
      BY <2>3, WaitsAt DEF At
    <3>2. m \in Lazy /\ StackShape(stack[o])
      BY <3>1, Tops DEF IInv, Shapes
    <3>3. m \in Pasts(stack[o])
      BY <3>1, <3>2 DEF IInv, OnceInv
    <3>4. CASE Len(stack[o]) >= 2
      BY <3>1, <3>4, InnerGoes
    <3>5. CASE ~(Len(stack[o]) >= 2)
      <4>1. Len(stack[o]) \in Nat
        BY <3>2 DEF StackShape
      <4>2. Callers(stack[o]) = {}
        BY <3>5, <4>1 DEF Callers
      <4>3. stack[o] # << >> /\ ~At(stack[o], "once")
        BY <3>3, <4>2 DEF Pasts, Past, At
      <4>4. QED
        BY <3>1, <4>3, PastGoes
    <3>6. QED
      BY <3>4, <3>5
  <2>4. QED
    BY <2>1, <2>2, <2>3
<1>4. QED
  BY <1>1, <1>2, <1>3, InvAlways, PTL DEF CacheSpec
=============================================================================
