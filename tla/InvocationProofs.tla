-------------------------- MODULE InvocationProofs --------------------------
(***************************************************************************)
(* Proofs about Invocation, for any number of references, calls and nested *)
(* calls and any faults.  The argument follows the nesting: the frames     *)
(* under a call are those it was made on, but for the innermost of them,   *)
(* where a call without a frame of its own leaves its references.          *)
(***************************************************************************)
EXTENDS Invocation, TLAPS

Early == {"gather", "lookup", "jni"}   \* stages in which there is no result yet
Calling == {"gather", "lookup", "resolve", "convert"}

(* What is true of a call in progress. *)
CallOK(c) ==
  /\ c.ret \in Results[c.op]
  /\ c.native => Stage(c) = "jni"
  /\ Stage(c) \in Early => c.object = NoRef
  /\ Len(c.before) >= 1
  /\ c.framePushed => c.hadFrame

(* The frames that a call may not touch: those below its own, or below the *)
(* one it shares with its caller.                                          *)
Kept(c) == IF c.framePushed THEN Len(c.before) ELSE Len(c.before) - 1

Fits(c, f) ==
  /\ Len(f) = Len(c.before) + (IF c.framePushed THEN 1 ELSE 0) + (IF c.native THEN 1 ELSE 0)
  /\ \A k \in 1..Kept(c) : f[k] = c.before[k]

(* The innermost call: its frame may be popped early, for its result. *)
InnerOK(c, f, g, e) ==
  /\ c.hadFrame /\ ~c.framePushed =>
       /\ Stage(c) = "leave" /\ c.ret = "local" /\ c.object # NoRef
       /\ f = With(c.before, c.object) /\ e = NoException
  /\ Stage(c) = "leave" /\ c.framePushed /\ c.ret = "local" => c.object = NoRef
  /\ c.ret = "local" /\ c.object # NoRef => c.object \in f[Len(f)]
  /\ Stage(c) = "leave" /\ c.ret = "global" /\ c.object # NoRef => c.object \in g
  /\ e # NoException => ~c.native

(* A call that waits for another one. *)
OuterOK(c) ==
  /\ c.framePushed = c.hadFrame
  /\ ~c.native => Stage(c) \in Calling
  /\ Stage(c) = "convert" => c.ret = "value"
  /\ c.ret = "local" => c.object = NoRef

Under(i) == IF i = 1 THEN frames ELSE calls[i - 1].before

Types ==
  /\ frames \in Seq(SUBSET Refs) /\ frames # << >>
  /\ globals \subseteq Refs
  /\ pending \in Exceptions \cup {NoException}
  /\ thrown \in Exceptions \cup {NoException}
  /\ calls \in Seq(CallRecords) /\ Len(calls) <= MaxDepth
  /\ made \in 0..MaxCalls

CallsInv ==
  /\ \A i \in 1..Len(calls) : CallOK(calls[i]) /\ Fits(calls[i], Under(i))
  /\ \A i \in 2..Len(calls) : OuterOK(calls[i])
  /\ calls # << >> => InnerOK(calls[1], frames, globals, thrown)

FInv == Types /\ CallsInv

-----------------------------------------------------------------------------
(* Sequences and stages. *)

LEMMA NotEmpty ==
  ASSUME NEW S, NEW q \in Seq(S)
  PROVE  q # << >> <=> Len(q) >= 1
OBVIOUS

LEMMA HeadReplaced ==
  ASSUME NEW S, NEW q \in Seq(S), q # << >>, NEW d \in S
  PROVE  /\ [q EXCEPT ![1] = d] \in Seq(S) /\ Len([q EXCEPT ![1] = d]) = Len(q)
         /\ [q EXCEPT ![1] = d] # << >> /\ [q EXCEPT ![1] = d][1] = d
         /\ \A i \in 2..Len(q) : [q EXCEPT ![1] = d][i] = q[i]
OBVIOUS

LEMMA Appends ==
  ASSUME NEW S, NEW q \in Seq(S), NEW x \in S
  PROVE  /\ Append(q, x) \in Seq(S) /\ Len(Append(q, x)) = Len(q) + 1 /\ Append(q, x) # << >>
         /\ \A k \in 1..Len(q) : Append(q, x)[k] = q[k]
<1>1. /\ Append(q, x) \in Seq(S) /\ Len(Append(q, x)) = Len(q) + 1
      /\ \A k \in 1..Len(q) : Append(q, x)[k] = q[k]
  OBVIOUS
<1>2. Append(q, x) # << >>
  <2>1. Len(<< >>) = 0 /\ Len(q) \in Nat
    OBVIOUS
  <2>2. QED
    BY <1>1, <2>1
<1>3. QED
  BY <1>1, <1>2

LEMMA Prepends ==
  ASSUME NEW S, NEW q \in Seq(S), NEW x \in S
  PROVE  /\ <<x>> \o q \in Seq(S) /\ Len(<<x>> \o q) = Len(q) + 1 /\ <<x>> \o q # << >>
         /\ (<<x>> \o q)[1] = x /\ \A k \in 2..Len(q) + 1 : (<<x>> \o q)[k] = q[k - 1]
OBVIOUS

LEMMA Tails ==
  ASSUME NEW S, NEW q \in Seq(S), q # << >>
  PROVE  /\ Tail(q) \in Seq(S) /\ Len(Tail(q)) = Len(q) - 1
         /\ \A k \in 1..Len(q) - 1 : Tail(q)[k] = q[k + 1]
OBVIOUS

LEMMA Fronts ==
  ASSUME NEW S, NEW q \in Seq(S), Len(q) >= 2
  PROVE  /\ SubSeq(q, 1, Len(q) - 1) \in Seq(S) /\ Len(SubSeq(q, 1, Len(q) - 1)) = Len(q) - 1
         /\ SubSeq(q, 1, Len(q) - 1) # << >>
         /\ \A k \in 1..Len(q) - 1 : SubSeq(q, 1, Len(q) - 1)[k] = q[k]
<1>1. /\ SubSeq(q, 1, Len(q) - 1) \in Seq(S) /\ Len(SubSeq(q, 1, Len(q) - 1)) = Len(q) - 1
      /\ \A k \in 1..Len(q) - 1 : SubSeq(q, 1, Len(q) - 1)[k] = q[k]
  OBVIOUS
<1>2. Len(q) - 1 # 0 /\ Len(<< >>) = 0
  <2>1. Len(q) \in Nat
    OBVIOUS
  <2>2. \A n \in Nat : n >= 2 => n - 1 # 0
    OBVIOUS
  <2>3. Len(<< >>) = 0
    OBVIOUS
  <2>4. QED
    BY <2>1, <2>2, <2>3
<1>3. SubSeq(q, 1, Len(q) - 1) # << >>
  <2> DEFINE p == SubSeq(q, 1, Len(q) - 1)
  <2>1. Len(p) # 0
    BY <1>1, <1>2
  <2> HIDE DEF p
  <2>2. p # << >>
    BY <1>2, <2>1
  <2>3. QED
    BY <2>2 DEF p
<1>4. QED
  BY <1>1, <1>3

LEMMA WithFacts ==
  ASSUME NEW f \in Seq(SUBSET Refs), f # << >>, NEW r \in Refs \cup {NoRef}
  PROVE  /\ With(f, r) \in Seq(SUBSET Refs) /\ Len(With(f, r)) = Len(f) /\ With(f, r) # << >>
         /\ \A k \in 1..Len(f) - 1 : With(f, r)[k] = f[k]
         /\ f[Len(f)] \subseteq With(f, r)[Len(f)]
         /\ r # NoRef => r \in With(f, r)[Len(f)]
<1>1. Len(f) \in 1..Len(f) /\ f[Len(f)] \in SUBSET Refs
  OBVIOUS
<1>2. CASE r = NoRef
  BY <1>1, <1>2 DEF With
<1>3. CASE r # NoRef
  <2> DEFINE x == f[Len(f)] \cup {r}
  <2>1. x \in SUBSET Refs /\ With(f, r) = [f EXCEPT ![Len(f)] = x]
    BY <1>1, <1>3 DEF With
  <2>2. f[Len(f)] \subseteq x /\ r \in x
    OBVIOUS
  <2> HIDE DEF x
  <2>3. QED
    BY <1>1, <2>1, <2>2
<1>4. QED
  BY <1>2, <1>3

LEMMA WithoutFacts ==
  ASSUME NEW f \in Seq(SUBSET Refs), f # << >>, NEW r
  PROVE  /\ Without(f, r) \in Seq(SUBSET Refs) /\ Len(Without(f, r)) = Len(f)
         /\ Without(f, r) # << >>
         /\ \A k \in 1..Len(f) - 1 : Without(f, r)[k] = f[k]
<1> DEFINE x == f[Len(f)] \ {r}
<1>1. Len(f) \in 1..Len(f) /\ x \in SUBSET Refs /\ Without(f, r) = [f EXCEPT ![Len(f)] = x]
  BY DEF Without
<1> HIDE DEF x
<1>2. QED
  BY <1>1

LEMMA StageSteps ==
  ASSUME NEW c \in CallRecords, Stage(c) # "leave", c.ret \in Results[c.op],
         NEW d, d.op = c.op, d.stage = c.stage + 1
  PROVE  /\ d.stage \in 1..7
         /\ Stage(c) = "jni" => Stage(d) \notin Early
         /\ Stage(c) \in {"check", "convert", "pass", "resolve"} => Stage(d) \notin Early
         /\ Stage(c) = "pass" => Stage(d) = "leave"
         /\ Stage(c) = "convert" => Stage(d) = "pass"
         /\ Stage(d) = "leave" => Stage(c) = "pass" \/ c.ret = "void"
<1>1. c.op \in Ops /\ c.stage \in 1..7 /\ c.stage \in DOMAIN Route[c.op]
  BY DEF CallRecords, Stage
<1>2. c.op \in {"method", "constructor", "get", "set", "create", "element", "info"}
  BY <1>1 DEF Ops, Route
<1>3. CASE c.op = "method"
  BY <1>1, <1>3 DEF Stage, Route, Early
<1>4. CASE c.op = "constructor"
  BY <1>1, <1>4 DEF Stage, Route, Early
<1>5. CASE c.op = "get"
  BY <1>1, <1>5 DEF Stage, Route, Early
<1>6. CASE c.op = "set"
  BY <1>1, <1>6 DEF Stage, Route, Early, Results, SetResults
<1>7. CASE c.op = "create"
  BY <1>1, <1>7 DEF Stage, Route, Early
<1>8. CASE c.op = "element"
  BY <1>1, <1>8 DEF Stage, Route, Early
<1>9. CASE c.op = "info"
  BY <1>1, <1>9 DEF Stage, Route, Early, Results
<1>10. QED
  BY <1>2, <1>3, <1>4, <1>5, <1>6, <1>7, <1>8, <1>9

-----------------------------------------------------------------------------
(* What a step does to the calls: it changes the innermost, makes a new    *)
(* one or ends it.                                                         *)

LEMMA RecordFacts ==
  ASSUME NEW c \in CallRecords
  PROVE  /\ c.op \in Ops /\ c.stage \in 1..7 /\ c.id \in 1..MaxCalls
         /\ c.framePushed \in BOOLEAN /\ c.native \in BOOLEAN /\ c.hadFrame \in BOOLEAN
         /\ c.object \in Refs \cup {NoRef}
         /\ c.before \in Seq(SUBSET Refs) /\ Len(c.before) \in Nat
BY DEF CallRecords

(* What Fits says of each kind of call. *)
LEMMA FitsCases ==
  ASSUME NEW c \in CallRecords, NEW f \in Seq(SUBSET Refs)
  PROVE  /\ c.framePushed /\ ~c.native =>
              (Fits(c, f) <=> /\ Len(f) = Len(c.before) + 1
                              /\ \A k \in 1..Len(c.before) : f[k] = c.before[k])
         /\ c.framePushed /\ c.native =>
              (Fits(c, f) <=> /\ Len(f) = Len(c.before) + 2
                              /\ \A k \in 1..Len(c.before) : f[k] = c.before[k])
         /\ ~c.framePushed /\ ~c.native =>
              (Fits(c, f) <=> /\ Len(f) = Len(c.before)
                              /\ \A k \in 1..Len(c.before) - 1 : f[k] = c.before[k])
         /\ ~c.framePushed /\ c.native =>
              (Fits(c, f) <=> /\ Len(f) = Len(c.before) + 1
                              /\ \A k \in 1..Len(c.before) - 1 : f[k] = c.before[k])
<1> DEFINE p == IF c.framePushed THEN 1 ELSE 0
           n == IF c.native THEN 1 ELSE 0
           b == Len(c.before)
<1>1. b \in Nat /\ Len(f) \in Nat
  BY RecordFacts
<1>2. Fits(c, f) <=> Len(f) = b + p + n /\ \A k \in 1..Kept(c) : f[k] = c.before[k]
  BY DEF Fits
<1>3. /\ c.framePushed => p = 1 /\ Kept(c) = b
      /\ ~c.framePushed => p = 0 /\ Kept(c) = b - 1
      /\ c.native => n = 1
      /\ ~c.native => n = 0
  BY DEF Kept
<1> HIDE DEF p, n, b
<1>4. b + 1 + 0 = b + 1 /\ b + 1 + 1 = b + 2 /\ b + 0 + 0 = b /\ b + 0 + 1 = b + 1
  BY <1>1
<1>5. CASE c.framePushed
  BY <1>2, <1>3, <1>4, <1>5 DEF b
<1>6. CASE ~c.framePushed
  BY <1>2, <1>3, <1>4, <1>6 DEF b
<1>7. QED
  BY <1>5, <1>6

LEMMA FitsSame ==
  ASSUME NEW c \in CallRecords, NEW d \in CallRecords, NEW f, NEW g,
         f \in Seq(SUBSET Refs), g \in Seq(SUBSET Refs), Fits(c, f), CallOK(c),
         d.framePushed = c.framePushed, d.native = c.native, d.before = c.before,
         Len(g) = Len(f), \A k \in 1..Len(f) - 1 : g[k] = f[k]
  PROVE  Fits(d, g)
<1>1. /\ c.framePushed \in BOOLEAN /\ c.native \in BOOLEAN /\ Len(c.before) \in Nat
      /\ Len(f) \in Nat
  BY RecordFacts
<1>2. Kept(d) = Kept(c) /\ Kept(c) <= Len(f) - 1 /\ Kept(c) \in Nat
  <2> DEFINE n == IF c.native THEN 1 ELSE 0
             b == Len(c.before)
  <2>1. b >= 1 /\ b \in Nat /\ Kept(d) = Kept(c) /\ n \in {0, 1}
    BY <1>1 DEF CallOK, Kept
  <2>2. c.framePushed = TRUE => Len(f) = b + 1 + n /\ Kept(c) = b
    BY DEF Fits, Kept
  <2>3. c.framePushed = FALSE => Len(f) = b + 0 + n /\ Kept(c) = b - 1
    BY DEF Fits, Kept
  <2> HIDE DEF n, b
  <2>4. CASE c.framePushed = TRUE
    BY <2>1, <2>2, <2>4
  <2>5. CASE c.framePushed = FALSE
    BY <2>1, <2>3, <2>5
  <2>6. QED
    BY <1>1, <2>4, <2>5
<1>3. \A k \in 1..Kept(c) : g[k] = f[k]
  BY <1>1, <1>2
<1>4. QED
  BY <1>2, <1>3 DEF Fits

Replaced(d) ==
  /\ calls' \in Seq(CallRecords) /\ Len(calls') = Len(calls) /\ calls' # << >>
  /\ calls'[1] = d /\ \A i \in 2..Len(calls) : calls'[i] = calls[i]

LEMMA TopChanges ==
  ASSUME FInv, calls # << >>, NEW d \in CallRecords, Replaced(d),
         d.before = calls[1].before, CallOK(d), Fits(d, frames'),
         InnerOK(d, frames', globals', thrown'),
         frames' \in Seq(SUBSET Refs), frames' # << >>, globals' \subseteq Refs,
         pending' \in Exceptions \cup {NoException}, thrown' \in Exceptions \cup {NoException},
         made' = made
  PROVE  FInv'
<1>1. Types'
  BY DEF FInv, Types, Replaced
<1>2. Len(calls) \in Nat /\ Len(calls) >= 1 /\ Len(calls') = Len(calls)
  BY DEF FInv, Types, Replaced
<1>3. \A i \in 2..Len(calls') : calls'[i] = calls[i] /\ Under(i)' = Under(i)
  <2> SUFFICES ASSUME NEW i \in 2..Len(calls)
               PROVE  calls'[i] = calls[i] /\ Under(i)' = Under(i)
    BY <1>2
  <2>1. calls'[i] = calls[i]
    BY DEF Replaced
  <2>2. CASE i = 2
    BY <2>1, <2>2 DEF Under, Replaced
  <2>3. CASE i # 2
    <3>1. i - 1 \in 2..Len(calls) /\ i # 1
      BY <1>2, <2>3
    <3>2. calls'[i - 1] = calls[i - 1]
      BY <3>1 DEF Replaced
    <3>3. QED
      BY <2>1, <3>1, <3>2 DEF Under
  <2>4. QED
    BY <2>2, <2>3
<1>4. \A i \in 1..Len(calls') : CallOK(calls'[i]) /\ Fits(calls'[i], Under(i)')
  <2> SUFFICES ASSUME NEW i \in 1..Len(calls')
               PROVE  CallOK(calls'[i]) /\ Fits(calls'[i], Under(i)')
    OBVIOUS
  <2>1. CASE i = 1
    BY <2>1 DEF Replaced, Under
  <2>2. CASE i \in 2..Len(calls')
    BY <1>2, <1>3, <2>2 DEF FInv, CallsInv
  <2>3. QED
    BY <1>2, <2>1, <2>2
<1>5. \A i \in 2..Len(calls') : OuterOK(calls'[i])
  BY <1>2, <1>3 DEF FInv, CallsInv
<1>6. CallsInv'
  BY <1>4, <1>5 DEF CallsInv, Replaced
<1>7. QED
  BY <1>1, <1>6 DEF FInv

LEMMA CallStarts ==
  ASSUME FInv, NEW d \in CallRecords, calls' = <<d>> \o calls, Len(calls) < MaxDepth,
         d.before = frames, CallOK(d), Fits(d, frames'),
         InnerOK(d, frames', globals', thrown'), calls # << >> => OuterOK(calls[1]),
         frames' \in Seq(SUBSET Refs), frames' # << >>, globals' \subseteq Refs,
         pending' \in Exceptions \cup {NoException}, thrown' \in Exceptions \cup {NoException},
         made' \in 0..MaxCalls
  PROVE  FInv'
<1>1. Len(calls) \in Nat /\ MaxDepth \in Nat /\ calls \in Seq(CallRecords)
  BY InvocationAssumption DEF FInv, Types
<1>2. /\ calls' \in Seq(CallRecords) /\ Len(calls') = Len(calls) + 1 /\ calls' # << >>
      /\ calls'[1] = d /\ \A k \in 2..Len(calls) + 1 : calls'[k] = calls[k - 1]
  BY <1>1, Prepends
<1>3. Types'
  BY <1>1, <1>2 DEF FInv, Types
<1>4. \A i \in 2..Len(calls') : calls'[i] = calls[i - 1] /\ i - 1 \in 1..Len(calls)
                                /\ Under(i)' = Under(i - 1)
  <2> SUFFICES ASSUME NEW i \in 2..Len(calls')
               PROVE  calls'[i] = calls[i - 1] /\ i - 1 \in 1..Len(calls)
                      /\ Under(i)' = Under(i - 1)
    OBVIOUS
  <2>1. calls'[i] = calls[i - 1] /\ i - 1 \in 1..Len(calls)
    BY <1>1, <1>2
  <2>2. CASE i = 2
    BY <1>2, <2>1, <2>2 DEF Under
  <2>3. CASE i # 2
    <3>1. i - 1 \in 2..Len(calls) + 1 /\ i # 1 /\ i - 1 # 1 /\ (i - 1) - 1 = i - 2
      BY <1>1, <1>2, <2>3
    <3>2. calls'[i - 1] = calls[(i - 1) - 1]
      BY <1>2, <3>1
    <3>3. QED
      BY <2>1, <3>1, <3>2 DEF Under
  <2>4. QED
    BY <2>2, <2>3
<1>5. \A i \in 1..Len(calls') : CallOK(calls'[i]) /\ Fits(calls'[i], Under(i)')
  <2> SUFFICES ASSUME NEW i \in 1..Len(calls')
               PROVE  CallOK(calls'[i]) /\ Fits(calls'[i], Under(i)')
    OBVIOUS
  <2>1. CASE i = 1
    BY <1>2, <2>1 DEF Under
  <2>2. CASE i \in 2..Len(calls')
    BY <1>4, <2>2 DEF FInv, CallsInv
  <2>3. QED
    BY <1>1, <1>2, <2>1, <2>2
<1>6. \A i \in 2..Len(calls') : OuterOK(calls'[i])
  <2> SUFFICES ASSUME NEW i \in 2..Len(calls') PROVE OuterOK(calls'[i])
    OBVIOUS
  <2>1. CASE i = 2
    BY <1>1, <1>4, <2>1
  <2>2. CASE i # 2
    <3>1. i - 1 \in 2..Len(calls)
      BY <1>1, <1>2, <2>2
    <3>2. QED
      BY <1>4, <3>1 DEF FInv, CallsInv
  <2>3. QED
    BY <2>1, <2>2
<1>7. QED
  BY <1>2, <1>3, <1>5, <1>6 DEF FInv, CallsInv

(* A call ends, and its caller goes on: with d in its place. *)
LEMMA CallEnds ==
  ASSUME FInv, calls # << >>, NEW rest, rest = Tail(calls), 
         Len(calls') = Len(rest), calls' \in Seq(CallRecords),
         \A i \in 2..Len(rest) : calls'[i] = rest[i],
         rest # << >> =>
           /\ calls'[1].before = rest[1].before
           /\ calls'[1].framePushed = rest[1].framePushed
           /\ calls'[1].native = rest[1].native
           /\ CallOK(calls'[1]) /\ InnerOK(calls'[1], frames', globals', thrown'),
         Len(frames') = Len(calls[1].before),
         \A k \in 1..Len(frames') - 1 : frames'[k] = calls[1].before[k],
         frames' \in Seq(SUBSET Refs), frames' # << >>, globals' \subseteq Refs,
         pending' \in Exceptions \cup {NoException}, thrown' \in Exceptions \cup {NoException},
         made' = made
  PROVE  FInv'
<1>1. /\ Len(calls) \in Nat /\ Len(calls) >= 1 /\ calls \in Seq(CallRecords)
      /\ MaxDepth \in Nat /\ Len(calls) <= MaxDepth
  BY InvocationAssumption DEF FInv, Types
<1>2. /\ rest \in Seq(CallRecords) /\ Len(rest) = Len(calls) - 1
      /\ \A k \in 1..Len(calls) - 1 : rest[k] = calls[k + 1]
  BY <1>1, Tails
<1>3. Types'
  BY <1>1, <1>2 DEF FInv, Types
<1>4. /\ Len(calls') = Len(calls) - 1 /\ Len(calls') \in Nat
      /\ Len(rest) >= 1 <=> rest # << >>
      /\ Len(calls') >= 1 <=> calls' # << >>
  <2>1. Len(rest) >= 1 <=> rest # << >>
    BY <1>2, NotEmpty
  <2>2. Len(calls') >= 1 <=> calls' # << >>
    OBVIOUS
  <2>3. QED
    BY <1>1, <1>2, <2>1, <2>2
<1>5. \A i \in 2..Len(calls') : calls'[i] = calls[i + 1] /\ i + 1 \in 3..Len(calls)
                                /\ Under(i)' = Under(i + 1)
  <2> SUFFICES ASSUME NEW i \in 2..Len(calls')
               PROVE  calls'[i] = calls[i + 1] /\ i + 1 \in 3..Len(calls)
                      /\ Under(i)' = Under(i + 1)
    OBVIOUS
  <2>1. calls'[i] = calls[i + 1] /\ i + 1 \in 3..Len(calls) /\ rest # << >>
    <3>1. i \in 1..Len(calls) - 1 /\ i \in 2..Len(rest) /\ i + 1 \in 3..Len(calls)
      BY <1>1, <1>2, <1>4
    <3>2. rest # << >>
      BY <1>1, <1>2, <1>4, <3>1
    <3>3. QED
      BY <1>2, <3>1, <3>2
  <2>2. calls'[i - 1].before = calls[i].before
    <3>1. CASE i = 2
      <4>1. rest[1] = calls[2]
        BY <1>1, <1>2, <1>4
      <4>2. QED
        BY <2>1, <3>1, <4>1
    <3>2. CASE i # 2
      <4>1. i - 1 \in 2..Len(rest) /\ i - 1 \in 1..Len(calls) - 1 /\ (i - 1) + 1 = i
        BY <1>1, <1>2, <1>4, <3>2
      <4>2. calls'[i - 1] = rest[i - 1] /\ rest[i - 1] = calls[(i - 1) + 1]
        BY <1>2, <4>1
      <4>3. QED
        BY <4>1, <4>2
    <3>3. QED
      BY <3>1, <3>2
  <2>3. i # 1 /\ i + 1 # 1 /\ (i + 1) - 1 = i
    OBVIOUS
  <2>4. QED
    BY <2>1, <2>2, <2>3 DEF Under
<1>6. \A i \in 1..Len(calls') : CallOK(calls'[i]) /\ Fits(calls'[i], Under(i)')
  <2> SUFFICES ASSUME NEW i \in 1..Len(calls')
               PROVE  CallOK(calls'[i]) /\ Fits(calls'[i], Under(i)')
    OBVIOUS
  <2>1. CASE i = 1
    <3>1. rest # << >> /\ rest[1] = calls[2] /\ 2 \in 1..Len(calls) /\ 2 \in 2..Len(calls)
      BY <1>1, <1>2, <1>4
    <3>2. Fits(calls[2], calls[1].before) /\ CallOK(calls[2])
      BY <3>1 DEF FInv, CallsInv, Under
    <3>3. calls[1].before \in Seq(SUBSET Refs) /\ calls[2] \in CallRecords
          /\ calls'[1] \in CallRecords
      <4>1. 1 \in 1..Len(calls') /\ 1 \in 1..Len(calls)
        BY <1>1, <2>1
      <4>2. calls[1] \in CallRecords /\ calls[2] \in CallRecords /\ calls'[1] \in CallRecords
        BY <1>1, <3>1, <4>1
      <4>3. QED
        BY <4>2, RecordFacts
    <3>4. Fits(calls'[1], frames')
      BY <3>1, <3>2, <3>3, FitsSame
    <3>5. QED
      BY <2>1, <3>1, <3>4 DEF Under
  <2>2. CASE i \in 2..Len(calls')
    BY <1>1, <1>5, <2>2 DEF FInv, CallsInv
  <2>3. QED
    BY <1>4, <2>1, <2>2
<1>7. \A i \in 2..Len(calls') : OuterOK(calls'[i])
  <2>1. \A i \in 3..Len(calls) : OuterOK(calls[i])
    BY DEF FInv, CallsInv
  <2>2. QED
    BY <1>5, <2>1
<1>8. calls' # << >> => InnerOK(calls'[1], frames', globals', thrown')
  BY <1>2, <1>4
<1>9. QED
  BY <1>3, <1>6, <1>7, <1>8 DEF FInv, CallsInv

-----------------------------------------------------------------------------
(* The innermost call goes to its next stage. *)

Stages == {"gather", "lookup", "jni", "check", "convert", "pass", "resolve"}

LEMMA TopFacts ==
  ASSUME FInv, calls # << >>
  PROVE  /\ Top = calls[1] /\ calls[1] \in CallRecords /\ Len(calls) \in Nat /\ Len(calls) >= 1
         /\ CallOK(calls[1]) /\ Fits(calls[1], frames)
         /\ InnerOK(calls[1], frames, globals, thrown)
<1>1. calls \in Seq(CallRecords) /\ Len(calls) \in Nat /\ Len(calls) >= 1 /\ Top = calls[1]
  BY NotEmpty DEF FInv, Types, Top
<1>2. 1 \in 1..Len(calls) /\ calls[1] \in CallRecords
  BY <1>1
<1>3. QED
  BY <1>1, <1>2 DEF FInv, CallsInv, Under

LEMMA AtFacts ==
  ASSUME FInv, NEW s, At(s)
  PROVE  /\ calls # << >> /\ thrown = NoException /\ ~calls[1].native /\ Stage(calls[1]) = s
         /\ Top = calls[1]
BY TopFacts DEF At

(* d is c one stage on. *)
Advanced(c, d) ==
  /\ d \in CallRecords /\ d.stage = c.stage + 1
  /\ d.op = c.op /\ d.ret = c.ret /\ d.framePushed = c.framePushed /\ d.native = c.native
  /\ d.hadFrame = c.hadFrame /\ d.before = c.before /\ d.id = c.id

LEMMA Proceeds ==
  ASSUME FInv, calls # << >>, Stage(calls[1]) # "leave", NEW o \in Refs \cup {NoRef}
  PROVE  /\ Proceed => \E d : Replaced(d) /\ Advanced(calls[1], d) /\ d.object = calls[1].object
         /\ calls' = Next1([calls EXCEPT ![1].object = o])
              => \E d : Replaced(d) /\ Advanced(calls[1], d) /\ d.object = o
<1> DEFINE c == calls[1]
<1>1. c \in CallRecords /\ c.ret \in Results[c.op] /\ calls \in Seq(CallRecords)
  BY TopFacts DEF CallOK, FInv, Types
<1>2. c.stage + 1 \in 1..7
  <2> DEFINE d == [op |-> c.op, stage |-> c.stage + 1]
  <2>1. d.stage \in 1..7
    BY <1>1, StageSteps
  <2>2. QED
    BY <2>1
<1>3. ASSUME Proceed
      PROVE  \E d : Replaced(d) /\ Advanced(c, d) /\ d.object = c.object
  <2> DEFINE d == [c EXCEPT !.stage = @ + 1]
  <2>1. Advanced(c, d) /\ d.object = c.object
    BY <1>1, <1>2 DEF Advanced, CallRecords
  <2>2. calls' = [calls EXCEPT ![1] = d]
    BY <1>3 DEF Proceed, Next1
  <2>3. d \in CallRecords
    BY <2>1 DEF Advanced
  <2> HIDE DEF d
  <2>4. Replaced(d)
    BY <1>1, <2>2, <2>3, HeadReplaced DEF Replaced
  <2>5. QED
    BY <2>1, <2>4
<1>4. ASSUME calls' = Next1([calls EXCEPT ![1].object = o])
      PROVE  \E d : Replaced(d) /\ Advanced(c, d) /\ d.object = o
  <2> DEFINE d == [c EXCEPT !.object = o, !.stage = @ + 1]
  <2>1. Advanced(c, d) /\ d.object = o
    BY <1>1, <1>2 DEF Advanced, CallRecords
  <2>2. calls' = [calls EXCEPT ![1] = d]
    BY <1>1, <1>4 DEF Next1, CallRecords
  <2>3. d \in CallRecords
    BY <2>1 DEF Advanced
  <2> HIDE DEF d
  <2>4. Replaced(d)
    BY <1>1, <2>2, <2>3, HeadReplaced DEF Replaced
  <2>5. QED
    BY <2>1, <2>4
<1>5. QED
  BY <1>3, <1>4

(* The frames change at most in the one on top. *)
TopFrameChanges ==
  /\ frames' \in Seq(SUBSET Refs) /\ frames' # << >> /\ Len(frames') = Len(frames)
  /\ \A k \in 1..Len(frames) - 1 : frames'[k] = frames[k]

LEMMA Advances ==
  ASSUME FInv, NEW s \in Stages, At(s), NEW d, Replaced(d), Advanced(calls[1], d),
         TopFrameChanges,
         s \in {"gather", "lookup"} => d.object = calls[1].object,
         d.ret = "local" /\ d.object # NoRef => d.object \in frames'[Len(frames')],
         s = "pass" /\ d.framePushed /\ d.ret = "local" => d.object = NoRef,
         s = "pass" /\ d.ret = "global" /\ d.object # NoRef => d.object \in globals',
         globals' \subseteq Refs, pending' \in Exceptions \cup {NoException},
         thrown' = thrown, made' = made
  PROVE  FInv'
<1> DEFINE c == calls[1]
<1>1. calls # << >> /\ thrown = NoException /\ ~c.native /\ Stage(c) = s /\ s # "leave"
  BY AtFacts DEF Stages
<1>2. c \in CallRecords /\ CallOK(c) /\ Fits(c, frames) /\ InnerOK(c, frames, globals, thrown)
  BY <1>1, TopFacts
<1>3. d \in CallRecords /\ d.before = c.before /\ d.native = c.native /\ d.ret = c.ret
      /\ d.framePushed = c.framePushed /\ d.hadFrame = c.hadFrame /\ d.op = c.op
  BY DEF Advanced
<1>4. /\ s \in {"jni", "check", "convert", "pass", "resolve"} => Stage(d) \notin Early
      /\ Stage(d) = "leave" => s = "pass" \/ c.ret = "void"
  BY <1>1, <1>2, <1>3, StageSteps DEF CallOK, Advanced
<1>5. Stage(d) \in Early => d.object = NoRef
  BY <1>1, <1>2, <1>4 DEF CallOK, Stages, Early
<1>6. CallOK(d)
  BY <1>1, <1>2, <1>3, <1>5 DEF CallOK
<1>7. Fits(d, frames')
  BY <1>2, <1>3, FitsSame DEF TopFrameChanges, FInv, Types
<1>8. InnerOK(d, frames', globals', thrown')
  BY <1>1, <1>2, <1>3, <1>4 DEF InnerOK
<1>9. QED
  BY <1>1, <1>3, <1>6, <1>7, <1>8, TopChanges DEF TopFrameChanges, FInv, Types

-----------------------------------------------------------------------------
(* One lemma per action. *)

LEMMA LiveFrames == FInv => Fresh(frames) \subseteq Refs
BY DEF Fresh

LEMMA WithTop ==
  ASSUME FInv, NEW r \in Refs \cup {NoRef}, frames' = With(frames, r)
  PROVE  TopFrameChanges /\ frames[Len(frames)] \subseteq frames'[Len(frames')]
         /\ (r # NoRef => r \in frames'[Len(frames')])
BY WithFacts DEF TopFrameChanges, FInv, Types

LEMMA SameTop ==
  ASSUME FInv, UNCHANGED frames
  PROVE  TopFrameChanges
BY DEF TopFrameChanges, FInv, Types

(* The call proceeds with the object it has. *)
LEMMA JustProceeds ==
  ASSUME FInv, NEW s \in Stages \ {"pass"}, At(s), Proceed, TopFrameChanges,
         frames[Len(frames)] \subseteq frames'[Len(frames')],
         globals' = globals, pending' \in Exceptions \cup {NoException},
         thrown' = thrown, made' = made
  PROVE  FInv'
<1>1. calls # << >> /\ Stage(calls[1]) # "leave" /\ calls[1].object \in Refs \cup {NoRef}
  BY AtFacts, TopFacts, RecordFacts DEF Stages
<1>2. PICK d : Replaced(d) /\ Advanced(calls[1], d) /\ d.object = calls[1].object
  BY <1>1, Proceeds
<1>3. d.ret = "local" /\ d.object # NoRef => d.object \in frames'[Len(frames')]
  BY <1>1, <1>2, TopFacts DEF InnerOK, Advanced
<1>4. QED
  BY <1>2, <1>3, Advances DEF FInv, Types

LEMMA GatherKeeps == FInv /\ Gather => FInv'
<1> SUFFICES ASSUME FInv, Gather PROVE FInv'
  OBVIOUS
<1>1. PICK r \in Fresh(frames) \cup {NoRef} : frames' = With(frames, r)
  BY DEF Gather
<1>2. r \in Refs \cup {NoRef}
  BY LiveFrames
<1>3. QED
  BY <1>1, <1>2, WithTop, JustProceeds DEF Gather, Stages, FInv, Types

LEMMA LookupCachedKeeps == FInv /\ LookupCached => FInv'
<1> SUFFICES ASSUME FInv, LookupCached PROVE FInv'
  OBVIOUS
<1>1. TopFrameChanges /\ frames[Len(frames)] \subseteq frames'[Len(frames')]
  BY SameTop DEF LookupCached
<1>2. QED
  BY <1>1, JustProceeds DEF LookupCached, Stages, FInv, Types

LEMMA ResolveKeeps == FInv /\ Resolve => FInv'
<1> SUFFICES ASSUME FInv, Resolve PROVE FInv'
  OBVIOUS
<1>1. TopFrameChanges /\ frames[Len(frames)] \subseteq frames'[Len(frames')]
  BY SameTop DEF Resolve
<1>2. QED
  BY <1>1, JustProceeds DEF Resolve, Stages, FInv, Types

LEMMA RaisedType ==
  ASSUME NEW c \in CallRecords, NEW w \in {"java", "memory", "details", "noSingleton"}
  PROVE  Raised(c, w) \in Exceptions
BY DEF CallRecords, Raised, Exceptions

LEMMA JniRaisesKeeps == FInv /\ JniRaises => FInv'
<1> SUFFICES ASSUME FInv, JniRaises PROVE FInv'
  OBVIOUS
<1>1. TopFrameChanges /\ frames[Len(frames)] \subseteq frames'[Len(frames')]
  BY SameTop DEF JniRaises
<1>2. pending' \in Exceptions
  BY AtFacts, TopFacts, RaisedType DEF JniRaises
<1>3. QED
  BY <1>1, <1>2, JustProceeds DEF JniRaises, Stages

LEMMA JniReturnsKeeps == FInv /\ JniReturns => FInv'
<1> SUFFICES ASSUME FInv, JniReturns PROVE FInv'
  OBVIOUS
<1>1. PICK r \in Refs \cup {NoRef} :
        frames' = With(frames, r) /\ calls' = Next1([calls EXCEPT ![1].object = r])
  BY LiveFrames DEF JniReturns
<1>2. calls # << >> /\ Stage(calls[1]) # "leave" /\ At("jni")
  BY AtFacts DEF JniReturns
<1>3. PICK d : Replaced(d) /\ Advanced(calls[1], d) /\ d.object = r
  BY <1>1, <1>2, Proceeds
<1>4. TopFrameChanges /\ (r # NoRef => r \in frames'[Len(frames')])
  BY <1>1, WithTop
<1>5. QED
  BY <1>2, <1>3, <1>4, Advances DEF JniReturns, Stages, FInv, Types

(* An exception is thrown: the call stays where it is. *)
LEMMA ThrowsFrom ==
  ASSUME FInv, NEW s \in Stages, At(s), TopFrameChanges, UNCHANGED <<calls, globals, made>>,
         frames[Len(frames)] \subseteq frames'[Len(frames')],
         thrown' \in Exceptions, pending' \in Exceptions \cup {NoException}
  PROVE  FInv'
<1> DEFINE d == calls[1]
<1>1. calls # << >> /\ ~d.native /\ Stage(d) # "leave"
  BY AtFacts DEF Stages
<1>2. d \in CallRecords /\ CallOK(d) /\ Fits(d, frames) /\ InnerOK(d, frames, globals, thrown)
  BY <1>1, TopFacts
<1>3. Replaced(d)
  BY <1>1 DEF Replaced, FInv, Types
<1>4. Fits(d, frames')
  BY <1>2, FitsSame DEF TopFrameChanges, FInv, Types
<1>5. InnerOK(d, frames', globals', thrown')
  BY <1>1, <1>2 DEF InnerOK, TopFrameChanges
<1>6. QED
  BY <1>1, <1>2, <1>3, <1>4, <1>5, TopChanges DEF TopFrameChanges, FInv, Types

LEMMA NoSingletonKeeps == FInv /\ NoSingleton => FInv'
<1> SUFFICES ASSUME FInv, NoSingleton PROVE FInv'
  OBVIOUS
<1>1. TopFrameChanges /\ frames[Len(frames)] \subseteq frames'[Len(frames')]
  BY SameTop DEF NoSingleton
<1>2. thrown' \in Exceptions
  BY AtFacts, TopFacts, RaisedType DEF NoSingleton
<1>3. QED
  BY <1>1, <1>2, ThrowsFrom DEF NoSingleton, Stages, FInv, Types

LEMMA CheckKeeps == FInv /\ CheckForExceptions => FInv'
<1> SUFFICES ASSUME FInv, CheckForExceptions PROVE FInv'
  OBVIOUS
<1>1. CASE Proceed /\ UNCHANGED <<frames, pending, thrown>>
  <2>1. TopFrameChanges /\ frames[Len(frames)] \subseteq frames'[Len(frames')]
    BY <1>1, SameTop
  <2>2. QED
    BY <1>1, <2>1, JustProceeds DEF CheckForExceptions, Stages, FInv, Types
<1>2. CASE pending # NoException /\ thrown' = pending /\ UNCHANGED calls
  <2>1. PICK r \in Refs \cup {NoRef} : frames' = With(frames, r)
    BY <1>2, LiveFrames DEF CheckForExceptions
  <2>2. TopFrameChanges /\ frames[Len(frames)] \subseteq frames'[Len(frames')]
    BY <2>1, WithTop
  <2>3. thrown' \in Exceptions
    BY <1>2 DEF FInv, Types
  <2>4. pending' \in Exceptions \cup {NoException}
    <3>1. Raised(Top, "details") \in Exceptions
      BY AtFacts, TopFacts, RaisedType DEF CheckForExceptions
    <3>2. QED
      BY <1>2, <3>1 DEF CheckForExceptions
  <2>5. QED
    BY <1>2, <2>2, <2>3, <2>4, ThrowsFrom DEF CheckForExceptions, Stages
<1>3. QED
  BY <1>1, <1>2 DEF CheckForExceptions

LEMMA ConvertKeeps == FInv /\ ConvertToCpp => FInv'
<1> SUFFICES ASSUME FInv, ConvertToCpp PROVE FInv'
  OBVIOUS
<1>1. calls # << >> /\ Stage(calls[1]) # "leave" /\ At("convert") /\ Top = calls[1]
  BY AtFacts DEF ConvertToCpp
<1>2. CASE Top.ret = "string"
  <2>1. PICK d : Replaced(d) /\ Advanced(calls[1], d) /\ d.object = NoRef
    BY <1>1, <1>2, Proceeds DEF ConvertToCpp
  <2>2. frames' = Without(frames, Top.object)
    BY <1>2 DEF ConvertToCpp
  <2>3. TopFrameChanges
    BY <2>2, WithoutFacts DEF TopFrameChanges, FInv, Types
  <2>4. QED
    BY <1>1, <2>1, <2>3, Advances DEF ConvertToCpp, Stages, FInv, Types
<1>3. CASE Top.ret # "string"
  <2>1. TopFrameChanges /\ frames[Len(frames)] \subseteq frames'[Len(frames')]
    BY <1>3, SameTop DEF ConvertToCpp
  <2>2. QED
    BY <1>3, <2>1, JustProceeds DEF ConvertToCpp, Stages, FInv, Types
<1>4. QED
  BY <1>2, <1>3

LEMMA PassValueKeeps == FInv /\ PassValue => FInv'
<1> SUFFICES ASSUME FInv, PassValue PROVE FInv'
  OBVIOUS
<1>1. calls # << >> /\ Stage(calls[1]) # "leave" /\ At("pass") /\ Top = calls[1]
      /\ calls[1].object \in Refs \cup {NoRef}
  BY AtFacts, TopFacts, RecordFacts DEF PassValue
<1>2. PICK d : Replaced(d) /\ Advanced(calls[1], d) /\ d.object = calls[1].object
  BY <1>1, Proceeds DEF PassValue
<1>3. d.object = NoRef \/ d.ret \notin {"local", "global"}
  BY <1>1, <1>2 DEF PassValue, Advanced
<1>4. TopFrameChanges
  BY SameTop DEF PassValue
<1>5. QED
  BY <1>1, <1>2, <1>3, <1>4, Advances DEF PassValue, Stages, FInv, Types

LEMMA PassGlobalKeeps == FInv /\ PassGlobal => FInv'
<1> SUFFICES ASSUME FInv, PassGlobal PROVE FInv'
  OBVIOUS
<1>1. /\ calls # << >> /\ Stage(calls[1]) # "leave" /\ At("pass") /\ Top = calls[1]
      /\ calls[1].ret = "global"
  BY AtFacts DEF PassGlobal
<1>2. TopFrameChanges
  BY WithoutFacts DEF PassGlobal, TopFrameChanges, FInv, Types
<1>3. PICK o \in Refs \cup {NoRef} :
        /\ calls' = Next1([calls EXCEPT ![1].object = o])
        /\ o # NoRef => o \in globals'
        /\ globals' \subseteq Refs
  <2>1. CASE \E r \in Fresh(frames) : /\ globals' = globals \cup {r}
                                      /\ calls' = Next1([calls EXCEPT ![1].object = r])
    BY <2>1, LiveFrames DEF FInv, Types
  <2>2. CASE globals' = globals /\ calls' = Next1([calls EXCEPT ![1].object = NoRef])
    BY <2>2 DEF FInv, Types
  <2>3. QED
    BY <2>1, <2>2 DEF PassGlobal
<1>4. PICK d : Replaced(d) /\ Advanced(calls[1], d) /\ d.object = o
  BY <1>1, <1>3, Proceeds
<1>5. d.ret = "global"
  BY <1>1, <1>4 DEF Advanced
<1>6. QED
  BY <1>1, <1>2, <1>3, <1>4, <1>5, Advances DEF PassGlobal, Stages, FInv, Types


LEMMA SameSequence ==
  ASSUME NEW S, NEW q \in Seq(S), NEW p \in Seq(S), Len(p) = Len(q),
         \A k \in 1..Len(q) : p[k] = q[k]
  PROVE  p = q
OBVIOUS

(* Without native code in it, a call with a frame has it on top, and below *)
(* the frames it was made on.                                              *)
LEMMA BelowFrame ==
  ASSUME FInv, calls # << >>, ~calls[1].native, calls[1].framePushed
  PROVE  Popped = calls[1].before /\ calls[1].before \in Seq(SUBSET Refs) /\ calls[1].before # << >>
<1> DEFINE b == calls[1].before
<1>1. b \in Seq(SUBSET Refs) /\ Len(b) \in Nat /\ Len(b) >= 1
  BY TopFacts, RecordFacts DEF CallOK
<1>2. Len(frames) = Len(b) + 1 + 0 /\ \A k \in 1..Len(b) : frames[k] = b[k]
  BY TopFacts DEF Fits, Kept
<1>3. frames \in Seq(SUBSET Refs)
  BY DEF FInv, Types
<1> HIDE DEF b
<1>4. Len(frames) >= 2 /\ Len(frames) - 1 = Len(b)
  BY <1>1, <1>2
<1>5. /\ Popped \in Seq(SUBSET Refs) /\ Len(Popped) = Len(b)
      /\ \A k \in 1..Len(b) : Popped[k] = frames[k]
  BY <1>3, <1>4, Fronts DEF Popped
<1>6. Popped = b
  BY <1>1, <1>2, <1>5, SameSequence
<1>7. QED
  BY <1>1, <1>6, NotEmpty DEF b

LEMMA PassLocalKeeps == FInv /\ PassLocal => FInv'
<1> SUFFICES ASSUME FInv, PassLocal PROVE FInv'
  OBVIOUS
<1> DEFINE c == calls[1]
<1>1. /\ calls # << >> /\ Stage(c) = "pass" /\ At("pass") /\ Top = c /\ thrown = NoException
      /\ ~c.native /\ c.ret = "local" /\ c.object # NoRef
  BY AtFacts DEF PassLocal
<1>2. /\ c \in CallRecords /\ CallOK(c) /\ Fits(c, frames)
      /\ InnerOK(c, frames, globals, thrown)
  BY <1>1, TopFacts
<1>3. CASE c.framePushed
  <2>1. Popped = c.before /\ c.before \in Seq(SUBSET Refs) /\ c.before # << >>
    BY <1>1, <1>3, BelowFrame
  <2>2. PICK r \in Refs :
          /\ frames' = With(c.before, r)
          /\ calls' = Next1([calls EXCEPT ![1].object = r, ![1].framePushed = FALSE])
    BY <1>1, <1>3, <2>1 DEF PassLocal, Fresh
  <2> DEFINE d == [c EXCEPT !.object = r, !.framePushed = FALSE, !.stage = @ + 1]
  <2>3. c.stage + 1 \in 1..7
    <3> DEFINE e == [op |-> c.op, stage |-> c.stage + 1]
    <3>1. e.stage \in 1..7
      BY <1>1, <1>2, StageSteps DEF CallOK
    <3>2. QED
      BY <3>1
  <2>4. /\ d \in CallRecords /\ d.stage = c.stage + 1 /\ d.op = c.op /\ d.ret = c.ret
        /\ d.object = r /\ d.framePushed = FALSE /\ d.native = c.native
        /\ d.hadFrame = c.hadFrame /\ d.before = c.before
    BY <1>2, <2>3 DEF CallRecords
  <2>5. calls' = [calls EXCEPT ![1] = d]
    BY <1>1, <1>2, <2>2 DEF Next1, CallRecords, FInv, Types
  <2> HIDE DEF d
  <2>6. Replaced(d)
    BY <1>1, <2>4, <2>5, HeadReplaced DEF Replaced, FInv, Types
  <2>7. Stage(d) = "leave"
    BY <1>1, <1>2, <2>4, StageSteps DEF CallOK
  <2>8. CallOK(d)
    BY <1>1, <1>2, <2>4, <2>7 DEF CallOK, Early
  <2>9. /\ frames' \in Seq(SUBSET Refs) /\ frames' # << >> /\ Len(frames') = Len(c.before)
        /\ \A k \in 1..Len(c.before) - 1 : frames'[k] = c.before[k]
        /\ r \in frames'[Len(frames')] /\ r # NoRef
    BY <2>1, <2>2, WithFacts, InvocationAssumption
  <2>10. Fits(d, frames')
    <3>1. ~d.framePushed /\ ~d.native
      BY <1>1, <2>4
    <3>2. QED
      BY <2>4, <2>9, <3>1, FitsCases
  <2>11. InnerOK(d, frames', globals', thrown')
    BY <1>1, <1>2, <2>2, <2>4, <2>7, <2>9 DEF InnerOK, PassLocal
  <2>12. QED
    BY <1>1, <2>4, <2>6, <2>8, <2>9, <2>10, <2>11, TopChanges DEF PassLocal, FInv, Types
<1>4. CASE ~c.framePushed
  <2>1. PICK d : Replaced(d) /\ Advanced(c, d) /\ d.object = c.object
    BY <1>1, <1>2, <1>4, Proceeds, RecordFacts DEF PassLocal
  <2>2. TopFrameChanges /\ frames' = frames
    BY <1>1, <1>4, SameTop DEF PassLocal
  <2>3. d.object \in frames'[Len(frames')] /\ ~d.framePushed /\ d.ret = "local"
    BY <1>1, <1>2, <1>4, <2>1, <2>2 DEF InnerOK, Advanced
  <2>4. QED
    BY <1>1, <2>1, <2>2, <2>3, Advances DEF PassLocal, Stages, FInv, Types
<1>5. QED
  BY <1>3, <1>4

LEMMA ResolveIsInfo ==
  ASSUME NEW c \in CallRecords, Stage(c) = "resolve", c.ret \in Results[c.op]
  PROVE  c.ret = "void"
<1>1. c.op \in {"method", "constructor", "get", "set", "create", "element", "info"}
  BY DEF CallRecords, Ops, Route
<1>2. c.op = "info"
  BY <1>1 DEF Stage, Route
<1>3. QED
  BY <1>2 DEF Results

(* Whoever makes a call may have to wait for it. *)
LEMMA CallerOK ==
  ASSUME FInv, calls # << >>, NEW op, NEW ret, MayEnter(op, ret)
  PROVE  OuterOK(calls[1])
<1> DEFINE c == calls[1]
<1>1. c \in CallRecords /\ CallOK(c) /\ InnerOK(c, frames, globals, thrown) /\ Top = c
  BY TopFacts
<1>2. c.framePushed \in BOOLEAN /\ c.hadFrame \in BOOLEAN /\ c.native \in BOOLEAN
  BY <1>1, RecordFacts
<1>3. CASE c.native
  <2>1. Stage(c) = "jni" /\ c.object = NoRef
    BY <1>1, <1>3 DEF CallOK, Early
  <2>2. c.framePushed = c.hadFrame
    BY <1>1, <1>2, <2>1 DEF CallOK, InnerOK
  <2>3. QED
    BY <1>3, <2>1, <2>2 DEF OuterOK
<1>4. CASE ~c.native
  <2>1. Stage(c) \in Calling /\ (Stage(c) = "convert" => c.ret = "value")
    BY <1>1, <1>4 DEF MayEnter, ClientRuns, At, Calling
  <2>2. c.framePushed = c.hadFrame
    BY <1>1, <1>2, <2>1 DEF CallOK, InnerOK, Calling
  <2>3. c.ret = "local" => c.object = NoRef
    BY <1>1, <2>1, ResolveIsInfo DEF CallOK, Early, Calling
  <2>4. QED
    BY <2>1, <2>2, <2>3 DEF OuterOK
<1>5. QED
  BY <1>3, <1>4

LEMMA EnterKeeps ==
  ASSUME FInv, NEW op \in Ops, NEW ret \in Results[op], Enter(op, ret)
  PROVE  FInv'
<1> DEFINE c == [id |-> made + 1, op |-> op, ret |-> ret, stage |-> 1, framePushed |-> TRUE,
                 object |-> NoRef, native |-> FALSE, hadFrame |-> TRUE, before |-> frames]
           e == [c EXCEPT !.framePushed = FALSE, !.hadFrame = FALSE]
<1>1. /\ made \in 0..MaxCalls /\ made < MaxCalls /\ MaxCalls \in Nat
      /\ frames \in Seq(SUBSET Refs) /\ frames # << >> /\ Len(frames) >= 1
  BY InvocationAssumption, NotEmpty DEF Enter, FInv, Types
<1>2. /\ c \in CallRecords /\ c.op = op /\ c.ret = ret /\ c.framePushed = TRUE
      /\ c.hadFrame = TRUE /\ c.native = FALSE /\ c.object = NoRef /\ c.before = frames
  BY <1>1 DEF CallRecords
<1>3. /\ e \in CallRecords /\ e.op = op /\ e.ret = ret /\ e.framePushed = FALSE
      /\ e.hadFrame = FALSE /\ e.native = FALSE /\ e.object = NoRef /\ e.before = frames
  BY <1>2 DEF CallRecords
<1>4. calls # << >> => OuterOK(calls[1])
  BY CallerOK DEF Enter
<1>5. \/ frames' = Append(frames, {}) /\ calls' = <<c>> \o calls /\ pending' = pending
      \/ frames' = frames /\ calls' = <<e>> \o calls /\ pending' = Raised(c, "memory")
  BY DEF Enter
<1>6. made' \in 0..MaxCalls /\ globals' = globals /\ thrown' = thrown /\ Len(calls) < MaxDepth
  BY <1>1 DEF Enter
<1> HIDE DEF c, e
<1>7. CASE frames' = Append(frames, {}) /\ calls' = <<c>> \o calls /\ pending' = pending
  <2>1. /\ frames' \in Seq(SUBSET Refs) /\ Len(frames') = Len(frames) + 1 /\ frames' # << >>
        /\ \A k \in 1..Len(frames) : frames'[k] = frames[k]
    BY <1>1, <1>7, Appends
  <2>2. CallOK(c)
    BY <1>1, <1>2 DEF CallOK
  <2>3. Fits(c, frames')
    BY <1>2, <2>1, FitsCases
  <2>4. InnerOK(c, frames', globals', thrown')
    BY <1>2 DEF InnerOK
  <2>5. QED
    BY <1>2, <1>4, <1>6, <1>7, <2>1, <2>2, <2>3, <2>4, CallStarts DEF FInv, Types
<1>8. CASE frames' = frames /\ calls' = <<e>> \o calls /\ pending' = Raised(c, "memory")
  <2>1. CallOK(e)
    BY <1>1, <1>3 DEF CallOK
  <2>2. Fits(e, frames')
    BY <1>1, <1>3, <1>8, FitsCases
  <2>3. InnerOK(e, frames', globals', thrown')
    BY <1>3 DEF InnerOK
  <2>4. Raised(c, "memory") \in Exceptions
    BY <1>2, RaisedType
  <2>5. QED
    BY <1>1, <1>3, <1>4, <1>6, <1>8, <2>1, <2>2, <2>3, <2>4, CallStarts DEF FInv, Types
<1>9. QED
  BY <1>5, <1>7, <1>8

(* Native code runs in the innermost call, or no call is in progress. *)
LEMMA NativeCalledKeeps == FInv /\ NativeCalled => FInv'
<1> SUFFICES ASSUME FInv, NativeCalled PROVE FInv'
  OBVIOUS
<1> DEFINE c == calls[1]
           d == [c EXCEPT !.native = TRUE]
<1>1. calls # << >> /\ thrown = NoException /\ ~c.native /\ Stage(c) = "jni"
  BY AtFacts DEF NativeCalled
<1>2. c \in CallRecords /\ CallOK(c) /\ Fits(c, frames) /\ InnerOK(c, frames, globals, thrown)
  BY <1>1, TopFacts
<1>3. frames \in Seq(SUBSET Refs) /\ Len(frames) \in Nat /\ Len(c.before) \in Nat
  BY <1>2, RecordFacts DEF FInv, Types
<1>4. calls' = [calls EXCEPT ![1] = d] /\ frames' = Append(frames, {})
  BY DEF NativeCalled
<1>5. /\ d \in CallRecords /\ d.op = c.op /\ d.ret = c.ret /\ d.stage = c.stage
      /\ d.framePushed = c.framePushed /\ d.hadFrame = c.hadFrame /\ d.object = c.object
      /\ d.before = c.before /\ d.native = TRUE
  BY <1>2 DEF CallRecords
<1>6. Stage(d) = "jni"
  BY <1>1, <1>5 DEF Stage
<1> HIDE DEF d, c
<1>7. c.object = NoRef
  BY <1>1, <1>2 DEF CallOK, Early
<1>8. Replaced(d)
  BY <1>1, <1>4, <1>5, HeadReplaced DEF Replaced, FInv, Types
<1>9. /\ frames' \in Seq(SUBSET Refs) /\ Len(frames') = Len(frames) + 1 /\ frames' # << >>
      /\ \A k \in 1..Len(frames) : frames'[k] = frames[k]
  BY <1>3, <1>4, Appends
<1>10. CallOK(d)
  BY <1>2, <1>5, <1>6, <1>7 DEF CallOK
<1>11. Fits(d, frames')
  <2>1. CASE c.framePushed
    <3>1. Len(frames) = Len(c.before) + 1 /\ \A k \in 1..Len(c.before) : frames[k] = c.before[k]
      BY <1>1, <1>2, <1>3, <2>1, FitsCases DEF c
    <3>2. Len(frames') = Len(c.before) + 2
          /\ \A k \in 1..Len(c.before) : frames'[k] = c.before[k]
      BY <1>3, <1>9, <3>1
    <3>3. QED
      BY <1>5, <1>9, <2>1, <3>2, FitsCases
  <2>2. CASE ~c.framePushed
    <3>1. Len(frames) = Len(c.before) /\ \A k \in 1..Len(c.before) - 1 : frames[k] = c.before[k]
      BY <1>1, <1>2, <1>3, <2>2, FitsCases DEF c
    <3>2. Len(frames') = Len(c.before) + 1
          /\ \A k \in 1..Len(c.before) - 1 : frames'[k] = c.before[k]
      BY <1>3, <1>9, <3>1
    <3>3. QED
      BY <1>5, <1>9, <2>2, <3>2, FitsCases
  <2>3. QED
    BY <2>1, <2>2
<1>12. InnerOK(d, frames', globals', thrown')
  BY <1>1, <1>2, <1>5, <1>6, <1>7 DEF InnerOK, NativeCalled
<1>13. QED
  BY <1>1, <1>5, <1>8, <1>9, <1>10, <1>11, <1>12, TopChanges DEF NativeCalled, FInv, Types, c

LEMMA NativeReturnsKeeps == FInv /\ NativeReturns => FInv'
<1> SUFFICES ASSUME FInv, NativeReturns PROVE FInv'
  OBVIOUS
<1> DEFINE c == calls[1]
           d == [c EXCEPT !.native = FALSE]
<1>1. calls # << >> /\ thrown = NoException /\ c.native
  BY TopFacts DEF NativeReturns, ClientRuns
<1>2. c \in CallRecords /\ CallOK(c) /\ Fits(c, frames) /\ InnerOK(c, frames, globals, thrown)
  BY <1>1, TopFacts
<1>3. /\ frames \in Seq(SUBSET Refs) /\ Len(frames) \in Nat
      /\ Len(c.before) \in Nat /\ Len(c.before) >= 1
  BY <1>2, RecordFacts DEF FInv, Types, CallOK
<1>4. calls' = [calls EXCEPT ![1] = d] /\ frames' = Popped
  BY DEF NativeReturns
<1>5. /\ d \in CallRecords /\ d.op = c.op /\ d.ret = c.ret /\ d.stage = c.stage
      /\ d.framePushed = c.framePushed /\ d.hadFrame = c.hadFrame /\ d.object = c.object
      /\ d.before = c.before /\ d.native = FALSE
  BY <1>2 DEF CallRecords
<1>6. Stage(d) = "jni" /\ c.object = NoRef /\ Stage(c) = "jni"
  BY <1>1, <1>2, <1>5 DEF Stage, CallOK, Early
<1> HIDE DEF d, c
<1>7. Replaced(d)
  BY <1>1, <1>4, <1>5, HeadReplaced DEF Replaced, FInv, Types
<1>8. Len(frames) >= 2
  BY <1>1, <1>2, <1>3, FitsCases
<1>9. /\ frames' \in Seq(SUBSET Refs) /\ Len(frames') = Len(frames) - 1 /\ frames' # << >>
      /\ \A k \in 1..Len(frames) - 1 : frames'[k] = frames[k]
  BY <1>3, <1>4, <1>8, Fronts DEF Popped
<1>10. CallOK(d)
  BY <1>2, <1>5, <1>6 DEF CallOK
<1>11. Fits(d, frames')
  <2>1. CASE c.framePushed
    <3>1. Len(frames) = Len(c.before) + 2 /\ \A k \in 1..Len(c.before) : frames[k] = c.before[k]
      BY <1>1, <1>2, <1>3, <2>1, FitsCases
    <3>2. Len(frames') = Len(c.before) + 1
          /\ \A k \in 1..Len(c.before) : frames'[k] = c.before[k]
      BY <1>3, <1>9, <3>1
    <3>3. QED
      BY <1>5, <1>9, <2>1, <3>2, FitsCases
  <2>2. CASE ~c.framePushed
    <3>1. /\ Len(frames) = Len(c.before) + 1
          /\ \A k \in 1..Len(c.before) - 1 : frames[k] = c.before[k]
      BY <1>1, <1>2, <1>3, <2>2, FitsCases
    <3>2. Len(frames') = Len(c.before)
          /\ \A k \in 1..Len(c.before) - 1 : frames'[k] = c.before[k]
      BY <1>3, <1>9, <3>1
    <3>3. QED
      BY <1>5, <1>9, <2>2, <3>2, FitsCases
  <2>3. QED
    BY <2>1, <2>2
<1>12. InnerOK(d, frames', globals', thrown')
  BY <1>1, <1>2, <1>5, <1>6 DEF InnerOK, NativeReturns
<1>13. QED
  BY <1>1, <1>5, <1>7, <1>9, <1>10, <1>11, <1>12, TopChanges
  DEF NativeReturns, FInv, Types, c

(* The frames a call leaves behind are those it was made on, but for the   *)
(* top one where it had no frame of its own.                               *)
LEMMA FramesAtEnd ==
  ASSUME FInv, calls # << >>, ~calls[1].native, ReleaseLocalRefs
  PROVE  /\ frames' \in Seq(SUBSET Refs) /\ frames' # << >>
         /\ Len(frames') = Len(calls[1].before)
         /\ \A k \in 1..Len(frames') - 1 : frames'[k] = calls[1].before[k]
         /\ calls[1].framePushed => frames' = calls[1].before
         /\ ~calls[1].framePushed => frames' = frames
<1> DEFINE c == calls[1]
<1>1. c \in CallRecords /\ Fits(c, frames) /\ Top = c
  BY TopFacts
<1>2. CASE c.framePushed
  <2>1. frames' = c.before /\ c.before \in Seq(SUBSET Refs) /\ c.before # << >>
    BY <1>1, <1>2, BelowFrame DEF ReleaseLocalRefs
  <2>2. QED
    BY <1>2, <2>1
<1>3. CASE ~c.framePushed
  <2>1. frames' = frames /\ frames \in Seq(SUBSET Refs) /\ frames # << >>
    BY <1>1, <1>3 DEF ReleaseLocalRefs, FInv, Types
  <2>2. QED
    BY <1>1, <1>3, <2>1, FitsCases
<1>4. QED
  BY <1>2, <1>3

LEMMA CallerFacts ==
  ASSUME FInv, calls # << >>
  PROVE  /\ Tail(calls) \in Seq(CallRecords)
         /\ Tail(calls) # << >> =>
              /\ Head(Tail(calls)) = calls[2] /\ Tail(calls)[1] = calls[2]
              /\ calls[2] \in CallRecords /\ CallOK(calls[2]) /\ OuterOK(calls[2])
<1>1. calls \in Seq(CallRecords) /\ Len(calls) \in Nat
  BY DEF FInv, Types
<1>2. Tail(calls) \in Seq(CallRecords) /\ Len(Tail(calls)) = Len(calls) - 1
      /\ \A k \in 1..Len(calls) - 1 : Tail(calls)[k] = calls[k + 1]
  BY <1>1, Tails
<1>3. ASSUME Tail(calls) # << >>
      PROVE  /\ Head(Tail(calls)) = calls[2] /\ Tail(calls)[1] = calls[2]
             /\ calls[2] \in CallRecords /\ 2 \in 2..Len(calls) /\ 2 \in 1..Len(calls)
  <2>1. Len(Tail(calls)) >= 1
    BY <1>2, <1>3, NotEmpty
  <2>2. 1 \in 1..Len(calls) - 1 /\ 2 \in 2..Len(calls) /\ 2 \in 1..Len(calls)
    BY <1>1, <1>2, <2>1
  <2>3. Tail(calls)[1] = calls[2] /\ calls[2] \in CallRecords
    BY <1>1, <1>2, <2>2
  <2>4. Head(Tail(calls)) = Tail(calls)[1]
    BY <1>2, <1>3
  <2>5. QED
    BY <2>2, <2>3, <2>4
<1>4. QED
  BY <1>2, <1>3 DEF FInv, CallsInv

LEMMA LeaveKeeps == FInv /\ Leave => FInv'
<1> SUFFICES ASSUME FInv, Leave PROVE FInv'
  OBVIOUS
<1> DEFINE rest == Tail(calls)
           o == calls[2]
           d == [o EXCEPT !.stage = @ + 1]
<1>1. calls # << >> /\ thrown = NoException /\ ~calls[1].native
  BY AtFacts DEF Leave
<1>2. /\ frames' \in Seq(SUBSET Refs) /\ frames' # << >>
      /\ Len(frames') = Len(calls[1].before)
      /\ \A k \in 1..Len(frames') - 1 : frames'[k] = calls[1].before[k]
  BY <1>1, FramesAtEnd DEF Leave
<1>3. /\ globals' \subseteq Refs /\ pending' \in Exceptions \cup {NoException}
      /\ thrown' \in Exceptions \cup {NoException} /\ made' = made /\ thrown' = NoException
  BY <1>1 DEF Leave, FInv, Types
<1>4. CASE rest # << >> /\ ~o.native
  <2>1. /\ Head(rest) = o /\ rest[1] = o /\ o \in CallRecords /\ CallOK(o) /\ OuterOK(o)
        /\ rest \in Seq(CallRecords)
    BY <1>1, <1>4, CallerFacts
  <2>2. Stage(o) \in Calling /\ o.ret \in Results[o.op]
    BY <1>4, <2>1 DEF OuterOK, CallOK
  <2>3. o.stage + 1 \in 1..7
    <3> DEFINE e == [op |-> o.op, stage |-> o.stage + 1]
    <3>1. e.stage \in 1..7
      BY <2>1, <2>2, StageSteps DEF Calling
    <3>2. QED
      BY <3>1
  <2>4. /\ d \in CallRecords /\ d.stage = o.stage + 1 /\ d.op = o.op /\ d.ret = o.ret
        /\ d.framePushed = o.framePushed /\ d.native = o.native /\ d.object = o.object
        /\ d.hadFrame = o.hadFrame /\ d.before = o.before
    BY <2>1, <2>3 DEF CallRecords
  <2>5. calls' = [rest EXCEPT ![1] = d]
    BY <1>4, <2>1 DEF Leave, Next1
  <2> HIDE DEF d, rest
  <2>6. /\ calls' \in Seq(CallRecords) /\ Len(calls') = Len(rest) /\ calls'[1] = d
        /\ \A i \in 2..Len(rest) : calls'[i] = rest[i]
    BY <1>4, <2>1, <2>4, <2>5, HeadReplaced
  <2>7. /\ Stage(o) \in {"resolve", "convert"} => Stage(d) \notin Early
        /\ Stage(d) = "leave" => o.ret = "void"
    BY <2>1, <2>2, <2>4, StageSteps DEF Calling
  <2>8. CallOK(d)
    BY <1>4, <2>1, <2>2, <2>4, <2>7 DEF CallOK, Calling, Early
  <2>9. InnerOK(d, frames', globals', thrown')
    BY <1>3, <2>1, <2>4, <2>7 DEF InnerOK, OuterOK
  <2>10. QED
    BY <1>1, <1>2, <1>3, <2>1, <2>4, <2>6, <2>8, <2>9, CallEnds DEF rest
<1>5. CASE rest = << >> \/ o.native
  <2>1. calls' = rest
    BY <1>1, <1>5, CallerFacts DEF Leave
  <2>2. rest \in Seq(CallRecords)
        /\ (rest # << >> => rest[1] = o /\ o \in CallRecords /\ CallOK(o) /\ OuterOK(o))
    BY <1>1, CallerFacts
  <2>3. rest # << >> => InnerOK(o, frames', globals', thrown')
    BY <1>3, <1>5, <2>2 DEF InnerOK, OuterOK, CallOK
  <2>4. QED
    BY <1>1, <1>2, <1>3, <2>1, <2>2, <2>3, CallEnds
<1>6. QED
  BY <1>4, <1>5

LEMMA UnwindKeeps == FInv /\ Unwind => FInv'
<1> SUFFICES ASSUME FInv, Unwind PROVE FInv'
  OBVIOUS
<1> DEFINE rest == Tail(calls)
           o == calls[2]
<1>1. calls # << >> /\ thrown # NoException /\ ~calls[1].native
  BY TopFacts DEF Unwind, InnerOK
<1>2. /\ frames' \in Seq(SUBSET Refs) /\ frames' # << >>
      /\ Len(frames') = Len(calls[1].before)
      /\ \A k \in 1..Len(frames') - 1 : frames'[k] = calls[1].before[k]
  BY <1>1, FramesAtEnd DEF Unwind
<1>3. /\ globals' \subseteq Refs /\ pending' \in Exceptions \cup {NoException}
      /\ thrown' \in Exceptions \cup {NoException} /\ made' = made /\ calls' = rest
  BY DEF Unwind, FInv, Types
<1>4. rest \in Seq(CallRecords)
      /\ (rest # << >> => /\ rest[1] = o /\ Head(rest) = o /\ o \in CallRecords
                          /\ CallOK(o) /\ OuterOK(o))
  BY <1>1, CallerFacts
<1>5. rest # << >> => InnerOK(o, frames', globals', thrown')
  <2> SUFFICES ASSUME rest # << >> PROVE InnerOK(o, frames', globals', thrown')
    OBVIOUS
  <2>1. CallOK(o) /\ OuterOK(o) /\ Stage(o) # "leave"
    BY <1>4 DEF OuterOK, CallOK, Calling
  <2>2. thrown' # NoException => ~o.native
    BY <1>4 DEF Unwind
  <2>3. QED
    BY <2>1, <2>2 DEF InnerOK, OuterOK
<1>6. QED
  BY <1>1, <1>2, <1>3, <1>4, <1>5, CallEnds

LEMMA DeleteGlobalRefKeeps == FInv /\ DeleteGlobalRef => FInv'
<1> SUFFICES ASSUME FInv, DeleteGlobalRef PROVE FInv'
  OBVIOUS
<1>1. globals' \subseteq Refs /\ UNCHANGED <<frames, pending, thrown, calls, made>>
  BY DEF DeleteGlobalRef, FInv, Types
<1>2. Types'
  BY <1>1 DEF FInv, Types
<1>3. ASSUME calls # << >>
      PROVE  InnerOK(calls[1], frames, globals', thrown)
  <2>1. calls[1].native /\ CallOK(calls[1]) /\ InnerOK(calls[1], frames, globals, thrown)
    BY <1>3, TopFacts DEF DeleteGlobalRef, ClientRuns
  <2>2. Stage(calls[1]) # "leave"
    BY <2>1 DEF CallOK
  <2>3. QED
    BY <2>1, <2>2 DEF InnerOK
<1>4. CallsInv'
  BY <1>1, <1>3 DEF FInv, CallsInv, Under
<1>5. QED
  BY <1>2, <1>4 DEF FInv

-----------------------------------------------------------------------------
LEMMA InitFInv == InvocationInit => FInv
<1> SUFFICES ASSUME InvocationInit PROVE FInv
  OBVIOUS
<1>1. /\ calls = << >> /\ frames = <<{}>> /\ globals = {} /\ pending = NoException
      /\ thrown = NoException /\ made = 0 /\ MaxCalls \in Nat /\ MaxDepth \in Nat
  BY InvocationAssumption DEF InvocationInit
<1>2. Types
  BY <1>1 DEF Types
<1>3. CallsInv
  BY <1>1 DEF CallsInv
<1>4. QED
  BY <1>2, <1>3 DEF FInv

LEMMA StepFInv == FInv /\ [InvocationNext]_vars => FInv'
<1> SUFFICES ASSUME FInv, [InvocationNext]_vars PROVE FInv'
  OBVIOUS
<1>1. ASSUME NEW op \in Ops, NEW ret \in Results[op], Enter(op, ret) PROVE FInv'
  BY <1>1, EnterKeeps
<1>2. CASE Gather
  BY <1>2, GatherKeeps
<1>3. CASE LookupCached
  BY <1>3, LookupCachedKeeps
<1>4. CASE NoSingleton
  BY <1>4, NoSingletonKeeps
<1>5. CASE Resolve
  BY <1>5, ResolveKeeps
<1>6. CASE JniReturns
  BY <1>6, JniReturnsKeeps
<1>7. CASE JniRaises
  BY <1>7, JniRaisesKeeps
<1>8. CASE NativeCalled
  BY <1>8, NativeCalledKeeps
<1>9. CASE NativeReturns
  BY <1>9, NativeReturnsKeeps
<1>10. CASE CheckForExceptions
  BY <1>10, CheckKeeps
<1>11. CASE ConvertToCpp
  BY <1>11, ConvertKeeps
<1>12. CASE PassValue
  BY <1>12, PassValueKeeps
<1>13. CASE PassLocal
  BY <1>13, PassLocalKeeps
<1>14. CASE PassGlobal
  BY <1>14, PassGlobalKeeps
<1>15. CASE Leave
  BY <1>15, LeaveKeeps
<1>16. CASE Unwind
  BY <1>16, UnwindKeeps
<1>17. CASE DeleteGlobalRef
  BY <1>17, DeleteGlobalRefKeeps
<1>18. CASE UNCHANGED vars
  BY <1>18 DEF vars, FInv, Types, CallsInv, Under
<1>19. QED
  BY <1>1, <1>2, <1>3, <1>4, <1>5, <1>6, <1>7, <1>8, <1>9, <1>10, <1>11, <1>12, <1>13,
     <1>14, <1>15, <1>16, <1>17, <1>18 DEF InvocationNext

LEMMA AlwaysFInv == InvocationSpec => []FInv
BY InitFInv, StepFInv, PTL DEF InvocationSpec

(* The state stays in its type, through any nesting of calls, callbacks    *)
(* and exceptions: in particular the thread never runs out of frames, as   *)
(* it would if one were popped twice.                                      *)
THEOREM InvocationTypeCorrect == InvocationSpec => []InvocationTypeOK
<1>1. FInv => InvocationTypeOK
  BY DEF FInv, Types, InvocationTypeOK
<1>2. QED
  BY <1>1, AlwaysFInv, PTL

-----------------------------------------------------------------------------
(* Only the destructor of a call's scope ends the call. *)

LEMMA SameNumber ==
  ASSUME FInv, calls # << >>, NEW o
  PROVE  /\ Len(Next1(calls)) = Len(calls)
         /\ Len(Next1([calls EXCEPT ![1].object = o])) = Len(calls)
         /\ Len(Next1([calls EXCEPT ![1].object = o, ![1].framePushed = FALSE])) = Len(calls)
         /\ Len([calls EXCEPT ![1].native = TRUE]) = Len(calls)
         /\ Len([calls EXCEPT ![1].native = FALSE]) = Len(calls)
<1>1. calls \in Seq(CallRecords)
  BY DEF FInv, Types
<1>2. \A x : Len([calls EXCEPT ![1] = x]) = Len(calls)
  BY <1>1
<1>3. QED
  BY <1>1, <1>2 DEF Next1

LEMMA WhoEnds == FInv /\ [InvocationNext]_vars /\ Ends => Leave \/ Unwind
<1> SUFFICES ASSUME FInv, [InvocationNext]_vars, Len(calls') < Len(calls)
             PROVE  Leave \/ Unwind
  BY DEF Ends
<1>1. Len(calls) \in Nat /\ calls \in Seq(CallRecords)
  BY DEF FInv, Types
<1>2. calls # << >>
  <2>1. Len(calls') \in Nat
    BY StepFInv DEF FInv, Types
  <2>2. Len(calls) # 0 /\ Len(<< >>) = 0
    BY <1>1, <2>1
  <2>3. QED
    BY <2>2
<1>3. calls' # calls /\ Len(calls') # Len(calls)
  BY <1>1
<1>4. ASSUME NEW op \in Ops, NEW ret \in Results[op], Enter(op, ret) PROVE FALSE
  <2>1. \A x : Len(<<x>> \o calls) = Len(calls) + 1
    BY <1>1
  <2>2. Len(calls') = Len(calls) + 1
    BY <1>4, <2>1 DEF Enter
  <2>3. QED
    BY <1>1, <2>2
<1>5. ~Gather /\ ~LookupCached /\ ~Resolve /\ ~JniRaises /\ ~PassValue
  BY <1>2, <1>3, SameNumber DEF Gather, LookupCached, Resolve, JniRaises, PassValue, Proceed
<1>6. ~NoSingleton /\ ~DeleteGlobalRef /\ ~UNCHANGED vars
  BY <1>3 DEF NoSingleton, DeleteGlobalRef, vars
<1>7. ~JniReturns /\ ~PassGlobal /\ ~PassLocal
  <2>1. ~JniReturns
    BY <1>2, <1>3, SameNumber DEF JniReturns
  <2>2. ~PassGlobal
    <3>1. PassGlobal => \E o : calls' = Next1([calls EXCEPT ![1].object = o])
      BY Zenon DEF PassGlobal
    <3>2. QED
      BY <1>2, <1>3, <3>1, SameNumber
  <2>3. ~PassLocal
    BY <1>2, <1>3, SameNumber DEF PassLocal, Proceed
  <2>4. QED
    BY <2>1, <2>2, <2>3
<1>8. ~NativeCalled /\ ~NativeReturns
  BY <1>2, <1>3, SameNumber DEF NativeCalled, NativeReturns
<1>9. ~CheckForExceptions /\ ~ConvertToCpp
  BY <1>2, <1>3, SameNumber DEF CheckForExceptions, ConvertToCpp, Proceed
<1>10. QED
  BY <1>4, <1>5, <1>6, <1>7, <1>8, <1>9 DEF InvocationNext

LEMMA EndFacts ==
  ASSUME FInv, Leave \/ Unwind
  PROVE  /\ calls # << >> /\ ~calls[1].native /\ ReleaseLocalRefs /\ globals' = globals
         /\ thrown = NoException => Stage(calls[1]) = "leave"
<1>1. CASE Leave
  BY <1>1, AtFacts DEF Leave
<1>2. CASE Unwind
  BY <1>2, TopFacts DEF Unwind, InnerOK
<1>3. QED
  BY <1>1, <1>2

(* However a call ends, the frames are those it was made on, and only the  *)
(* local reference it returns is added to the top one.                     *)
THEOREM FramesRestoredAlways == InvocationSpec => FramesRestored
<1>1. ASSUME FInv, [InvocationNext]_vars, Ends
      PROVE  /\ Len(frames') = Len(Top.before)
             /\ Top.hadFrame => frames' = With(Top.before, Result)
  <2> DEFINE c == calls[1]
  <2>1. /\ calls # << >> /\ ~c.native /\ ReleaseLocalRefs
        /\ thrown = NoException => Stage(c) = "leave"
    BY <1>1, WhoEnds, EndFacts
  <2>2. Top = c /\ InnerOK(c, frames, globals, thrown)
    BY <1>1, <2>1, TopFacts
  <2>3. /\ Len(frames') = Len(c.before)
        /\ c.framePushed => frames' = c.before
        /\ ~c.framePushed => frames' = frames
    BY <1>1, <2>1, FramesAtEnd
  <2>4. CASE c.framePushed
    <3>1. Result = NoRef
      BY <2>1, <2>2, <2>4 DEF Result, InnerOK
    <3>2. QED
      BY <2>2, <2>3, <2>4, <3>1 DEF With
  <2>5. CASE c.hadFrame /\ ~c.framePushed
    <3>1. frames = With(c.before, c.object) /\ Result = c.object
      BY <2>2, <2>5 DEF Result, InnerOK
    <3>2. QED
      BY <2>2, <2>3, <2>5, <3>1
  <2>6. QED
    BY <2>2, <2>3, <2>4, <2>5
<1>2. FInv /\ [InvocationNext]_vars =>
        [Ends => /\ Len(frames') = Len(Top.before)
                 /\ Top.hadFrame => frames' = With(Top.before, Result)]_vars
  BY <1>1
<1>3. QED
  BY <1>2, AlwaysFInv, PTL DEF InvocationSpec, FramesRestored

(* A reference that a call returns is live where the caller uses it.       *)
THEOREM ResultIsLiveAlways == InvocationSpec => ResultIsLive
<1>1. ASSUME FInv, [InvocationNext]_vars, Ends, thrown = NoException, Top.object # NoRef
      PROVE  /\ Top.ret = "local" => Top.object \in frames'[Len(frames')]
             /\ Top.ret = "global" => Top.object \in globals'
  <2> DEFINE c == calls[1]
  <2>1. /\ calls # << >> /\ ~c.native /\ ReleaseLocalRefs /\ globals' = globals
        /\ Stage(c) = "leave"
    BY <1>1, WhoEnds, EndFacts
  <2>2. Top = c /\ InnerOK(c, frames, globals, thrown)
    BY <1>1, <2>1, TopFacts
  <2>3. ~c.framePushed => frames' = frames
    BY <1>1, <2>1, FramesAtEnd
  <2>4. QED
    BY <1>1, <2>1, <2>2, <2>3 DEF InnerOK
<1>2. FInv /\ [InvocationNext]_vars =>
        [Ends /\ thrown = NoException /\ Top.object # NoRef =>
           /\ Top.ret = "local" => Top.object \in frames'[Len(frames')]
           /\ Top.ret = "global" => Top.object \in globals']_vars
  BY <1>1
<1>3. QED
  BY <1>2, AlwaysFInv, PTL DEF InvocationSpec, ResultIsLive

-----------------------------------------------------------------------------
(* Exceptions.  A loud one, raised by an operation the code checks, does   *)
(* not stay pending when a call ends: the call that raised it is about to  *)
(* check, or it made the lookup of a member search, and the search cannot  *)
(* end but with a check.                                                   *)

Loud(e) == e # NoException /\ ~Stray(e)

OwnCalls(j) == \A i \in 1..j : ~calls[i].native

Searching(j) ==
  /\ calls[j].op = "info" /\ Stage(calls[j]) = "resolve"
  /\ pending.call = calls[j].id /\ pending.why = "java"
  /\ OwnCalls(j)
  /\ j > 1 => /\ calls[j - 1].op = "method"
              /\ Stage(calls[j - 1]) \in {"gather", "lookup", "jni", "check"}
  /\ j > 2 => Stage(calls[j - 1]) = "gather"

PendingInv ==
  Loud(pending) =>
    /\ thrown = NoException /\ calls # << >>
    /\ \/ Stage(calls[1]) = "check" /\ pending.call = calls[1].id
       \/ \E j \in 1..Len(calls) : Searching(j)

(* Later calls are the inner ones, and what unwinds calls was raised in    *)
(* one of them.                                                            *)
IdsInv ==
  /\ \A i \in 2..Len(calls) : calls[i].id < calls[i - 1].id
  /\ calls # << >> => calls[1].id <= made

ThrownInv ==
  Loud(thrown) => \E j \in 1..Len(calls) : OwnCalls(j) /\ thrown.call >= calls[j].id

ExcInv == FInv /\ PendingInv /\ IdsInv /\ ThrownInv

LEMMA IdTypes ==
  ASSUME FInv, NEW i \in 1..Len(calls)
  PROVE  calls[i] \in CallRecords /\ calls[i].id \in Nat /\ made \in Nat
<1>1. calls[i] \in CallRecords /\ made \in 0..MaxCalls /\ MaxCalls \in Nat
  BY InvocationAssumption DEF FInv, Types
<1>2. QED
  BY <1>1, RecordFacts

LEMMA IdsReplaced ==
  ASSUME FInv, IdsInv, calls # << >>, NEW d, Replaced(d), d.id = calls[1].id, made' = made
  PROVE  IdsInv'
<1>1. Len(calls) \in Nat /\ Len(calls') = Len(calls) /\ calls'[1].id = calls[1].id
  BY DEF FInv, Types, Replaced
<1>2. \A i \in 1..Len(calls) : calls'[i].id = calls[i].id
  <2> SUFFICES ASSUME NEW i \in 1..Len(calls) PROVE calls'[i].id = calls[i].id
    OBVIOUS
  <2>1. CASE i = 1
    BY <1>1, <2>1
  <2>2. CASE i \in 2..Len(calls)
    BY <2>2 DEF Replaced
  <2>3. QED
    BY <1>1, <2>1, <2>2
<1>3. \A i \in 2..Len(calls') : i - 1 \in 1..Len(calls) /\ i \in 1..Len(calls)
  BY <1>1
<1>4. QED
  BY <1>1, <1>2, <1>3 DEF IdsInv

LEMMA IdsStart ==
  ASSUME FInv, IdsInv, NEW d \in CallRecords, calls' = <<d>> \o calls, d.id = made + 1,
         made' = made + 1
  PROVE  IdsInv'
<1>1. Len(calls) \in Nat /\ calls \in Seq(CallRecords) /\ made \in Nat
  BY InvocationAssumption DEF FInv, Types
<1>2. /\ Len(calls') = Len(calls) + 1 /\ calls'[1] = d
      /\ \A k \in 2..Len(calls) + 1 : calls'[k] = calls[k - 1]
  BY <1>1, Prepends
<1>3. ASSUME NEW i \in 2..Len(calls') PROVE calls'[i].id < calls'[i - 1].id
  <2>1. calls'[i] = calls[i - 1] /\ i - 1 \in 1..Len(calls)
    BY <1>1, <1>2
  <2>2. CASE i = 2
    <3>1. calls'[2] = calls[1] /\ calls # << >> /\ 1 \in 1..Len(calls)
      BY <1>1, <2>1, <2>2
    <3>2. calls[1].id <= made /\ calls[1].id \in Nat
      BY <3>1, IdTypes DEF IdsInv
    <3>3. QED
      BY <1>1, <1>2, <2>2, <3>1, <3>2
  <2>3. CASE i # 2
    <3>1. i - 1 \in 2..Len(calls) /\ i - 1 \in 2..Len(calls) + 1 /\ (i - 1) - 1 = i - 2
      BY <1>1, <1>2, <2>3
    <3>2. calls'[i - 1] = calls[(i - 1) - 1] /\ calls[i - 1].id < calls[(i - 1) - 1].id
      BY <1>2, <3>1 DEF IdsInv
    <3>3. QED
      BY <2>1, <3>2
  <2>4. QED
    BY <2>2, <2>3
<1>4. calls'[1].id <= made'
  BY <1>1, <1>2
<1>5. QED
  BY <1>3, <1>4 DEF IdsInv

(* The calls that are left are those that were there, one place further. *)
Ended ==
  /\ Len(calls') = Len(calls) - 1 /\ calls' \in Seq(CallRecords)
  /\ \A i \in 1..Len(calls') :
       /\ i + 1 \in 2..Len(calls)
       /\ calls'[i].id = calls[i + 1].id /\ calls'[i].native = calls[i + 1].native
       /\ calls'[i].op = calls[i + 1].op
       /\ i > 1 => calls'[i] = calls[i + 1]

LEMMA IdsEnd ==
  ASSUME FInv, IdsInv, calls # << >>, Ended, made' = made
  PROVE  IdsInv'
<1>1. Len(calls) \in Nat /\ Len(calls') \in Nat /\ Len(calls) >= 1
  BY TopFacts DEF Ended
<1>2. ASSUME NEW i \in 2..Len(calls') PROVE calls'[i].id < calls'[i - 1].id
  <2>1. i \in 1..Len(calls') /\ i - 1 \in 1..Len(calls') /\ (i - 1) + 1 = i
        /\ (i + 1) - 1 = i
    BY <1>1
  <2>2. calls'[i].id = calls[i + 1].id /\ calls'[i - 1].id = calls[i].id
        /\ i + 1 \in 2..Len(calls)
    BY <2>1 DEF Ended
  <2>3. calls[i + 1].id < calls[(i + 1) - 1].id
    BY <2>2 DEF IdsInv
  <2>4. QED
    BY <2>1, <2>2, <2>3
<1>3. ASSUME calls' # << >> PROVE calls'[1].id <= made'
  <2>1. 1 \in 1..Len(calls') /\ 1 \in 1..Len(calls) /\ 2 \in 1..Len(calls)
    BY <1>1, <1>3, NotEmpty DEF Ended
  <2>2. calls'[1].id = calls[2].id /\ 2 \in 2..Len(calls)
    BY <2>1 DEF Ended
  <2>3. calls[2].id < calls[1].id /\ calls[1].id <= made
    BY <2>2 DEF IdsInv
  <2>4. calls[2].id \in Nat /\ calls[1].id \in Nat /\ made \in Nat
    BY <2>1, IdTypes
  <2>5. QED
    BY <2>2, <2>3, <2>4
<1>4. QED
  BY <1>2, <1>3 DEF IdsInv

(* The innermost call goes one stage on. *)
Moves ==
  /\ calls # << >> /\ thrown = NoException /\ ~calls[1].native
  /\ thrown' = NoException /\ made' = made
  /\ \E d \in CallRecords : /\ Replaced(d) /\ d.op = calls[1].op /\ d.id = calls[1].id
                            /\ ~d.native /\ d.stage = calls[1].stage + 1

LEMMA MovesOn ==
  ASSUME FInv, NEW s \in Stages, At(s), thrown' = thrown, made' = made,
         Proceed \/ \E o \in Refs \cup {NoRef} : calls' = Next1([calls EXCEPT ![1].object = o])
  PROVE  Moves
<1>1. calls # << >> /\ Stage(calls[1]) # "leave" /\ thrown = NoException /\ ~calls[1].native
  BY AtFacts DEF Stages
<1>2. CASE Proceed
  <2>1. calls[1].object \in Refs \cup {NoRef}
    BY <1>1, TopFacts, RecordFacts
  <2>2. PICK d : Replaced(d) /\ Advanced(calls[1], d)
    BY <1>1, <1>2, <2>1, Proceeds
  <2>3. QED
    BY <1>1, <2>2 DEF Moves, Advanced
<1>3. CASE \E o \in Refs \cup {NoRef} : calls' = Next1([calls EXCEPT ![1].object = o])
  <2>1. PICK d : Replaced(d) /\ Advanced(calls[1], d)
    BY <1>1, <1>3, Proceeds
  <2>2. QED
    BY <1>1, <2>1 DEF Moves, Advanced
<1>4. QED
  BY <1>2, <1>3

(* Steps that raise nothing: what is pending stays pending. *)
Quiet == Gather \/ LookupCached \/ Resolve \/ JniReturns \/ ConvertToCpp
         \/ PassValue \/ PassLocal \/ PassGlobal
         \/ (CheckForExceptions /\ pending = NoException)

LEMMA QuietMoves ==
  ASSUME FInv, Quiet
  PROVE  /\ Moves /\ pending' = pending
         /\ Stage(calls[1]) = "check" => pending = NoException
         /\ Stage(calls[1]) = "resolve" => ~NotFound
<1>1. CASE Gather
  BY <1>1, AtFacts, MovesOn DEF Gather, Stages
<1>2. CASE LookupCached
  BY <1>2, AtFacts, MovesOn DEF LookupCached, Stages
<1>3. CASE Resolve
  BY <1>3, AtFacts, MovesOn DEF Resolve, Stages
<1>4. CASE JniReturns
  <2>1. \E o \in Refs \cup {NoRef} : calls' = Next1([calls EXCEPT ![1].object = o])
    BY <1>4, LiveFrames DEF JniReturns
  <2>2. At("jni") /\ UNCHANGED <<pending, thrown, made>>
    BY <1>4, Zenon DEF JniReturns
  <2>3. Stage(calls[1]) = "jni" /\ "jni" \in Stages
    BY <2>2, AtFacts DEF Stages
  <2>4. Moves
    BY <2>1, <2>2, <2>3, MovesOn
  <2>5. QED
    BY <2>2, <2>3, <2>4
<1>5. CASE ConvertToCpp
  <2>1. Proceed \/ \E o \in Refs \cup {NoRef} : calls' = Next1([calls EXCEPT ![1].object = o])
    BY <1>5, Zenon DEF ConvertToCpp
  <2>2. At("convert") /\ UNCHANGED <<pending, thrown, made>>
    BY <1>5, Zenon DEF ConvertToCpp
  <2>3. Stage(calls[1]) = "convert" /\ "convert" \in Stages
    BY <2>2, AtFacts DEF Stages
  <2>4. Moves
    BY <2>1, <2>2, <2>3, MovesOn
  <2>5. QED
    BY <2>2, <2>3, <2>4
<1>6. CASE PassValue
  BY <1>6, AtFacts, MovesOn DEF PassValue, Stages
<1>7. CASE PassLocal
  <2> DEFINE c == calls[1]
  <2>1. /\ calls # << >> /\ Stage(c) = "pass" /\ At("pass") /\ Top = c
        /\ thrown = NoException /\ ~c.native
    BY <1>7, AtFacts DEF PassLocal
  <2>2. CASE c.framePushed
    <3>1. c \in CallRecords /\ CallOK(c)
      BY <2>1, TopFacts
    <3>2. PICK r \in Refs :
            calls' = Next1([calls EXCEPT ![1].object = r, ![1].framePushed = FALSE])
      BY <1>7, <2>1, <2>2 DEF PassLocal, Fresh
    <3> DEFINE d == [c EXCEPT !.object = r, !.framePushed = FALSE, !.stage = @ + 1]
    <3>3. c.stage + 1 \in 1..7
      <4> DEFINE e == [op |-> c.op, stage |-> c.stage + 1]
      <4>1. e.stage \in 1..7
        BY <2>1, <3>1, StageSteps DEF CallOK
      <4>2. QED
        BY <4>1
    <3>4. /\ d \in CallRecords /\ d.stage = c.stage + 1 /\ d.op = c.op /\ d.id = c.id
          /\ d.native = c.native
      BY <3>1, <3>3 DEF CallRecords
    <3>5. calls' = [calls EXCEPT ![1] = d]
      BY <2>1, <3>1, <3>2 DEF Next1, CallRecords, FInv, Types
    <3> HIDE DEF d
    <3>6. Replaced(d)
      BY <2>1, <3>4, <3>5, HeadReplaced DEF Replaced, FInv, Types
    <3>7. QED
      BY <1>7, <2>1, <3>4, <3>6 DEF Moves, PassLocal
  <2>3. CASE ~c.framePushed
    BY <1>7, <2>1, <2>3, MovesOn DEF PassLocal, Stages
  <2>4. QED
    BY <2>2, <2>3
<1>8. CASE PassGlobal
  <2>1. \E o \in Refs \cup {NoRef} : calls' = Next1([calls EXCEPT ![1].object = o])
    <3>1. \/ \E r \in Fresh(frames) : calls' = Next1([calls EXCEPT ![1].object = r])
          \/ calls' = Next1([calls EXCEPT ![1].object = NoRef])
      BY <1>8, Zenon DEF PassGlobal
    <3>2. QED
      BY <3>1, LiveFrames
  <2>2. At("pass") /\ UNCHANGED <<pending, thrown, made>>
    BY <1>8, Zenon DEF PassGlobal
  <2>3. Stage(calls[1]) = "pass" /\ "pass" \in Stages
    BY <2>2, AtFacts DEF Stages
  <2>4. Moves
    BY <2>1, <2>2, <2>3, MovesOn
  <2>5. QED
    BY <2>2, <2>3, <2>4
<1>9. CASE CheckForExceptions /\ pending = NoException
  BY <1>9, AtFacts, MovesOn DEF CheckForExceptions, Stages
<1>10. QED
  BY <1>1, <1>2, <1>3, <1>4, <1>5, <1>6, <1>7, <1>8, <1>9 DEF Quiet

(* The searches under way while the innermost call goes on. *)
LEMMA SearchGoesOn ==
  ASSUME FInv, Moves, pending' = pending, NEW j \in 2..Len(calls), Searching(j),
         j = 2 => Stage(calls[1]) \in {"gather", "lookup", "jni"}
  PROVE  j \in 1..Len(calls') /\ Searching(j)'
<1>1. PICK d \in CallRecords :
        /\ Replaced(d) /\ d.op = calls[1].op /\ ~d.native /\ d.stage = calls[1].stage + 1
  BY DEF Moves
<1>2. /\ Len(calls) \in Nat /\ Len(calls') = Len(calls) /\ calls'[1] = d
      /\ \A i \in 2..Len(calls) : calls'[i] = calls[i]
  BY <1>1 DEF Replaced, FInv, Types
<1>3. calls'[j] = calls[j]
  BY <1>2
<1>4. \A i \in 1..j : ~calls'[i].native
  <2> SUFFICES ASSUME NEW i \in 1..j PROVE ~calls'[i].native
    OBVIOUS
  <2>1. CASE i = 1
    BY <1>1, <1>2, <2>1
  <2>2. CASE i \in 2..Len(calls)
    BY <1>2, <2>2 DEF Searching, OwnCalls
  <2>3. QED
    BY <1>2, <2>1, <2>2
<1>5. /\ calls'[j - 1].op = "method"
      /\ Stage(calls'[j - 1]) \in {"gather", "lookup", "jni", "check"}
      /\ j > 2 => Stage(calls'[j - 1]) = "gather"
  <2>1. CASE j = 2
    <3>1. calls[1].op = "method" /\ Stage(calls[1]) \in {"gather", "lookup", "jni"}
          /\ calls[1] \in CallRecords
      BY <2>1, TopFacts DEF Searching, Moves
    <3>2. Stage(d) \in {"lookup", "jni", "check"}
      BY <1>1, <3>1 DEF Stage, Route, CallRecords
    <3>3. QED
      BY <1>1, <1>2, <2>1, <3>1, <3>2
  <2>2. CASE j # 2
    <3>1. j - 1 \in 2..Len(calls) /\ j > 2 /\ j > 1
      BY <1>2, <2>2
    <3>2. QED
      BY <1>2, <3>1 DEF Searching
  <2>3. QED
    BY <2>1, <2>2
<1>6. QED
  BY <1>2, <1>3, <1>4, <1>5 DEF Searching, OwnCalls

LEMMA QuietKeeps == ExcInv /\ Quiet => PendingInv' /\ IdsInv' /\ ThrownInv'
<1> SUFFICES ASSUME FInv, PendingInv, IdsInv, ThrownInv, Quiet
             PROVE  PendingInv' /\ IdsInv' /\ ThrownInv'
  BY DEF ExcInv
<1>1. /\ Moves /\ pending' = pending
      /\ Stage(calls[1]) = "check" => pending = NoException
      /\ Stage(calls[1]) = "resolve" => ~NotFound
  BY QuietMoves
<1>2. PICK d \in CallRecords : Replaced(d) /\ d.id = calls[1].id
  BY <1>1 DEF Moves
<1>3. calls # << >> /\ made' = made /\ thrown' = NoException /\ thrown = NoException
      /\ Len(calls) \in Nat /\ Len(calls) >= 1 /\ calls[1] \in CallRecords /\ Top = calls[1]
  BY <1>1, TopFacts DEF Moves
<1>4. IdsInv' /\ ThrownInv'
  BY <1>2, <1>3, IdsReplaced DEF ThrownInv, Loud
<1>5. ASSUME Loud(pending) PROVE PendingInv'
  <2>1. PICK j \in 1..Len(calls) : Searching(j)
    BY <1>1, <1>5 DEF PendingInv, Loud
  <2>2. j # 1
    BY <1>1, <1>3, <1>5, <2>1 DEF Searching, NotFound, Loud
  <2>3. j = 2 => Stage(calls[1]) \in {"gather", "lookup", "jni"}
    BY <1>1, <1>5, <2>1 DEF Searching, Loud
  <2>4. j \in 1..Len(calls') /\ Searching(j)'
    BY <1>1, <1>3, <2>1, <2>2, <2>3, SearchGoesOn
  <2>5. calls' # << >>
    BY <1>2 DEF Replaced
  <2>6. QED
    BY <1>3, <2>4, <2>5 DEF PendingInv
<1>6. QED
  BY <1>1, <1>4, <1>5 DEF PendingInv, Loud

LEMMA RaisesKeeps == ExcInv /\ JniRaises => PendingInv' /\ IdsInv' /\ ThrownInv'
<1> SUFFICES ASSUME FInv, PendingInv, IdsInv, ThrownInv, JniRaises
             PROVE  PendingInv' /\ IdsInv' /\ ThrownInv'
  BY DEF ExcInv
<1> DEFINE c == calls[1]
<1>1. At("jni") /\ Proceed /\ UNCHANGED <<thrown, made>> /\ pending' = Raised(Top, "java")
  BY DEF JniRaises
<1>2. /\ Top = c /\ Stage(c) = "jni" /\ Moves /\ c \in CallRecords
      /\ thrown' = NoException /\ Len(calls) \in Nat /\ Len(calls) >= 1
  BY <1>1, AtFacts, TopFacts, MovesOn DEF Stages
<1>3. PICK d \in CallRecords :
        Replaced(d) /\ d.op = c.op /\ d.id = c.id /\ ~d.native /\ d.stage = c.stage + 1
  BY <1>2 DEF Moves
<1>4. IdsInv' /\ ThrownInv'
  BY <1>1, <1>2, <1>3, IdsReplaced DEF ThrownInv, Loud, Moves
<1>5. calls'[1] = d /\ calls' # << >> /\ Len(calls') = Len(calls)
  BY <1>3 DEF Replaced
<1>6. ASSUME Loud(pending') PROVE PendingInv'
  <2>1. pending'.call = c.id /\ pending'.op = c.op /\ pending'.why = "java"
    BY <1>1, <1>2 DEF Raised
  <2>2. c.op \in {"method", "get", "set", "info"}
    BY <1>2, <1>6, <2>1 DEF Loud, Stray, Unchecked, CallRecords, Ops, Route
  <2>3. CASE c.op = "info"
    <3>1. Stage(d) = "resolve"
      BY <1>2, <1>3, <2>3 DEF Stage, Route, CallRecords
    <3>2. Searching(1)'
      BY <1>3, <1>5, <2>1, <2>3, <3>1 DEF Searching, OwnCalls
    <3>3. 1 \in 1..Len(calls')
      BY <1>2, <1>5
    <3>4. QED
      BY <1>2, <1>5, <3>2, <3>3 DEF PendingInv
  <2>4. CASE c.op # "info"
    <3>1. Stage(d) = "check"
      BY <1>2, <1>3, <2>2, <2>4 DEF Stage, Route, CallRecords
    <3>2. QED
      BY <1>2, <1>3, <1>5, <2>1, <3>1 DEF PendingInv
  <2>5. QED
    BY <2>3, <2>4
<1>7. QED
  BY <1>4, <1>6 DEF PendingInv

(* An exception leaves the check, or there is no singleton. *)
LEMMA ThrowsKeeps ==
  ExcInv /\ (NoSingleton \/ (CheckForExceptions /\ pending # NoException))
    => PendingInv' /\ IdsInv' /\ ThrownInv'
<1> SUFFICES ASSUME FInv, PendingInv, IdsInv, ThrownInv,
                    NoSingleton \/ (CheckForExceptions /\ pending # NoException)
             PROVE  PendingInv' /\ IdsInv' /\ ThrownInv'
  BY DEF ExcInv
<1>1. UNCHANGED <<calls, made>>
  BY DEF NoSingleton, CheckForExceptions, Proceed
<1>2. /\ calls # << >> /\ ~calls[1].native /\ Top = calls[1] /\ calls[1] \in CallRecords
      /\ calls[1].id \in Nat /\ Len(calls) \in Nat /\ 1 \in 1..Len(calls)
  <2>1. calls # << >> /\ ~calls[1].native
    BY AtFacts DEF NoSingleton, CheckForExceptions
  <2>2. Len(calls) \in Nat /\ Len(calls) >= 1 /\ Top = calls[1]
    BY <2>1, TopFacts
  <2>3. 1 \in 1..Len(calls)
    BY <2>2
  <2>4. QED
    BY <2>1, <2>2, <2>3, IdTypes
<1>3. IdsInv'
  BY <1>1 DEF IdsInv
<1>4. CASE NoSingleton
  <2>1. Stage(calls[1]) = "lookup" /\ calls[1].op # "info" /\ (Len(calls) > 1 => calls[2].native)
        /\ thrown' = Raised(calls[1], "noSingleton") /\ pending' = pending
    BY <1>2, <1>4, AtFacts DEF NoSingleton, ClientsCall
  <2>2. \A j \in 1..Len(calls) : ~Searching(j)
    <3> SUFFICES ASSUME NEW j \in 1..Len(calls), Searching(j) PROVE FALSE
      OBVIOUS
    <3>1. j # 1
      BY <2>1 DEF Searching
    <3>2. 2 \in 1..j /\ Len(calls) > 1
      BY <1>2, <3>1
    <3>3. QED
      BY <2>1, <3>2 DEF Searching, OwnCalls
  <2>3. ~Loud(pending)
    BY <2>1, <2>2 DEF PendingInv
  <2>4. thrown'.call = calls[1].id /\ OwnCalls(1)
    BY <1>2, <2>1 DEF Raised, OwnCalls
  <2>5. ThrownInv'
    BY <1>1, <1>2, <2>4 DEF ThrownInv, OwnCalls
  <2>6. QED
    BY <1>3, <2>1, <2>3, <2>5 DEF PendingInv
<1>5. CASE CheckForExceptions /\ pending # NoException
  <2>1. /\ thrown' = pending /\ Stage(calls[1]) = "check"
        /\ pending' = NoException \/ pending' = Raised(Top, "details")
    BY <1>5, AtFacts DEF CheckForExceptions
  <2>2. ~Loud(pending')
    BY <2>1 DEF Loud, Stray, Raised
  <2>3. ASSUME Loud(pending) PROVE ThrownInv'
    <3>1. CASE pending.call = calls[1].id
      <4>1. OwnCalls(1) /\ thrown'.call >= calls[1].id
        BY <1>2, <2>1, <3>1 DEF OwnCalls
      <4>2. QED
        BY <1>1, <1>2, <4>1 DEF ThrownInv, OwnCalls
    <3>2. CASE \E j \in 1..Len(calls) : Searching(j)
      <4>1. PICK j \in 1..Len(calls) : OwnCalls(j) /\ pending.call = calls[j].id
        BY <3>2 DEF Searching
      <4>2. thrown'.call >= calls[j].id
        BY <2>1, <4>1, IdTypes
      <4>3. QED
        BY <1>1, <4>1, <4>2 DEF ThrownInv, OwnCalls
    <3>3. QED
      BY <2>3, <3>1, <3>2 DEF PendingInv
  <2>4. QED
    BY <1>3, <2>1, <2>2, <2>3 DEF PendingInv, ThrownInv
<1>6. QED
  BY <1>4, <1>5

(* Native code cannot be called or return while a search is under way. *)
LEMMA NativeKeeps ==
  ExcInv /\ (NativeCalled \/ NativeReturns) => PendingInv' /\ IdsInv' /\ ThrownInv'
<1> SUFFICES ASSUME FInv, PendingInv, IdsInv, ThrownInv, NativeCalled \/ NativeReturns
             PROVE  PendingInv' /\ IdsInv' /\ ThrownInv'
  BY DEF ExcInv
<1>1. calls # << >> /\ thrown = NoException /\ thrown' = NoException /\ made' = made
      /\ (pending' = pending \/ pending' = NoException) /\ Stage(calls[1]) = "jni"
  <2>1. CASE NativeCalled
    BY <2>1, AtFacts DEF NativeCalled
  <2>2. CASE NativeReturns
    BY <2>2, TopFacts DEF NativeReturns, ClientRuns, CallOK
  <2>3. QED
    BY <2>1, <2>2
<1>2. /\ Top = calls[1] /\ calls[1] \in CallRecords /\ Len(calls) \in Nat
      /\ Len(calls) >= 1 /\ calls \in Seq(CallRecords)
  BY <1>1, TopFacts DEF FInv, Types
<1>3. ~Loud(pending)
  <2>1. \A j \in 1..Len(calls) : ~Searching(j)
    <3> SUFFICES ASSUME NEW j \in 1..Len(calls), Searching(j) PROVE FALSE
      OBVIOUS
    <3>1. CASE NativeCalled
      <4>1. calls[1].op # "info" /\ (Len(calls) > 1 => calls[2].native)
        BY <1>2, <3>1 DEF NativeCalled, ClientsCall
      <4>2. j # 1
        BY <4>1 DEF Searching
      <4>3. 2 \in 1..j /\ Len(calls) > 1
        BY <1>2, <4>2
      <4>4. QED
        BY <4>1, <4>3 DEF Searching, OwnCalls
    <3>2. CASE NativeReturns
      BY <1>1, <1>2, <3>2 DEF NativeReturns, ClientRuns, Searching, OwnCalls
    <3>3. QED
      BY <3>1, <3>2
  <2>2. QED
    BY <1>1, <2>1 DEF PendingInv
<1>4. \E d \in CallRecords : Replaced(d) /\ d.id = calls[1].id
  <2>1. \A b \in BOOLEAN : calls' = [calls EXCEPT ![1].native = b]
          => \E d \in CallRecords : Replaced(d) /\ d.id = calls[1].id
    <3> SUFFICES ASSUME NEW b \in BOOLEAN, calls' = [calls EXCEPT ![1].native = b]
                 PROVE  \E d \in CallRecords : Replaced(d) /\ d.id = calls[1].id
      OBVIOUS
    <3> DEFINE d == [calls[1] EXCEPT !.native = b]
    <3>1. d \in CallRecords /\ d.id = calls[1].id
      BY <1>2 DEF CallRecords
    <3>2. calls' = [calls EXCEPT ![1] = d]
      BY <1>2
    <3> HIDE DEF d
    <3>3. Replaced(d)
      BY <1>1, <1>2, <3>1, <3>2, HeadReplaced DEF Replaced
    <3>4. QED
      BY <3>1, <3>3
  <2>2. QED
    BY <2>1 DEF NativeCalled, NativeReturns
<1>5. QED
  BY <1>1, <1>3, <1>4, IdsReplaced DEF PendingInv, ThrownInv, Loud

LEMMA ClientKeeps ==
  ExcInv /\ (DeleteGlobalRef \/ UNCHANGED vars) => PendingInv' /\ IdsInv' /\ ThrownInv'
<1> SUFFICES ASSUME FInv, PendingInv, IdsInv, ThrownInv, UNCHANGED <<pending, thrown, calls, made>>
             PROVE  PendingInv' /\ IdsInv' /\ ThrownInv'
  BY DEF ExcInv, DeleteGlobalRef, vars
<1>1. \A j : Searching(j)' <=> Searching(j)
  BY DEF Searching, OwnCalls
<1>2. QED
  BY <1>1 DEF PendingInv, IdsInv, ThrownInv, OwnCalls

LEMMA EnterKeepsExc ==
  ASSUME ExcInv, NEW op \in Ops, NEW ret \in Results[op], Enter(op, ret)
  PROVE  PendingInv' /\ IdsInv' /\ ThrownInv'
<1>1. FInv /\ PendingInv /\ IdsInv /\ ThrownInv
  BY DEF ExcInv
<1>2. /\ made \in 0..MaxCalls /\ made < MaxCalls /\ MaxCalls \in Nat
      /\ frames \in Seq(SUBSET Refs) /\ Len(calls) \in Nat /\ calls \in Seq(CallRecords)
  BY <1>1, InvocationAssumption DEF Enter, FInv, Types
<1>3. PICK d \in CallRecords :
        /\ calls' = <<d>> \o calls /\ d.id = made + 1 /\ d.op = op /\ d.stage = 1 /\ ~d.native
        /\ pending' = pending \/ pending' = Raised(d, "memory")
  <2> DEFINE c == [id |-> made + 1, op |-> op, ret |-> ret, stage |-> 1,
                   framePushed |-> TRUE, object |-> NoRef, native |-> FALSE,
                   hadFrame |-> TRUE, before |-> frames]
             e == [c EXCEPT !.framePushed = FALSE, !.hadFrame = FALSE]
  <2>1. c \in CallRecords /\ c.id = made + 1 /\ c.op = op /\ c.stage = 1 /\ ~c.native
    BY <1>2 DEF CallRecords
  <2>2. e \in CallRecords /\ e.id = made + 1 /\ e.op = op /\ e.stage = 1 /\ ~e.native
    BY <2>1 DEF CallRecords
  <2>3. \/ calls' = <<c>> \o calls /\ pending' = pending
        \/ calls' = <<e>> \o calls /\ pending' = Raised(c, "memory")
    BY DEF Enter
  <2>4. Raised(c, "memory") = Raised(e, "memory")
    BY DEF Raised
  <2> HIDE DEF c, e
  <2>5. QED
    BY <2>1, <2>2, <2>3, <2>4
<1>4. thrown = NoException /\ thrown' = NoException /\ made' = made + 1
  BY DEF Enter, MayEnter, ClientRuns, At
<1>5. IdsInv' /\ ThrownInv'
  BY <1>1, <1>3, <1>4, IdsStart DEF ThrownInv, Loud
<1>6. /\ Len(calls') = Len(calls) + 1 /\ calls'[1] = d /\ calls' # << >>
      /\ \A k \in 2..Len(calls) + 1 : calls'[k] = calls[k - 1]
  BY <1>2, <1>3, Prepends
<1>7. ASSUME Loud(pending') PROVE PendingInv'
  <2>1. pending' = pending /\ Loud(pending)
    BY <1>3, <1>7 DEF Loud, Stray, Raised
  <2>2. calls # << >> /\ Top = calls[1] /\ CallOK(calls[1]) /\ calls[1] \in CallRecords
        /\ Len(calls) >= 1
    BY <1>1, <2>1, TopFacts DEF PendingInv
  <2>3. Stage(calls[1]) # "check"
    BY <2>2 DEF Enter, MayEnter, ClientRuns, At, CallOK
  <2>4. PICK j \in 1..Len(calls) : Searching(j)
    BY <1>1, <2>1, <2>3 DEF PendingInv
  <2>5. ~calls[1].native
    BY <1>2, <2>4 DEF Searching, OwnCalls
  <2>6. j + 1 \in 2..Len(calls) + 1 /\ j + 1 \in 1..Len(calls') /\ (j + 1) - 1 = j
    BY <1>2, <1>6
  <2>7. calls'[j + 1] = calls[j]
    BY <1>6, <2>6
  <2>8. \A i \in 1..j + 1 : ~calls'[i].native
    <3> SUFFICES ASSUME NEW i \in 1..j + 1 PROVE ~calls'[i].native
      OBVIOUS
    <3>1. CASE i = 1
      BY <1>3, <1>6, <3>1
    <3>2. CASE i # 1
      <4>1. i \in 2..Len(calls) + 1 /\ i - 1 \in 1..j
        BY <1>2, <3>2
      <4>2. QED
        BY <1>6, <2>4, <4>1 DEF Searching, OwnCalls
    <3>3. QED
      BY <3>1, <3>2
  <2>9. /\ calls'[j].op = "method"
        /\ Stage(calls'[j]) \in {"gather", "lookup", "jni", "check"}
        /\ j + 1 > 2 => Stage(calls'[j]) = "gather"
    <3>1. CASE j = 1
      <4>1. Stage(calls[1]) = "resolve"
        BY <2>4, <3>1 DEF Searching
      <4>2. op = "method"
        BY <2>2, <2>5, <4>1 DEF Enter, MayEnter, ClientRuns, At
      <4>3. Stage(d) = "gather"
        BY <1>3, <4>2 DEF Stage, Route
      <4>4. QED
        BY <1>3, <1>6, <3>1, <4>2, <4>3
    <3>2. CASE j = 2
      <4>1. calls[2].op = "info" /\ calls[1].op = "method" /\ Len(calls) > 1
            /\ Stage(calls[1]) \in {"gather", "lookup", "jni", "check"}
        BY <1>2, <2>4, <3>2 DEF Searching
      <4>2. Stage(calls[1]) = "gather"
        BY <2>2, <2>5, <4>1 DEF Enter, MayEnter, ClientRuns, At, ResolvesForLookup
      <4>3. calls'[2] = calls[1]
        BY <1>2, <1>6, <4>1
      <4>4. QED
        BY <3>2, <4>1, <4>2, <4>3
    <3>3. CASE j > 2
      <4>1. j \in 2..Len(calls) + 1 /\ calls'[j] = calls[j - 1] /\ j > 1
        BY <1>2, <1>6, <3>3
      <4>2. QED
        BY <2>4, <3>3, <4>1 DEF Searching
    <3>4. QED
      BY <3>1, <3>2, <3>3
  <2>10. Searching(j + 1)'
    BY <2>1, <2>4, <2>6, <2>7, <2>8, <2>9 DEF Searching, OwnCalls
  <2>11. QED
    BY <1>4, <1>6, <2>6, <2>10 DEF PendingInv
<1>8. QED
  BY <1>5, <1>7 DEF PendingInv

LEMMA EndsCalls ==
  ASSUME FInv, Leave \/ Unwind
  PROVE  /\ Ended
         /\ Len(calls') >= 1 /\ ~calls[2].native /\ thrown = NoException =>
              calls'[1].stage = calls[2].stage + 1
<1> DEFINE rest == Tail(calls)
           o == calls[2]
           d == [o EXCEPT !.stage = @ + 1]
<1>1. calls # << >> /\ ~calls[1].native
  BY EndFacts
<1>2. calls \in Seq(CallRecords) /\ Len(calls) \in Nat /\ Len(calls) >= 1
  BY <1>1, TopFacts DEF FInv, Types
<1>3. /\ rest \in Seq(CallRecords) /\ Len(rest) = Len(calls) - 1
      /\ \A k \in 1..Len(calls) - 1 : rest[k] = calls[k + 1]
  BY <1>1, <1>2, Tails
<1>4. rest # << >> => Head(rest) = o /\ rest[1] = o /\ o \in CallRecords
  BY <1>1, CallerFacts
<1>5. /\ \A i \in 1..Len(rest) : i + 1 \in 2..Len(calls)
      /\ Len(rest) \in Nat
  BY <1>2, <1>3
<1>6. CASE calls' = rest /\ (rest = << >> \/ o.native \/ thrown # NoException)
  <2>1. Ended
    BY <1>3, <1>5, <1>6 DEF Ended
  <2>2. rest = << >> => ~(Len(rest) >= 1)
    BY <1>3, NotEmpty
  <2>3. QED
    BY <1>6, <2>1, <2>2
<1>7. CASE rest # << >> /\ calls' = Next1(rest) /\ calls' \in Seq(CallRecords)
  <2>1. d.stage = o.stage + 1 /\ d.id = o.id /\ d.op = o.op /\ d.native = o.native
    BY <1>4, <1>7 DEF CallRecords
  <2>2. calls' = [rest EXCEPT ![1] = d]
    BY <1>4, <1>7 DEF Next1
  <2> HIDE DEF d, rest
  <2>3. Len(calls') = Len(rest) /\ calls'[1] = d
        /\ \A i \in 2..Len(rest) : calls'[i] = rest[i]
    BY <1>3, <1>7, <2>2
  <2>4. \A i \in 1..Len(rest) : i = 1 \/ i \in 2..Len(rest)
    BY <1>5
  <2>5. Ended
    <3> SUFFICES ASSUME NEW i \in 1..Len(rest)
                 PROVE  /\ calls'[i].id = calls[i + 1].id
                        /\ calls'[i].native = calls[i + 1].native
                        /\ calls'[i].op = calls[i + 1].op
                        /\ i > 1 => calls'[i] = calls[i + 1]
      BY <1>3, <1>5, <1>7, <2>3 DEF Ended
    <3>1. CASE i = 1
      BY <1>4, <1>7, <2>1, <2>3, <3>1
    <3>2. CASE i \in 2..Len(rest)
      BY <1>3, <2>3, <3>2
    <3>3. QED
      BY <2>4, <3>1, <3>2
  <2>6. QED
    BY <2>1, <2>3, <2>5
<1>8. CASE Leave
  <2>1. calls' \in Seq(CallRecords)
    BY <1>8, LeaveKeeps DEF FInv, Types
  <2>2. QED
    BY <1>4, <1>6, <1>7, <1>8, <2>1 DEF Leave
<1>9. CASE Unwind
  BY <1>6, <1>9 DEF Unwind
<1>10. QED
  BY <1>8, <1>9

LEMMA LeaveKeepsExc == ExcInv /\ Leave => PendingInv' /\ IdsInv' /\ ThrownInv'
<1> SUFFICES ASSUME FInv, PendingInv, IdsInv, ThrownInv, Leave
             PROVE  PendingInv' /\ IdsInv' /\ ThrownInv'
  BY DEF ExcInv
<1>1. /\ Ended /\ calls # << >>
      /\ Len(calls') >= 1 /\ ~calls[2].native => calls'[1].stage = calls[2].stage + 1
  BY AtFacts, EndsCalls DEF Leave
<1>2. /\ thrown = NoException /\ thrown' = NoException /\ made' = made /\ pending' = pending
      /\ Stage(calls[1]) = "leave"
  BY AtFacts DEF Leave
<1>3. IdsInv' /\ ThrownInv'
  BY <1>1, <1>2, IdsEnd DEF ThrownInv, Loud
<1>4. /\ Len(calls) \in Nat /\ Len(calls') \in Nat /\ Len(calls') = Len(calls) - 1
      /\ calls' \in Seq(CallRecords) /\ calls \in Seq(CallRecords)
  BY <1>1 DEF Ended, FInv, Types
<1>5. ASSUME Loud(pending) PROVE PendingInv'
  <2>1. PICK j \in 1..Len(calls) : Searching(j)
    BY <1>2, <1>5 DEF PendingInv
  <2>2. j # 1 /\ j # 2
    BY <1>2, <2>1 DEF Searching
  <2>3. j > 2 /\ j > 1 /\ j - 1 \in 1..Len(calls') /\ j - 1 > 1 /\ (j - 1) + 1 = j
        /\ (j - 1) - 1 = j - 2 /\ j - 2 \in 1..Len(calls') /\ (j - 2) + 1 = j - 1
    BY <1>4, <2>1, <2>2
  <2>4. calls'[j - 1] = calls[j] /\ calls'[j - 2].op = calls[j - 1].op
    BY <1>1, <2>3 DEF Ended
  <2>5. \A i \in 1..j - 1 : ~calls'[i].native
    <3> SUFFICES ASSUME NEW i \in 1..j - 1 PROVE ~calls'[i].native
      OBVIOUS
    <3>1. i \in 1..Len(calls') /\ i + 1 \in 1..j
      BY <1>4, <2>3
    <3>2. QED
      BY <1>1, <2>1, <3>1 DEF Ended, Searching, OwnCalls
  <2>6. /\ Stage(calls'[j - 2]) \in {"gather", "lookup", "jni", "check"}
        /\ j - 1 > 2 => Stage(calls'[j - 2]) = "gather"
    <3>1. CASE j = 3
      <4>1. /\ calls[2].op = "method" /\ Stage(calls[2]) = "gather" /\ ~calls[2].native
            /\ Len(calls') >= 1 /\ 2 \in 1..Len(calls)
        BY <1>4, <2>1, <2>3, <3>1 DEF Searching, OwnCalls
      <4>2. calls'[1].stage = calls[2].stage + 1 /\ calls'[1].op = "method"
        BY <1>1, <2>4, <3>1, <4>1
      <4>3. calls[2].stage \in 1..7
        BY <1>4, <4>1, RecordFacts
      <4>4. Stage(calls'[1]) = "lookup"
        BY <4>1, <4>2, <4>3 DEF Stage, Route
      <4>5. QED
        BY <3>1, <4>4
    <3>2. CASE j # 3
      <4>1. j - 2 > 1
        BY <2>3, <3>2
      <4>2. calls'[j - 2] = calls[j - 1]
        BY <1>1, <2>3, <4>1 DEF Ended
      <4>3. QED
        BY <2>1, <2>3, <4>2 DEF Searching
    <3>3. QED
      BY <3>1, <3>2
  <2>7. Searching(j - 1)'
    BY <1>2, <2>1, <2>3, <2>4, <2>5, <2>6 DEF Searching, OwnCalls
  <2>8. calls' # << >>
    BY <1>4, <2>3
  <2>9. QED
    BY <1>2, <2>3, <2>7, <2>8 DEF PendingInv
<1>6. QED
  BY <1>2, <1>3, <1>5 DEF PendingInv

(* What unwinds a call was raised in it, and goes on to its caller or, if  *)
(* client code made the call, ends there.                                  *)
LEMMA UnwindFacts ==
  ASSUME ExcInv, Unwind
  PROVE  /\ PendingInv' /\ IdsInv' /\ ThrownInv'
         /\ Loud(thrown) /\ thrown' = NoException => thrown.call >= Top.id
<1>1. FInv /\ PendingInv /\ IdsInv /\ ThrownInv /\ Ended
  BY EndsCalls DEF ExcInv
<1>2. /\ calls # << >> /\ thrown # NoException /\ made' = made /\ pending' = pending
      /\ calls' = Tail(calls)
      /\ thrown' = IF Tail(calls) = << >> \/ Head(Tail(calls)).native THEN NoException ELSE thrown
  BY DEF Unwind
<1>3. /\ Len(calls) \in Nat /\ Len(calls) >= 1 /\ Top = calls[1] /\ 1 \in 1..Len(calls)
      /\ Len(calls') = Len(calls) - 1 /\ Len(calls') \in Nat
  BY <1>1, <1>2, TopFacts DEF Ended
<1>4. PendingInv' /\ IdsInv'
  BY <1>1, <1>2, IdsEnd DEF PendingInv
<1>5. ASSUME Loud(thrown)
      PROVE  /\ thrown' = NoException => thrown.call >= Top.id
             /\ thrown' # NoException => ThrownInv'
  <2>1. PICK j \in 1..Len(calls) : OwnCalls(j) /\ thrown.call >= calls[j].id
    BY <1>1, <1>5 DEF ThrownInv
  <2>2. thrown.call \in Nat
    BY <1>1, <1>2, InvocationAssumption DEF FInv, Types, Exceptions
  <2>3. CASE j = 1
    <3>1. ASSUME thrown' # NoException PROVE ThrownInv'
      <4>1. Tail(calls) # << >> /\ ~Head(Tail(calls)).native /\ thrown' = thrown
        BY <1>2, <3>1
      <4>2. /\ Len(calls') >= 1 /\ 2 \in 2..Len(calls) /\ 1 \in 1..Len(calls')
            /\ 2 \in 1..Len(calls)
        BY <1>1, <1>2, <1>3, <4>1, NotEmpty DEF Ended
      <4>3. calls'[1].id = calls[2].id /\ calls'[1].native = calls[2].native /\ ~calls[2].native
        BY <1>1, <1>2, <4>1, <4>2, CallerFacts DEF Ended
      <4>4. calls[2].id < calls[1].id
        BY <1>1, <4>2 DEF IdsInv
      <4>5. calls[2].id \in Nat /\ calls[1].id \in Nat
        BY <1>1, <1>3, <4>2, IdTypes
      <4>6. thrown'.call >= calls'[1].id
        BY <2>1, <2>2, <2>3, <4>1, <4>3, <4>4, <4>5
      <4>7. \A i \in 1..1 : ~calls'[i].native
        BY <4>3
      <4>8. QED
        BY <4>2, <4>6, <4>7 DEF ThrownInv, OwnCalls
    <3>2. QED
      BY <1>3, <2>1, <2>3, <3>1
  <2>4. CASE j # 1
    <3>1. 2 \in 1..j /\ j - 1 \in 1..Len(calls') /\ (j - 1) + 1 = j /\ Len(calls') >= 1
      BY <1>3, <2>4
    <3>2. Tail(calls) # << >>
      BY <1>1, <1>2, <3>1, NotEmpty DEF Ended
    <3>3. ~calls[2].native /\ Head(Tail(calls)) = calls[2]
      BY <1>1, <1>2, <2>1, <3>1, <3>2, CallerFacts DEF OwnCalls
    <3>4. thrown' = thrown
      BY <1>2, <3>2, <3>3
    <3>5. \A i \in 1..j - 1 : ~calls'[i].native
      <4> SUFFICES ASSUME NEW i \in 1..j - 1 PROVE ~calls'[i].native
        OBVIOUS
      <4>1. i \in 1..Len(calls') /\ i + 1 \in 1..j
        BY <1>3, <3>1
      <4>2. QED
        BY <1>1, <2>1, <4>1 DEF Ended, OwnCalls
    <3>6. thrown'.call >= calls'[j - 1].id
      BY <1>1, <2>1, <3>1, <3>4 DEF Ended
    <3>7. QED
      BY <1>2, <3>1, <3>4, <3>5, <3>6 DEF ThrownInv, OwnCalls
  <2>5. QED
    BY <2>3, <2>4
<1>6. thrown' = NoException => ThrownInv'
  BY DEF ThrownInv, Loud
<1>7. thrown' # NoException => thrown' = thrown
  BY <1>2
<1>8. ThrownInv'
  BY <1>5, <1>6, <1>7 DEF ThrownInv, Loud
<1>9. QED
  BY <1>4, <1>5, <1>8

-----------------------------------------------------------------------------
LEMMA InitExcInv == InvocationInit => ExcInv
<1> SUFFICES ASSUME InvocationInit PROVE ExcInv
  OBVIOUS
<1>1. calls = << >> /\ pending = NoException /\ thrown = NoException /\ FInv
  BY InitFInv DEF InvocationInit
<1>2. PendingInv /\ ThrownInv
  BY <1>1 DEF PendingInv, ThrownInv, Loud
<1>3. IdsInv
  BY <1>1 DEF IdsInv
<1>4. QED
  BY <1>1, <1>2, <1>3 DEF ExcInv

LEMMA StepExcInv == ExcInv /\ [InvocationNext]_vars => ExcInv'
<1> SUFFICES ASSUME ExcInv, [InvocationNext]_vars PROVE ExcInv'
  OBVIOUS
<1>1. FInv'
  BY StepFInv DEF ExcInv
<1> DEFINE Goal == PendingInv' /\ IdsInv' /\ ThrownInv'
<1>2. ASSUME NEW op \in Ops, NEW ret \in Results[op], Enter(op, ret)
      PROVE  Goal
  BY <1>2, EnterKeepsExc
<1>3. ASSUME Quiet PROVE Goal
  BY <1>3, QuietKeeps
<1>4. ASSUME JniRaises PROVE Goal
  BY <1>4, RaisesKeeps
<1>5. ASSUME NoSingleton \/ (CheckForExceptions /\ pending # NoException) PROVE Goal
  BY <1>5, ThrowsKeeps
<1>6. ASSUME NativeCalled \/ NativeReturns PROVE Goal
  BY <1>6, NativeKeeps
<1>7. ASSUME Leave PROVE Goal
  BY <1>7, LeaveKeepsExc
<1>8. ASSUME Unwind PROVE Goal
  BY <1>8, UnwindFacts
<1>9. ASSUME DeleteGlobalRef \/ UNCHANGED vars PROVE Goal
  BY <1>9, ClientKeeps
<1>10. Goal
  BY <1>2, <1>3, <1>4, <1>5, <1>6, <1>7, <1>8, <1>9 DEF InvocationNext, Quiet
<1>11. QED
  BY <1>1, <1>10 DEF ExcInv

LEMMA AlwaysExcInv == InvocationSpec => []ExcInv
BY InitExcInv, StepExcInv, PTL DEF InvocationSpec

(* No exception of an operation that the code checks is still pending when *)
(* client code runs.                                                       *)
THEOREM NothingLeftPendingAlways == InvocationSpec => []NothingLeftPending
<1>1. ASSUME ExcInv, ClientRuns, pending # NoException, ~Stray(pending) PROVE FALSE
  <2>1. /\ calls # << >> /\ FInv
        /\ \/ Stage(calls[1]) = "check"
           \/ \E j \in 1..Len(calls) : Searching(j)
    BY <1>1 DEF ExcInv, PendingInv, Loud
  <2>2. calls[1].native /\ Stage(calls[1]) = "jni" /\ Len(calls) \in Nat
    BY <1>1, <2>1, TopFacts DEF ClientRuns, CallOK
  <2>3. QED
    BY <2>1, <2>2 DEF Searching, OwnCalls
<1>2. ExcInv => NothingLeftPending
  BY <1>1 DEF NothingLeftPending
<1>3. QED
  BY <1>2, AlwaysExcInv, PTL

(* The exception that a client's call throws was raised during that call.  *)
THEOREM ExceptionIsOwnAlways == InvocationSpec => ExceptionIsOwn
<1>1. ASSUME ExcInv, [InvocationNext]_vars, Ends, thrown # NoException, thrown' = NoException
      PROVE  thrown.call >= Top.id \/ Stray(thrown)
  <2>1. Leave \/ Unwind
    BY <1>1, WhoEnds DEF ExcInv
  <2>2. Unwind
    BY <1>1, <2>1 DEF Leave, At
  <2>3. QED
    BY <1>1, <2>2, UnwindFacts DEF Loud
<1>2. ExcInv /\ [InvocationNext]_vars =>
        [Ends /\ thrown # NoException /\ thrown' = NoException =>
           thrown.call >= Top.id \/ Stray(thrown)]_vars
  BY <1>1
<1>3. QED
  BY <1>2, AlwaysExcInv, PTL DEF InvocationSpec, ExceptionIsOwn
=============================================================================
