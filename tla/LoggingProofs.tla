--------------------------- MODULE LoggingProofs ---------------------------
(***************************************************************************)
(* Proofs about Logging, for any threads, levels and bounds, in four       *)
(* parts: what a step does to the calls its thread is in; types, with the  *)
(* recursive mutex counted against the stacks; the levels of both sides    *)
(* agree; and nobody waits in vain.                                        *)
(***************************************************************************)
EXTENDS Logging, FiniteSetTheorems, TLAPS

(* Stacks, taken apart at the top. *)

LEMMA Cons ==
  ASSUME NEW f \in Frames, NEW rest \in Seq(Frames), NEW s, s = <<f>> \o rest
  PROVE  /\ s \in Seq(Frames) /\ s # << >> /\ Len(s) = Len(rest) + 1 /\ Len(rest) \in Nat
         /\ s[1] = f /\ Head(s) = f /\ Tail(s) = rest
         /\ \A i \in 2..Len(s) : s[i] = rest[i - 1]
         /\ \A i \in DOMAIN rest : i + 1 \in DOMAIN s /\ s[i + 1] = rest[i]
  OBVIOUS

LEMMA NotEmpty ==
  ASSUME NEW fs \in Seq(Frames), fs # << >>
  PROVE  /\ Len(fs) \in Nat /\ Len(fs) >= 1 /\ 1 \in DOMAIN fs /\ Len(fs) \in DOMAIN fs
         /\ fs[1] \in Frames /\ fs[Len(fs)] \in Frames
         /\ Head(fs) = fs[1] /\ Tail(fs) \in Seq(Frames) /\ Len(Tail(fs)) = Len(fs) - 1
         /\ \A i \in 1..Len(fs) - 1 : Tail(fs)[i] = fs[i + 1]
  OBVIOUS

LEMMA Split ==
  ASSUME NEW fs \in Seq(Frames), fs # << >>
  PROVE  /\ fs[1] \in Frames /\ Tail(fs) \in Seq(Frames) /\ Head(fs) = fs[1]
         /\ fs = <<fs[1]>> \o Tail(fs)
         /\ Len(fs) = Len(Tail(fs)) + 1 /\ Len(Tail(fs)) \in Nat
<1>1. /\ Len(fs) \in Nat /\ Len(fs) >= 1
      /\ fs[1] \in Frames /\ Tail(fs) \in Seq(Frames) /\ Len(Tail(fs)) = Len(fs) - 1
      /\ \A i \in 1..Len(fs) - 1 : Tail(fs)[i] = fs[i + 1]
  BY NotEmpty
<1> DEFINE rest == Tail(fs)
           s == <<fs[1]>> \o rest
<1> HIDE DEF rest
<1>2. /\ s \in Seq(Frames) /\ Len(s) = Len(rest) + 1 /\ s[1] = fs[1]
      /\ \A i \in 2..Len(s) : s[i] = rest[i - 1]
  BY <1>1, Cons DEF rest
<1> HIDE DEF s
<1>3. \A i \in 1..Len(fs) : s[i] = fs[i]
  BY <1>1, <1>2 DEF rest
<1>4. s = fs
  BY <1>1, <1>2, <1>3 DEF rest
<1>5. Head(fs) = fs[1]
  BY NotEmpty
<1> QED BY <1>1, <1>4, <1>5 DEF s, rest

(* Where a call is, by its stage. *)
LEMMA Stages ==
  ASSUME NEW f \in Frames
  PROVE  /\ Stage(f) = "filter"    => f.op = "log" /\ f.at = 1
         /\ Stage(f) = "unset"     => f.op = "env" /\ f.at = 1
         /\ Stage(f) = "got"       => f.op = "env" /\ f.at = 2
         /\ Stage(f) = "set"       => f.op = "env" /\ f.at = 3
         /\ Stage(f) = "env"       => \/ f.op \in {"jJvmLog", "lookup"} /\ f.at = 1
                                      \/ f.op = "setLevel" /\ f.at = 6
         /\ Stage(f) = "once"      => \/ f.op = "jJvmLog" /\ f.at = 2
                                      \/ f.op = "setLevel" /\ f.at = 7
         /\ Stage(f) = "lock"      => \/ f.op = "jJvmLog" /\ f.at = 3
                                      \/ f.op = "lookup" /\ f.at = 2
                                      \/ f.op = "setLevel" /\ f.at = 8
         /\ Stage(f) = "announce"  => \/ f.op = "jJvmLog" /\ f.at = 4
                                      \/ f.op = "lookup" /\ f.at = 3
                                      \/ f.op = "setLevel" /\ f.at = 9
         /\ Stage(f) = "report"    => \/ f.op = "jJvmLog" /\ f.at = 5
                                      \/ f.op = "lookup" /\ f.at = 4
                                      \/ f.op = "setLevel" /\ f.at = 10
         /\ Stage(f) = "unlock"    => \/ f.op = "jJvmLog" /\ f.at = 6
                                      \/ f.op = "lookup" /\ f.at = 5
                                      \/ f.op = "setLevel" /\ f.at = 11
         /\ Stage(f) = "java"      => \/ f.op = "jJvmLog" /\ f.at = 7
                                      \/ f.op = "setLevel" /\ f.at = 12
         /\ Stage(f) = "write"     => f.op = "setLevel" /\ f.at = 1
         /\ Stage(f) = "pass"      => f.op = "setLevel" /\ f.at = 2
         /\ Stage(f) = "static"    => f.op = "setLevel" /\ f.at = 3
         /\ Stage(f) = "construct" => f.op = "setLevel" /\ f.at = 4
         /\ Stage(f) = "read"      => f.op = "setLevel" /\ f.at = 5
         /\ Stage(f) = "return"    => \/ f.op = "log" /\ f.at >= 2
                                      \/ f.op = "env" /\ f.at >= 4
                                      \/ f.op = "jJvmLog" /\ f.at >= 8
                                      \/ f.op = "lookup" /\ f.at >= 6
                                      \/ f.op = "setLevel" /\ f.at >= 13
<1>1. f.op \in {"log", "env", "jJvmLog", "lookup", "setLevel"} /\ f.at \in 1..13
  BY DEF Frames, Ops, Route
<1>2. CASE f.op = "log"
  BY <1>1, <1>2 DEF Stage, Route
<1>3. CASE f.op = "env"
  BY <1>1, <1>3 DEF Stage, Route
<1>4. CASE f.op = "jJvmLog"
  BY <1>1, <1>4 DEF Stage, Route
<1>5. CASE f.op = "lookup"
  BY <1>1, <1>5 DEF Stage, Route
<1>6. CASE f.op = "setLevel"
  BY <1>1, <1>6 DEF Stage, Route
<1> QED BY <1>1, <1>2, <1>3, <1>4, <1>5, <1>6

LEMMA UpType ==
  ASSUME NEW f \in Frames, f.at <= 12
  PROVE  /\ Up(f) \in Frames /\ Up(f).op = f.op /\ Up(f).at = f.at + 1 /\ Up(f).level = f.level
  BY DEF Up, Frames

LEMMA FrameType ==
  ASSUME NEW op \in Ops, NEW level \in LOG_DEBUG..LOG_DISABLE
  PROVE  /\ Frame(op, level) \in Frames /\ Frame(op, level).op = op
         /\ Frame(op, level).at = 1 /\ Frame(op, level).level = level
  BY DEF Frame, Frames

LEMMA Names == /\ {"log", "env", "jJvmLog", "lookup", "setLevel"} = Ops
               /\ Len(Route["jJvmLog"]) = 7 /\ Len(Route["setLevel"]) = 12
  BY DEF Ops, Route

LEMMA Levels ==
  /\ LOG_DEBUG = 0 /\ LOG_DEBUG..LOG_DISABLE = 0..3
  /\ {LOG_DEBUG, LOG_WARN, LOG_ERROR} \subseteq LOG_DEBUG..LOG_DISABLE
  /\ MinLevels \subseteq LOG_DEBUG..LOG_DISABLE
  /\ \A f \in Frames : f.level \in LOG_DEBUG..LOG_DISABLE
  BY LoggingAssumption DEF LOG_DEBUG, LOG_WARN, LOG_ERROR, LOG_DISABLE, Frames

-----------------------------------------------------------------------------
(* What each step does to the calls of its thread: the innermost one ends, *)
(* becomes another frame, or makes a call.                                 *)
Typed == stack \in [Threads -> Seq(Frames)]
Rest(t) == Tail(stack[t])
After(t, s) == stack' = [stack EXCEPT ![t] = s]
Popped(t) == After(t, Rest(t))
Turned(t, g) == After(t, <<g>> \o Rest(t))
Called(t, h) ==
  /\ Len(stack[t]) < MaxDepth
  /\ After(t, <<h>> \o (<<Up(Top(t))>> \o Rest(t)))

LEMMA Tops ==
  ASSUME Typed, NEW t \in Threads, stack[t] # << >>
  PROVE  /\ Top(t) \in Frames /\ Rest(t) \in Seq(Frames) /\ Top(t) = stack[t][1]
         /\ stack[t] = <<Top(t)>> \o Rest(t)
         /\ Len(stack[t]) = Len(Rest(t)) + 1 /\ Len(Rest(t)) \in Nat
<1>1. stack[t] \in Seq(Frames)
  BY DEF Typed
<1> QED BY <1>1, Split DEF Top, Rest

LEMMA Forms ==
  ASSUME Typed, NEW t \in Threads, stack[t] # << >>
  PROVE  /\ Return(t) => Popped(t)
         /\ \A g \in Frames : Becomes(t, <<g>>) => Turned(t, g)
         /\ Top(t).at <= 12 => \A h \in Frames : Calls(t, h) => Called(t, h)
<1>1. Rest(t) \in Seq(Frames) /\ Top(t) \in Frames
  BY Tops
<1> DEFINE r == Tail(stack[t])
<1>2. ASSUME NEW fs PROVE Becomes(t, fs) => After(t, fs \o r)
  BY DEF Becomes, After, Typed
<1>3. Return(t) => Popped(t)
  <2>1. << >> \o r = r
    BY <1>1 DEF Rest
  <2>2. Return(t) => After(t, << >> \o r)
    BY <1>2 DEF Return
  <2> QED BY <2>1, <2>2 DEF Popped, Rest
<1>4. ASSUME NEW g \in Frames, Becomes(t, <<g>>) PROVE Turned(t, g)
  BY <1>2, <1>4 DEF Turned, Rest
<1>5. ASSUME NEW h \in Frames, Calls(t, h), Top(t).at <= 12 PROVE Called(t, h)
  <2> DEFINE g == Up(Top(t))
  <2>1. g \in Frames
    BY <1>1, <1>5, UpType
  <2> HIDE DEF g
  <2>2. r \in Seq(Frames)
    BY <1>1 DEF Rest
  <2> HIDE DEF r
  <2>3. <<h, g>> \o r = <<h>> \o (<<g>> \o r)
    BY <2>1, <2>2
  <2>4. After(t, <<h, g>> \o r) /\ Len(stack[t]) < MaxDepth
    BY <1>2, <1>5 DEF Calls, g
  <2> QED BY <2>3, <2>4 DEF Called, r, g, Rest
<1> QED BY <1>3, <1>4, <1>5

(* Whom a step of t leaves alone, and the calls of t. *)
LEMMA StackAfter ==
  ASSUME Typed, NEW t \in Threads, NEW s \in Seq(Frames), After(t, s)
  PROVE  Typed' /\ stack'[t] = s /\ \A u \in Threads : u # t => stack'[u] = stack[u]
  BY DEF Typed, After

LEMMA AtTop ==
  ASSUME Typed, NEW t \in Threads, NEW s, AtStage(t, s)
  PROVE  /\ stack[t] # << >> /\ Stage(Top(t)) = s /\ Top(t) \in Frames
         /\ Top(t).at \in 1..13 /\ Top(t).op \in Ops /\ Top(t).level \in LOG_DEBUG..LOG_DISABLE
<1>1. stack[t] # << >> /\ Stage(Top(t)) = s
  BY DEF AtStage
<1>2. Top(t) \in Frames
  BY <1>1, Tops
<1> QED BY <1>1, <1>2 DEF Frames

LEMMA WriteDoes ==
  ASSUME Typed, NEW t \in Threads, Write(t)
  PROVE  /\ stack[t] # << >> /\ Top(t).op = "log" /\ Top(t).at = 1 /\ Popped(t)
         /\ UNCHANGED <<settings, envSet, locks, made, alone>>
<1>1. AtStage(t, "filter") /\ Return(t) /\ UNCHANGED <<settings, envSet, locks, made, alone>>
  BY DEF Write
<1> QED BY <1>1, AtTop, Stages, Forms

LEMMA SendToJavaDoes ==
  ASSUME Typed, NEW t \in Threads, SendToJava(t)
  PROVE  /\ stack[t] # << >> /\ Top(t).op = "log" /\ Top(t).at = 1
         /\ Top(t).level >= gMinimumLogLevel \/ gMinimumLogLevel \notin LOG_DEBUG..LOG_DISABLE
         /\ gLog = "jvm"
         /\ Frame("jJvmLog", Top(t).level) \in Frames
         /\ Turned(t, Frame("jJvmLog", Top(t).level))
         /\ UNCHANGED <<settings, envSet, locks, made, alone>>
<1>1. /\ AtStage(t, "filter") /\ ~Filtered(t) /\ gLog = "jvm"
      /\ Becomes(t, <<Frame("jJvmLog", Top(t).level)>>)
      /\ UNCHANGED <<settings, envSet, locks, made, alone>>
  BY DEF SendToJava
<1>2. /\ stack[t] # << >> /\ Top(t).op = "log" /\ Top(t).at = 1 /\ Top(t).level \in 0..3
  BY <1>1, AtTop, Stages, Levels
<1>3. Frame("jJvmLog", Top(t).level) \in Frames
  BY <1>2, FrameType, Names, Levels
<1>4. Top(t).level >= gMinimumLogLevel \/ gMinimumLogLevel \notin LOG_DEBUG..LOG_DISABLE
  BY <1>1, <1>2, Levels DEF Filtered
<1> QED BY <1>1, <1>2, <1>3, <1>4, Forms

LEMMA JvmLogDoes ==
  ASSUME Typed, NEW t \in Threads, JvmLog(t)
  PROVE  /\ stack[t] # << >> /\ Top(t).op = "jJvmLog" /\ Top(t).at = 7
         /\ Frame("log", Top(t).level) \in Frames
         /\ \/ Popped(t)
            \/ log = "native" /\ Called(t, Frame("log", Top(t).level))
         /\ UNCHANGED <<settings, envSet, locks, made, alone>>
<1>1. /\ AtStage(t, "java") /\ Top(t).op = "jJvmLog"
      /\ \/ Return(t)
         \/ log = "native" /\ Calls(t, Frame("log", Top(t).level))
      /\ UNCHANGED <<settings, envSet, locks, made, alone>>
  BY DEF JvmLog, At, Says
<1>2. /\ stack[t] # << >> /\ Top(t).at = 7
  BY <1>1, AtTop, Stages
<1>3. Frame("log", Top(t).level) \in Frames
  BY <1>1, AtTop, FrameType, Names
<1> QED BY <1>1, <1>2, <1>3, Forms

LEMMA EnvDoes ==
  ASSUME Typed, NEW t \in Threads, Env(t)
  PROVE  /\ stack[t] # << >>
         /\ \/ Top(t).op \in {"jJvmLog", "lookup"} /\ Top(t).at = 1
            \/ Top(t).op = "setLevel" /\ Top(t).at = 6
         /\ Frame("env", LOG_DEBUG) \in Frames
         /\ \/ envSet[t] /\ Turned(t, Up(Top(t)))
            \/ ~envSet[t] /\ Called(t, Frame("env", LOG_DEBUG))
         /\ UNCHANGED <<settings, envSet, locks, made, alone>>
<1>1. /\ AtStage(t, "env")
      /\ \/ envSet[t] /\ Becomes(t, <<Up(Top(t))>>)
         \/ ~envSet[t] /\ Calls(t, Frame("env", LOG_DEBUG))
      /\ UNCHANGED <<settings, envSet, locks, made, alone>>
  BY DEF Env, Proceed
<1>2. /\ stack[t] # << >> /\ Top(t) \in Frames
      /\ \/ Top(t).op \in {"jJvmLog", "lookup"} /\ Top(t).at = 1
         \/ Top(t).op = "setLevel" /\ Top(t).at = 6
  BY <1>1, AtTop, Stages
<1>3. Top(t).at <= 12
  BY <1>2
<1>4. Frame("env", LOG_DEBUG) \in Frames /\ Up(Top(t)) \in Frames
  BY <1>2, <1>3, UpType, FrameType, Names, Levels
<1> QED BY <1>1, <1>2, <1>3, <1>4, Forms

LEMMA EnvSaysDoes ==
  ASSUME Typed, NEW t \in Threads, EnvSays(t)
  PROVE  /\ stack[t] # << >> /\ Top(t).op = "env" /\ Top(t).at \in {1, 2}
         /\ Frame("log", LOG_DEBUG) \in Frames /\ Called(t, Frame("log", LOG_DEBUG))
         /\ UNCHANGED <<settings, envSet, locks, made, alone>>
<1>1. /\ AtStage(t, "unset") \/ AtStage(t, "got")
      /\ Calls(t, Frame("log", LOG_DEBUG))
      /\ UNCHANGED <<settings, envSet, locks, made, alone>>
  BY DEF EnvSays, Says
<1>2. /\ stack[t] # << >> /\ Top(t).op = "env" /\ Top(t).at \in {1, 2}
  BY <1>1, AtTop, Stages
<1>3. Frame("log", LOG_DEBUG) \in Frames
  BY FrameType, Names, Levels
<1> QED BY <1>1, <1>2, <1>3, Forms

LEMMA SetEnvDoes ==
  ASSUME Typed, NEW t \in Threads, SetEnv(t)
  PROVE  /\ stack[t] # << >> /\ Top(t).op = "env" /\ Top(t).at = 3 /\ Popped(t)
         /\ envSet' = [envSet EXCEPT ![t] = TRUE]
         /\ UNCHANGED <<settings, locks, made, alone>>
<1>1. /\ AtStage(t, "set") /\ Return(t) /\ envSet' = [envSet EXCEPT ![t] = TRUE]
      /\ UNCHANGED <<settings, locks, made, alone>>
  BY DEF SetEnv
<1> QED BY <1>1, AtTop, Stages, Forms

LEMMA ResolveDoes ==
  ASSUME Typed, NEW t \in Threads, Resolve(t)
  PROVE  /\ stack[t] # << >>
         /\ \/ Top(t).op = "jJvmLog" /\ Top(t).at = 2
            \/ Top(t).op = "setLevel" /\ Top(t).at = 7
         /\ \/ /\ once[Top(t).op] = "set" /\ once' = once
               /\ \E g \in Frames :
                    /\ g.op = Top(t).op /\ g.level = Top(t).level
                    /\ g.at = IF g.op = "jJvmLog" THEN 7 ELSE 12
                    /\ Turned(t, g)
            \/ /\ once[Top(t).op] = NoThread /\ once' = [once EXCEPT ![Top(t).op] = t]
               /\ Turned(t, Up(Top(t)))
         /\ UNCHANGED <<settings, envSet, cacheMutex, depth, made, alone>>
<1> DEFINE f == Top(t)
           n == Len(Route[f.op])
           g == [f EXCEPT !.at = n]
<1>1. /\ AtStage(t, "once")
      /\ \/ once[f.op] = "set" /\ Becomes(t, <<g>>) /\ once' = once
         \/ /\ once[f.op] = NoThread /\ once' = [once EXCEPT ![f.op] = t]
            /\ Becomes(t, <<Up(f)>>)
      /\ UNCHANGED <<settings, envSet, cacheMutex, depth, made, alone>>
  BY DEF Resolve, Proceed
<1>2. /\ stack[t] # << >> /\ f \in Frames
      /\ \/ f.op = "jJvmLog" /\ f.at = 2
         \/ f.op = "setLevel" /\ f.at = 7
  BY <1>1, AtTop, Stages
<1>3. n = (IF f.op = "jJvmLog" THEN 7 ELSE 12) /\ n \in 1..13
  <2>1. CASE f.op = "jJvmLog"
    BY <2>1, Names
  <2>2. CASE f.op = "setLevel"
    BY <2>2, Names
  <2> QED BY <1>2, <2>1, <2>2
<1>4. Up(f) \in Frames
  BY <1>2, UpType
<1>5. g \in Frames /\ g.op = f.op /\ g.level = f.level /\ g.at = n
  <2> HIDE DEF n
  <2> QED BY <1>2, <1>3 DEF Frames
<1> HIDE DEF g, n
<1>6. Becomes(t, <<g>>) => Turned(t, g)
  BY <1>2, <1>5, Forms
<1>7. Becomes(t, <<Up(f)>>) => Turned(t, Up(f))
  BY <1>2, <1>4, Forms
<1> QED BY <1>1, <1>2, <1>3, <1>5, <1>6, <1>7

LEMMA LockDoes ==
  ASSUME Typed, NEW t \in Threads, Lock(t)
  PROVE  /\ stack[t] # << >>
         /\ \/ Top(t).op = "jJvmLog" /\ Top(t).at = 3
            \/ Top(t).op = "lookup" /\ Top(t).at = 2
            \/ Top(t).op = "setLevel" /\ Top(t).at = 8
         /\ cacheMutex \in {NoThread, t} /\ cacheMutex' = t /\ depth' = depth + 1
         /\ Turned(t, Up(Top(t)))
         /\ UNCHANGED <<settings, envSet, once, made, alone>>
<1>1. /\ AtStage(t, "lock") /\ Becomes(t, <<Up(Top(t))>>)
      /\ cacheMutex \in {NoThread, t} /\ cacheMutex' = t /\ depth' = depth + 1
      /\ UNCHANGED <<settings, envSet, once, made, alone>>
  BY DEF Lock, Proceed
<1>2. /\ stack[t] # << >> /\ Top(t) \in Frames
      /\ \/ Top(t).op = "jJvmLog" /\ Top(t).at = 3
         \/ Top(t).op = "lookup" /\ Top(t).at = 2
         \/ Top(t).op = "setLevel" /\ Top(t).at = 8
  BY <1>1, AtTop, Stages
<1>3. Up(Top(t)) \in Frames
  BY <1>2, UpType
<1> QED BY <1>1, <1>2, <1>3, Forms

LEMMA AnnounceDoes ==
  ASSUME Typed, NEW t \in Threads, Announce(t)
  PROVE  /\ stack[t] # << >>
         /\ \/ Top(t).op = "jJvmLog" /\ Top(t).at = 4
            \/ Top(t).op = "lookup" /\ Top(t).at = 3
            \/ Top(t).op = "setLevel" /\ Top(t).at = 9
         /\ Frame("log", LOG_DEBUG) \in Frames /\ Called(t, Frame("log", LOG_DEBUG))
         /\ UNCHANGED <<settings, envSet, locks, made, alone>>
<1>1. /\ AtStage(t, "announce") /\ Calls(t, Frame("log", LOG_DEBUG))
      /\ UNCHANGED <<settings, envSet, locks, made, alone>>
  BY DEF Announce, Says
<1>2. /\ stack[t] # << >> /\ Top(t) \in Frames
      /\ \/ Top(t).op = "jJvmLog" /\ Top(t).at = 4
         \/ Top(t).op = "lookup" /\ Top(t).at = 3
         \/ Top(t).op = "setLevel" /\ Top(t).at = 9
  BY <1>1, AtTop, Stages
<1>3. Frame("log", LOG_DEBUG) \in Frames
  BY FrameType, Names, Levels
<1> QED BY <1>1, <1>2, <1>3, Forms

LEMMA ReportDoes ==
  ASSUME Typed, NEW t \in Threads, Report(t)
  PROVE  /\ stack[t] # << >>
         /\ \/ Top(t).op = "jJvmLog" /\ Top(t).at = 5
            \/ Top(t).op = "lookup" /\ Top(t).at = 4
            \/ Top(t).op = "setLevel" /\ Top(t).at = 10
         /\ Frame("log", LOG_DEBUG) \in Frames /\ Frame("log", LOG_WARN) \in Frames
         /\ \/ Called(t, Frame("log", LOG_DEBUG))
            \/ Top(t).op = "lookup" /\ Called(t, Frame("log", LOG_WARN))
            \/ Top(t).op = "lookup" /\ Turned(t, Up(Top(t)))
         /\ UNCHANGED <<settings, envSet, locks, made, alone>>
<1>1. /\ AtStage(t, "report")
      /\ \/ Calls(t, Frame("log", LOG_DEBUG))
         \/ Top(t).op = "lookup" /\ Calls(t, Frame("log", LOG_WARN))
         \/ Top(t).op = "lookup" /\ Becomes(t, <<Up(Top(t))>>)
      /\ UNCHANGED <<settings, envSet, locks, made, alone>>
  BY DEF Report, Says, Proceed
<1>2. /\ stack[t] # << >> /\ Top(t) \in Frames
      /\ \/ Top(t).op = "jJvmLog" /\ Top(t).at = 5
         \/ Top(t).op = "lookup" /\ Top(t).at = 4
         \/ Top(t).op = "setLevel" /\ Top(t).at = 10
  BY <1>1, AtTop, Stages
<1>3. Frame("log", LOG_DEBUG) \in Frames /\ Frame("log", LOG_WARN) \in Frames
  BY FrameType, Names, Levels
<1>4. Up(Top(t)) \in Frames
  BY <1>2, UpType
<1> QED BY <1>1, <1>2, <1>3, <1>4, Forms

LEMMA UnlockDoes ==
  ASSUME Typed, NEW t \in Threads, Unlock(t)
  PROVE  /\ stack[t] # << >>
         /\ \/ Top(t).op = "jJvmLog" /\ Top(t).at = 6
            \/ Top(t).op = "lookup" /\ Top(t).at = 5
            \/ Top(t).op = "setLevel" /\ Top(t).at = 11
         /\ depth' = depth - 1 /\ cacheMutex' = IF depth = 1 THEN NoThread ELSE t
         /\ once' = IF Top(t).op \in Flags THEN [once EXCEPT ![Top(t).op] = "set"] ELSE once
         /\ Turned(t, Up(Top(t)))
         /\ UNCHANGED <<settings, envSet, made, alone>>
<1>1. /\ AtStage(t, "unlock") /\ Becomes(t, <<Up(Top(t))>>)
      /\ depth' = depth - 1 /\ cacheMutex' = IF depth = 1 THEN NoThread ELSE t
      /\ once' = IF Top(t).op \in Flags THEN [once EXCEPT ![Top(t).op] = "set"] ELSE once
      /\ UNCHANGED <<settings, envSet, made, alone>>
  BY DEF Unlock, Resolved, Proceed
<1>2. /\ stack[t] # << >> /\ Top(t) \in Frames
      /\ \/ Top(t).op = "jJvmLog" /\ Top(t).at = 6
         \/ Top(t).op = "lookup" /\ Top(t).at = 5
         \/ Top(t).op = "setLevel" /\ Top(t).at = 11
  BY <1>1, AtTop, Stages
<1>3. Up(Top(t)) \in Frames
  BY <1>2, UpType
<1> QED BY <1>1, <1>2, <1>3, Forms

LEMMA ReturnsDoes ==
  ASSUME Typed, NEW t \in Threads, Returns(t)
  PROVE  /\ stack[t] # << >> /\ Popped(t)
         /\ \/ Top(t).op = "log" /\ Top(t).at >= 2
            \/ Top(t).op = "env" /\ Top(t).at >= 4
            \/ Top(t).op = "jJvmLog" /\ Top(t).at >= 8
            \/ Top(t).op = "lookup" /\ Top(t).at >= 6
            \/ Top(t).op = "setLevel" /\ Top(t).at >= 13
         /\ UNCHANGED <<settings, envSet, locks, made, alone>>
<1>1. AtStage(t, "return") /\ Return(t) /\ UNCHANGED <<settings, envSet, locks, made, alone>>
  BY DEF Returns
<1> QED BY <1>1, AtTop, Stages, Forms

LEMMA SetLevelDoes ==
  ASSUME Typed, NEW t \in Threads
  PROVE  /\ WriteLevel(t) =>
              /\ stack[t] # << >> /\ Top(t).op = "setLevel" /\ Top(t).at = 1
              /\ gMinimumLogLevel' = Top(t).level /\ Turned(t, Up(Top(t)))
              /\ UNCHANGED <<javaLevel, gLog, log, envSet, locks, made, alone>>
         /\ PassLevel(t) =>
              /\ stack[t] # << >> /\ Top(t).op = "setLevel" /\ Top(t).at = 2
              /\ \/ envSet[t] /\ Turned(t, Up(Top(t)))
                 \/ ~envSet[t] /\ Popped(t)
              /\ UNCHANGED <<settings, envSet, locks, made, alone>>
         /\ SetJavaLevel(t) =>
              /\ stack[t] # << >> /\ Top(t).op = "setLevel" /\ Top(t).at = 12
              /\ javaLevel' = Top(t).level /\ Popped(t)
              /\ UNCHANGED <<gMinimumLogLevel, gLog, log, envSet, locks, made, alone>>
<1>1. ASSUME WriteLevel(t)
      PROVE  /\ stack[t] # << >> /\ Top(t).op = "setLevel" /\ Top(t).at = 1
             /\ gMinimumLogLevel' = Top(t).level /\ Turned(t, Up(Top(t)))
             /\ UNCHANGED <<javaLevel, gLog, log, envSet, locks, made, alone>>
  <2>1. /\ AtStage(t, "write") /\ Becomes(t, <<Up(Top(t))>>) /\ gMinimumLogLevel' = Top(t).level
        /\ UNCHANGED <<javaLevel, gLog, log, envSet, locks, made, alone>>
    BY <1>1 DEF WriteLevel, Proceed
  <2>2. /\ stack[t] # << >> /\ Top(t) \in Frames /\ Top(t).op = "setLevel" /\ Top(t).at = 1
    BY <2>1, AtTop, Stages
  <2>3. Up(Top(t)) \in Frames
    BY <2>2, UpType
  <2> QED BY <2>1, <2>2, <2>3, Forms
<1>2. ASSUME PassLevel(t)
      PROVE  /\ stack[t] # << >> /\ Top(t).op = "setLevel" /\ Top(t).at = 2
             /\ \/ envSet[t] /\ Turned(t, Up(Top(t)))
                \/ ~envSet[t] /\ Popped(t)
             /\ UNCHANGED <<settings, envSet, locks, made, alone>>
  <2>1. /\ AtStage(t, "pass")
        /\ \/ envSet[t] /\ Becomes(t, <<Up(Top(t))>>)
           \/ ~envSet[t] /\ Return(t)
        /\ UNCHANGED <<settings, envSet, locks, made, alone>>
    <3>1. /\ AtStage(t, "pass") /\ IF envSet[t] THEN Proceed(t) ELSE Return(t)
          /\ UNCHANGED <<settings, envSet, locks, made, alone>>
      BY <1>2 DEF PassLevel
    <3>2. \/ envSet[t] /\ Proceed(t)
          \/ ~envSet[t] /\ Return(t)
      BY <3>1
    <3> QED BY <3>1, <3>2 DEF Proceed
  <2>2. /\ stack[t] # << >> /\ Top(t) \in Frames /\ Top(t).op = "setLevel" /\ Top(t).at = 2
    BY <2>1, AtTop, Stages
  <2>3. Up(Top(t)) \in Frames
    BY <2>2, UpType
  <2> QED BY <2>1, <2>2, <2>3, Forms
<1>3. ASSUME SetJavaLevel(t)
      PROVE  /\ stack[t] # << >> /\ Top(t).op = "setLevel" /\ Top(t).at = 12
             /\ javaLevel' = Top(t).level /\ Popped(t)
             /\ UNCHANGED <<gMinimumLogLevel, gLog, log, envSet, locks, made, alone>>
  <2>1. /\ AtStage(t, "java") /\ Top(t).op = "setLevel" /\ Return(t) /\ javaLevel' = Top(t).level
        /\ UNCHANGED <<gMinimumLogLevel, gLog, log, envSet, locks, made, alone>>
    BY <1>3 DEF SetJavaLevel, At
  <2>2. stack[t] # << >> /\ Top(t).at = 12
    BY <2>1, AtTop, Stages
  <2> QED BY <2>1, <2>2, Forms
<1> QED BY <1>1, <1>2, <1>3

LEMMA ReadLevelDoes ==
  ASSUME Typed, NEW t \in Threads, gMinimumLogLevel \in LOG_DEBUG..LOG_DISABLE, ReadLevel(t)
  PROVE  /\ stack[t] # << >> /\ Top(t).op = "setLevel" /\ Top(t).at = 5
         /\ once' = [once EXCEPT !["static"] = "set"]
         /\ \E g \in Frames : /\ g.op = "setLevel" /\ g.at = 6 /\ g.level = gMinimumLogLevel
                              /\ Turned(t, g)
         /\ UNCHANGED <<settings, envSet, cacheMutex, depth, made, alone>>
<1> DEFINE f == Top(t)
           h == [f EXCEPT !.level = gMinimumLogLevel]
           g == Up(h)
<1>1. /\ AtStage(t, "read") /\ once' = [once EXCEPT !["static"] = "set"] /\ Becomes(t, <<g>>)
      /\ UNCHANGED <<settings, envSet, cacheMutex, depth, made, alone>>
  BY DEF ReadLevel
<1>2. /\ stack[t] # << >> /\ f \in Frames /\ f.op = "setLevel" /\ f.at = 5
  BY <1>1, AtTop, Stages
<1>3. g \in Frames /\ g.op = "setLevel" /\ g.at = 6 /\ g.level = gMinimumLogLevel
  <2>1. h \in Frames /\ h.op = "setLevel" /\ h.at = 5 /\ h.level = gMinimumLogLevel
    BY <1>2 DEF Frames
  <2> HIDE DEF h
  <2> QED BY <2>1, UpType
<1> HIDE DEF g
<1>4. Turned(t, g)
  BY <1>1, <1>2, <1>3, Forms
<1> QED BY <1>1, <1>2, <1>3, <1>4

LEMMA StaticDoes ==
  ASSUME Typed, NEW t \in Threads
  PROVE  /\ Static(t) =>
              /\ stack[t] # << >> /\ Top(t).op = "setLevel" /\ Top(t).at = 3
              /\ \/ /\ once["static"] = "set" /\ once' = once
                    /\ \E g \in Frames : /\ g.op = "setLevel" /\ g.at = 5
                                         /\ Turned(t, g)
                 \/ /\ once["static"] = NoThread /\ once' = [once EXCEPT !["static"] = t]
                    /\ Turned(t, Up(Top(t)))
              /\ UNCHANGED <<settings, envSet, cacheMutex, depth, made, alone>>
         /\ Construct(t) =>
              /\ stack[t] # << >> /\ Top(t).op = "setLevel" /\ Top(t).at = 4
              /\ Frame("log", LOG_DEBUG) \in Frames /\ Called(t, Frame("log", LOG_DEBUG))
              /\ UNCHANGED <<settings, envSet, locks, made, alone>>
<1>1. ASSUME Static(t)
      PROVE  /\ stack[t] # << >> /\ Top(t).op = "setLevel" /\ Top(t).at = 3
             /\ \/ /\ once["static"] = "set" /\ once' = once
                   /\ \E g \in Frames : g.op = "setLevel" /\ g.at = 5 /\ Turned(t, g)
                \/ /\ once["static"] = NoThread /\ once' = [once EXCEPT !["static"] = t]
                   /\ Turned(t, Up(Top(t)))
             /\ UNCHANGED <<settings, envSet, cacheMutex, depth, made, alone>>
  <2> DEFINE g == [Top(t) EXCEPT !.at = 5]
  <2>1. /\ AtStage(t, "static")
        /\ \/ once["static"] = "set" /\ Becomes(t, <<g>>) /\ once' = once
           \/ /\ once["static"] = NoThread /\ once' = [once EXCEPT !["static"] = t]
              /\ Becomes(t, <<Up(Top(t))>>)
        /\ UNCHANGED <<settings, envSet, cacheMutex, depth, made, alone>>
    BY <1>1 DEF Static, Proceed
  <2>2. /\ stack[t] # << >> /\ Top(t) \in Frames /\ Top(t).op = "setLevel" /\ Top(t).at = 3
    BY <2>1, AtTop, Stages
  <2>3. Up(Top(t)) \in Frames
    BY <2>2, UpType
  <2>4. g \in Frames /\ g.op = "setLevel" /\ g.at = 5
    BY <2>2 DEF Frames
  <2> HIDE DEF g
  <2>5. Becomes(t, <<g>>) => Turned(t, g)
    BY <2>2, <2>4, Forms
  <2>6. Becomes(t, <<Up(Top(t))>>) => Turned(t, Up(Top(t)))
    BY <2>2, <2>3, Forms
  <2> QED BY <2>1, <2>2, <2>4, <2>5, <2>6
<1>2. ASSUME Construct(t)
      PROVE  /\ stack[t] # << >> /\ Top(t).op = "setLevel" /\ Top(t).at = 4
             /\ Frame("log", LOG_DEBUG) \in Frames /\ Called(t, Frame("log", LOG_DEBUG))
             /\ UNCHANGED <<settings, envSet, locks, made, alone>>
  <2>1. /\ AtStage(t, "construct") /\ Calls(t, Frame("log", LOG_DEBUG))
        /\ UNCHANGED <<settings, envSet, locks, made, alone>>
    BY <1>2 DEF Construct, Says
  <2>2. /\ stack[t] # << >> /\ Top(t).op = "setLevel" /\ Top(t).at = 4
    BY <2>1, AtTop, Stages
  <2>3. Frame("log", LOG_DEBUG) \in Frames
    BY FrameType, Names, Levels
  <2> QED BY <2>1, <2>2, <2>3, Forms
<1> QED BY <1>1, <1>2

-----------------------------------------------------------------------------
(* Types.  Calls of setMinimumLogLevel carry a level of the clients, but   *)
(* for the one of initializeEnvironment before it reads the level.         *)

FrameOK(f) == f.op = "setLevel" /\ f.at \notin 2..5 => f.level \in MinLevels
Good(fs) ==
  /\ fs \in Seq(Frames)
  /\ Len(fs) <= MaxDepth
  /\ \A i \in DOMAIN fs : FrameOK(fs[i])

(* The lookups that are between lock and unlock, counted from the bottom of *)
(* the stack: the depth of the mutex is their number.                       *)
Holds(f) == \/ f.op = "lookup" /\ f.at \in 3..5
            \/ f.op = "jJvmLog" /\ f.at \in 4..6
            \/ f.op = "setLevel" /\ f.at \in 9..11
Held(fs) == {n \in 1..Len(fs) : Holds(fs[Len(fs) + 1 - n])}

LockInv ==
  /\ cacheMutex \in Threads \cup {NoThread} /\ depth \in Nat
  /\ \A t \in Threads : Held(stack[t]) # {} => cacheMutex = t
  /\ \A t \in Threads : cacheMutex = t => depth = Cardinality(Held(stack[t]))
  /\ depth = 0 <=> cacheMutex = NoThread

SettingsOK ==
  /\ gMinimumLogLevel \in MinLevels
  /\ javaLevel \in MinLevels \cup {LOG_DEBUG}
  /\ gLog \in {"stream", "jvm"} /\ log \in {"print", "native"}
  /\ envSet \in [Threads -> BOOLEAN]
  /\ once \in [Flags -> Threads \cup {NoThread, "set"}]
  /\ made \in 0..MaxCalls /\ alone \in BOOLEAN

LogInv ==
  /\ Typed /\ \A t \in Threads : Good(stack[t])
  /\ SettingsOK
  /\ LockInv

LEMMA HeldOfCons ==
  ASSUME NEW f \in Frames, NEW rest \in Seq(Frames)
  PROVE  Held(<<f>> \o rest) = Held(rest) \cup (IF Holds(f) THEN {Len(rest) + 1} ELSE {})
<1> DEFINE s == <<f>> \o rest
<1>1. /\ Len(s) = Len(rest) + 1 /\ Len(rest) \in Nat
      /\ s[1] = f /\ \A i \in 2..Len(s) : s[i] = rest[i - 1]
  BY Cons
<1> HIDE DEF s
<1>2. \A n \in 1..Len(rest) : s[Len(s) + 1 - n] = rest[Len(rest) + 1 - n]
  <2> TAKE n \in 1..Len(rest)
  <2>1. Len(s) + 1 - n \in 2..Len(s) /\ Len(s) + 1 - n - 1 = Len(rest) + 1 - n
    BY <1>1
  <2> QED BY <1>1, <2>1
<1>3. s[Len(s) + 1 - (Len(rest) + 1)] = f
  BY <1>1
<1>4. 1..Len(s) = (1..Len(rest)) \cup {Len(rest) + 1}
  BY <1>1
<1>5. Held(s) = Held(rest) \cup (IF Holds(f) THEN {Len(rest) + 1} ELSE {})
  BY <1>1, <1>2, <1>3, <1>4 DEF Held
<1> QED BY <1>5 DEF s

LEMMA HeldBounds ==
  ASSUME NEW fs \in Seq(Frames)
  PROVE  /\ IsFiniteSet(Held(fs)) /\ Cardinality(Held(fs)) \in Nat
         /\ Cardinality(Held(fs)) <= Len(fs)
         /\ Held(fs) \subseteq 1..Len(fs)
<1>1. Len(fs) \in Nat /\ Held(fs) \subseteq 1..Len(fs)
  BY DEF Held
<1>2. IsFiniteSet(1..Len(fs)) /\ Cardinality(1..Len(fs)) = Len(fs)
  <2> DEFINE n == Len(fs)
  <2>1. n \in Nat /\ n \in Int /\ 1 \in Int
    BY <1>1
  <2> HIDE DEF n
  <2>2. IsFiniteSet(1..n) /\ Cardinality(1..n) = IF 1 > n THEN 0 ELSE n - 1 + 1
    BY <2>1, FS_Interval, Zenon
  <2>3. (IF 1 > n THEN 0 ELSE n - 1 + 1) = n
    BY <2>1
  <2> QED BY <2>2, <2>3 DEF n
<1> QED BY <1>1, <1>2, FS_Subset, FS_CardinalityType

LEMMA HeldOfNone ==
  Held(<< >>) = {} /\ Cardinality({}) = 0 /\ Good(<< >>)
<1>1. << >> \in Seq(Frames) /\ Len(<< >>) = 0 /\ DOMAIN << >> = {}
  OBVIOUS
<1> QED BY <1>1, FS_EmptySet, LoggingAssumption DEF Held, Good

LEMMA GoodCons ==
  ASSUME NEW f \in Frames, FrameOK(f), NEW rest, Good(rest), Len(rest) < MaxDepth
  PROVE  Good(<<f>> \o rest)
<1> DEFINE s == <<f>> \o rest
<1>1. /\ rest \in Seq(Frames) /\ s \in Seq(Frames)
      /\ Len(s) = Len(rest) + 1 /\ Len(rest) \in Nat
      /\ s[1] = f /\ \A i \in 2..Len(s) : s[i] = rest[i - 1]
  BY Cons DEF Good
<1> HIDE DEF s
<1>2. Len(s) <= MaxDepth
  BY <1>1, LoggingAssumption
<1>3. ASSUME NEW i \in DOMAIN s PROVE FrameOK(s[i])
  <2>1. CASE i = 1
    BY <1>1, <2>1
  <2>2. CASE i # 1
    <3>1. i \in 2..Len(s) /\ i - 1 \in DOMAIN rest
      BY <1>1, <2>2
    <3> QED BY <1>1, <3>1 DEF Good
  <2> QED BY <2>1, <2>2
<1> QED BY <1>1, <1>2, <1>3 DEF Good, s

LEMMA GoodRest ==
  ASSUME LogInv, NEW t \in Threads, stack[t] # << >>
  PROVE  /\ Good(Rest(t)) /\ FrameOK(Top(t)) /\ Len(Rest(t)) < MaxDepth
         /\ Top(t) \in Frames /\ Rest(t) \in Seq(Frames)
         /\ Len(stack[t]) = Len(Rest(t)) + 1
         /\ Held(stack[t]) = Held(Rest(t)) \cup (IF Holds(Top(t)) THEN {Len(Rest(t)) + 1} ELSE {})
<1> DEFINE f == Top(t)
           r == Rest(t)
           s == stack[t]
<1>1. /\ f \in Frames /\ r \in Seq(Frames) /\ f = s[1] /\ s = <<f>> \o r
      /\ Len(s) = Len(r) + 1 /\ Len(r) \in Nat /\ Good(s)
  BY Tops DEF LogInv
<1>2. Held(s) = Held(r) \cup (IF Holds(f) THEN {Len(r) + 1} ELSE {})
  BY <1>1, HeldOfCons
<1>3. \A i \in DOMAIN r : i + 1 \in DOMAIN s /\ s[i + 1] = r[i]
  <2> HIDE DEF s, f, r
  <2> QED BY <1>1, Cons
<1> HIDE DEF s, f, r
<1>4. Len(r) < MaxDepth
  BY <1>1, LoggingAssumption DEF Good
<1>5. FrameOK(f)
  BY <1>1 DEF Good
<1>6. ASSUME NEW i \in DOMAIN r PROVE FrameOK(r[i])
  <2>1. i + 1 \in DOMAIN s /\ s[i + 1] = r[i]
    BY <1>3
  <2> QED BY <1>1, <2>1 DEF Good
<1>7. Good(r)
  BY <1>1, <1>4, <1>6, LoggingAssumption DEF Good
<1> QED BY <1>1, <1>2, <1>4, <1>5, <1>7 DEF s, f, r

(* A step changes one stack, and the mutex only with the lookups that hold *)
(* it.                                                                     *)
LEMMA StackChanged ==
  ASSUME LogInv, NEW t \in Threads, NEW s, Good(s), After(t, s), SettingsOK',
         \/ Held(s) = Held(stack[t]) /\ UNCHANGED <<cacheMutex, depth>>
         \/ /\ cacheMutex \in {NoThread, t} /\ cacheMutex' = t /\ depth' = depth + 1
            /\ \E n : n \notin Held(stack[t]) /\ Held(s) = Held(stack[t]) \cup {n}
         \/ /\ depth' = depth - 1 /\ cacheMutex' = IF depth = 1 THEN NoThread ELSE t
            /\ \E n \in Held(stack[t]) : Held(s) = Held(stack[t]) \ {n}
  PROVE  LogInv'
<1>1. /\ Typed' /\ stack'[t] = s /\ \A u \in Threads : u # t => stack'[u] = stack[u]
  BY DEF LogInv, Typed, After, Good
<1>2. \A u \in Threads : Good(stack[u])'
  BY <1>1 DEF LogInv, Good, FrameOK
<1>3. /\ IsFiniteSet(Held(stack[t])) /\ Cardinality(Held(stack[t])) \in Nat
      /\ IsFiniteSet(Held(s)) /\ Cardinality(Held(s)) \in Nat
  BY HeldBounds DEF LogInv, Good
<1>4. NoThread \notin Threads
  BY LoggingAssumption
<1>5. CASE Held(s) = Held(stack[t]) /\ UNCHANGED <<cacheMutex, depth>>
  <2>1. \A u \in Threads : Held(stack'[u]) = Held(stack[u])
    BY <1>1, <1>5
  <2>2. LockInv'
    BY <1>5, <2>1 DEF LogInv, LockInv, Held, Holds
  <2> QED BY <1>1, <1>2, <2>2 DEF LogInv
<1>6. CASE /\ cacheMutex \in {NoThread, t} /\ cacheMutex' = t /\ depth' = depth + 1
           /\ \E n : n \notin Held(stack[t]) /\ Held(s) = Held(stack[t]) \cup {n}
  <2>1. depth = Cardinality(Held(stack[t])) /\ depth \in Nat
    <3>1. CASE cacheMutex = t
      BY <3>1 DEF LogInv, LockInv
    <3>2. CASE cacheMutex = NoThread
      BY <1>4, <3>2, FS_EmptySet DEF LogInv, LockInv
    <3> QED BY <1>6, <3>1, <3>2
  <2>2. depth' = Cardinality(Held(s))
    BY <1>3, <1>6, <2>1, FS_AddElement
  <2>3. \A u \in Threads : u # t => Held(stack[u]) = {}
    BY <1>4, <1>6 DEF LogInv, LockInv
  <2>4. LockInv'
    <3>1. cacheMutex' = t /\ depth' \in Nat /\ depth' # 0
      BY <1>6, <2>1
    <3>2. \A u \in Threads : Held(stack'[u]) # {} => u = t
      BY <1>1, <2>3
    <3>3. depth' = Cardinality(Held(stack'[t]))
      BY <1>1, <2>2
    <3> QED BY <1>4, <3>1, <3>2, <3>3 DEF LockInv, Held, Holds
  <2> QED BY <1>1, <1>2, <2>4 DEF LogInv
<1>7. CASE /\ depth' = depth - 1 /\ cacheMutex' = IF depth = 1 THEN NoThread ELSE t
           /\ \E n \in Held(stack[t]) : Held(s) = Held(stack[t]) \ {n}
  <2>1. /\ cacheMutex = t /\ depth = Cardinality(Held(stack[t])) /\ depth \in Nat
        /\ depth # 0
    BY <1>4, <1>7 DEF LogInv, LockInv
  <2>2. depth' = Cardinality(Held(s)) /\ depth' \in Nat
    BY <1>3, <1>7, <2>1, FS_RemoveElement
  <2>3. depth' = 0 => Held(s) = {}
    BY <1>3, <2>2, FS_EmptySet
  <2>4. \A u \in Threads : u # t => Held(stack[u]) = {}
    BY <1>4, <2>1 DEF LogInv, LockInv
  <2>5. LockInv'
    <3>1. depth' = 0 <=> cacheMutex' = NoThread
      BY <1>4, <1>7, <2>1, <2>2
    <3>2. cacheMutex' \in {t, NoThread}
      BY <1>7
    <3>3. \A u \in Threads : Held(stack'[u]) # {} => u = t /\ depth' # 0
      BY <1>1, <2>3, <2>4
    <3>4. depth' = Cardinality(Held(stack'[t]))
      BY <1>1, <2>2
    <3> QED BY <1>4, <2>2, <3>1, <3>2, <3>3, <3>4 DEF LockInv, Held, Holds
  <2> QED BY <1>1, <1>2, <2>5 DEF LogInv
<1> QED BY <1>5, <1>6, <1>7

LEMMA PopKeeps ==
  ASSUME LogInv, NEW t \in Threads, stack[t] # << >>, ~Holds(Top(t)), Popped(t),
         UNCHANGED <<cacheMutex, depth>>, SettingsOK'
  PROVE  LogInv'
<1>1. Good(Rest(t)) /\ Held(Rest(t)) = Held(stack[t])
  BY GoodRest
<1> QED BY <1>1, StackChanged DEF Popped

LEMMA TurnKeeps ==
  ASSUME LogInv, NEW t \in Threads, stack[t] # << >>,
         NEW g \in Frames, FrameOK(g), Holds(g) <=> Holds(Top(t)),
         Turned(t, g), UNCHANGED <<cacheMutex, depth>>, SettingsOK'
  PROVE  LogInv'
<1> DEFINE s == <<g>> \o Rest(t)
<1>1. Good(s)
  BY GoodRest, GoodCons
<1>2. Held(s) = Held(stack[t])
  BY GoodRest, HeldOfCons
<1> HIDE DEF s
<1>3. After(t, s)
  BY DEF s, Turned
<1> QED BY <1>1, <1>2, <1>3, StackChanged

LEMMA CallKeeps ==
  ASSUME LogInv, NEW t \in Threads, stack[t] # << >>, Top(t).at <= 12,
         FrameOK(Up(Top(t))), Holds(Up(Top(t))) <=> Holds(Top(t)),
         NEW h \in Frames, FrameOK(h), ~Holds(h), Called(t, h),
         UNCHANGED <<cacheMutex, depth>>, SettingsOK'
  PROVE  LogInv'
<1> DEFINE g == Up(Top(t))
           r == <<g>> \o Rest(t)
           s == <<h>> \o r
<1>0. g \in Frames
  BY GoodRest, UpType
<1>1. After(t, s) /\ Len(stack[t]) < MaxDepth
  BY DEF Called
<1> HIDE DEF g
<1>2. /\ Good(r) /\ Len(r) = Len(stack[t]) /\ r \in Seq(Frames)
      /\ Held(r) = Held(stack[t])
  <2>1. /\ Rest(t) \in Seq(Frames) /\ Len(stack[t]) = Len(Rest(t)) + 1
    BY GoodRest
  <2>2. Good(r)
    BY <1>0, GoodRest, GoodCons DEF g
  <2>3. Len(r) = Len(Rest(t)) + 1 /\ r \in Seq(Frames)
    BY <1>0, <2>1, Cons
  <2>4. Held(r) = Held(stack[t])
    BY <1>0, GoodRest, HeldOfCons DEF g
  <2> HIDE DEF r
  <2> QED BY <2>1, <2>2, <2>3, <2>4
<1> HIDE DEF r
<1>3. Good(s) /\ Held(s) = Held(r)
  BY <1>1, <1>2, GoodCons, HeldOfCons
<1> HIDE DEF s
<1> QED BY <1>1, <1>2, <1>3, StackChanged

(* New calls hold nothing yet. *)
LEMMA NewFrames ==
  ASSUME NEW op \in Ops, op # "setLevel", NEW level \in LOG_DEBUG..LOG_DISABLE
  PROVE  /\ Frame(op, level) \in Frames /\ FrameOK(Frame(op, level))
         /\ ~Holds(Frame(op, level))
<1>1. /\ Frame(op, level) \in Frames /\ Frame(op, level).op = op /\ Frame(op, level).at = 1
  BY FrameType
<1> DEFINE g == Frame(op, level)
<1> HIDE DEF g
<1>2. FrameOK(g) /\ ~Holds(g)
  BY <1>1 DEF FrameOK, Holds, g
<1> QED BY <1>1, <1>2 DEF g

LEMMA UpOK ==
  ASSUME NEW f \in Frames, f.at <= 12, FrameOK(f), f.op = "setLevel" => f.at \notin {5, 13}
  PROVE  FrameOK(Up(f))
<1>1. Up(f).op = f.op /\ Up(f).at = f.at + 1 /\ Up(f).level = f.level /\ f.at \in 1..12
  BY UpType DEF Frames
<1> QED BY <1>1 DEF FrameOK

(* Steps that leave the locks and the settings. *)
LEMMA QuietLogInv ==
  ASSUME LogInv, NEW t \in Threads,
         Write(t) \/ SendToJava(t) \/ JvmLog(t) \/ Env(t) \/ EnvSays(t)
  PROVE  LogInv'
<1>1. Typed
  BY DEF LogInv
<1>2. SettingsOK' /\ UNCHANGED <<cacheMutex, depth>>
  <2>1. UNCHANGED <<settings, envSet, locks, made, alone>>
    BY DEF Write, SendToJava, JvmLog, Env, EnvSays
  <2> QED BY <2>1 DEF LogInv, SettingsOK, settings, locks
<1>3. stack[t] # << >> => Top(t) \in Frames /\ FrameOK(Top(t))
  BY GoodRest
<1>4. ASSUME Write(t) PROVE LogInv'
  <2>1. stack[t] # << >> /\ Popped(t) /\ ~Holds(Top(t))
    BY <1>1, <1>4, WriteDoes DEF Holds
  <2> QED BY <1>2, <2>1, PopKeeps
<1>5. ASSUME SendToJava(t) PROVE LogInv'
  <2> DEFINE g == Frame("jJvmLog", Top(t).level)
  <2>1. stack[t] # << >> /\ Turned(t, g) /\ ~Holds(Top(t))
    BY <1>1, <1>5, SendToJavaDoes DEF Holds
  <2>2. g \in Frames /\ FrameOK(g) /\ ~Holds(g)
    BY <1>3, <2>1, NewFrames, Names, Levels
  <2> HIDE DEF g
  <2> QED BY <1>2, <2>1, <2>2, TurnKeeps
<1>6. ASSUME JvmLog(t) PROVE LogInv'
  <2> DEFINE g == Frame("log", Top(t).level)
  <2>1. /\ stack[t] # << >> /\ (Popped(t) \/ Called(t, g))
        /\ Top(t).op = "jJvmLog" /\ Top(t).at = 7 /\ ~Holds(Top(t))
    BY <1>1, <1>6, JvmLogDoes DEF Holds
  <2>2. g \in Frames /\ FrameOK(g) /\ ~Holds(g)
    BY <1>3, <2>1, NewFrames, Names, Levels
  <2>3. Up(Top(t)).op = "jJvmLog" /\ Up(Top(t)).at = 8 /\ FrameOK(Up(Top(t)))
    BY <1>3, <2>1, UpType, UpOK
  <2>4. ~Holds(Up(Top(t)))
    BY <2>3 DEF Holds
  <2> HIDE DEF g
  <2> QED BY <1>2, <2>1, <2>2, <2>3, <2>4, PopKeeps, CallKeeps
<1>7. ASSUME Env(t) PROVE LogInv'
  <2> DEFINE g == Frame("env", LOG_DEBUG)
  <2>1. /\ stack[t] # << >> /\ (Turned(t, Up(Top(t))) \/ Called(t, g))
        /\ \/ Top(t).op \in {"jJvmLog", "lookup"} /\ Top(t).at = 1
           \/ Top(t).op = "setLevel" /\ Top(t).at = 6
    BY <1>1, <1>7, EnvDoes
  <2>2. g \in Frames /\ FrameOK(g) /\ ~Holds(g)
    BY NewFrames, Names, Levels
  <2>3. /\ Up(Top(t)) \in Frames /\ FrameOK(Up(Top(t)))
        /\ Up(Top(t)).op = Top(t).op /\ Up(Top(t)).at = Top(t).at + 1
    BY <1>3, <2>1, UpType, UpOK
  <2>4. ~Holds(Up(Top(t))) /\ ~Holds(Top(t))
    BY <2>1, <2>3 DEF Holds
  <2> HIDE DEF g
  <2> QED BY <1>2, <2>1, <2>2, <2>3, <2>4, TurnKeeps, CallKeeps
<1>8. ASSUME EnvSays(t) PROVE LogInv'
  <2> DEFINE g == Frame("log", LOG_DEBUG)
  <2>1. stack[t] # << >> /\ Called(t, g) /\ Top(t).op = "env" /\ Top(t).at \in {1, 2}
    BY <1>1, <1>8, EnvSaysDoes
  <2>2. g \in Frames /\ FrameOK(g) /\ ~Holds(g)
    BY NewFrames, Names, Levels
  <2>3. FrameOK(Up(Top(t))) /\ Up(Top(t)).op = "env"
    BY <1>3, <2>1, UpType, UpOK
  <2>4. ~Holds(Up(Top(t))) /\ ~Holds(Top(t))
    BY <2>1, <2>3 DEF Holds
  <2> HIDE DEF g
  <2> QED BY <1>2, <2>1, <2>2, <2>3, <2>4, CallKeeps
<1> QED BY <1>4, <1>5, <1>6, <1>7, <1>8

LEMMA LookupLogInv ==
  ASSUME LogInv, NEW t \in Threads, SetEnv(t) \/ Resolve(t) \/ Announce(t) \/ Report(t) \/ Returns(t)
  PROVE  LogInv'
<1>1. Typed /\ envSet \in [Threads -> BOOLEAN] /\ once \in [Flags -> Threads \cup {NoThread, "set"}]
  BY DEF LogInv, SettingsOK
<1>2. SettingsOK' /\ UNCHANGED <<cacheMutex, depth>>
  <2>1. CASE SetEnv(t)
    <3>1. envSet' \in [Threads -> BOOLEAN] /\ UNCHANGED <<settings, locks, made, alone>>
      BY <1>1, <2>1 DEF SetEnv
    <3> QED BY <3>1 DEF LogInv, SettingsOK, settings, locks
  <2>2. CASE Resolve(t)
    <3>1. /\ once' = once \/ once' = [once EXCEPT ![Top(t).op] = t]
          /\ UNCHANGED <<settings, envSet, cacheMutex, depth, made, alone>>
      BY <2>2 DEF Resolve
    <3>2. once' \in [Flags -> Threads \cup {NoThread, "set"}]
      BY <1>1, <3>1
    <3> QED BY <3>1, <3>2 DEF LogInv, SettingsOK, settings
  <2>3. CASE Announce(t) \/ Report(t) \/ Returns(t)
    <3>1. UNCHANGED <<settings, envSet, locks, made, alone>>
      BY <2>3 DEF Announce, Report, Returns
    <3> QED BY <3>1 DEF LogInv, SettingsOK, settings, locks
  <2> QED BY <2>1, <2>2, <2>3
<1>3. stack[t] # << >> => Top(t) \in Frames /\ FrameOK(Top(t))
  BY GoodRest
<1>4. ASSUME SetEnv(t) \/ Returns(t) PROVE LogInv'
  <2>1. stack[t] # << >> /\ Popped(t) /\ ~Holds(Top(t))
    <3>1. CASE SetEnv(t)
      BY <1>1, <3>1, SetEnvDoes DEF Holds
    <3>2. CASE Returns(t)
      BY <1>1, <3>2, ReturnsDoes DEF Holds
    <3> QED BY <1>4, <3>1, <3>2
  <2> QED BY <1>2, <2>1, PopKeeps
<1>5. ASSUME Resolve(t) PROVE LogInv'
  <2>1. /\ stack[t] # << >>
        /\ \/ Top(t).op = "jJvmLog" /\ Top(t).at = 2
           \/ Top(t).op = "setLevel" /\ Top(t).at = 7
    BY <1>1, <1>5, ResolveDoes
  <2>2. CASE Turned(t, Up(Top(t)))
    <3>1. /\ Up(Top(t)) \in Frames /\ FrameOK(Up(Top(t)))
          /\ Up(Top(t)).op = Top(t).op /\ Up(Top(t)).at = Top(t).at + 1
      BY <1>3, <2>1, UpType, UpOK
    <3>2. ~Holds(Up(Top(t))) /\ ~Holds(Top(t))
      BY <2>1, <3>1 DEF Holds
    <3> QED BY <1>2, <2>1, <2>2, <3>1, <3>2, TurnKeeps
  <2>3. ASSUME NEW g \in Frames, g.op = Top(t).op, g.level = Top(t).level,
               g.at = IF g.op = "jJvmLog" THEN 7 ELSE 12, Turned(t, g)
        PROVE  LogInv'
    <3>1. FrameOK(g) /\ ~Holds(g) /\ ~Holds(Top(t))
      BY <1>3, <2>1, <2>3 DEF FrameOK, Holds
    <3> QED BY <1>2, <2>1, <2>3, <3>1, TurnKeeps
  <2> QED BY <1>1, <1>5, <2>2, <2>3, ResolveDoes
<1>6. ASSUME Announce(t) PROVE LogInv'
  <2> DEFINE h == Frame("log", LOG_DEBUG)
  <2>1. /\ stack[t] # << >> /\ Called(t, h)
        /\ \/ Top(t).op = "jJvmLog" /\ Top(t).at = 4
           \/ Top(t).op = "lookup" /\ Top(t).at = 3
           \/ Top(t).op = "setLevel" /\ Top(t).at = 9
    BY <1>1, <1>6, AnnounceDoes
  <2>2. h \in Frames /\ FrameOK(h) /\ ~Holds(h)
    BY NewFrames, Names, Levels
  <2>3. /\ Top(t).at <= 12 /\ FrameOK(Up(Top(t)))
        /\ Up(Top(t)).op = Top(t).op /\ Up(Top(t)).at = Top(t).at + 1
    BY <1>3, <2>1, UpType, UpOK
  <2>4. Holds(Up(Top(t))) <=> Holds(Top(t))
    BY <2>1, <2>3 DEF Holds
  <2> HIDE DEF h
  <2> QED BY <1>2, <2>1, <2>2, <2>3, <2>4, CallKeeps
<1>7. ASSUME Report(t) PROVE LogInv'
  <2>1. /\ stack[t] # << >>
        /\ \/ Top(t).op = "jJvmLog" /\ Top(t).at = 5
           \/ Top(t).op = "lookup" /\ Top(t).at = 4
           \/ Top(t).op = "setLevel" /\ Top(t).at = 10
        /\ \/ Called(t, Frame("log", LOG_DEBUG))
           \/ Called(t, Frame("log", LOG_WARN))
           \/ Turned(t, Up(Top(t)))
    BY <1>1, <1>7, ReportDoes
  <2>2. /\ Top(t).at <= 12 /\ FrameOK(Up(Top(t))) /\ Up(Top(t)) \in Frames
        /\ Up(Top(t)).op = Top(t).op /\ Up(Top(t)).at = Top(t).at + 1
    BY <1>3, <2>1, UpType, UpOK
  <2>3. Holds(Up(Top(t))) <=> Holds(Top(t))
    BY <2>1, <2>2 DEF Holds
  <2>4. ASSUME NEW level \in {LOG_DEBUG, LOG_WARN}, Called(t, Frame("log", level))
        PROVE  LogInv'
    <3> DEFINE h == Frame("log", level)
    <3>1. h \in Frames /\ FrameOK(h) /\ ~Holds(h) /\ Called(t, h)
      BY <2>4, NewFrames, Names, Levels
    <3> HIDE DEF h
    <3> QED BY <1>2, <2>1, <2>2, <2>3, <3>1, CallKeeps
  <2>5. CASE Turned(t, Up(Top(t)))
    BY <1>2, <2>1, <2>2, <2>3, <2>5, TurnKeeps
  <2> QED BY <2>1, <2>4, <2>5
<1> QED BY <1>4, <1>5, <1>6, <1>7

LEMMA LockLogInv ==
  ASSUME LogInv, NEW t \in Threads, Lock(t) \/ Unlock(t)
  PROVE  LogInv'
<1> DEFINE f == Top(t)
           n == Len(Rest(t)) + 1
           s == <<Up(f)>> \o Rest(t)
<1>1. Typed
  BY DEF LogInv
<1>2. /\ stack[t] # << >> /\ Turned(t, Up(f))
      /\ \/ f.op = "jJvmLog" /\ f.at = IF Lock(t) THEN 3 ELSE 6
         \/ f.op = "lookup" /\ f.at = IF Lock(t) THEN 2 ELSE 5
         \/ f.op = "setLevel" /\ f.at = IF Lock(t) THEN 8 ELSE 11
  <2>1. CASE Lock(t)
    BY <1>1, <2>1, LockDoes
  <2>2. CASE Unlock(t) /\ ~Lock(t)
    BY <1>1, <2>2, UnlockDoes
  <2> QED BY <2>1, <2>2
<1>3. /\ f \in Frames /\ FrameOK(f)
      /\ Rest(t) \in Seq(Frames) /\ Good(Rest(t)) /\ Len(Rest(t)) < MaxDepth
      /\ Held(stack[t]) = Held(Rest(t)) \cup (IF Holds(f) THEN {n} ELSE {})
  BY <1>2, GoodRest
<1>4. n \notin Held(Rest(t))
  BY <1>3, HeldBounds
<1>5. SettingsOK'
  <2>1. /\ once' \in [Flags -> Threads \cup {NoThread, "set"}]
        /\ UNCHANGED <<settings, envSet, made, alone>>
    <3>1. once \in [Flags -> Threads \cup {NoThread, "set"}]
      BY DEF LogInv, SettingsOK
    <3>2. CASE Lock(t)
      BY <1>1, <3>1, <3>2, LockDoes
    <3>3. CASE Unlock(t)
      BY <1>1, <3>1, <3>3, UnlockDoes
    <3> QED BY <3>2, <3>3
  <2> QED BY <2>1 DEF LogInv, SettingsOK, settings
<1>6. /\ Up(f) \in Frames /\ Up(f).op = f.op /\ Up(f).at = f.at + 1 /\ FrameOK(Up(f))
  BY <1>2, <1>3, UpType, UpOK
<1>7. /\ Good(s) /\ After(t, s)
      /\ Held(s) = Held(Rest(t)) \cup (IF Holds(Up(f)) THEN {n} ELSE {})
  BY <1>2, <1>3, <1>6, GoodCons, HeldOfCons DEF Turned
<1>8. ASSUME Lock(t) PROVE LogInv'
  <2>1. ~Holds(f) /\ Holds(Up(f))
    BY <1>2, <1>6, <1>8 DEF Holds
  <2>2. n \notin Held(stack[t]) /\ Held(s) = Held(stack[t]) \cup {n}
    BY <1>3, <1>4, <1>7, <2>1
  <2>3. cacheMutex \in {NoThread, t} /\ cacheMutex' = t /\ depth' = depth + 1
    BY <1>8 DEF Lock
  <2> HIDE DEF s, n, f
  <2> QED BY <1>5, <1>7, <2>2, <2>3, StackChanged
<1>9. ASSUME Unlock(t), ~Lock(t) PROVE LogInv'
  <2>1. Holds(f) /\ ~Holds(Up(f))
    BY <1>2, <1>6, <1>9 DEF Holds
  <2>2. n \in Held(stack[t]) /\ Held(s) = Held(stack[t]) \ {n}
    BY <1>3, <1>4, <1>7, <2>1
  <2>3. depth' = depth - 1 /\ cacheMutex' = IF depth = 1 THEN NoThread ELSE t
    BY <1>9 DEF Unlock
  <2> HIDE DEF s, n, f
  <2> QED BY <1>5, <1>7, <2>2, <2>3, StackChanged
<1> QED BY <1>8, <1>9

LEMMA LevelLogInv ==
  ASSUME LogInv, NEW t \in Threads,
         \/ WriteLevel(t) \/ PassLevel(t) \/ SetJavaLevel(t)
         \/ Static(t) \/ Construct(t) \/ ReadLevel(t)
  PROVE  LogInv'
<1>1. /\ Typed /\ once \in [Flags -> Threads \cup {NoThread, "set"}]
      /\ gMinimumLogLevel \in MinLevels /\ gMinimumLogLevel \in LOG_DEBUG..LOG_DISABLE
  BY Levels DEF LogInv, SettingsOK
<1>2. stack[t] # << >> => Top(t) \in Frames /\ FrameOK(Top(t))
  BY GoodRest
<1>3. UNCHANGED <<cacheMutex, depth>>
  BY DEF WriteLevel, PassLevel, SetJavaLevel, Static, Construct, ReadLevel, locks
<1>4. ASSUME stack[t] # << >>, Top(t).op = "setLevel", Top(t).at \in {1, 2, 3, 4, 12}
      PROVE  /\ Up(Top(t)) \in Frames /\ ~Holds(Up(Top(t))) /\ ~Holds(Top(t))
             /\ FrameOK(Up(Top(t)))
  <2>1. /\ Up(Top(t)) \in Frames /\ FrameOK(Up(Top(t)))
        /\ Up(Top(t)).op = "setLevel" /\ Up(Top(t)).at = Top(t).at + 1
    BY <1>2, <1>4, UpType, UpOK
  <2> QED BY <1>4, <2>1 DEF Holds
<1>5. ASSUME WriteLevel(t) PROVE LogInv'
  <2>1. /\ stack[t] # << >> /\ Top(t).op = "setLevel" /\ Top(t).at = 1
        /\ Turned(t, Up(Top(t))) /\ gMinimumLogLevel' = Top(t).level
        /\ UNCHANGED <<javaLevel, gLog, log, envSet, locks, made, alone>>
    BY <1>1, <1>5, SetLevelDoes
  <2>2. gMinimumLogLevel' \in MinLevels
    BY <1>2, <2>1 DEF FrameOK
  <2>3. SettingsOK'
    BY <2>1, <2>2 DEF LogInv, SettingsOK, locks
  <2> QED BY <1>3, <1>4, <2>1, <2>3, TurnKeeps
<1>6. ASSUME PassLevel(t) PROVE LogInv'
  <2>1. /\ stack[t] # << >> /\ Top(t).op = "setLevel" /\ Top(t).at = 2
        /\ (Turned(t, Up(Top(t))) \/ Popped(t))
        /\ UNCHANGED <<settings, envSet, locks, made, alone>>
    BY <1>1, <1>6, SetLevelDoes
  <2>2. SettingsOK'
    BY <2>1 DEF LogInv, SettingsOK, settings, locks
  <2> QED BY <1>3, <1>4, <2>1, <2>2, TurnKeeps, PopKeeps
<1>7. ASSUME SetJavaLevel(t) PROVE LogInv'
  <2>1. /\ stack[t] # << >> /\ Top(t).op = "setLevel" /\ Top(t).at = 12
        /\ Popped(t) /\ javaLevel' = Top(t).level
        /\ UNCHANGED <<gMinimumLogLevel, gLog, log, envSet, locks, made, alone>>
    BY <1>1, <1>7, SetLevelDoes
  <2>2. javaLevel' \in MinLevels
    BY <1>2, <2>1 DEF FrameOK
  <2>3. SettingsOK'
    BY <2>1, <2>2 DEF LogInv, SettingsOK, locks
  <2> QED BY <1>3, <1>4, <2>1, <2>3, PopKeeps
<1>8. ASSUME Static(t) PROVE LogInv'
  <2>1. /\ stack[t] # << >> /\ Top(t).op = "setLevel" /\ Top(t).at = 3
        /\ once' = once \/ once' = [once EXCEPT !["static"] = t]
        /\ \/ Turned(t, Up(Top(t)))
           \/ \E g \in Frames : g.op = "setLevel" /\ g.at = 5 /\ Turned(t, g)
        /\ UNCHANGED <<settings, envSet, cacheMutex, depth, made, alone>>
    BY <1>1, <1>8, StaticDoes
  <2>2. SettingsOK'
    <3>1. once' \in [Flags -> Threads \cup {NoThread, "set"}]
      BY <1>1, <2>1
    <3> QED BY <2>1, <3>1 DEF LogInv, SettingsOK, settings
  <2>3. ASSUME NEW g \in Frames, g.op = "setLevel", g.at = 5, Turned(t, g)
        PROVE  LogInv'
    <3>1. FrameOK(g) /\ ~Holds(g)
      BY <2>3 DEF FrameOK, Holds
    <3> QED BY <1>3, <1>4, <2>1, <2>2, <2>3, <3>1, TurnKeeps
  <2> QED BY <1>3, <1>4, <2>1, <2>2, <2>3, TurnKeeps
<1>9. ASSUME Construct(t) PROVE LogInv'
  <2> DEFINE h == Frame("log", LOG_DEBUG)
  <2>1. /\ stack[t] # << >> /\ Top(t).op = "setLevel" /\ Top(t).at = 4 /\ Called(t, h)
        /\ UNCHANGED <<settings, envSet, locks, made, alone>>
    BY <1>1, <1>9, StaticDoes
  <2>2. SettingsOK'
    BY <2>1 DEF LogInv, SettingsOK, settings, locks
  <2>3. h \in Frames /\ FrameOK(h) /\ ~Holds(h)
    BY NewFrames, Names, Levels
  <2> HIDE DEF h
  <2>4. Top(t).at <= 12
    BY <2>1
  <2> QED BY <1>3, <1>4, <2>1, <2>2, <2>3, <2>4, CallKeeps
<1>10. ASSUME ReadLevel(t) PROVE LogInv'
  <2>1. /\ stack[t] # << >> /\ Top(t).op = "setLevel" /\ Top(t).at = 5
        /\ once' = [once EXCEPT !["static"] = "set"]
        /\ \E g \in Frames : /\ g.op = "setLevel" /\ g.at = 6 /\ g.level = gMinimumLogLevel
                             /\ Turned(t, g)
        /\ UNCHANGED <<settings, envSet, cacheMutex, depth, made, alone>>
    BY <1>1, <1>10, ReadLevelDoes
  <2>2. SettingsOK'
    <3>1. once' \in [Flags -> Threads \cup {NoThread, "set"}]
      BY <1>1, <2>1
    <3> QED BY <2>1, <3>1 DEF LogInv, SettingsOK, settings
  <2>3. PICK g \in Frames : /\ g.op = "setLevel" /\ g.at = 6 /\ g.level = gMinimumLogLevel
                            /\ Turned(t, g)
    BY <2>1
  <2>4. FrameOK(g) /\ ~Holds(g) /\ ~Holds(Top(t))
    BY <1>1, <2>1, <2>3 DEF FrameOK, Holds
  <2> QED BY <1>3, <2>1, <2>2, <2>3, <2>4, TurnKeeps
<1> QED BY <1>5, <1>6, <1>7, <1>8, <1>9, <1>10

LEMMA ClientsLogInv ==
  ASSUME LogInv
  PROVE  /\ \A t \in Threads : Logs(t) \/ LooksUp(t) \/ SetsLevel(t) => LogInv'
         /\ \A l \in {"stream", "jvm"} : SetLogger(l) => LogInv'
         /\ \A l \in {"print", "native"} : SetLog(l) => LogInv'
<1>1. ASSUME NEW t \in Threads, NEW op \in Ops, NEW level \in LOG_DEBUG..LOG_DISABLE,
             op = "setLevel" => level \in MinLevels, Call(t, op, level)
      PROVE  LogInv'
  <2> DEFINE f == Frame(op, level)
             s == <<f>> \o << >>
  <2>1. /\ stack[t] = << >> /\ stack' = [stack EXCEPT ![t] = <<f>>]
        /\ UNCHANGED <<settings, envSet, locks>>
        /\ made' = made + 1 /\ made < MaxCalls
        /\ alone' = IF op = "setLevel" THEN envSet[t] /\ ~InSetLevel ELSE alone
    BY <1>1 DEF Call
  <2>2. f \in Frames /\ FrameOK(f) /\ ~Holds(f)
    <3>1. f \in Frames /\ f.op = op /\ f.at = 1 /\ f.level = level
      BY FrameType
    <3> HIDE DEF f
    <3> QED BY <1>1, <3>1 DEF FrameOK, Holds
  <2> HIDE DEF f
  <2>3. /\ << >> \in Seq(Frames) /\ Len(<< >>) = 0 /\ 0 < MaxDepth /\ s = <<f>>
    BY <2>2, LoggingAssumption
  <2>4. Good(s) /\ Held(s) = {}
    BY <2>2, <2>3, HeldOfNone, GoodCons, HeldOfCons
  <2>5. After(t, s)
    BY <2>1, <2>3 DEF After
  <2> HIDE DEF s
  <2>6. SettingsOK'
    <3>1. made' \in 0..MaxCalls
      BY <2>1, LoggingAssumption DEF LogInv, SettingsOK
    <3>2. alone' \in BOOLEAN
      BY <2>1 DEF LogInv, SettingsOK
    <3> QED BY <2>1, <3>1, <3>2 DEF LogInv, SettingsOK, settings, locks
  <2>7. Held(s) = Held(stack[t]) /\ UNCHANGED <<cacheMutex, depth>>
    BY <2>1, <2>4, HeldOfNone DEF locks
  <2> QED BY <2>4, <2>5, <2>6, <2>7, StackChanged
<1>2. ASSUME NEW t \in Threads, Logs(t) \/ LooksUp(t) \/ SetsLevel(t)
      PROVE  LogInv'
  BY <1>1, <1>2, Names, Levels DEF Logs, LooksUp, SetsLevel
<1>3. ASSUME UNCHANGED <<gMinimumLogLevel, javaLevel, envSet, locks, stack, alone>>,
             gLog' \in {"stream", "jvm"}, log' \in {"print", "native"},
             made < MaxCalls, made' = made + 1
      PROVE  LogInv'
  <2>1. made' \in 0..MaxCalls
    BY <1>3, LoggingAssumption DEF LogInv, SettingsOK
  <2>2. SettingsOK' /\ LockInv'
    BY <1>3, <2>1 DEF LogInv, SettingsOK, LockInv, Held, Holds, locks
  <2> QED BY <1>3, <2>2 DEF LogInv, Typed, Good, FrameOK
<1>4. ASSUME NEW l \in {"stream", "jvm"}, SetLogger(l) PROVE LogInv'
  <2>1. /\ UNCHANGED <<gMinimumLogLevel, javaLevel, log, envSet, locks, stack, alone>>
        /\ gLog' = l /\ made < MaxCalls /\ made' = made + 1
    BY <1>4 DEF SetLogger
  <2> QED BY <1>3, <2>1 DEF LogInv, SettingsOK
<1>5. ASSUME NEW l \in {"print", "native"}, SetLog(l) PROVE LogInv'
  BY <1>3, <1>5 DEF SetLog, LogInv, SettingsOK
<1> QED BY <1>2, <1>4, <1>5

LEMMA InitLogInv == LogInit => LogInv
<1> SUFFICES ASSUME LogInit PROVE LogInv
  OBVIOUS
<1> DEFINE f == [op |-> "setLevel", level |-> LOG_DEBUG, at |-> 2]
           s == <<f>> \o << >>
<1>1. f \in Frames /\ FrameOK(f) /\ ~Holds(f)
  BY DEF Frames, Ops, Route, LOG_DEBUG, LOG_WARN, LOG_ERROR, LOG_DISABLE, FrameOK, Holds
<1>2. /\ stack = [t \in Threads |-> IF t = Initializer THEN <<f>> ELSE << >>]
      /\ cacheMutex = NoThread /\ depth = 0
  BY DEF LogInit
<1> HIDE DEF f
<1>3. /\ << >> \in Seq(Frames) /\ Len(<< >>) = 0 /\ 0 < MaxDepth /\ s = <<f>>
  BY LoggingAssumption
<1>4. Good(s) /\ Held(s) = {} /\ s \in Seq(Frames)
  <2>1. Good(s) /\ Held(s) = {}
    BY <1>1, <1>3, HeldOfNone, GoodCons, HeldOfCons
  <2> HIDE DEF s
  <2> QED BY <2>1 DEF Good
<1>5. \A t \in Threads : Good(stack[t]) /\ Held(stack[t]) = {}
  BY <1>2, <1>3, <1>4, HeldOfNone
<1>6. Typed
  BY <1>2, <1>3, <1>4 DEF Typed
<1>7. SettingsOK
  BY LoggingAssumption DEF LogInit, SettingsOK
<1>8. LockInv
  BY <1>2, <1>5, LoggingAssumption DEF LockInv
<1> QED BY <1>5, <1>6, <1>7, <1>8 DEF LogInv

LEMMA NextLogInv ==
  ASSUME LogInv, [LogNext]_vars
  PROVE  LogInv'
<1>1. ASSUME NEW t \in Threads, LogStep(t) PROVE LogInv'
  BY <1>1, QuietLogInv, LookupLogInv, LockLogInv, LevelLogInv DEF LogStep
<1>2. CASE UNCHANGED vars
  BY <1>2 DEF vars, settings, locks, LogInv, Typed, Good, FrameOK, SettingsOK, LockInv, Held, Holds
<1> QED BY <1>1, <1>2, ClientsLogInv DEF LogNext

LEMMA LogInvAlways == LogSpec => []LogInv
<1>1. LogInv /\ [LogNext]_vars => LogInv'
  BY NextLogInv
<1> QED BY <1>1, InitLogInv, PTL DEF LogSpec

(* The variables have their types; above all, the recursive mutex of       *)
(* lookups is held as often as its owner is inside of a lookup, never more *)
(* often than calls are nested, and free when nobody is.                   *)
THEOREM LogTypeCorrect == LogSpec => []LogTypeOK
<1>1. ASSUME LogInv PROVE LogTypeOK
  <2>1. depth \in 0..MaxDepth
    <3>1. CASE cacheMutex = NoThread
      BY <1>1, <3>1, LoggingAssumption DEF LogInv, LockInv
    <3>2. ASSUME NEW t \in Threads, cacheMutex = t PROVE depth \in 0..MaxDepth
      <4>1. depth \in Nat /\ depth = Cardinality(Held(stack[t])) /\ Good(stack[t])
        BY <1>1, <3>2 DEF LogInv, LockInv
      <4>2. /\ Cardinality(Held(stack[t])) <= Len(stack[t]) /\ Len(stack[t]) \in Nat
            /\ Len(stack[t]) <= MaxDepth
        BY <4>1, HeldBounds DEF Good
      <4> QED BY <4>1, <4>2, LoggingAssumption
    <3> QED BY <1>1, <3>1, <3>2 DEF LogInv, LockInv
  <2>2. \A t \in Threads : /\ Len(stack[t]) <= MaxDepth
                           /\ \A i \in DOMAIN stack[t] : stack[t][i] \in Frames
    <3> SUFFICES ASSUME NEW t \in Threads
                 PROVE  /\ Len(stack[t]) <= MaxDepth
                        /\ \A i \in DOMAIN stack[t] : stack[t][i] \in Frames
      OBVIOUS
    <3>1. stack[t] \in Seq(Frames) /\ Len(stack[t]) <= MaxDepth
      BY <1>1 DEF LogInv, Good
    <3> QED BY <3>1
  <2> QED BY <1>1, <2>1, <2>2 DEF LogInv, LockInv, SettingsOK, LogTypeOK
<1> QED BY <1>1, LogInvAlways, PTL

-----------------------------------------------------------------------------
(* Which calls can be inside of others: the outermost call of a thread is  *)
(* the client's, and only calls of the log are made from others.           *)
Nested(fs) == \A i \in DOMAIN fs : i < Len(fs) => fs[i].op \in {"log", "env", "jJvmLog"}
Foot(t) == stack[t][Len(stack[t])]

LEMMA NestedCons ==
  ASSUME NEW f \in Frames, NEW r \in Seq(Frames), Nested(r),
         r = << >> \/ f.op \in {"log", "env", "jJvmLog"}
  PROVE  Nested(<<f>> \o r)
<1> DEFINE s == <<f>> \o r
<1>1. /\ Len(s) = Len(r) + 1 /\ Len(r) \in Nat /\ s \in Seq(Frames)
      /\ s[1] = f /\ \A i \in 2..Len(s) : s[i] = r[i - 1]
  BY Cons
<1>2. r = << >> => Len(r) = 0
  OBVIOUS
<1> HIDE DEF s
<1>3. ASSUME NEW i \in DOMAIN s, i < Len(s)
      PROVE  s[i].op \in {"log", "env", "jJvmLog"}
  <2>1. CASE i = 1
    BY <1>1, <1>2, <1>3, <2>1
  <2>2. CASE i # 1
    <3>1. i \in 2..Len(s) /\ i - 1 \in DOMAIN r /\ i - 1 < Len(r)
      BY <1>1, <1>3, <2>2
    <3> QED BY <1>1, <3>1 DEF Nested
  <2> QED BY <2>1, <2>2
<1> QED BY <1>3 DEF s, Nested

LEMMA NestedRest ==
  ASSUME NEW fs \in Seq(Frames), fs # << >>, Nested(fs)
  PROVE  /\ Nested(Tail(fs))
         /\ Tail(fs) # << >> => fs[1].op \in {"log", "env", "jJvmLog"}
<1> DEFINE r == Tail(fs)
<1>1. /\ Len(fs) \in Nat /\ Len(fs) >= 1 /\ r \in Seq(Frames) /\ Len(r) = Len(fs) - 1
      /\ \A i \in 1..Len(fs) - 1 : r[i] = fs[i + 1]
  BY NotEmpty
<1> HIDE DEF r
<1>2. r # << >> => Len(r) >= 1
  BY <1>1, NotEmpty
<1>3. r # << >> => fs[1].op \in {"log", "env", "jJvmLog"}
  BY <1>1, <1>2 DEF Nested
<1>4. ASSUME NEW i \in DOMAIN r, i < Len(r)
      PROVE  r[i].op \in {"log", "env", "jJvmLog"}
  <2>1. i + 1 \in DOMAIN fs /\ i + 1 < Len(fs) /\ r[i] = fs[i + 1]
    BY <1>1, <1>4
  <2> QED BY <2>1 DEF Nested
<1> QED BY <1>3, <1>4 DEF r, Nested

(* The outermost call, before and after a step. *)
LEMMA FootCons ==
  ASSUME NEW f \in Frames, NEW r \in Seq(Frames), NEW s, s = <<f>> \o r
  PROVE  /\ r = << >> => s[Len(s)] = f
         /\ r # << >> => s[Len(s)] = r[Len(r)]
<1>1. /\ Len(s) = Len(r) + 1 /\ Len(r) \in Nat
      /\ s[1] = f /\ \A i \in 2..Len(s) : s[i] = r[i - 1]
  BY Cons
<1>2. r = << >> => Len(r) = 0
  OBVIOUS
<1>3. r # << >> => Len(r) >= 1
  BY NotEmpty
<1> QED BY <1>1, <1>2, <1>3

LEMMA FootIs ==
  ASSUME Typed, NEW t \in Threads, stack[t] # << >>
  PROVE  /\ Rest(t) = << >> => Foot(t) = Top(t)
         /\ Rest(t) # << >> => Foot(t) = Rest(t)[Len(Rest(t))]
         /\ Foot(t) \in Frames
<1>1. stack[t] \in Seq(Frames)
  BY DEF Typed
<1>2. Foot(t) \in Frames
  BY <1>1, NotEmpty DEF Foot
<1> DEFINE f == Top(t)
           r == Rest(t)
           s == stack[t]
<1>3. f \in Frames /\ r \in Seq(Frames) /\ s = <<f>> \o r
  BY Tops
<1> HIDE DEF f, r, s
<1>4. /\ r = << >> => s[Len(s)] = f
      /\ r # << >> => s[Len(s)] = r[Len(r)]
  BY <1>3, FootCons
<1> QED BY <1>2, <1>4 DEF Foot, f, r, s

LEMMA FootAfter ==
  ASSUME Typed, NEW t \in Threads, stack[t] # << >>, Nested(stack[t])
  PROVE  /\ Popped(t) =>
              /\ Nested(stack[t])' /\ stack'[t] = Rest(t)
              /\ Rest(t) # << >> => Foot(t)' = Foot(t)
         /\ \A g \in Frames :
              Turned(t, g) /\ (Rest(t) = << >> \/ g.op \in {"log", "env", "jJvmLog"}) =>
                /\ Nested(stack[t])' /\ stack'[t] # << >>
                /\ Foot(t)' = IF Rest(t) = << >> THEN g ELSE Foot(t)
         /\ \A h \in Frames :
              Top(t).at <= 12 /\ Called(t, h) /\ h.op \in {"log", "env"} =>
                /\ Nested(stack[t])' /\ stack'[t] # << >>
                /\ Foot(t)' = IF Rest(t) = << >> THEN Up(Top(t)) ELSE Foot(t)
<1> DEFINE r == Rest(t)
           f == Top(t)
<1>1. /\ f \in Frames /\ r \in Seq(Frames) /\ stack[t] \in Seq(Frames)
      /\ f = stack[t][1]
  BY Tops DEF Typed
<1>2. /\ Nested(r)
      /\ r # << >> => f.op \in {"log", "env", "jJvmLog"}
  BY <1>1, NestedRest DEF Rest
<1>3. f.at <= 12 => Up(f) \in Frames /\ Up(f).op = f.op
  BY <1>1, UpType
<1>4. /\ r = << >> => Foot(t) = f
      /\ r # << >> => Foot(t) = r[Len(r)]
  BY FootIs
<1>5. ASSUME NEW s \in Seq(Frames), After(t, s) PROVE stack'[t] = s
  BY <1>5, StackAfter
<1> HIDE DEF r, f
<1>6. ASSUME Popped(t)
      PROVE  /\ Nested(stack[t])' /\ stack'[t] = r
             /\ r # << >> => Foot(t)' = Foot(t)
  <2>1. stack'[t] = r
    BY <1>1, <1>5, <1>6 DEF Popped, r
  <2> QED BY <1>2, <1>4, <2>1 DEF Foot, Nested
<1>7. ASSUME NEW g \in Frames, Turned(t, g), r = << >> \/ g.op \in {"log", "env", "jJvmLog"}
      PROVE  /\ Nested(stack[t])' /\ stack'[t] # << >>
             /\ Foot(t)' = IF r = << >> THEN g ELSE Foot(t)
  <2> DEFINE s == <<g>> \o r
  <2>1. s \in Seq(Frames) /\ s # << >> /\ Nested(s)
    BY <1>1, <1>2, <1>7, Cons, NestedCons
  <2>2. s[Len(s)] = IF r = << >> THEN g ELSE r[Len(r)]
    BY <1>1, FootCons
  <2>3. After(t, s)
    BY <1>7 DEF Turned, r
  <2> HIDE DEF s
  <2>4. stack'[t] = s
    BY <1>5, <2>1, <2>3
  <2> QED BY <1>4, <2>1, <2>2, <2>4 DEF Foot, Nested
<1>8. ASSUME NEW h \in Frames, f.at <= 12, Called(t, h), h.op \in {"log", "env"}
      PROVE  /\ Nested(stack[t])' /\ stack'[t] # << >>
             /\ Foot(t)' = IF r = << >> THEN Up(f) ELSE Foot(t)
  <2> DEFINE q == <<Up(f)>> \o r
             s == <<h>> \o q
  <2>1. q \in Seq(Frames) /\ q # << >> /\ Nested(q)
    BY <1>1, <1>2, <1>3, <1>8, Cons, NestedCons
  <2>2. q[Len(q)] = IF r = << >> THEN Up(f) ELSE r[Len(r)]
    BY <1>1, <1>3, <1>8, FootCons
  <2>3. After(t, s)
    BY <1>8 DEF Called, r, f
  <2> HIDE DEF q
  <2>4. s \in Seq(Frames) /\ s # << >> /\ Nested(s) /\ s[Len(s)] = q[Len(q)]
    BY <1>8, <2>1, Cons, NestedCons, FootCons
  <2> HIDE DEF s
  <2>5. stack'[t] = s
    BY <1>5, <2>3, <2>4
  <2> QED BY <1>4, <2>2, <2>4, <2>5 DEF Foot, Nested
<1> QED BY <1>6, <1>7, <1>8 DEF r, f

LEMMA SetterAtFoot ==
  ASSUME NEW fs \in Seq(Frames), Nested(fs)
  PROVE  (\E i \in DOMAIN fs : fs[i].op = "setLevel")
           <=> fs # << >> /\ fs[Len(fs)].op = "setLevel"
<1>1. ASSUME NEW i \in DOMAIN fs, fs[i].op = "setLevel"
      PROVE  fs # << >> /\ fs[Len(fs)].op = "setLevel"
  <2>1. /\ i \in 1..Len(fs) /\ Len(fs) \in Nat /\ ~(i < Len(fs))
    BY <1>1 DEF Nested
  <2>2. i = Len(fs) /\ Len(fs) # 0
    BY <2>1
  <2>3. Len(<< >>) = 0
    OBVIOUS
  <2> QED BY <1>1, <2>2, <2>3
<1>2. ASSUME fs # << >>, fs[Len(fs)].op = "setLevel"
      PROVE  \E i \in DOMAIN fs : fs[i].op = "setLevel"
  BY <1>2, NotEmpty
<1> QED BY <1>1, <1>2

LEMMA SettingIsFoot ==
  ASSUME Typed, NEW t \in Threads, Nested(stack[t])
  PROVE  Setting(t) <=> stack[t] # << >> /\ Foot(t).op = "setLevel"
<1>1. stack[t] \in Seq(Frames)
  BY DEF Typed
<1> QED BY <1>1, SetterAtFoot DEF Setting, Foot

LEMMA SettingIsFootThen ==
  ASSUME Typed', NEW t \in Threads, Nested(stack[t])'
  PROVE  Setting(t)' <=> stack'[t] # << >> /\ Foot(t)'.op = "setLevel"
<1> DEFINE fs == stack'[t]
<1>1. fs \in Seq(Frames) /\ Nested(fs)
  BY DEF Typed, Nested
<1> HIDE DEF fs
<1>2. (\E i \in DOMAIN fs : fs[i].op = "setLevel") <=> fs # << >> /\ fs[Len(fs)].op = "setLevel"
  BY <1>1, SetterAtFoot
<1> QED BY <1>2 DEF Setting, Foot, fs

-----------------------------------------------------------------------------
(* The levels.  While nobody else sets the level, it is what the setter    *)
(* has read, from the moment it has read it until it has passed it on.     *)
LoneSetter(t) ==
  /\ envSet[t] /\ Foot(t).at \in 1..12
  /\ Foot(t).at >= 6 => Foot(t).level = gMinimumLogLevel
LevelInv ==
  /\ LogInv /\ \A t \in Threads : Nested(stack[t])
  /\ alone => \A t, u \in Threads : Setting(t) /\ Setting(u) => t = u
  /\ alone => \A t \in Threads : Setting(t) => LoneSetter(t)
  /\ LevelsAgree

(* Of the steps inside of other calls than setMinimumLogLevel. *)
LEMMA OtherForm ==
  ASSUME LogInv, NEW t \in Threads, LogStep(t), Top(t).op # "setLevel"
  PROVE  /\ stack[t] # << >>
         /\ \/ Popped(t)
            \/ \E g \in Frames : /\ Turned(t, g)
                                 /\ g.op = Top(t).op \/ g.op = "jJvmLog"
            \/ \E h \in Frames : Top(t).at <= 12 /\ Called(t, h) /\ h.op \in {"log", "env"}
         /\ UNCHANGED <<gMinimumLogLevel, javaLevel, gLog, log, made, alone>>
         /\ envSet' = envSet \/ envSet' = [envSet EXCEPT ![t] = TRUE]
<1>1. Typed
  BY DEF LogInv
<1>2. /\ \A level \in LOG_DEBUG..LOG_DISABLE :
           /\ Frame("log", level).op = "log" /\ Frame("log", level) \in Frames
           /\ Frame("env", level).op = "env" /\ Frame("env", level) \in Frames
           /\ Frame("jJvmLog", level).op = "jJvmLog" /\ Frame("jJvmLog", level) \in Frames
  BY FrameType, Names
<1>3. stack[t] # << >> => /\ Top(t).level \in LOG_DEBUG..LOG_DISABLE
                          /\ Top(t).at <= 12 => Up(Top(t)) \in Frames /\ Up(Top(t)).op = Top(t).op
  BY <1>1, Tops, Levels, UpType
<1>4. LOG_DEBUG \in LOG_DEBUG..LOG_DISABLE /\ LOG_WARN \in LOG_DEBUG..LOG_DISABLE
  BY Levels
<1> DEFINE Form == \/ Popped(t)
                   \/ \E g \in Frames : /\ Turned(t, g)
                                        /\ g.op = Top(t).op \/ g.op = "jJvmLog"
                   \/ \E h \in Frames : Top(t).at <= 12 /\ Called(t, h) /\ h.op \in {"log", "env"}
           Same == UNCHANGED <<gMinimumLogLevel, javaLevel, gLog, log, made, alone>>
           Envs == envSet' = envSet \/ envSet' = [envSet EXCEPT ![t] = TRUE]
<1>5. stack[t] # << >> /\ Top(t).at <= 12 => (Turned(t, Up(Top(t))) => Form)
  BY <1>3
<1>6. \A op \in {"log", "env"} : \A level \in LOG_DEBUG..LOG_DISABLE :
        Top(t).at <= 12 /\ Called(t, Frame(op, level)) => Form
  BY <1>2
<1>7. Popped(t) => Form
  OBVIOUS
<1>8. \A g \in Frames : Turned(t, g) /\ (g.op = Top(t).op \/ g.op = "jJvmLog") => Form
  OBVIOUS
<1> HIDE DEF Form
<1>9. ASSUME UNCHANGED <<settings, envSet, locks, made, alone>> PROVE Same /\ Envs
  BY <1>9 DEF settings
<1>10. CASE Write(t)
  BY <1>1, <1>7, <1>9, <1>10, WriteDoes DEF Form
<1>11. CASE SendToJava(t)
  BY <1>1, <1>2, <1>3, <1>8, <1>9, <1>11, SendToJavaDoes DEF Form
<1>12. CASE JvmLog(t)
  <2>1. /\ stack[t] # << >> /\ Top(t).at = 7
        /\ Popped(t) \/ Called(t, Frame("log", Top(t).level))
        /\ Same /\ Envs
    BY <1>1, <1>9, <1>12, JvmLogDoes
  <2> QED BY <1>3, <1>6, <1>7, <2>1 DEF Form
<1>13. CASE Env(t)
  <2>1. /\ stack[t] # << >> /\ Top(t).at = 1
        /\ Turned(t, Up(Top(t))) \/ Called(t, Frame("env", LOG_DEBUG))
        /\ Same /\ Envs
    BY <1>1, <1>9, <1>13, EnvDoes
  <2> QED BY <1>4, <1>5, <1>6, <2>1 DEF Form
<1>14. CASE EnvSays(t)
  <2>1. /\ stack[t] # << >> /\ Top(t).at \in {1, 2} /\ Called(t, Frame("log", LOG_DEBUG))
        /\ Same /\ Envs
    BY <1>1, <1>9, <1>14, EnvSaysDoes
  <2> QED BY <1>4, <1>6, <2>1 DEF Form
<1>15. CASE SetEnv(t)
  BY <1>1, <1>7, <1>15, SetEnvDoes DEF Form, settings
<1>16. CASE Resolve(t)
  <2>1. /\ stack[t] # << >> /\ Top(t).at = 2
        /\ \/ Turned(t, Up(Top(t)))
           \/ \E g \in Frames : g.op = Top(t).op /\ Turned(t, g)
        /\ Same /\ Envs
    BY <1>1, <1>16, ResolveDoes DEF settings
  <2> QED BY <1>5, <1>8, <2>1 DEF Form
<1>17. CASE Lock(t)
  <2>1. /\ stack[t] # << >> /\ Top(t).at \in {2, 3} /\ Turned(t, Up(Top(t)))
        /\ Same /\ Envs
    BY <1>1, <1>17, LockDoes DEF settings
  <2> QED BY <1>5, <2>1 DEF Form
<1>18. CASE Announce(t)
  <2>1. /\ stack[t] # << >> /\ Top(t).at \in {3, 4} /\ Called(t, Frame("log", LOG_DEBUG))
        /\ Same /\ Envs
    BY <1>1, <1>9, <1>18, AnnounceDoes
  <2> QED BY <1>4, <1>6, <2>1 DEF Form
<1>19. CASE Report(t)
  <2>1. /\ stack[t] # << >> /\ Top(t).at \in {4, 5}
        /\ \/ Called(t, Frame("log", LOG_DEBUG))
           \/ Called(t, Frame("log", LOG_WARN))
           \/ Turned(t, Up(Top(t)))
        /\ Same /\ Envs
    BY <1>1, <1>9, <1>19, ReportDoes
  <2> QED BY <1>4, <1>5, <1>6, <2>1 DEF Form
<1>20. CASE Unlock(t)
  <2>1. /\ stack[t] # << >> /\ Top(t).at \in {5, 6} /\ Turned(t, Up(Top(t)))
        /\ Same /\ Envs
    BY <1>1, <1>20, UnlockDoes DEF settings
  <2> QED BY <1>5, <2>1 DEF Form
<1>21. CASE Returns(t)
  BY <1>1, <1>7, <1>9, <1>21, ReturnsDoes DEF Form
<1>22. ~(WriteLevel(t) \/ PassLevel(t) \/ SetJavaLevel(t) \/ Static(t) \/ Construct(t) \/ ReadLevel(t))
  <2>1. gMinimumLogLevel \in LOG_DEBUG..LOG_DISABLE
    BY Levels DEF LogInv, SettingsOK
  <2> QED BY <1>1, <2>1, SetLevelDoes, StaticDoes, ReadLevelDoes
<1> QED BY <1>10, <1>11, <1>12, <1>13, <1>14, <1>15, <1>16, <1>17, <1>18, <1>19, <1>20, <1>21, <1>22
        DEF LogStep, Form

(* Of the steps of setMinimumLogLevel itself: it ends, or goes on. *)
LEMMA SetterForm ==
  ASSUME LogInv, NEW t \in Threads, Nested(stack[t]), LogStep(t), stack[t] # << >>,
         Top(t).op = "setLevel"
  PROVE  /\ Rest(t) = << >> /\ Foot(t) = Top(t) /\ UNCHANGED <<envSet, gLog, log, made, alone>>
         /\ \/ /\ stack'[t] = << >> /\ gMinimumLogLevel' = gMinimumLogLevel
               /\ \/ Top(t).at = 12 /\ javaLevel' = Top(t).level
                  \/ Top(t).at = 13 /\ javaLevel' = javaLevel
                  \/ ~envSet[t] /\ javaLevel' = javaLevel
            \/ /\ stack'[t] # << >> /\ Nested(stack[t])' /\ javaLevel' = javaLevel
               /\ Foot(t)'.op = "setLevel" /\ Foot(t)'.at \in 2..12
               /\ \/ Foot(t)'.at = 2 /\ Top(t).at = 1
                  \/ gMinimumLogLevel' = gMinimumLogLevel
               /\ Foot(t)'.at >= 6 =>
                    \/ Foot(t)'.level = gMinimumLogLevel
                    \/ Top(t).at >= 6 /\ Foot(t)'.level = Top(t).level
<1> DEFINE f == Top(t)
<1>1. Typed /\ gMinimumLogLevel \in LOG_DEBUG..LOG_DISABLE
  BY Levels DEF LogInv, SettingsOK
<1>2. f \in Frames /\ stack[t] \in Seq(Frames) /\ stack[t][1] = f
  BY <1>1, Tops DEF Typed
<1>3. Rest(t) = << >> /\ Foot(t) = f
  BY <1>1, <1>2, NestedRest, FootIs DEF Rest
<1> DEFINE Ends == stack'[t] = << >>
           Stays(g) == stack'[t] # << >> /\ Nested(stack[t])' /\ Foot(t)' = g
<1>4. Popped(t) => Ends
  BY <1>1, <1>3, FootAfter
<1>5. \A g \in Frames : Turned(t, g) => Stays(g)
  BY <1>1, <1>3, FootAfter
<1>6. f.at <= 12 => /\ Up(f) \in Frames /\ Up(f).op = "setLevel" /\ Up(f).at = f.at + 1
                    /\ Up(f).level = f.level
  BY <1>2, UpType
<1>7. ASSUME NEW op \in {"log", "env"}, NEW level \in {LOG_DEBUG, LOG_WARN},
             f.at <= 12, Called(t, Frame(op, level))
      PROVE  Stays(Up(f))
  <2> DEFINE h == Frame(op, level)
  <2>1. op \in Ops /\ level \in LOG_DEBUG..LOG_DISABLE
    BY Names, Levels
  <2>2. h \in Frames /\ h.op = op
    BY <2>1, FrameType
  <2> HIDE DEF h
  <2>3. Called(t, h)
    BY <1>7 DEF h
  <2> QED BY <1>1, <1>3, <1>7, <2>2, <2>3, FootAfter
<1> HIDE DEF Ends, Stays
<1>8. ASSUME UNCHANGED <<settings, envSet, locks, made, alone>>
      PROVE  UNCHANGED <<gMinimumLogLevel, javaLevel, gLog, log, envSet, made, alone>>
  BY <1>8 DEF settings
<1> DEFINE Ended == Ends /\ UNCHANGED <<gMinimumLogLevel, gLog, log, envSet, made, alone>>
           Goes(g) == /\ Stays(g) /\ UNCHANGED <<javaLevel, gLog, log, envSet, made, alone>>
                      /\ g.op = "setLevel" /\ g.at \in 2..12
                      /\ \/ g.at = 2 /\ f.at = 1
                         \/ gMinimumLogLevel' = gMinimumLogLevel
                      /\ g.at >= 6 => \/ g.level = gMinimumLogLevel
                                      \/ f.at >= 6 /\ g.level = f.level
           Goal == \/ Ended /\ \/ f.at = 12 /\ javaLevel' = f.level
                               \/ f.at = 13 /\ javaLevel' = javaLevel
                               \/ ~envSet[t] /\ javaLevel' = javaLevel
                   \/ \E g \in Frames : Goes(g)
<1> HIDE DEF Goes, Goal
<1>24. ASSUME NEW g \in Frames, Stays(g), g.op = "setLevel", g.at \in 2..12,
              UNCHANGED <<javaLevel, gLog, log, envSet, made, alone>>,
              \/ g.at = 2 /\ f.at = 1
              \/ gMinimumLogLevel' = gMinimumLogLevel,
              \/ g.at < 6
              \/ g.level = gMinimumLogLevel
              \/ f.at >= 6 /\ g.level = f.level
       PROVE  Goal
  <2>1. Goes(g)
    BY <1>24 DEF Goes
  <2> QED BY <2>1 DEF Goal
<1>25. ASSUME Ends, UNCHANGED <<gMinimumLogLevel, gLog, log, envSet, made, alone>>,
              \/ f.at = 12 /\ javaLevel' = f.level
              \/ f.at = 13 /\ javaLevel' = javaLevel
              \/ ~envSet[t] /\ javaLevel' = javaLevel
       PROVE  Goal
  BY <1>25 DEF Goal
<1>9. ASSUME WriteLevel(t) PROVE Goal
  <2>1. /\ f.at = 1 /\ Turned(t, Up(f)) /\ UNCHANGED <<javaLevel, gLog, log, envSet, made, alone>>
    BY <1>1, <1>9, SetLevelDoes
  <2> QED BY <1>5, <1>6, <1>24, <2>1
<1>10. ASSUME f.at \in {2, 3, 4, 6, 7, 8, 9, 10, 11}, Stays(Up(f)),
              UNCHANGED <<gMinimumLogLevel, javaLevel, gLog, log, envSet, made, alone>>
       PROVE  Goal
  BY <1>6, <1>10, <1>24
<1>11. ASSUME PassLevel(t) PROVE Goal
  <2>1. /\ f.at = 2 /\ UNCHANGED <<gMinimumLogLevel, javaLevel, gLog, log, envSet, made, alone>>
        /\ \/ Turned(t, Up(f))
           \/ ~envSet[t] /\ Popped(t)
    BY <1>1, <1>8, <1>11, SetLevelDoes
  <2> QED BY <1>4, <1>5, <1>6, <1>10, <1>25, <2>1
<1>12. ASSUME SetJavaLevel(t) PROVE Goal
  <2>1. /\ f.at = 12 /\ javaLevel' = f.level /\ Popped(t)
        /\ UNCHANGED <<gMinimumLogLevel, gLog, log, envSet, made, alone>>
    BY <1>1, <1>12, SetLevelDoes
  <2> QED BY <1>4, <1>25, <2>1
<1>13. ASSUME ReadLevel(t) PROVE Goal
  <2>1. PICK g \in Frames : /\ g.op = "setLevel" /\ g.at = 6 /\ g.level = gMinimumLogLevel
                            /\ Turned(t, g)
    BY <1>1, <1>13, ReadLevelDoes
  <2>2. UNCHANGED <<gMinimumLogLevel, javaLevel, gLog, log, envSet, made, alone>>
    BY <1>1, <1>13, ReadLevelDoes DEF settings
  <2> QED BY <1>5, <1>24, <2>1, <2>2
<1>14. ASSUME Static(t) PROVE Goal
  <2>1. /\ f.at = 3 /\ UNCHANGED <<gMinimumLogLevel, javaLevel, gLog, log, envSet, made, alone>>
        /\ \/ Turned(t, Up(f))
           \/ \E g \in Frames : g.op = "setLevel" /\ g.at = 5 /\ Turned(t, g)
    BY <1>1, <1>14, StaticDoes DEF settings
  <2>2. ASSUME NEW g \in Frames, g.op = "setLevel", g.at = 5, Turned(t, g)
        PROVE  Goal
    BY <1>5, <1>24, <2>1, <2>2
  <2> QED BY <1>5, <1>6, <1>10, <2>1, <2>2
<1>15. ASSUME Construct(t) PROVE Goal
  <2>1. /\ f.at = 4 /\ Called(t, Frame("log", LOG_DEBUG))
        /\ UNCHANGED <<gMinimumLogLevel, javaLevel, gLog, log, envSet, made, alone>>
    BY <1>1, <1>8, <1>15, StaticDoes
  <2> QED BY <1>7, <1>10, <2>1
<1>16. ASSUME Env(t) PROVE Goal
  <2>1. /\ f.at = 6
        /\ \/ Turned(t, Up(f))
           \/ Called(t, Frame("env", LOG_DEBUG))
        /\ UNCHANGED <<gMinimumLogLevel, javaLevel, gLog, log, envSet, made, alone>>
    BY <1>1, <1>8, <1>16, EnvDoes
  <2> QED BY <1>5, <1>6, <1>7, <1>10, <2>1
<1>17. ASSUME Resolve(t) PROVE Goal
  <2>1. /\ f.at = 7 /\ UNCHANGED <<gMinimumLogLevel, javaLevel, gLog, log, envSet, made, alone>>
        /\ \/ Turned(t, Up(f))
           \/ \E g \in Frames : /\ g.op = f.op /\ g.level = f.level
                                /\ g.at = IF g.op = "jJvmLog" THEN 7 ELSE 12
                                /\ Turned(t, g)
    BY <1>1, <1>17, ResolveDoes DEF settings
  <2>2. ASSUME NEW g \in Frames, g.op = f.op, g.level = f.level, g.at = 12, Turned(t, g)
        PROVE  Goal
    BY <1>5, <1>24, <2>1, <2>2
  <2> QED BY <1>5, <1>6, <1>10, <2>1, <2>2
<1>18. ASSUME Lock(t) PROVE Goal
  <2>1. /\ f.at = 8 /\ Turned(t, Up(f))
        /\ UNCHANGED <<gMinimumLogLevel, javaLevel, gLog, log, envSet, made, alone>>
    BY <1>1, <1>18, LockDoes DEF settings
  <2> QED BY <1>5, <1>6, <1>10, <2>1
<1>19. ASSUME Announce(t) PROVE Goal
  <2>1. /\ f.at = 9 /\ Called(t, Frame("log", LOG_DEBUG))
        /\ UNCHANGED <<gMinimumLogLevel, javaLevel, gLog, log, envSet, made, alone>>
    BY <1>1, <1>8, <1>19, AnnounceDoes
  <2> QED BY <1>7, <1>10, <2>1
<1>20. ASSUME Report(t) PROVE Goal
  <2>1. /\ f.at = 10 /\ Called(t, Frame("log", LOG_DEBUG))
        /\ UNCHANGED <<gMinimumLogLevel, javaLevel, gLog, log, envSet, made, alone>>
    BY <1>1, <1>8, <1>20, ReportDoes
  <2> QED BY <1>7, <1>10, <2>1
<1>21. ASSUME Unlock(t) PROVE Goal
  <2>1. /\ f.at = 11 /\ Turned(t, Up(f))
        /\ UNCHANGED <<gMinimumLogLevel, javaLevel, gLog, log, envSet, made, alone>>
    BY <1>1, <1>21, UnlockDoes DEF settings
  <2> QED BY <1>5, <1>6, <1>10, <2>1
<1>22. ASSUME Returns(t) PROVE Goal
  <2>1. /\ f.at = 13 /\ Popped(t)
        /\ UNCHANGED <<gMinimumLogLevel, javaLevel, gLog, log, envSet, made, alone>>
    <3>1. /\ f.at >= 13 /\ Popped(t) /\ UNCHANGED <<settings, envSet, locks, made, alone>>
      BY <1>1, <1>22, ReturnsDoes
    <3>2. f.at \in 1..13
      BY <1>2 DEF Frames
    <3> QED BY <1>8, <3>1, <3>2
  <2> QED BY <1>4, <1>25, <2>1
<1>23. ~(Write(t) \/ SendToJava(t) \/ JvmLog(t) \/ EnvSays(t) \/ SetEnv(t))
  BY <1>1, WriteDoes, SendToJavaDoes, JvmLogDoes, EnvSaysDoes, SetEnvDoes
<1>26. Goal
  BY <1>9, <1>11, <1>12, <1>13, <1>14, <1>15, <1>16, <1>17, <1>18, <1>19, <1>20, <1>21, <1>22, <1>23
     DEF LogStep
<1> QED BY <1>3, <1>26 DEF Ends, Stays, Goal, Goes

LEMMA StepIsInside ==
  ASSUME NEW t \in Threads, LogStep(t)
  PROVE  stack[t] # << >> /\ \E s : stack' = [stack EXCEPT ![t] = s]
BY DEF LogStep, Write, SendToJava, JvmLog, Env, EnvSays, SetEnv, Resolve, Lock, Announce,
       Report, Unlock, Returns, WriteLevel, PassLevel, Static, Construct, ReadLevel,
       SetJavaLevel, Becomes, Proceed, Return, Calls, Says, AtStage, At

(* Whoever does not set the level changes neither the setters nor the level. *)
LEMMA OtherSteps ==
  ASSUME LevelInv, NEW t \in Threads, LogStep(t), Top(t).op # "setLevel"
  PROVE  LevelInv'
<1>1. Typed /\ Nested(stack[t]) /\ LogInv
  BY DEF LevelInv, LogInv
<1>2. /\ stack[t] # << >>
      /\ \/ Popped(t)
         \/ \E g \in Frames : /\ Turned(t, g)
                              /\ g.op = Top(t).op \/ g.op = "jJvmLog"
         \/ \E h \in Frames : Top(t).at <= 12 /\ Called(t, h) /\ h.op \in {"log", "env"}
      /\ UNCHANGED <<gMinimumLogLevel, javaLevel, gLog, log, made, alone>>
      /\ envSet' = envSet \/ envSet' = [envSet EXCEPT ![t] = TRUE]
  BY <1>1, OtherForm
<1>3. LogInv'
  BY <1>1, NextLogInv DEF LogNext
<1>4. \A u \in Threads : u # t => stack'[u] = stack[u]
  <2>1. \A s \in Seq(Frames) : After(t, s) => \A u \in Threads : u # t => stack'[u] = stack[u]
    BY <1>1, StackAfter
  <2>2. PICK s : After(t, s)
    BY <1>2 DEF Popped, Turned, Called
  <2> QED BY <1>1, <2>2 DEF After, Typed
<1>5. /\ Rest(t) # << >> => Top(t).op \in {"log", "env", "jJvmLog"}
      /\ Rest(t) = << >> => Foot(t) = Top(t)
      /\ Top(t) \in Frames /\ Top(t).at <= 12 => Up(Top(t)).op = Top(t).op
  <2>1. stack[t] \in Seq(Frames) /\ Top(t) = stack[t][1] /\ Top(t) \in Frames
    BY <1>1, <1>2, Tops DEF Typed
  <2>2. Rest(t) # << >> => Top(t).op \in {"log", "env", "jJvmLog"}
    BY <1>1, <1>2, <2>1, NestedRest DEF Rest
  <2> QED BY <1>1, <1>2, <2>1, <2>2, FootIs, UpType
<1>6. /\ Nested(stack[t])'
      /\ IF Rest(t) = << >>
         THEN stack'[t] # << >> => Foot(t)'.op # "setLevel"
         ELSE stack'[t] # << >> /\ Foot(t)' = Foot(t)
  <2>1. CASE Popped(t)
    BY <1>1, <1>2, <2>1, FootAfter
  <2>2. ASSUME NEW g \in Frames, Turned(t, g), g.op = Top(t).op \/ g.op = "jJvmLog"
        PROVE  /\ Nested(stack[t])' /\ stack'[t] # << >>
               /\ Foot(t)' = IF Rest(t) = << >> THEN g ELSE Foot(t)
               /\ g.op # "setLevel"
    BY <1>1, <1>2, <1>5, <2>2, FootAfter
  <2>3. ASSUME NEW h \in Frames, Top(t).at <= 12, Called(t, h), h.op \in {"log", "env"}
        PROVE  /\ Nested(stack[t])' /\ stack'[t] # << >>
               /\ Foot(t)' = IF Rest(t) = << >> THEN Up(Top(t)) ELSE Foot(t)
               /\ Rest(t) = << >> => Up(Top(t)).op # "setLevel"
    <3>1. Top(t) \in Frames
      BY <1>1, <1>2, Tops
    <3> QED BY <1>1, <1>2, <1>5, <2>3, <3>1, FootAfter
  <2> QED BY <1>2, <2>1, <2>2, <2>3
<1>7. \A u \in Threads : /\ Nested(stack[u])'
                         /\ Setting(u)' <=> Setting(u)
                         /\ Setting(u) => Foot(u)' = Foot(u)
  <2> SUFFICES ASSUME NEW u \in Threads
               PROVE  /\ Nested(stack[u])'
                      /\ Setting(u)' <=> Setting(u)
                      /\ Setting(u) => Foot(u)' = Foot(u)
    OBVIOUS
  <2>1. CASE u # t
    <3>1. stack'[u] = stack[u]
      BY <1>4, <2>1
    <3> QED BY <3>1 DEF LevelInv, Nested, Setting, Foot
  <2>2. CASE u = t
    <3>1. Setting(t) <=> stack[t] # << >> /\ Foot(t).op = "setLevel"
      BY <1>1, SettingIsFoot
    <3>2. Setting(t)' <=> stack'[t] # << >> /\ Foot(t)'.op = "setLevel"
      BY <1>3, <1>6, SettingIsFootThen DEF LogInv
    <3> QED BY <1>2, <1>5, <1>6, <2>2, <3>1, <3>2
  <2> QED BY <2>1, <2>2
<1>8. \A u \in Threads : envSet[u] => envSet'[u]
  <2>1. envSet \in [Threads -> BOOLEAN]
    BY <1>1 DEF LogInv, SettingsOK
  <2> QED BY <1>2, <2>1
<1>9. alone => \A u \in Threads : Setting(u) => LoneSetter(u)'
  BY <1>2, <1>7, <1>8 DEF LevelInv, LoneSetter
<1>10. LevelsAgree'
  BY <1>2, <1>7 DEF LevelInv, LevelsAgree, InSetLevel
<1> QED BY <1>2, <1>3, <1>7, <1>9, <1>10 DEF LevelInv

LEMMA SetterSteps ==
  ASSUME LevelInv, NEW t \in Threads, LogStep(t), stack[t] # << >>, Top(t).op = "setLevel"
  PROVE  LevelInv'
<1>1. Typed /\ Nested(stack[t]) /\ LogInv
  BY DEF LevelInv, LogInv
<1>2. LogInv' /\ Typed'
  BY <1>1, NextLogInv DEF LogNext, LogInv
<1>3. /\ Foot(t) = Top(t) /\ UNCHANGED <<envSet, alone>>
      /\ \/ /\ stack'[t] = << >> /\ gMinimumLogLevel' = gMinimumLogLevel
            /\ \/ Top(t).at = 12 /\ javaLevel' = Top(t).level
               \/ Top(t).at = 13 /\ javaLevel' = javaLevel
               \/ ~envSet[t] /\ javaLevel' = javaLevel
         \/ /\ stack'[t] # << >> /\ Nested(stack[t])' /\ javaLevel' = javaLevel
            /\ Foot(t)'.op = "setLevel" /\ Foot(t)'.at \in 2..12
            /\ \/ Foot(t)'.at = 2 /\ Top(t).at = 1
               \/ gMinimumLogLevel' = gMinimumLogLevel
            /\ Foot(t)'.at >= 6 =>
                 \/ Foot(t)'.level = gMinimumLogLevel
                 \/ Top(t).at >= 6 /\ Foot(t)'.level = Top(t).level
  BY <1>1, SetterForm
<1>4. Setting(t)
  BY <1>1, <1>3, SettingIsFoot
<1>5. \A u \in Threads : u # t => stack'[u] = stack[u]
  <2>1. ASSUME NEW s, NEW u \in Threads, u # t, stack' = [stack EXCEPT ![t] = s]
        PROVE  stack'[u] = stack[u]
    BY <1>1, <2>1 DEF Typed
  <2>2. \E s : stack' = [stack EXCEPT ![t] = s]
    BY StepIsInside
  <2> QED BY <2>1, <2>2
<1>6. \A u \in Threads : u # t => /\ Setting(u)' <=> Setting(u)
                                  /\ Foot(u)' = Foot(u) /\ Nested(stack[u])'
  <2> SUFFICES ASSUME NEW u \in Threads, u # t
               PROVE  /\ Setting(u)' <=> Setting(u)
                      /\ Foot(u)' = Foot(u) /\ Nested(stack[u])'
    OBVIOUS
  <2>1. stack'[u] = stack[u]
    BY <1>5
  <2> QED BY <2>1 DEF LevelInv, Setting, Foot, Nested
<1>7. Nested(stack[t])'
  <2>1. Len(<< >>) = 0 /\ DOMAIN << >> = {}
    OBVIOUS
  <2>2. Nested(<< >>)
    BY <2>1 DEF Nested
  <2>3. stack'[t] = << >> => Nested(stack[t])'
    BY <2>2 DEF Nested
  <2> QED BY <1>3, <2>3
<1>8. Setting(t)' <=> stack'[t] # << >>
  <2>1. Setting(t)' <=> stack'[t] # << >> /\ Foot(t)'.op = "setLevel"
    BY <1>2, <1>7, SettingIsFootThen
  <2> QED BY <1>3, <2>1
<1>9. alone => /\ LoneSetter(t) /\ \A u \in Threads : Setting(u) => u = t
  BY <1>4 DEF LevelInv
<1>10. alone' => \A u, v \in Threads : Setting(u)' /\ Setting(v)' => u = v
  BY <1>3, <1>6, <1>9
<1>11. alone' => \A u \in Threads : Setting(u)' => LoneSetter(u)'
  <2>1. SUFFICES ASSUME alone, Setting(t)' PROVE LoneSetter(t)'
    BY <1>3, <1>6, <1>9
  <2>2. /\ Foot(t)'.at \in 2..12 /\ envSet'[t] /\ Top(t).at \in 1..12
        /\ Top(t).at >= 6 => Top(t).level = gMinimumLogLevel
    BY <1>3, <1>8, <1>9, <2>1 DEF LoneSetter
  <2>3. ASSUME Foot(t)'.at >= 6 PROVE Foot(t)'.level = gMinimumLogLevel'
    <3>1. gMinimumLogLevel' = gMinimumLogLevel
      BY <1>3, <1>8, <2>1, <2>2, <2>3
    <3> QED BY <1>3, <1>8, <2>1, <2>2, <2>3, <3>1
  <2> QED BY <2>2, <2>3 DEF LoneSetter
<1>12. LevelsAgree'
  <2>1. SUFFICES ASSUME alone, ~Setting(t)' PROVE javaLevel' = gMinimumLogLevel'
    BY <1>3 DEF LevelsAgree, InSetLevel
  <2>2. /\ envSet[t] /\ Top(t).at \in 1..12
        /\ Top(t).at >= 6 => Top(t).level = gMinimumLogLevel
    BY <1>3, <1>9, <2>1 DEF LoneSetter
  <2>3. Top(t).at = 12 /\ javaLevel' = Top(t).level /\ gMinimumLogLevel' = gMinimumLogLevel
    BY <1>3, <1>8, <2>1, <2>2
  <2> QED BY <2>2, <2>3
<1> QED BY <1>2, <1>6, <1>7, <1>10, <1>11, <1>12 DEF LevelInv

LEMMA ClientsLevel ==
  ASSUME LevelInv
  PROVE  /\ \A t \in Threads : Logs(t) \/ LooksUp(t) \/ SetsLevel(t) => LevelInv'
         /\ \A l \in {"stream", "jvm"} : SetLogger(l) => LevelInv'
         /\ \A l \in {"print", "native"} : SetLog(l) => LevelInv'
<1>1. Typed /\ LogInv
  BY DEF LevelInv, LogInv
<1>2. ASSUME NEW t \in Threads, NEW op \in Ops, NEW level \in LOG_DEBUG..LOG_DISABLE,
             LogInv', Call(t, op, level)
      PROVE  LevelInv'
  <2> DEFINE f == Frame(op, level)
  <2>1. /\ stack[t] = << >> /\ stack' = [stack EXCEPT ![t] = <<f>>]
        /\ UNCHANGED <<settings, envSet, locks>>
        /\ alone' = IF op = "setLevel" THEN envSet[t] /\ ~InSetLevel ELSE alone
    BY <1>2 DEF Call
  <2>2. f \in Frames /\ f.op = op /\ f.at = 1
    BY FrameType
  <2> HIDE DEF f
  <2>3. /\ stack'[t] = <<f>> /\ \A u \in Threads : u # t => stack'[u] = stack[u]
    BY <1>1, <2>1 DEF Typed
  <2>4. /\ Len(<<f>>) = 1 /\ DOMAIN <<f>> = {1} /\ <<f>>[1] = f /\ <<f>> # << >>
        /\ DOMAIN << >> = {}
    OBVIOUS
  <2>5. /\ Nested(stack[t])' /\ (Setting(t)' <=> op = "setLevel") /\ Foot(t)' = f
        /\ ~Setting(t)
    BY <2>1, <2>2, <2>3, <2>4 DEF Nested, Setting, Foot
  <2>6. \A u \in Threads : u # t => /\ Nested(stack[u])' /\ (Setting(u)' <=> Setting(u))
                                    /\ Foot(u)' = Foot(u)
    BY <2>3 DEF LevelInv, Nested, Setting, Foot
  <2>7. UNCHANGED <<gMinimumLogLevel, javaLevel, envSet>>
    BY <2>1 DEF settings
  <2>8. CASE op = "setLevel"
    <3>1. (alone' => envSet[t] /\ ~InSetLevel) /\ InSetLevel'
      BY <2>1, <2>5, <2>8 DEF InSetLevel
    <3>2. ASSUME alone' PROVE LoneSetter(t)' /\ \A u \in Threads : Setting(u)' => u = t
      <4>1. \A u \in Threads : Setting(u)' => u = t
        BY <2>6, <3>1, <3>2 DEF InSetLevel
      <4>2. Foot(t)'.at = 1 /\ envSet'[t]
        BY <2>2, <2>5, <2>7, <3>1, <3>2
      <4> QED BY <4>1, <4>2 DEF LoneSetter
    <3>3. LevelsAgree'
      BY <3>1 DEF LevelsAgree
    <3> QED BY <1>2, <2>5, <2>6, <3>2, <3>3 DEF LevelInv
  <2>9. CASE op # "setLevel"
    <3>1. alone' = alone /\ \A u \in Threads : Setting(u)' <=> Setting(u)
      BY <2>1, <2>5, <2>6, <2>9
    <3>2. alone => \A u \in Threads : Setting(u) => LoneSetter(u)'
      BY <2>5, <2>6, <2>7 DEF LevelInv, LoneSetter
    <3>3. LevelsAgree'
      BY <2>7, <3>1 DEF LevelInv, LevelsAgree, InSetLevel
    <3> QED BY <1>2, <2>5, <2>6, <3>1, <3>2, <3>3 DEF LevelInv
  <2> QED BY <2>8, <2>9
<1>3. ASSUME NEW t \in Threads, Logs(t) \/ LooksUp(t) \/ SetsLevel(t)
      PROVE  LevelInv'
  <2>1. LogInv'
    BY <1>1, <1>3, ClientsLogInv
  <2> QED BY <1>2, <1>3, <2>1, Names, Levels DEF Logs, LooksUp, SetsLevel
<1>4. ASSUME LogInv', UNCHANGED <<gMinimumLogLevel, javaLevel, envSet, stack, alone>>
      PROVE  LevelInv'
  BY <1>4 DEF LevelInv, LoneSetter, LevelsAgree, InSetLevel, Nested, Setting, Foot
<1>5. ASSUME NEW l \in {"stream", "jvm"}, SetLogger(l) PROVE LevelInv'
  BY <1>1, <1>4, <1>5, ClientsLogInv DEF SetLogger
<1>6. ASSUME NEW l \in {"print", "native"}, SetLog(l) PROVE LevelInv'
  BY <1>1, <1>4, <1>6, ClientsLogInv DEF SetLog
<1> QED BY <1>3, <1>5, <1>6

LEMMA InitLevelInv == LogInit => LevelInv
<1> SUFFICES ASSUME LogInit PROVE LevelInv
  OBVIOUS
<1> DEFINE f == [op |-> "setLevel", level |-> LOG_DEBUG, at |-> 2]
<1>1. /\ stack = [t \in Threads |-> IF t = Initializer THEN <<f>> ELSE << >>]
      /\ envSet[Initializer] /\ Initializer \in Threads
  BY LoggingAssumption DEF LogInit
<1>2. f.op = "setLevel" /\ f.at = 2
  OBVIOUS
<1> HIDE DEF f
<1>3. Len(<<f>>) = 1 /\ DOMAIN <<f>> = {1} /\ <<f>>[1] = f /\ DOMAIN << >> = {}
  OBVIOUS
<1>4. ASSUME NEW t \in Threads
      PROVE  Nested(stack[t]) /\ (Setting(t) <=> t = Initializer)
  <2>1. CASE t = Initializer
    BY <1>1, <1>2, <1>3, <2>1 DEF Nested, Setting
  <2>2. CASE t # Initializer
    <3>1. stack[t] = << >>
      BY <1>1, <2>2
    <3> QED BY <1>3, <2>2, <3>1 DEF Nested, Setting
  <2> QED BY <2>1, <2>2
<1>5. LoneSetter(Initializer)
  BY <1>1, <1>2, <1>3 DEF LoneSetter, Foot
<1>6. LevelsAgree
  BY <1>1, <1>4 DEF LevelsAgree, InSetLevel
<1> QED BY <1>4, <1>5, <1>6, InitLogInv DEF LevelInv

LEMMA NextLevelInv ==
  ASSUME LevelInv, [LogNext]_vars
  PROVE  LevelInv'
<1>1. ASSUME NEW t \in Threads, LogStep(t) PROVE LevelInv'
  <2>1. stack[t] # << >>
    BY <1>1, StepIsInside
  <2> QED BY <1>1, <2>1, OtherSteps, SetterSteps
<1>2. CASE UNCHANGED vars
  <2>1. LogInv'
    BY NextLogInv DEF LevelInv
  <2> QED BY <1>2, <2>1 DEF vars, settings, locks, LevelInv, LoneSetter, LevelsAgree,
                          InSetLevel, Nested, Setting, Foot
<1> QED BY <1>1, <1>2, ClientsLevel DEF LogNext

(* Whatever the clients do with loggers and levels, whoever overlaps with  *)
(* whom: after a call of setMinimumLogLevel that no other overlapped, by a *)
(* thread that had used its env, both sides filter by one level.           *)
THEOREM LevelsAgreeAlways == LogSpec => []LevelsAgree
<1>1. LevelInv /\ [LogNext]_vars => LevelInv'
  BY NextLevelInv
<1>2. LevelInv => LevelsAgree
  BY DEF LevelInv
<1> QED BY <1>1, <1>2, InitLevelInv, PTL DEF LogSpec

-----------------------------------------------------------------------------
(* Nobody waits in vain, if the clients keep the three rules.  A call      *)
(* inside of another is env()'s, in a thread whose pointer is not set; a   *)
(* message of env(), which stays on this side; or, in a thread whose       *)
(* pointer is set, a message or the call of a jJvmLog that is resolved.    *)
IsSet == once["jJvmLog"] = "set"
Calling(o, f, g) ==
  \/ g.op = "jJvmLog" /\ g.at \in {5, 6} /\ f.level = LOG_DEBUG
  \/ g.op = "jJvmLog" /\ g.at = 8 /\ o
  \/ g.op = "lookup" /\ g.at \in {4, 5}
  \/ g.op = "setLevel" /\ g.at \in {5, 10, 11} /\ f.level = LOG_DEBUG
Link(e, o, f, g) ==
  \/ ~e /\ f.op = "env" /\ f.at \in 1..3 /\ g.op \in {"jJvmLog", "lookup"} /\ g.at = 2
  \/ ~e /\ f.op = "log" /\ f.level = LOG_DEBUG /\ g.op = "env" /\ g.at \in {2, 3}
  \/ /\ e /\ Calling(o, f, g)
     /\ \/ f.op = "log"
        \/ f.op = "jJvmLog" /\ f.at \in {1, 2, 7, 8} /\ o
Linked(e, o, fs) == \A i \in 1..Len(fs) - 1 : Link(e, o, fs[i], fs[i + 1])

(* The innermost call has what the call needs so far. *)
Provided(e, o, f) ==
  /\ f.op \in {"jJvmLog", "lookup"} /\ f.at >= 2 => e
  /\ f.op = "setLevel" /\ f.at >= 3 => e
  /\ f.op = "jJvmLog" /\ f.at >= 7 => o

(* Each nested message costs the clients a call, if only one that switches *)
(* the Java logger.                                                        *)
Shallow(native, n, fs) ==
  /\ Len(fs) <= n + 3
  /\ native /\ fs[1].op = "jJvmLog" /\ fs[1].at # 8 => Len(fs) <= n + 2
Sound(e, o, native, n, fs) ==
  /\ Linked(e, o, fs)
  /\ fs # << >> => Provided(e, o, fs[1]) /\ Shallow(native, n, fs)

Owning(flag, f) ==
  \/ flag = "jJvmLog" /\ f.op = "jJvmLog" /\ f.at \in 3..6
  \/ flag = "setLevel" /\ f.op = "setLevel" /\ f.at \in 8..11
  \/ flag = "static" /\ f.op = "setLevel" /\ f.at \in 4..5
Owned(t) ==
  \A flag \in Flags : once[flag] = t => stack[t] # << >> /\ Owning(flag, Foot(t))

NestInv ==
  /\ LevelInv
  /\ gLog = "jvm" => log = "print"
  /\ EnvFirst
  /\ Unresolved =>
       /\ gMinimumLogLevel > LOG_DEBUG
       /\ \A t \in Threads : stack[t] # << >> =>
            Foot(t).op # "lookup" /\ ~SetsDebug(Foot(t))
  /\ \A t \in Threads : /\ stack[t] # << >> => Foot(t).op # "env"
                        /\ Sound(envSet[t], IsSet, log = "native", made, stack[t])
                        /\ Owned(t)

Within(t) == Sound(envSet[t], IsSet, log = "native", made, stack[t])

LEMMA LinkedCons ==
  ASSUME NEW e, NEW o, NEW f \in Frames, NEW r \in Seq(Frames), Linked(e, o, r),
         r # << >> => Link(e, o, f, r[1])
  PROVE  Linked(e, o, <<f>> \o r)
<1> DEFINE s == <<f>> \o r
<1>1. /\ Len(s) = Len(r) + 1 /\ Len(r) \in Nat
      /\ s[1] = f /\ \A i \in 2..Len(s) : s[i] = r[i - 1]
  BY Cons
<1>2. r = << >> => Len(r) = 0
  OBVIOUS
<1> HIDE DEF s
<1>3. ASSUME NEW i \in 1..Len(s) - 1 PROVE Link(e, o, s[i], s[i + 1])
  <2>1. s[i + 1] = r[i] /\ i \in 1..Len(r) /\ r # << >>
    BY <1>1, <1>2, <1>3
  <2>2. CASE i = 1
    BY <1>1, <2>1, <2>2
  <2>3. CASE i # 1
    <3>1. s[i] = r[i - 1] /\ i - 1 \in 1..Len(r) - 1 /\ i - 1 + 1 = i
      BY <1>1, <2>1, <2>3
    <3>2. Link(e, o, r[i - 1], r[i - 1 + 1])
      BY <3>1 DEF Linked
    <3> QED BY <2>1, <3>1, <3>2
  <2> QED BY <2>2, <2>3
<1> QED BY <1>3 DEF Linked, s

LEMMA LinkedRest ==
  ASSUME NEW e, NEW o, NEW fs \in Seq(Frames), fs # << >>, Linked(e, o, fs)
  PROVE  /\ Linked(e, o, Tail(fs))
         /\ Tail(fs) # << >> => Link(e, o, fs[1], Tail(fs)[1])
<1> DEFINE r == Tail(fs)
<1>1. /\ Len(fs) \in Nat /\ Len(fs) >= 1 /\ r \in Seq(Frames) /\ Len(r) = Len(fs) - 1
      /\ \A i \in 1..Len(fs) - 1 : r[i] = fs[i + 1]
  BY NotEmpty
<1> HIDE DEF r
<1>2. r # << >> => Len(r) >= 1
  BY <1>1, NotEmpty
<1>3. ASSUME r # << >> PROVE Link(e, o, fs[1], r[1])
  <2>1. 1 \in 1..Len(fs) - 1 /\ r[1] = fs[1 + 1]
    BY <1>1, <1>2, <1>3
  <2> QED BY <2>1 DEF Linked
<1>4. ASSUME NEW i \in 1..Len(r) - 1 PROVE Link(e, o, r[i], r[i + 1])
  <2>1. i + 1 \in 1..Len(fs) - 1 /\ r[i] = fs[i + 1] /\ r[i + 1] = fs[i + 1 + 1]
    BY <1>1, <1>4
  <2> QED BY <2>1 DEF Linked
<1> QED BY <1>3, <1>4 DEF Linked, r

LEMMA LinkedMore ==
  ASSUME NEW e, NEW o, NEW p, o => p, NEW fs, Linked(e, o, fs)
  PROVE  Linked(e, p, fs)
<1>1. \A f, g : Link(e, o, f, g) => Link(e, p, f, g)
  BY DEF Link, Calling
<1> QED BY <1>1 DEF Linked

(* What the invariant says of the innermost call and of its caller. *)
LEMMA Inside ==
  ASSUME NestInv, NEW t \in Threads, stack[t] # << >>
  PROVE  /\ LogInv /\ Typed /\ Nested(stack[t])
         /\ Top(t) \in Frames /\ Rest(t) \in Seq(Frames) /\ Len(Rest(t)) \in Nat
         /\ Linked(envSet[t], IsSet, Rest(t)) /\ Provided(envSet[t], IsSet, Top(t))
         /\ Rest(t) # << >> => /\ Link(envSet[t], IsSet, Top(t), Rest(t)[1])
                               /\ Rest(t)[1] \in Frames /\ Len(Rest(t)) >= 1
         /\ Rest(t) = << >> => Len(Rest(t)) = 0 /\ Top(t).op # "env"
         /\ Len(Rest(t)) <= made + 2 /\ made \in Nat
         /\ log = "native" /\ Top(t).op = "jJvmLog" /\ Top(t).at # 8 => Len(Rest(t)) <= made + 1
         /\ Top(t).op \notin {"log", "env"} /\ Rest(t) # << >> =>
              /\ Top(t).op = "jJvmLog" /\ Top(t).at \in {1, 2, 7, 8} /\ IsSet /\ envSet[t]
              /\ Calling(IsSet, Top(t), Rest(t)[1])
<1> DEFINE f == Top(t)
           r == Rest(t)
           s == stack[t]
           e == envSet[t]
           o == IsSet
           k == log = "native"
<1>1. /\ LogInv /\ Typed /\ Nested(s) /\ s \in Seq(Frames)
      /\ Sound(e, o, k, made, s) /\ Foot(t).op # "env"
      /\ made \in Nat
  BY LoggingAssumption DEF NestInv, LevelInv, LogInv, Typed, SettingsOK
<1>2. /\ f \in Frames /\ r \in Seq(Frames) /\ f = s[1] /\ r = Tail(s)
      /\ Len(s) = Len(r) + 1 /\ Len(r) \in Nat
      /\ r = << >> => Foot(t) = f
  BY <1>1, Tops, FootIs DEF Rest
<1>3. /\ r # << >> => Len(r) >= 1 /\ r[1] \in Frames
      /\ r = << >> => Len(r) = 0
  <2>1. r \in Seq(Frames)
    BY <1>2
  <2> HIDE DEF r
  <2>2. r # << >> => Len(r) >= 1 /\ r[1] \in Frames
    BY <2>1, NotEmpty
  <2>3. r = << >> => Len(r) = 0
    OBVIOUS
  <2> QED BY <2>2, <2>3
<1>4. /\ Linked(e, o, s) /\ Provided(e, o, f) /\ Shallow(k, made, s)
  BY <1>1, <1>2 DEF Sound
<1>5. /\ Linked(e, o, r)
      /\ r # << >> => Link(e, o, f, r[1])
  BY <1>1, <1>2, <1>4, LinkedRest
<1>6. /\ Len(s) <= made + 3
      /\ log = "native" /\ f.op = "jJvmLog" /\ f.at # 8 => Len(s) <= made + 2
  BY <1>2, <1>4 DEF Shallow
<1>7. /\ Len(r) <= made + 2
      /\ log = "native" /\ f.op = "jJvmLog" /\ f.at # 8 => Len(r) <= made + 1
  <2> HIDE DEF f, r, s
  <2> QED BY <1>1, <1>2, <1>6
<1> HIDE DEF f, r, s, e, o
<1>8. f.op \notin {"log", "env"} /\ r # << >> =>
        f.op = "jJvmLog" /\ f.at \in {1, 2, 7, 8} /\ o /\ e /\ Calling(o, f, r[1])
  BY <1>5 DEF Link
<1> QED BY <1>1, <1>2, <1>3, <1>4, <1>5, <1>7, <1>8 DEF f, r, s, e, o

Fit(t) == Within(t) /\ Owned(t)

LEMMA Popping ==
  ASSUME NestInv, NEW t \in Threads, stack[t] # << >>, Popped(t), Top(t).op # "env",
         \A flag \in Flags : ~Owning(flag, Top(t)),
         UNCHANGED <<envSet, once, log, made>>
  PROVE  Fit(t)'
<1> DEFINE f == Top(t)
           r == Rest(t)
           e == envSet[t]
           o == IsSet
           k == log = "native"
<1>1. /\ Typed /\ Nested(stack[t]) /\ f \in Frames /\ r \in Seq(Frames) /\ Len(r) \in Nat
      /\ Linked(e, o, r) /\ Provided(e, o, f)
      /\ r # << >> => Link(e, o, f, r[1])
      /\ Len(r) <= made + 2 /\ made \in Nat
  BY Inside
<1>2. /\ stack'[t] = r
      /\ r # << >> => Foot(t)' = Foot(t)
  BY <1>1, FootAfter
<1>3. r = << >> => Foot(t) = f
  BY <1>1, FootIs
<1>4. envSet'[t] = e /\ IsSet' = o /\ (log' = "native") = k /\ made' = made
  BY DEF IsSet
<1>5. Owned(t)'
  <2> SUFFICES ASSUME NEW flag \in Flags, once[flag] = t
               PROVE  stack'[t] # << >> /\ Owning(flag, Foot(t)')
    BY DEF Owned, Owning
  <2>1. Owning(flag, Foot(t))
    BY DEF NestInv, Owned
  <2>2. r # << >>
    BY <1>3, <2>1
  <2> QED BY <1>2, <2>1, <2>2
<1> HIDE DEF f, r, e, o, k
<1>6. r # << >> => Provided(e, o, r[1])
  BY <1>1 DEF Link, Calling, Provided, f
<1>7. Shallow(k, made, r)
  BY <1>1 DEF Shallow
<1>8. Sound(e, o, k, made, r)
  BY <1>1, <1>6, <1>7 DEF Sound
<1>9. Within(t)' = Sound(envSet'[t], IsSet', log' = "native", made', stack'[t])
  BY DEF Within, Sound, Linked, Link, Calling, Provided, Shallow
<1> QED BY <1>2, <1>4, <1>5, <1>8, <1>9 DEF Fit

LEMMA Turning ==
  ASSUME NestInv, NEW t \in Threads, stack[t] # << >>, NEW g \in Frames, Turned(t, g),
         UNCHANGED <<envSet, log, made>>, IsSet => IsSet',
         Rest(t) = << >> \/ g.op \in {"log", "env", "jJvmLog"},
         Rest(t) # << >> => Link(envSet[t], IsSet, g, Rest(t)[1]),
         Provided(envSet[t], IsSet', g),
         \/ g.op # "jJvmLog" \/ log # "native"
         \/ Top(t).op = "jJvmLog" /\ Top(t).at # 8,
         \A flag \in Flags : once'[flag] = t =>
           IF Rest(t) = << >> THEN Owning(flag, g) ELSE once[flag] = t
  PROVE  Fit(t)'
<1> DEFINE f == Top(t)
           r == Rest(t)
           e == envSet[t]
           o == IsSet'
           k == log = "native"
           s == <<g>> \o r
<1>1. /\ Typed /\ Nested(stack[t]) /\ f \in Frames /\ r \in Seq(Frames) /\ Len(r) \in Nat
      /\ Linked(e, IsSet, r) /\ Len(r) <= made + 2 /\ made \in Nat
      /\ k /\ f.op = "jJvmLog" /\ f.at # 8 => Len(r) <= made + 1
  BY Inside
<1>2. stack'[t] # << >> /\ Foot(t)' = IF r = << >> THEN g ELSE Foot(t)
  BY <1>1, FootAfter
<1>3. s \in Seq(Frames) /\ s[1] = g /\ Len(s) = Len(r) + 1 /\ s # << >>
  BY <1>1, Cons
<1>4. stack'[t] = s
  BY <1>1, <1>3, StackAfter DEF Turned
<1>5. envSet'[t] = e /\ (log' = "native") = k /\ made' = made
  OBVIOUS
<1>6. Owned(t)'
  <2> SUFFICES ASSUME NEW flag \in Flags, once'[flag] = t
               PROVE  stack'[t] # << >> /\ Owning(flag, Foot(t)')
    BY DEF Owned, Owning
  <2>1. CASE r = << >>
    BY <1>2, <2>1
  <2>2. CASE r # << >>
    <3>1. once[flag] = t
      BY <2>2
    <3>2. Owning(flag, Foot(t))
      BY <3>1 DEF NestInv, Owned
    <3> QED BY <1>2, <2>2, <3>2
  <2> QED BY <2>1, <2>2
<1>7. Linked(e, IsSet, s)
  BY <1>1, LinkedCons
<1>8. Linked(e, o, s)
  <2> DEFINE p == IsSet
  <2>1. p => o
    OBVIOUS
  <2>2. Linked(e, p, s)
    BY <1>7
  <2> HIDE DEF p, e, o, s
  <2> QED BY <2>1, <2>2, LinkedMore
<1>9. Shallow(k, made, s)
  <2> HIDE DEF s, r, f, k
  <2>1. Len(s) <= made + 3
    BY <1>1, <1>3
  <2>2. ASSUME k, g.op = "jJvmLog", g.at # 8 PROVE Len(s) <= made + 2
    BY <1>1, <1>3, <2>2 DEF k, f
  <2> QED BY <1>3, <2>1, <2>2 DEF Shallow
<1> HIDE DEF f, r, e, k, s
<1>10. Provided(e, o, s[1])
  BY <1>3 DEF e
<1> HIDE DEF o
<1>11. Sound(e, o, k, made, s)
  BY <1>8, <1>9, <1>10 DEF Sound
<1>12. Within(t)' = Sound(envSet'[t], IsSet', log' = "native", made', stack'[t])
  BY DEF Within, Sound, Linked, Link, Calling, Provided, Shallow
<1> QED BY <1>4, <1>5, <1>6, <1>11, <1>12 DEF Fit, o

LEMMA CallingOut ==
  ASSUME NestInv, NEW t \in Threads, stack[t] # << >>,
         NEW h \in Frames, h.op \in {"log", "env"}, Called(t, h), Top(t).at <= 12,
         UNCHANGED <<envSet, once, log, made>>,
         Link(envSet[t], IsSet, h, Up(Top(t))),
         Rest(t) # << >> => Link(envSet[t], IsSet, Up(Top(t)), Rest(t)[1]),
         Len(Rest(t)) <= made + 1,
         \A flag \in Flags : Owning(flag, Top(t)) => Owning(flag, Up(Top(t)))
  PROVE  Fit(t)'
<1> DEFINE f == Top(t)
           g == Up(f)
           r == Rest(t)
           q == <<g>> \o r
           s == <<h>> \o q
           e == envSet[t]
           o == IsSet
           k == log = "native"
<1>1. /\ Typed /\ Nested(stack[t]) /\ f \in Frames /\ r \in Seq(Frames) /\ Len(r) \in Nat
      /\ Linked(e, o, r) /\ made \in Nat
  BY Inside
<1>2. g \in Frames
  BY <1>1, UpType
<1>3. stack'[t] # << >> /\ Foot(t)' = IF r = << >> THEN g ELSE Foot(t)
  BY <1>1, FootAfter
<1>4. r = << >> => Foot(t) = f
  BY <1>1, FootIs
<1>5. Owned(t)'
  <2> SUFFICES ASSUME NEW flag \in Flags, once[flag] = t
               PROVE  stack'[t] # << >> /\ Owning(flag, Foot(t)')
    BY DEF Owned, Owning
  <2>1. Owning(flag, Foot(t))
    BY DEF NestInv, Owned
  <2> QED BY <1>3, <1>4, <2>1
<1>6. After(t, s)
  BY DEF Called
<1> HIDE DEF g
<1>7. /\ q \in Seq(Frames) /\ q # << >> /\ Len(q) = Len(r) + 1 /\ q[1] = g
  BY <1>1, <1>2, Cons
<1>8. Linked(e, o, q)
  BY <1>1, <1>2, LinkedCons DEF g
<1> HIDE DEF q
<1>9. /\ s \in Seq(Frames) /\ s # << >> /\ Len(s) = Len(q) + 1 /\ s[1] = h
  BY <1>7, Cons
<1>10. Linked(e, o, s)
  BY <1>7, <1>8, LinkedCons DEF g
<1> HIDE DEF s
<1>11. stack'[t] = s
  BY <1>1, <1>6, <1>9, StackAfter
<1>12. envSet'[t] = e /\ IsSet' = o /\ (log' = "native") = k /\ made' = made
  BY DEF IsSet
<1>13. Shallow(k, made, s)
  <2> HIDE DEF r, f, k
  <2>1. Len(s) <= made + 3
    BY <1>1, <1>7, <1>9 DEF r
  <2> QED BY <1>9, <2>1 DEF Shallow
<1>14. Provided(e, o, s[1])
  BY <1>9 DEF Provided
<1> HIDE DEF f, r, e, o, k
<1>15. Sound(e, o, k, made, s)
  BY <1>10, <1>13, <1>14 DEF Sound
<1>16. Within(t)' = Sound(envSet'[t], IsSet', log' = "native", made', stack'[t])
  BY DEF Within, Sound, Linked, Link, Calling, Provided, Shallow
<1> QED BY <1>5, <1>11, <1>12, <1>15, <1>16 DEF Fit

LEMMA NotOwning ==
  ASSUME NEW f, NEW flag \in Flags
  PROVE  /\ Owning(flag, f) => \/ f.op = "jJvmLog" /\ f.at \in 3..6
                               \/ f.op = "setLevel" /\ f.at \in {4, 5, 8, 9, 10, 11}
         /\ Owning(flag, f) /\ f.op = "jJvmLog" => flag = "jJvmLog"
         /\ Owning(flag, f) /\ f.op = "setLevel" /\ f.at \in {4, 5} => flag = "static"
         /\ Owning(flag, f) /\ f.op = "setLevel" /\ f.at \in {8, 9, 10, 11} => flag = "setLevel"
  BY DEF Owning, Flags

LEMMA WriteFit ==
  ASSUME NestInv, NEW t \in Threads, Write(t)
  PROVE  Fit(t)'
<1>1. Typed
  BY DEF NestInv, LevelInv, LogInv
<1>2. /\ stack[t] # << >> /\ Top(t).op = "log" /\ Popped(t)
      /\ UNCHANGED <<envSet, once, log, made>>
  BY <1>1, WriteDoes DEF settings, locks
<1>3. \A flag \in Flags : ~Owning(flag, Top(t))
  BY <1>2, NotOwning
<1> QED BY <1>2, <1>3, Popping

(* Only a message that passes the filter goes on to Java: by the rules not *)
(* one of env(), nor one of a lookup before jJvmLog is resolved.           *)
LEMMA SendToJavaFit ==
  ASSUME NestInv, NEW t \in Threads, SendToJava(t)
  PROVE  Fit(t)'
<1> DEFINE f == Top(t)
           r == Rest(t)
           g == Frame("jJvmLog", f.level)
           e == envSet[t]
<1>1. Typed /\ gMinimumLogLevel \in LOG_DEBUG..LOG_DISABLE
  BY Levels DEF NestInv, LevelInv, LogInv, SettingsOK
<1>2. /\ stack[t] # << >> /\ f.op = "log" /\ f.at = 1 /\ f.level >= gMinimumLogLevel
      /\ gLog = "jvm" /\ g \in Frames /\ Turned(t, g)
      /\ UNCHANGED <<envSet, once, log, made>>
  BY <1>1, SendToJavaDoes DEF settings, locks
<1>3. g.op = "jJvmLog" /\ g.at = 1 /\ g.level = f.level
  <2>1. f.level \in LOG_DEBUG..LOG_DISABLE
    BY <1>1, <1>2, Tops, Levels
  <2> QED BY <2>1, FrameType, Names
<1> HIDE DEF g
<1>4. log # "native"
  BY <1>2 DEF NestInv
<1>5. /\ f \in Frames /\ r \in Seq(Frames) /\ Nested(stack[t])
      /\ r # << >> => Link(e, IsSet, f, r[1])
  BY <1>2, Inside
<1>6. ASSUME f.level = LOG_DEBUG PROVE gMinimumLogLevel = LOG_DEBUG /\ e
  <2>1. gMinimumLogLevel = LOG_DEBUG
    BY <1>1, <1>2, <1>6, Levels
  <2>2. EnvFirst /\ Debugging
    BY <1>2, <2>1 DEF NestInv, Debugging
  <2> QED BY <1>2, <2>1, <2>2 DEF EnvFirst
<1>7. ASSUME r # << >> PROVE Link(e, IsSet, g, r[1])
  <2>1. e /\ Calling(IsSet, f, r[1])
    BY <1>2, <1>5, <1>6, <1>7 DEF Link
  <2>2. ~Unresolved
    <3>1. CASE f.level = LOG_DEBUG
      BY <1>6, <3>1, Levels DEF NestInv
    <3>2. CASE r[1].op = "lookup"
      <4>1. Nested(r) /\ Foot(t) = r[Len(r)] /\ Len(r) >= 1 /\ Len(r) \in Nat
        <5>1. stack[t] \in Seq(Frames) /\ r = Tail(stack[t])
          BY <1>1 DEF Typed, Rest
        <5>2. Nested(r)
          BY <1>2, <1>5, <5>1, NestedRest
        <5>3. Foot(t) = r[Len(r)]
          BY <1>1, <1>2, <1>7, FootIs
        <5> QED BY <1>5, <1>7, <5>2, <5>3, NotEmpty
      <4>2. Foot(t).op = "lookup"
        <5>1. 1 \in DOMAIN r /\ ~(1 < Len(r))
          BY <1>5, <3>2, <4>1 DEF Nested
        <5>2. Len(r) = 1
          <6> HIDE DEF r
          <6> QED BY <4>1, <5>1
        <5> QED BY <3>2, <4>1, <5>2
      <4> QED BY <1>2, <4>2 DEF NestInv
    <3>3. CASE IsSet
      BY <3>3 DEF Unresolved, IsSet
    <3> QED BY <2>1, <3>1, <3>2, <3>3 DEF Calling
  <2>3. IsSet
    BY <1>2, <2>2 DEF Unresolved, IsSet
  <2> QED BY <1>3, <2>1, <2>3 DEF Link, Calling
<1>8. Provided(e, IsSet', g)
  BY <1>3 DEF Provided
<1>9. \A flag \in Flags : once'[flag] = t =>
        IF r = << >> THEN Owning(flag, g) ELSE once[flag] = t
  <2> SUFFICES ASSUME NEW flag \in Flags, once[flag] = t
               PROVE  r # << >>
    BY <1>2
  <2>1. Owning(flag, Foot(t))
    BY DEF NestInv, Owned
  <2>2. ~Owning(flag, f)
    BY <1>2, NotOwning
  <2> QED BY <1>1, <1>2, <2>1, <2>2, FootIs
<1>10. IsSet => IsSet'
  BY <1>2 DEF IsSet
<1> QED BY <1>2, <1>3, <1>4, <1>7, <1>8, <1>9, <1>10, Turning

LEMMA JvmLogFit ==
  ASSUME NestInv, NEW t \in Threads, JvmLog(t)
  PROVE  Fit(t)'
<1> DEFINE f == Top(t)
           r == Rest(t)
           h == Frame("log", f.level)
<1>1. Typed
  BY DEF NestInv, LevelInv, LogInv
<1>2. /\ stack[t] # << >> /\ f.op = "jJvmLog" /\ f.at = 7 /\ h \in Frames
      /\ \/ Popped(t)
         \/ log = "native" /\ Called(t, h)
      /\ UNCHANGED <<envSet, once, log, made>>
  BY <1>1, JvmLogDoes DEF settings, locks
<1>3. \A flag \in Flags : ~Owning(flag, f)
  BY <1>2, NotOwning
<1>4. CASE Popped(t)
  BY <1>2, <1>3, <1>4, Popping
<1>5. ASSUME log = "native", Called(t, h) PROVE Fit(t)'
  <2>1. /\ f \in Frames /\ Provided(envSet[t], IsSet, f)
        /\ r # << >> => Link(envSet[t], IsSet, f, r[1])
        /\ Len(r) <= made + 1
    BY <1>2, <1>5, Inside
  <2>2. h.op = "log"
    <3>1. f.level \in LOG_DEBUG..LOG_DISABLE
      BY <2>1, Levels
    <3> QED BY <3>1, FrameType, Names
  <2> HIDE DEF h
  <2>3. Up(f).op = "jJvmLog" /\ Up(f).at = 8 /\ Up(f).level = f.level
    BY <1>2, <2>1, UpType
  <2>4. envSet[t] /\ IsSet
    BY <1>2, <2>1 DEF Provided
  <2>5. Link(envSet[t], IsSet, h, Up(f))
    BY <2>2, <2>3, <2>4 DEF Link, Calling
  <2>6. r # << >> => Link(envSet[t], IsSet, Up(f), r[1])
    BY <1>2, <2>1, <2>3, <2>4 DEF Link, Calling
  <2>7. f.at <= 12
    BY <1>2
  <2> QED BY <1>2, <1>3, <1>5, <2>1, <2>2, <2>5, <2>6, <2>7, CallingOut
<1> QED BY <1>2, <1>4, <1>5

(* env() is called from the outermost call, if the pointer is not set. *)
LEMMA EnvFit ==
  ASSUME NestInv, NEW t \in Threads, Env(t)
  PROVE  Fit(t)'
<1> DEFINE f == Top(t)
           r == Rest(t)
           h == Frame("env", LOG_DEBUG)
           e == envSet[t]
<1>1. Typed
  BY DEF NestInv, LevelInv, LogInv
<1>2. /\ stack[t] # << >> /\ h \in Frames
      /\ \/ f.op \in {"jJvmLog", "lookup"} /\ f.at = 1
         \/ f.op = "setLevel" /\ f.at = 6
      /\ \/ e /\ Turned(t, Up(f))
         \/ ~e /\ Called(t, h)
      /\ UNCHANGED <<envSet, once, log, made>>
  BY <1>1, EnvDoes DEF settings, locks
<1>3. /\ f \in Frames /\ Provided(e, IsSet, f) /\ Len(r) \in Nat /\ made \in Nat
      /\ r # << >> => f.op = "jJvmLog" /\ IsSet /\ e /\ Calling(IsSet, f, r[1])
      /\ r = << >> => Len(r) = 0
  BY <1>2, Inside
<1>4. /\ Up(f) \in Frames /\ Up(f).op = f.op /\ Up(f).at = f.at + 1 /\ Up(f).level = f.level
  BY <1>2, <1>3, UpType
<1>5. h.op = "env" /\ h.at = 1
  BY FrameType, Names, Levels
<1> HIDE DEF h
<1>6. \A flag \in Flags : ~Owning(flag, f)
  BY <1>2, NotOwning
<1>7. ASSUME e, Turned(t, Up(f)) PROVE Fit(t)'
  <2> DEFINE g == Up(f)
  <2>1. r # << >> => Link(e, IsSet, g, r[1])
    BY <1>2, <1>3, <1>4 DEF Link, Calling
  <2>2. Provided(e, IsSet', g)
    BY <1>2, <1>4, <1>7 DEF Provided
  <2>3. r = << >> \/ g.op \in {"log", "env", "jJvmLog"}
    BY <1>3, <1>4
  <2>4. \A flag \in Flags : once'[flag] = t =>
          IF r = << >> THEN Owning(flag, g) ELSE once[flag] = t
    <3> SUFFICES ASSUME NEW flag \in Flags, once[flag] = t
                 PROVE  r # << >>
      BY <1>2
    <3>1. Owning(flag, Foot(t))
      BY DEF NestInv, Owned
    <3> QED BY <1>1, <1>2, <1>6, <3>1, FootIs
  <2>5. \/ g.op # "jJvmLog"
        \/ f.op = "jJvmLog" /\ f.at # 8
    BY <1>2, <1>4
  <2>6. IsSet => IsSet'
    BY <1>2 DEF IsSet
  <2>7. g \in Frames /\ Turned(t, g)
    BY <1>4, <1>7
  <2> HIDE DEF g
  <2> QED BY <1>2, <2>1, <2>2, <2>3, <2>4, <2>5, <2>6, <2>7, Turning
<1>8. ASSUME ~e, Called(t, h) PROVE Fit(t)'
  <2>1. r = << >> /\ Len(r) <= made + 1
    <3>1. r = << >> /\ Len(r) = 0
      BY <1>3, <1>8
    <3> HIDE DEF r
    <3> QED BY <1>3, <3>1
  <2>2. f.op \in {"jJvmLog", "lookup"} /\ f.at = 1
    BY <1>2, <1>3, <1>8 DEF Provided
  <2>3. Link(e, IsSet, h, Up(f))
    BY <1>4, <1>5, <1>8, <2>2 DEF Link
  <2>4. f.at <= 12
    BY <2>2
  <2> QED BY <1>2, <1>5, <1>6, <1>8, <2>1, <2>3, <2>4, CallingOut
<1> QED BY <1>2, <1>7, <1>8

(* What is below a call of env(): one call, the outermost. *)
LEMMA BelowEnv ==
  ASSUME NestInv, NEW t \in Threads, stack[t] # << >>, Top(t).op = "env"
  PROVE  /\ Rest(t) # << >> /\ Len(Rest(t)) = 1 /\ ~envSet[t]
         /\ Rest(t)[1].op \in {"jJvmLog", "lookup"} /\ Rest(t)[1].at = 2
<1> DEFINE r == Rest(t)
           e == envSet[t]
<1>1. /\ r \in Seq(Frames) /\ Len(r) \in Nat /\ r # << >> /\ Len(r) >= 1
      /\ Linked(e, IsSet, r) /\ Link(e, IsSet, Top(t), r[1])
  BY Inside
<1>2. ~e /\ r[1].op \in {"jJvmLog", "lookup"} /\ r[1].at = 2
  BY <1>1 DEF Link
<1>3. Len(r) = 1
  <2> HIDE DEF r
  <2> SUFFICES ASSUME Len(r) # 1 PROVE FALSE
    OBVIOUS
  <2>1. 1 \in 1..Len(r) - 1
    <3>1. \A n \in Nat : n >= 1 /\ n # 1 => 1 \in 1..n - 1
      OBVIOUS
    <3> QED BY <1>1, <3>1
  <2>2. Link(e, IsSet, r[1], r[1 + 1])
    BY <1>1, <2>1 DEF Linked
  <2> QED BY <1>2, <2>2 DEF Link
<1> QED BY <1>1, <1>2, <1>3

LEMMA EnvSaysFit ==
  ASSUME NestInv, NEW t \in Threads, EnvSays(t)
  PROVE  Fit(t)'
<1> DEFINE f == Top(t)
           r == Rest(t)
           h == Frame("log", LOG_DEBUG)
           e == envSet[t]
<1>1. Typed
  BY DEF NestInv, LevelInv, LogInv
<1>2. /\ stack[t] # << >> /\ f.op = "env" /\ f.at \in {1, 2} /\ h \in Frames /\ Called(t, h)
      /\ UNCHANGED <<envSet, once, log, made>>
  BY <1>1, EnvSaysDoes DEF settings, locks
<1>3. /\ f \in Frames /\ made \in Nat
  BY <1>2, Inside
<1>4. r # << >> /\ Len(r) = 1 /\ ~e /\ r[1].op \in {"jJvmLog", "lookup"} /\ r[1].at = 2
  BY <1>2, BelowEnv
<1>5. Up(f).op = "env" /\ Up(f).at \in {2, 3}
  BY <1>2, <1>3, UpType
<1>6. h.op = "log" /\ h.level = LOG_DEBUG
  BY FrameType, Names, Levels
<1> HIDE DEF h
<1>7. \A flag \in Flags : ~Owning(flag, f)
  BY <1>2, NotOwning
<1>8. Link(e, IsSet, h, Up(f)) /\ Link(e, IsSet, Up(f), r[1])
  BY <1>4, <1>5, <1>6 DEF Link
<1>9. Len(r) <= made + 1 /\ f.at <= 12
  <2> HIDE DEF r
  <2> QED BY <1>2, <1>3, <1>4
<1> QED BY <1>2, <1>6, <1>7, <1>8, <1>9, CallingOut

LEMMA SetEnvFit ==
  ASSUME NestInv, NEW t \in Threads, SetEnv(t)
  PROVE  Fit(t)'
<1> DEFINE r == Rest(t)
<1>1. Typed /\ envSet \in [Threads -> BOOLEAN]
  BY DEF NestInv, LevelInv, LogInv, SettingsOK
<1>2. /\ stack[t] # << >> /\ Top(t).op = "env" /\ Popped(t)
      /\ envSet' = [envSet EXCEPT ![t] = TRUE]
      /\ UNCHANGED <<once, log, made>>
  BY <1>1, SetEnvDoes DEF settings, locks
<1>3. r # << >> /\ Len(r) = 1 /\ r[1].op \in {"jJvmLog", "lookup"} /\ r[1].at = 2
  BY <1>2, BelowEnv
<1>4. made \in Nat /\ Nested(stack[t])
  BY <1>2, Inside
<1>5. stack'[t] = r /\ Foot(t)' = Foot(t)
  BY <1>1, <1>2, <1>3, <1>4, FootAfter
<1>6. envSet'[t]
  BY <1>1, <1>2
<1>7. Owned(t)'
  BY <1>2, <1>3, <1>5 DEF NestInv, Owned, Owning
<1> HIDE DEF r
<1>8. Provided(envSet'[t], IsSet', r[1]) /\ Shallow(log' = "native", made', r)
  BY <1>2, <1>3, <1>4, <1>6 DEF Provided, Shallow
<1>9. Linked(envSet'[t], IsSet', r)
  BY <1>3 DEF Linked
<1>10. Sound(envSet'[t], IsSet', log' = "native", made', r)
  BY <1>8, <1>9 DEF Sound
<1>11. Within(t)' = Sound(envSet'[t], IsSet', log' = "native", made', stack'[t])
  BY DEF Within, Sound, Linked, Link, Calling, Provided, Shallow
<1> QED BY <1>5, <1>7, <1>10, <1>11 DEF Fit

(* The steps of a lookup that is not inside of another call: it passes on, *)
(* or writes a message.                                                    *)
LEMMA OuterTurn ==
  ASSUME NestInv, NEW t \in Threads, stack[t] # << >>, Rest(t) = << >>,
         NEW g \in Frames, Turned(t, g), UNCHANGED <<envSet, log, made>>, IsSet => IsSet',
         Provided(envSet[t], IsSet', g),
         \/ g.op # "jJvmLog"
         \/ Top(t).op = "jJvmLog" /\ Top(t).at # 8,
         \A flag \in Flags : once'[flag] = t => Owning(flag, g)
  PROVE  Fit(t)'
BY Turning

LEMMA OuterCall ==
  ASSUME NestInv, NEW t \in Threads, stack[t] # << >>, Rest(t) = << >>, Top(t).at <= 12,
         NEW level \in {LOG_DEBUG, LOG_WARN}, Called(t, Frame("log", level)), envSet[t],
         UNCHANGED <<envSet, once, log, made>>,
         \/ Top(t).op = "jJvmLog" /\ Top(t).at \in {4, 5} /\ level = LOG_DEBUG
         \/ Top(t).op = "lookup" /\ Top(t).at \in {3, 4}
         \/ Top(t).op = "setLevel" /\ Top(t).at \in {4, 9, 10} /\ level = LOG_DEBUG
  PROVE  Fit(t)'
<1> DEFINE f == Top(t)
           r == Rest(t)
           h == Frame("log", level)
<1>1. level \in LOG_DEBUG..LOG_DISABLE
  BY Levels
<1>2. h \in Frames /\ h.op = "log" /\ h.level = level
  BY <1>1, FrameType, Names
<1>3. Called(t, h)
  OBVIOUS
<1> HIDE DEF h
<1>4. f \in Frames /\ made \in Nat /\ (r = << >> => Len(r) = 0)
  BY Inside
<1>5. Up(f).op = f.op /\ Up(f).at = f.at + 1
  BY <1>4, UpType
<1>6. Calling(IsSet, h, Up(f))
  BY <1>2, <1>5 DEF Calling
<1>7. Link(envSet[t], IsSet, h, Up(f))
  BY <1>2, <1>6 DEF Link
<1>8. Len(r) <= made + 1
  <2>1. Len(r) = 0
    BY <1>4
  <2> HIDE DEF r
  <2> QED BY <1>4, <2>1
<1>9. \A flag \in Flags : Owning(flag, f) => Owning(flag, Up(f))
  BY <1>5 DEF Owning
<1> QED BY <1>2, <1>3, <1>7, <1>8, <1>9, CallingOut

(* Only a jJvmLog that is resolved is inside of another call. *)
LEMMA Outermost ==
  ASSUME NestInv, NEW t \in Threads, stack[t] # << >>, Top(t).op \notin {"log", "env"},
         \/ Top(t).op # "jJvmLog" \/ Top(t).at \notin {1, 2, 7, 8} \/ ~IsSet
  PROVE  /\ Rest(t) = << >> /\ Foot(t) = Top(t)
         /\ \A flag \in Flags : once[flag] = t => Owning(flag, Top(t))
<1>1. Rest(t) = << >> /\ Typed
  BY Inside
<1>2. Foot(t) = Top(t)
  BY <1>1, FootIs
<1> QED BY <1>1, <1>2 DEF NestInv, Owned

LEMMA ResolveFit ==
  ASSUME NestInv, NEW t \in Threads, Resolve(t)
  PROVE  Fit(t)'
<1> DEFINE f == Top(t)
           r == Rest(t)
           e == envSet[t]
<1>1. Typed /\ once \in [Flags -> Threads \cup {NoThread, "set"}]
  BY DEF NestInv, LevelInv, LogInv, SettingsOK
<1>2. /\ stack[t] # << >>
      /\ \/ f.op = "jJvmLog" /\ f.at = 2
         \/ f.op = "setLevel" /\ f.at = 7
      /\ \/ /\ once[f.op] = "set" /\ once' = once
            /\ \E g \in Frames : /\ g.op = f.op /\ g.level = f.level
                                 /\ g.at = IF g.op = "jJvmLog" THEN 7 ELSE 12
                                 /\ Turned(t, g)
         \/ /\ once[f.op] = NoThread /\ once' = [once EXCEPT ![f.op] = t]
            /\ Turned(t, Up(f))
      /\ UNCHANGED <<envSet, log, made>>
  BY <1>1, ResolveDoes DEF settings
<1>3. /\ f \in Frames /\ Provided(e, IsSet, f)
      /\ r # << >> => f.op = "jJvmLog" /\ IsSet /\ Calling(IsSet, f, r[1])
  BY <1>2, Inside
<1>4. e
  BY <1>2, <1>3 DEF Provided
<1>5. \A flag \in Flags : ~Owning(flag, f)
  BY <1>2, NotOwning
<1>6. f.op \in Flags /\ NoThread # "set"
  BY <1>2, LoggingAssumption DEF Flags
<1>7. ASSUME NEW g \in Frames, once[f.op] = "set", once' = once, g.op = f.op, g.level = f.level,
             g.at = IF g.op = "jJvmLog" THEN 7 ELSE 12, Turned(t, g)
      PROVE  Fit(t)'
  <2>1. r # << >> => Link(e, IsSet, g, r[1])
    BY <1>3, <1>4, <1>7 DEF Link, Calling
  <2>2. Provided(e, IsSet', g)
    BY <1>2, <1>4, <1>7 DEF Provided, IsSet
  <2>3. \A flag \in Flags : once'[flag] = t =>
          IF r = << >> THEN Owning(flag, g) ELSE once[flag] = t
    <3> SUFFICES ASSUME NEW flag \in Flags, once[flag] = t
                 PROVE  r # << >>
      BY <1>7
    <3>1. Owning(flag, Foot(t))
      BY DEF NestInv, Owned
    <3> QED BY <1>1, <1>2, <1>5, <3>1, FootIs
  <2>4. \/ g.op # "jJvmLog"
        \/ f.op = "jJvmLog" /\ f.at # 8
    BY <1>2, <1>7
  <2>5. (IsSet => IsSet') /\ (r = << >> \/ g.op = "jJvmLog")
    BY <1>3, <1>7 DEF IsSet
  <2> QED BY <1>2, <1>7, <2>1, <2>2, <2>3, <2>4, <2>5, Turning
<1>8. ASSUME once[f.op] = NoThread, once' = [once EXCEPT ![f.op] = t], Turned(t, Up(f))
      PROVE  Fit(t)'
  <2>1. f.op # "jJvmLog" \/ ~IsSet
    BY <1>6, <1>8 DEF IsSet
  <2>2. r = << >>
    BY <1>3, <2>1
  <2>3. /\ Up(f) \in Frames /\ Up(f).op = f.op /\ Up(f).at = f.at + 1
    BY <1>2, <1>3, UpType
  <2>4. \A flag \in Flags : once'[flag] = t => Owning(flag, Up(f))
    <3> SUFFICES ASSUME NEW flag \in Flags, once'[flag] = t PROVE Owning(flag, Up(f))
      OBVIOUS
    <3>1. CASE flag = f.op
      BY <1>2, <2>3, <3>1 DEF Owning
    <3>2. CASE flag # f.op
      <4>1. once[flag] = t
        BY <1>1, <1>8, <3>2
      <4>2. Owning(flag, Foot(t)) /\ Foot(t) = f
        BY <1>1, <1>2, <2>2, <4>1, FootIs DEF NestInv, Owned
      <4> QED BY <1>5, <4>2
    <3> QED BY <3>1, <3>2
  <2>5. Provided(e, IsSet', Up(f))
    BY <1>2, <1>4, <2>3 DEF Provided
  <2>6. IsSet => IsSet'
    BY <1>1, <1>6, <1>8, LoggingAssumption DEF IsSet, Flags
  <2>7. \/ Up(f).op # "jJvmLog"
        \/ f.op = "jJvmLog" /\ f.at # 8
    BY <1>2, <2>3
  <2> QED BY <1>2, <1>8, <2>2, <2>3, <2>4, <2>5, <2>6, <2>7, OuterTurn
<1> QED BY <1>2, <1>7, <1>8

LEMMA LockFit ==
  ASSUME NestInv, NEW t \in Threads, Lock(t)
  PROVE  Fit(t)'
<1> DEFINE f == Top(t)
<1>1. Typed
  BY DEF NestInv, LevelInv, LogInv
<1>2. /\ stack[t] # << >>
      /\ \/ f.op = "jJvmLog" /\ f.at = 3
         \/ f.op = "lookup" /\ f.at = 2
         \/ f.op = "setLevel" /\ f.at = 8
      /\ Turned(t, Up(f)) /\ UNCHANGED <<envSet, once, log, made>>
  BY <1>1, LockDoes DEF settings
<1>3. f \in Frames /\ Provided(envSet[t], IsSet, f)
  BY <1>2, Inside
<1>4. /\ Rest(t) = << >>
      /\ \A flag \in Flags : once[flag] = t => Owning(flag, f)
  BY <1>2, Outermost
<1>5. /\ Up(f) \in Frames /\ Up(f).op = f.op /\ Up(f).at = f.at + 1
  BY <1>2, <1>3, UpType
<1>6. \A flag \in Flags : once'[flag] = t => Owning(flag, Up(f))
  BY <1>2, <1>4, <1>5 DEF Owning
<1>7. Provided(envSet[t], IsSet', Up(f)) /\ (IsSet => IsSet')
  BY <1>2, <1>3, <1>5 DEF Provided, IsSet
<1>8. \/ Up(f).op # "jJvmLog"
      \/ f.op = "jJvmLog" /\ f.at # 8
  BY <1>2, <1>5
<1> QED BY <1>2, <1>4, <1>5, <1>6, <1>7, <1>8, OuterTurn

LEMMA AnnounceFit ==
  ASSUME NestInv, NEW t \in Threads, Announce(t)
  PROVE  Fit(t)'
<1> DEFINE f == Top(t)
<1>1. Typed
  BY DEF NestInv, LevelInv, LogInv
<1>2. /\ stack[t] # << >>
      /\ \/ f.op = "jJvmLog" /\ f.at = 4
         \/ f.op = "lookup" /\ f.at = 3
         \/ f.op = "setLevel" /\ f.at = 9
      /\ Called(t, Frame("log", LOG_DEBUG)) /\ UNCHANGED <<envSet, once, log, made>>
  BY <1>1, AnnounceDoes DEF settings, locks
<1>3. Rest(t) = << >> /\ envSet[t] /\ f.at <= 12
  <2>1. Rest(t) = << >>
    BY <1>2, Outermost
  <2>2. Provided(envSet[t], IsSet, f)
    BY <1>2, Inside
  <2> QED BY <1>2, <2>1, <2>2 DEF Provided
<1> QED BY <1>2, <1>3, OuterCall

LEMMA ReportFit ==
  ASSUME NestInv, NEW t \in Threads, Report(t)
  PROVE  Fit(t)'
<1> DEFINE f == Top(t)
<1>1. Typed
  BY DEF NestInv, LevelInv, LogInv
<1>2. /\ stack[t] # << >>
      /\ \/ f.op = "jJvmLog" /\ f.at = 5
         \/ f.op = "lookup" /\ f.at = 4
         \/ f.op = "setLevel" /\ f.at = 10
      /\ \/ Called(t, Frame("log", LOG_DEBUG))
         \/ f.op = "lookup" /\ Called(t, Frame("log", LOG_WARN))
         \/ f.op = "lookup" /\ Turned(t, Up(f))
      /\ UNCHANGED <<envSet, once, log, made>>
  BY <1>1, ReportDoes DEF settings, locks
<1>3. /\ Rest(t) = << >> /\ envSet[t] /\ f.at <= 12
      /\ \A flag \in Flags : once[flag] = t => Owning(flag, f)
  <2>1. /\ Rest(t) = << >>
        /\ \A flag \in Flags : once[flag] = t => Owning(flag, f)
    BY <1>2, Outermost
  <2>2. Provided(envSet[t], IsSet, f)
    BY <1>2, Inside
  <2> QED BY <1>2, <2>1, <2>2 DEF Provided
<1>4. ASSUME f.op = "lookup", Turned(t, Up(f)) PROVE Fit(t)'
  <2>1. f \in Frames
    BY <1>2, Inside
  <2>2. Up(f) \in Frames /\ Up(f).op = "lookup"
    BY <1>3, <1>4, <2>1, UpType
  <2>3. Provided(envSet[t], IsSet', Up(f)) /\ (IsSet => IsSet')
    BY <1>2, <1>3, <2>2 DEF Provided, IsSet
  <2>4. \A flag \in Flags : once'[flag] # t
    BY <1>2, <1>3, <1>4, NotOwning
  <2> QED BY <1>2, <1>3, <1>4, <2>2, <2>3, <2>4, OuterTurn
<1> QED BY <1>2, <1>3, <1>4, OuterCall

LEMMA UnlockFit ==
  ASSUME NestInv, NEW t \in Threads, Unlock(t)
  PROVE  Fit(t)'
<1> DEFINE f == Top(t)
<1>1. Typed /\ once \in [Flags -> Threads \cup {NoThread, "set"}]
  BY DEF NestInv, LevelInv, LogInv, SettingsOK
<1>2. /\ stack[t] # << >>
      /\ \/ f.op = "jJvmLog" /\ f.at = 6
         \/ f.op = "lookup" /\ f.at = 5
         \/ f.op = "setLevel" /\ f.at = 11
      /\ once' = IF f.op \in Flags THEN [once EXCEPT ![f.op] = "set"] ELSE once
      /\ Turned(t, Up(f)) /\ UNCHANGED <<envSet, log, made>>
  BY <1>1, UnlockDoes DEF settings
<1>3. f \in Frames /\ Provided(envSet[t], IsSet, f)
  BY <1>2, Inside
<1>4. /\ Rest(t) = << >>
      /\ \A flag \in Flags : once[flag] = t => Owning(flag, f)
  BY <1>2, Outermost
<1>5. /\ Up(f) \in Frames /\ Up(f).op = f.op /\ Up(f).at = f.at + 1
  BY <1>2, <1>3, UpType
<1>6. \A flag \in Flags : once'[flag] # t
  <2> SUFFICES ASSUME NEW flag \in Flags, once'[flag] = t PROVE FALSE
    OBVIOUS
  <2>1. "set" \notin Threads
    BY LoggingAssumption
  <2>2. once[flag] = t /\ (f.op \in Flags => flag # f.op)
    BY <1>1, <1>2, <2>1
  <2>3. Owning(flag, f)
    BY <1>4, <2>2
  <2>4. f.op \in Flags /\ flag = f.op
    BY <1>2, <2>3, NotOwning DEF Flags
  <2> QED BY <2>2, <2>4
<1>7. (IsSet => IsSet') /\ (f.op = "jJvmLog" => IsSet')
  BY <1>1, <1>2 DEF IsSet, Flags
<1>8. Provided(envSet[t], IsSet', Up(f))
  BY <1>2, <1>3, <1>5, <1>7 DEF Provided
<1>9. \/ Up(f).op # "jJvmLog"
      \/ f.op = "jJvmLog" /\ f.at # 8
  BY <1>2, <1>5
<1> QED BY <1>2, <1>4, <1>5, <1>6, <1>7, <1>8, <1>9, OuterTurn

LEMMA ReturnsFit ==
  ASSUME NestInv, NEW t \in Threads, Returns(t)
  PROVE  Fit(t)'
<1> DEFINE f == Top(t)
<1>1. Typed
  BY DEF NestInv, LevelInv, LogInv
<1>2. /\ stack[t] # << >> /\ Popped(t) /\ UNCHANGED <<envSet, once, log, made>>
      /\ \/ f.op = "log" /\ f.at >= 2
         \/ f.op = "env" /\ f.at >= 4
         \/ f.op = "jJvmLog" /\ f.at >= 8
         \/ f.op = "lookup" /\ f.at >= 6
         \/ f.op = "setLevel" /\ f.at >= 13
  BY <1>1, ReturnsDoes DEF settings, locks
<1>3. f.op # "env"
  <2>1. Rest(t) = << >> => f.op # "env"
    BY <1>2, Inside
  <2>2. Rest(t) # << >> => Link(envSet[t], IsSet, f, Rest(t)[1])
    BY <1>2, Inside
  <2>3. f \in Frames
    BY <1>2, Inside
  <2> QED BY <1>2, <2>1, <2>2, <2>3 DEF Link, Frames
<1>4. \A flag \in Flags : ~Owning(flag, f)
  <2>1. f \in Frames
    BY <1>2, Inside
  <2> QED BY <1>2, <2>1, NotOwning DEF Frames
<1> QED BY <1>2, <1>3, <1>4, Popping

(* The steps of setMinimumLogLevel, which is never inside of another call. *)
LEMMA SetterTurn ==
  ASSUME NestInv, NEW t \in Threads, stack[t] # << >>, Top(t).op = "setLevel",
         NEW g \in Frames, g.op = "setLevel", Turned(t, g), UNCHANGED <<envSet, log, made>>,
         g.at >= 3 => envSet[t], IsSet => IsSet',
         \A flag \in Flags : once'[flag] = t => Owning(flag, g)
  PROVE  Fit(t)'
<1>1. Rest(t) = << >>
  BY Outermost
<1>2. Provided(envSet[t], IsSet', g)
  BY DEF Provided
<1> QED BY <1>1, <1>2, OuterTurn

LEMMA LevelFit ==
  ASSUME NestInv, NEW t \in Threads,
         \/ WriteLevel(t) \/ PassLevel(t) \/ SetJavaLevel(t)
         \/ Static(t) \/ Construct(t) \/ ReadLevel(t)
  PROVE  Fit(t)'
<1> DEFINE f == Top(t)
<1>1. /\ Typed /\ once \in [Flags -> Threads \cup {NoThread, "set"}]
      /\ gMinimumLogLevel \in LOG_DEBUG..LOG_DISABLE
  BY Levels DEF NestInv, LevelInv, LogInv, SettingsOK
<1>2. ASSUME stack[t] # << >>, f.op = "setLevel"
      PROVE  /\ f \in Frames /\ f.at \in 1..13
             /\ f.at >= 3 => envSet[t]
             /\ \A flag \in Flags : once[flag] = t => Owning(flag, f)
             /\ f.at <= 12 => Up(f) \in Frames /\ Up(f).op = "setLevel" /\ Up(f).at = f.at + 1
  <2>1. /\ f \in Frames /\ Provided(envSet[t], IsSet, f)
        /\ \A flag \in Flags : once[flag] = t => Owning(flag, f)
    BY <1>2, Inside, Outermost
  <2> QED BY <1>2, <2>1, UpType DEF Provided, Frames
<1>3. ASSUME WriteLevel(t) \/ PassLevel(t) \/ SetJavaLevel(t) PROVE Fit(t)'
  <2>1. /\ stack[t] # << >> /\ f.op = "setLevel" /\ f.at \in {1, 2, 12}
        /\ \/ Popped(t)
           \/ Turned(t, Up(f)) /\ f.at # 12 /\ (f.at = 2 => envSet[t])
        /\ UNCHANGED <<envSet, once, log, made>>
    BY <1>1, <1>3, SetLevelDoes DEF settings, locks
  <2>2. \A flag \in Flags : ~Owning(flag, f)
    BY <2>1, NotOwning
  <2>3. IsSet => IsSet'
    BY <2>1 DEF IsSet
  <2>4. ASSUME Turned(t, Up(f)), f.at # 12, f.at = 2 => envSet[t] PROVE Fit(t)'
    <3>1. /\ Up(f) \in Frames /\ Up(f).op = "setLevel" /\ (Up(f).at >= 3 => envSet[t])
          /\ \A flag \in Flags : once'[flag] # t
      BY <1>2, <2>1, <2>2, <2>4
    <3> QED BY <2>1, <2>3, <2>4, <3>1, SetterTurn
  <2> QED BY <2>1, <2>2, <2>4, Popping
<1>4. ASSUME Static(t) PROVE Fit(t)'
  <2>1. /\ stack[t] # << >> /\ f.op = "setLevel" /\ f.at = 3
        /\ \/ /\ once' = once
              /\ \E g \in Frames : g.op = "setLevel" /\ g.at = 5 /\ Turned(t, g)
           \/ /\ once' = [once EXCEPT !["static"] = t]
              /\ Turned(t, Up(f))
        /\ UNCHANGED <<envSet, log, made>>
    BY <1>1, <1>4, StaticDoes DEF settings
  <2>2. envSet[t] /\ \A flag \in Flags : once[flag] # t
    BY <1>2, <2>1, NotOwning
  <2>3. ASSUME NEW g \in Frames, g.op = "setLevel", g.at = 5, Turned(t, g), once' = once
        PROVE  Fit(t)'
    <3>1. IsSet => IsSet'
      BY <2>3 DEF IsSet
    <3> QED BY <2>1, <2>2, <2>3, <3>1, SetterTurn
  <2>4. ASSUME once' = [once EXCEPT !["static"] = t], Turned(t, Up(f)) PROVE Fit(t)'
    <3>1. Up(f) \in Frames /\ Up(f).op = "setLevel" /\ Up(f).at = 4
      BY <1>2, <2>1
    <3>2. IsSet => IsSet'
      BY <1>1, <2>4 DEF IsSet, Flags
    <3>3. ASSUME NEW flag \in Flags, once'[flag] = t PROVE Owning(flag, Up(f))
      <4>1. flag = "static"
        BY <1>1, <2>2, <2>4, <3>3
      <4> QED BY <3>1, <4>1 DEF Owning
    <3> QED BY <2>1, <2>2, <2>4, <3>1, <3>2, <3>3, SetterTurn
  <2> QED BY <2>1, <2>3, <2>4
<1>5. ASSUME Construct(t) PROVE Fit(t)'
  <2>1. /\ stack[t] # << >> /\ f.op = "setLevel" /\ f.at = 4
        /\ Called(t, Frame("log", LOG_DEBUG)) /\ UNCHANGED <<envSet, once, log, made>>
    BY <1>1, <1>5, StaticDoes DEF settings, locks
  <2>2. Rest(t) = << >> /\ envSet[t] /\ f.at <= 12
    BY <1>2, <2>1, Outermost
  <2> QED BY <2>1, <2>2, OuterCall
<1>6. ASSUME ReadLevel(t) PROVE Fit(t)'
  <2>1. /\ stack[t] # << >> /\ f.op = "setLevel" /\ f.at = 5
        /\ once' = [once EXCEPT !["static"] = "set"]
        /\ \E g \in Frames : /\ g.op = "setLevel" /\ g.at = 6 /\ g.level = gMinimumLogLevel
                             /\ Turned(t, g)
        /\ UNCHANGED <<envSet, log, made>>
    BY <1>1, <1>6, ReadLevelDoes DEF settings
  <2>2. IsSet => IsSet'
    BY <1>1, <2>1 DEF IsSet, Flags
  <2>3. \A flag \in Flags : once'[flag] # t
    <3> SUFFICES ASSUME NEW flag \in Flags, once'[flag] = t PROVE FALSE
      OBVIOUS
    <3>1. flag # "static" /\ once[flag] = t
      BY <1>1, <2>1, LoggingAssumption
    <3>2. flag = "static"
      BY <1>2, <2>1, <3>1, NotOwning
    <3> QED BY <3>1, <3>2
  <2>4. PICK g \in Frames : g.op = "setLevel" /\ g.at = 6 /\ Turned(t, g)
    BY <2>1
  <2>5. envSet[t]
    BY <1>2, <2>1
  <2> QED BY <2>1, <2>2, <2>3, <2>4, <2>5, SetterTurn
<1> QED BY <1>3, <1>4, <1>5, <1>6

-----------------------------------------------------------------------------
(* A step fits the other threads, and keeps what the rules grant. *)
LEMMA OnceStep ==
  ASSUME LogInv, NEW t \in Threads, LogStep(t)
  PROVE  /\ \A u \in Threads, flag \in Flags : u # t /\ once'[flag] = u => once[flag] = u
         /\ IsSet => IsSet'
<1>1. once \in [Flags -> Threads \cup {NoThread, "set"}] /\ "jJvmLog" \in Flags
  BY DEF LogInv, SettingsOK, Flags
<1>2. "set" \notin Threads /\ NoThread # "set"
  BY LoggingAssumption
<1>3. \/ once' = once
      \/ \E flag : once[flag] = NoThread /\ once' = [once EXCEPT ![flag] = t]
      \/ \E flag : once' = [once EXCEPT ![flag] = "set"]
  BY DEF LogStep, Write, SendToJava, JvmLog, Env, EnvSays, SetEnv, Resolve, Lock, Announce,
         Report, Unlock, Resolved, Returns, WriteLevel, PassLevel, Static, Construct, ReadLevel,
         SetJavaLevel, locks
<1> QED BY <1>1, <1>2, <1>3 DEF IsSet

LEMMA FootStep ==
  ASSUME LevelInv, NEW t \in Threads, LogStep(t), stack'[t] # << >>
  PROVE  /\ stack[t] # << >> /\ Foot(t)'.op \in {Foot(t).op, "jJvmLog"}
         /\ Foot(t)'.op = "setLevel" /\ Foot(t)'.at = 1 => Foot(t)' = Foot(t)
<1>1. Typed /\ Nested(stack[t]) /\ LogInv /\ stack[t] # << >>
  BY StepIsInside DEF LevelInv, LogInv
<1>2. CASE Top(t).op = "setLevel"
  <2>1. Foot(t) = Top(t) /\ Foot(t)'.op = "setLevel" /\ Foot(t)'.at \in 2..12
    BY <1>1, <1>2, SetterForm
  <2> QED BY <1>1, <1>2, <2>1
<1>3. CASE Top(t).op # "setLevel"
  <2>1. \/ Popped(t)
        \/ \E g \in Frames : /\ Turned(t, g)
                             /\ g.op = Top(t).op \/ g.op = "jJvmLog"
        \/ \E h \in Frames : Top(t).at <= 12 /\ Called(t, h) /\ h.op \in {"log", "env"}
    BY <1>1, <1>3, OtherForm
  <2>2. /\ Top(t) \in Frames
        /\ Rest(t) = << >> => Foot(t) = Top(t)
        /\ Rest(t) # << >> => Top(t).op \in {"log", "env", "jJvmLog"}
    <3>1. stack[t] \in Seq(Frames) /\ Top(t) = stack[t][1] /\ Top(t) \in Frames
      BY <1>1, Tops DEF Typed
    <3> QED BY <1>1, <3>1, NestedRest, FootIs DEF Rest
  <2>3. CASE Popped(t)
    BY <1>1, <2>3, FootAfter
  <2>4. ASSUME NEW g \in Frames, Turned(t, g), g.op = Top(t).op \/ g.op = "jJvmLog"
        PROVE  /\ Foot(t)' = IF Rest(t) = << >> THEN g ELSE Foot(t)
               /\ g.op # "setLevel"
    BY <1>1, <1>3, <2>2, <2>4, FootAfter
  <2>5. ASSUME NEW h \in Frames, Top(t).at <= 12, Called(t, h), h.op \in {"log", "env"}
        PROVE  /\ Foot(t)' = IF Rest(t) = << >> THEN Up(Top(t)) ELSE Foot(t)
               /\ Up(Top(t)).op = Top(t).op
    BY <1>1, <2>2, <2>5, FootAfter, UpType
  <2> QED BY <1>1, <1>3, <2>1, <2>2, <2>3, <2>4, <2>5
<1> QED BY <1>2, <1>3

(* Whoever is about to set the level is in no other call. *)
LEMMA TopOrFoot ==
  ASSUME NEW e, NEW o, NEW fs \in Seq(Frames), fs # << >>, Nested(fs), Linked(e, o, fs)
  PROVE  SetsDebug(fs[1]) <=> SetsDebug(fs[Len(fs)])
<1>1. Len(fs) \in Nat /\ Len(fs) >= 1 /\ 1 \in DOMAIN fs
  BY NotEmpty
<1>2. CASE Len(fs) = 1
  BY <1>2
<1>3. CASE Len(fs) # 1
  <2>1. ~SetsDebug(fs[1])
    <3>1. 1 < Len(fs)
      BY <1>1, <1>3
    <3> QED BY <1>1, <3>1 DEF Nested, SetsDebug
  <2>2. ~SetsDebug(fs[Len(fs)])
    <3>1. Len(fs) - 1 \in 1..Len(fs) - 1 /\ Len(fs) - 1 + 1 = Len(fs)
      BY <1>1, <1>3
    <3>2. Link(e, o, fs[Len(fs) - 1], fs[Len(fs)])
      BY <3>1 DEF Linked
    <3> QED BY <3>2 DEF Link, Calling, SetsDebug
  <2> QED BY <2>1, <2>2
<1> QED BY <1>2, <1>3

LEMMA LevelStep ==
  ASSUME LogInv, NEW t \in Threads, LogStep(t)
  PROVE  \/ gMinimumLogLevel' = gMinimumLogLevel
         \/ /\ Top(t).op = "setLevel" /\ Top(t).at = 1
            /\ gMinimumLogLevel' = Top(t).level
<1>1. Typed
  BY DEF LogInv
<1>2. CASE WriteLevel(t)
  BY <1>1, <1>2, SetLevelDoes
<1>3. CASE ~WriteLevel(t)
  BY <1>3 DEF LogStep, Write, SendToJava, JvmLog, Env, EnvSays, SetEnv, Resolve, Lock, Announce,
         Report, Unlock, Returns, PassLevel, Static, Construct, ReadLevel,
         SetJavaLevel, settings
<1> QED BY <1>2, <1>3

LEMMA OthersFit ==
  ASSUME NestInv, NEW u \in Threads, UNCHANGED <<log, made>>,
         stack'[u] = stack[u], envSet'[u] = envSet[u], IsSet => IsSet',
         \A flag \in Flags : once'[flag] = u => once[flag] = u
  PROVE  Fit(u)'
<1> DEFINE s == stack[u]
           e == envSet[u]
           k == log = "native"
           o == IsSet
           p == IsSet'
<1>1. Sound(e, o, k, made, s)
  BY DEF NestInv
<1>2. o => p
  OBVIOUS
<1>3. Owned(u)'
  BY DEF NestInv, Owned, Owning, Foot
<1>4. envSet'[u] = e /\ (log' = "native") = k /\ made' = made /\ stack'[u] = s
  OBVIOUS
<1> HIDE DEF e, k, o, p, s
<1>5. Linked(e, p, s)
  BY <1>1, <1>2, LinkedMore DEF Sound
<1>6. Sound(e, p, k, made, s)
  BY <1>1, <1>2, <1>5 DEF Sound, Provided
<1>7. Within(u)' = Sound(envSet'[u], IsSet', log' = "native", made', stack'[u])
  BY DEF Within, Sound, Linked, Link, Calling, Provided, Shallow
<1> QED BY <1>3, <1>4, <1>6, <1>7 DEF Fit, p

LEMMA NestStep ==
  ASSUME NestInv, NEW t \in Threads, LogStep(t), Fit(t)'
  PROVE  NestInv'
<1>1. LevelInv /\ LogInv /\ Typed /\ envSet \in [Threads -> BOOLEAN]
  BY DEF NestInv, LevelInv, LogInv, SettingsOK
<1>2. LevelInv' /\ Typed'
  BY <1>1, NextLevelInv DEF LogNext, LevelInv, LogInv
<1>3. /\ UNCHANGED <<gLog, log, made>> /\ stack[t] # << >>
      /\ envSet' = envSet \/ envSet' = [envSet EXCEPT ![t] = TRUE]
  <2>1. stack[t] # << >> /\ Nested(stack[t])
    BY <1>1, StepIsInside DEF LevelInv
  <2> QED BY <1>1, <2>1, OtherForm, SetterForm
<1>4. /\ \A u \in Threads : u # t => stack'[u] = stack[u] /\ envSet'[u] = envSet[u]
      /\ \A u \in Threads : envSet[u] => envSet'[u]
  <2>1. \A u \in Threads : u # t => stack'[u] = stack[u]
    <3>1. PICK s : stack' = [stack EXCEPT ![t] = s]
      BY StepIsInside
    <3> QED BY <1>1, <3>1 DEF Typed
  <2> QED BY <1>1, <1>3, <2>1
<1>5. /\ \A u \in Threads, flag \in Flags : u # t /\ once'[flag] = u => once[flag] = u
      /\ IsSet => IsSet'
  BY <1>1, OnceStep
<1>6. \A u \in Threads : Fit(u)'
  BY <1>3, <1>4, <1>5, OthersFit
<1>7. \A u \in Threads : stack'[u] # << >> =>
        /\ stack[u] # << >> /\ Foot(u)'.op \in {Foot(u).op, "jJvmLog"}
        /\ Foot(u)'.op = "setLevel" /\ Foot(u)'.at = 1 => Foot(u)' = Foot(u)
  <2>1. \A u \in Threads : u # t => stack'[u] = stack[u] /\ Foot(u)' = Foot(u)
    BY <1>4 DEF Foot
  <2> QED BY <1>1, <2>1, FootStep
<1>8. \A u \in Threads : stack[u] # << >> => (SetsDebug(Top(u)) <=> SetsDebug(Foot(u)))
  <2> SUFFICES ASSUME NEW u \in Threads, stack[u] # << >>
               PROVE  SetsDebug(Top(u)) <=> SetsDebug(Foot(u))
    OBVIOUS
  <2>1. stack[u] \in Seq(Frames) /\ Nested(stack[u]) /\ Linked(envSet[u], IsSet, stack[u])
    BY <1>1 DEF Typed, LevelInv, NestInv, Sound
  <2>2. SetsDebug(stack[u][1]) <=> SetsDebug(stack[u][Len(stack[u])])
    BY <2>1, TopOrFoot
  <2>3. Top(u) = stack[u][1]
    BY <1>1, Tops
  <2> QED BY <2>2, <2>3 DEF Foot
<1>9. \A u \in Threads : stack'[u] # << >> /\ SetsDebug(Top(u)') => SetsDebug(Foot(u)')
  <2> SUFFICES ASSUME NEW u \in Threads, stack'[u] # << >>, SetsDebug(Top(u)')
               PROVE  SetsDebug(Foot(u)')
    OBVIOUS
  <2> DEFINE fs == stack'[u]
  <2>1. fs \in Seq(Frames) /\ Nested(fs) /\ Linked(envSet'[u], IsSet', fs)
    <3>1. Within(u)'
      BY <1>6 DEF Fit
    <3> QED BY <1>2, <3>1 DEF Typed, LevelInv, Nested, Within, Sound, Linked, Link, Calling
  <2>2. Top(u)' = Head(fs) /\ Foot(u)' = fs[Len(fs)] /\ fs # << >>
    BY DEF Top, Foot
  <2> HIDE DEF fs
  <2>3. SetsDebug(fs[1]) <=> SetsDebug(fs[Len(fs)])
    BY <2>1, <2>2, TopOrFoot
  <2>4. Head(fs) = fs[1]
    BY <2>1, <2>2, NotEmpty
  <2> QED BY <2>2, <2>3, <2>4
<1>10. \A u \in Threads : stack'[u] # << >> /\ SetsDebug(Foot(u)') =>
         stack[u] # << >> /\ SetsDebug(Foot(u))
  BY <1>7 DEF SetsDebug
<1>11. \/ gMinimumLogLevel' = gMinimumLogLevel
       \/ Top(t).op = "setLevel" /\ Top(t).at = 1 /\ gMinimumLogLevel' = Top(t).level
  BY <1>1, LevelStep
<1>12. gMinimumLogLevel' = LOG_DEBUG => gMinimumLogLevel = LOG_DEBUG \/ SetsDebug(Top(t))
  BY <1>11 DEF SetsDebug
<1>13. EnvFirst'
  <2> SUFFICES ASSUME Debugging', NEW u \in Threads, stack'[u] # << >> PROVE envSet'[u]
    BY DEF EnvFirst
  <2>1. gLog = "jvm"
    BY <1>3 DEF Debugging
  <2>2. \/ gMinimumLogLevel' = LOG_DEBUG
        \/ \E v \in Threads : stack'[v] # << >> /\ SetsDebug(Top(v)')
    BY DEF Debugging, SetsDebug
  <2>3. Debugging
    BY <1>3, <1>8, <1>9, <1>10, <1>12, <2>1, <2>2 DEF Debugging
  <2>4. stack[u] # << >>
    BY <1>7
  <2> QED BY <1>4, <2>3, <2>4 DEF NestInv, EnvFirst
<1>14. ASSUME Unresolved'
       PROVE  /\ gMinimumLogLevel' > LOG_DEBUG
              /\ \A u \in Threads : stack'[u] # << >> =>
                   Foot(u)'.op # "lookup" /\ ~SetsDebug(Foot(u)')
  <2>1. Unresolved
    BY <1>3, <1>5, <1>14 DEF Unresolved, IsSet
  <2>2. gMinimumLogLevel > LOG_DEBUG /\ ~SetsDebug(Foot(t)) /\ ~SetsDebug(Top(t))
    BY <1>3, <1>8, <2>1 DEF NestInv
  <2>3. gMinimumLogLevel' > LOG_DEBUG
    <3>1. gMinimumLogLevel' \in 0..3 /\ LOG_DEBUG = 0
      BY <1>2, Levels DEF LevelInv, LogInv, SettingsOK
    <3>2. gMinimumLogLevel' # LOG_DEBUG
      BY <1>12, <2>2, Levels
    <3> QED BY <3>1, <3>2
  <2>4. ASSUME NEW u \in Threads, stack'[u] # << >>
        PROVE  Foot(u)'.op # "lookup" /\ ~SetsDebug(Foot(u)')
    BY <1>7, <1>10, <2>1, <2>4 DEF NestInv
  <2> QED BY <2>3, <2>4
<1>15. \A u \in Threads : stack'[u] # << >> => Foot(u)'.op # "env"
  BY <1>7 DEF NestInv
<1>16. gLog' = "jvm" => log' = "print"
  BY <1>3 DEF NestInv
<1>17. (Unresolved =>
         /\ gMinimumLogLevel > LOG_DEBUG
         /\ \A u \in Threads : stack[u] # << >> =>
              Foot(u).op # "lookup" /\ ~SetsDebug(Foot(u)))'
  BY <1>14 DEF SetsDebug
<1> QED BY <1>2, <1>6, <1>13, <1>15, <1>16, <1>17 DEF NestInv, Fit, Within

Rules == {"notBoth", "resolvedFirst", "envFirst"} \subseteq Contract

LEMMA Deeper ==
  ASSUME NEW e, NEW o, NEW k, NEW m, NEW n \in Nat, NEW fs \in Seq(Frames), Sound(e, o, k, n, fs)
  PROVE  Sound(e, o, m, n + 1, fs)
<1>1. Len(fs) \in Nat
  OBVIOUS
<1>2. ASSUME Shallow(k, n, fs) PROVE Shallow(m, n + 1, fs)
  <2>1. Len(fs) <= n + 3
    BY <1>2 DEF Shallow
  <2>2. Len(fs) <= n + 1 + 3 /\ Len(fs) <= n + 1 + 2
    BY <1>1, <2>1
  <2> QED BY <2>2 DEF Shallow
<1> QED BY <1>2 DEF Sound

(* When the clients do something, the calls under way stay as they are. *)
LEMMA StillFit ==
  ASSUME NestInv, NEW u \in Threads, UNCHANGED <<envSet, once>>, made' = made + 1,
         stack'[u] = stack[u]
  PROVE  Fit(u)'
<1> DEFINE s == stack[u]
           e == envSet[u]
           k == log = "native"
           m == log' = "native"
           o == IsSet
<1>1. Sound(e, o, k, made, s) /\ s \in Seq(Frames) /\ made \in Nat
  BY LoggingAssumption DEF NestInv, LevelInv, LogInv, SettingsOK, Typed
<1>2. Owned(u)'
  BY DEF NestInv, Owned, Owning, Foot
<1>3. envSet'[u] = e /\ IsSet' = o /\ stack'[u] = s
  BY DEF IsSet
<1>4. Within(u)' = Sound(envSet'[u], IsSet', m, made', stack'[u])
  BY DEF Within, Sound, Linked, Link, Calling, Provided, Shallow
<1> HIDE DEF e, k, o, m, s
<1>5. Sound(e, o, m, made + 1, s)
  BY <1>1, Deeper
<1> QED BY <1>2, <1>3, <1>4, <1>5 DEF Fit

LEMMA CallNest ==
  ASSUME Rules, NestInv, NEW t \in Threads, NEW op \in {"log", "lookup", "setLevel"},
         NEW level \in LOG_DEBUG..LOG_DISABLE, LevelInv', Call(t, op, level)
  PROVE  NestInv'
<1> DEFINE f == Frame(op, level)
<1>1. Typed /\ made \in Nat
  BY LoggingAssumption DEF NestInv, LevelInv, LogInv, SettingsOK
<1>2. /\ stack[t] = << >> /\ stack' = [stack EXCEPT ![t] = <<f>>] /\ made' = made + 1
      /\ UNCHANGED <<gMinimumLogLevel, gLog, log, envSet, once>>
      /\ MayCall(t, op, level) /\ EnvFirst'
  BY DEF Call, Rules, settings, locks
<1>3. f.op = op /\ f.at = 1 /\ f.level = level
  BY FrameType, Names
<1> HIDE DEF f
<1>4. stack'[t] = <<f>> /\ \A u \in Threads : u # t => stack'[u] = stack[u]
  BY <1>1, <1>2 DEF Typed
<1>5. Len(<<f>>) = 1 /\ <<f>>[1] = f /\ <<f>> # << >>
  OBVIOUS
<1>6. Foot(t)' = f
  BY <1>4, <1>5 DEF Foot
<1>7. Fit(t)'
  <2>1. Owned(t)'
    BY <1>2 DEF NestInv, Owned
  <2>2. Linked(envSet'[t], IsSet', <<f>>)
    BY <1>5 DEF Linked
  <2>3. Provided(envSet'[t], IsSet', f)
    BY <1>3 DEF Provided
  <2>4. Shallow(log' = "native", made', <<f>>)
    BY <1>1, <1>2, <1>3, <1>5 DEF Shallow
  <2>5. Sound(envSet'[t], IsSet', log' = "native", made', <<f>>)
    BY <1>5, <2>2, <2>3, <2>4 DEF Sound
  <2>6. Within(t)' = Sound(envSet'[t], IsSet', log' = "native", made', stack'[t])
    BY DEF Within, Sound, Linked, Link, Calling, Provided, Shallow
  <2> QED BY <1>4, <2>1, <2>5, <2>6 DEF Fit
<1>8. \A u \in Threads : Fit(u)'
  BY <1>2, <1>4, <1>7, StillFit
<1>9. \A u \in Threads : u # t => Foot(u)' = Foot(u)
  BY <1>4 DEF Foot
<1>10. ASSUME Unresolved'
       PROVE  /\ gMinimumLogLevel' > LOG_DEBUG
              /\ \A u \in Threads : stack'[u] # << >> =>
                   Foot(u)'.op # "lookup" /\ ~SetsDebug(Foot(u)')
  <2>1. Unresolved
    BY <1>2, <1>10 DEF Unresolved
  <2>2. op # "lookup" /\ ~(op = "setLevel" /\ level = LOG_DEBUG)
    BY <1>2, <2>1 DEF MayCall, Rules
  <2>3. f.op # "lookup" /\ ~SetsDebug(f)
    BY <1>3, <2>2 DEF SetsDebug
  <2>4. ASSUME NEW u \in Threads, stack'[u] # << >>
        PROVE  Foot(u)'.op # "lookup" /\ ~SetsDebug(Foot(u)')
    <3>1. CASE u = t
      BY <1>6, <2>3, <3>1
    <3>2. CASE u # t
      BY <1>4, <1>9, <2>1, <2>4, <3>2 DEF NestInv
    <3> QED BY <3>1, <3>2
  <2> QED BY <1>2, <2>1, <2>4 DEF NestInv
<1>11. (Unresolved =>
         /\ gMinimumLogLevel > LOG_DEBUG
         /\ \A u \in Threads : stack[u] # << >> =>
              Foot(u).op # "lookup" /\ ~SetsDebug(Foot(u)))'
  BY <1>10 DEF SetsDebug
<1>12. \A u \in Threads : stack'[u] # << >> => Foot(u)'.op # "env"
  BY <1>3, <1>4, <1>6, <1>9 DEF NestInv
<1>13. gLog' = "jvm" => log' = "print"
  BY <1>2 DEF NestInv
<1> QED BY <1>2, <1>8, <1>11, <1>12, <1>13 DEF NestInv, Fit, Within

LEMMA SwitchNest ==
  ASSUME Rules, NestInv, LevelInv',
         \/ \E l \in {"stream", "jvm"} : SetLogger(l)
         \/ \E l \in {"print", "native"} : SetLog(l)
  PROVE  NestInv'
<1>1. /\ UNCHANGED <<gMinimumLogLevel, envSet, once, stack>> /\ made' = made + 1
  BY DEF SetLogger, SetLog, locks
<1>2. \A u \in Threads : Fit(u)'
  BY <1>1, StillFit
<1>3. /\ gLog' = "jvm" => log' = "print"
      /\ EnvFirst'
      /\ Unresolved' => Unresolved \/ /\ gMinimumLogLevel > LOG_DEBUG
                                      /\ \A u \in Threads : stack[u] = << >>
  <2>1. ASSUME NEW l \in {"stream", "jvm"}, SetLogger(l)
        PROVE  /\ gLog' = "jvm" => log' = "print"
               /\ EnvFirst'
               /\ Unresolved' => /\ gMinimumLogLevel > LOG_DEBUG
                                 /\ \A u \in Threads : stack[u] = << >>
    <3>1. /\ gLog' = l /\ log' = log /\ EnvFirst'
          /\ l = "jvm" => log = "print"
          /\ l = "jvm" /\ once["jJvmLog"] # "set" =>
               gMinimumLogLevel > LOG_DEBUG /\ \A u \in Threads : stack[u] = << >>
      BY <2>1 DEF SetLogger, Rules
    <3> QED BY <1>1, <3>1 DEF Unresolved
  <2>2. ASSUME NEW l \in {"print", "native"}, SetLog(l)
        PROVE  /\ gLog' = "jvm" => log' = "print"
               /\ EnvFirst'
               /\ Unresolved' => Unresolved
    <3>1. gLog' = gLog /\ log' = l /\ (l = "native" => gLog = "stream")
      BY <2>2 DEF SetLog, Rules
    <3> QED BY <1>1, <3>1 DEF NestInv, EnvFirst, Debugging, Unresolved, SetsDebug, Top
  <2> QED BY <2>1, <2>2
<1>4. \A u \in Threads : Foot(u)' = Foot(u)
  BY <1>1 DEF Foot
<1>5. (Unresolved =>
         /\ gMinimumLogLevel > LOG_DEBUG
         /\ \A u \in Threads : stack[u] # << >> =>
              Foot(u).op # "lookup" /\ ~SetsDebug(Foot(u)))'
  BY <1>1, <1>3, <1>4 DEF NestInv, SetsDebug
<1> QED BY <1>1, <1>2, <1>3, <1>4, <1>5 DEF NestInv, Fit, Within

LEMMA StepFit ==
  ASSUME NestInv, NEW t \in Threads, LogStep(t)
  PROVE  Fit(t)'
  BY WriteFit, SendToJavaFit, JvmLogFit, EnvFit, EnvSaysFit, SetEnvFit, ResolveFit, LockFit,
     AnnounceFit, ReportFit, UnlockFit, ReturnsFit, LevelFit DEF LogStep

LEMMA NextNestInv ==
  ASSUME Rules, NestInv, [LogNext]_vars
  PROVE  NestInv'
<1>1. LevelInv'
  BY NextLevelInv DEF NestInv
<1>2. ASSUME NEW t \in Threads, LogStep(t) PROVE NestInv'
  BY <1>2, StepFit, NestStep
<1>3. ASSUME NEW t \in Threads, Logs(t) \/ LooksUp(t) \/ SetsLevel(t) PROVE NestInv'
  BY <1>1, <1>3, CallNest, Levels DEF Logs, LooksUp, SetsLevel
<1>4. CASE UNCHANGED vars
  <2>1. UNCHANGED <<gMinimumLogLevel, gLog, log, envSet, once, stack, made>>
    BY <1>4 DEF vars, settings, locks
  <2>2. ASSUME NEW u \in Threads PROVE Fit(u)' /\ Foot(u)' = Foot(u)
    <3>1. IsSet => IsSet'
      BY <2>1 DEF IsSet
    <3>2. Foot(u)' = Foot(u)
      BY <2>1 DEF Foot
    <3> QED BY <2>1, <3>1, <3>2, OthersFit
  <2>3. EnvFirst'
    BY <2>1 DEF NestInv, EnvFirst, Debugging, SetsDebug, Top
  <2>4. Unresolved' = Unresolved
    BY <2>1 DEF Unresolved
  <2>5. (Unresolved =>
           /\ gMinimumLogLevel > LOG_DEBUG
           /\ \A u \in Threads : stack[u] # << >> =>
                Foot(u).op # "lookup" /\ ~SetsDebug(Foot(u)))'
    BY <2>1, <2>2, <2>4 DEF NestInv, SetsDebug
  <2>6. \A u \in Threads : stack'[u] # << >> => Foot(u)'.op # "env"
    BY <2>1, <2>2 DEF NestInv
  <2>7. gLog' = "jvm" => log' = "print"
    BY <2>1 DEF NestInv
  <2> QED BY <1>1, <2>2, <2>3, <2>5, <2>6, <2>7 DEF NestInv, Fit, Within
<1> QED BY <1>1, <1>2, <1>3, <1>4, SwitchNest DEF LogNext

LEMMA InitNestInv ==
  ASSUME Rules, LogInit
  PROVE  NestInv
<1> DEFINE f == [op |-> "setLevel", level |-> LOG_DEBUG, at |-> 2]
<1>1. /\ stack = [t \in Threads |-> IF t = Initializer THEN <<f>> ELSE << >>]
      /\ once = [flag \in Flags |-> NoThread] /\ made = 0
      /\ gLog = "jvm" => gMinimumLogLevel > LOG_DEBUG /\ log = "print"
  BY DEF LogInit, Rules
<1>2. f.op = "setLevel" /\ f.at = 2
  OBVIOUS
<1> HIDE DEF f
<1>3. Len(<<f>>) = 1 /\ <<f>>[1] = f /\ Len(<< >>) = 0
  OBVIOUS
<1>4. NoThread \notin Threads
  BY LoggingAssumption
<1>5. ASSUME NEW t \in Threads
      PROVE  /\ stack[t] # << >> => Top(t) = f /\ Foot(t) = f
             /\ Sound(envSet[t], IsSet, log = "native", made, stack[t])
             /\ Owned(t)
  <2>1. Owned(t)
    BY <1>1, <1>4 DEF Owned
  <2>2. CASE stack[t] = <<f>>
    <3>1. Provided(envSet[t], IsSet, f) /\ Shallow(log = "native", made, <<f>>)
      BY <1>1, <1>2, <1>3 DEF Provided, Shallow
    <3>2. Linked(envSet[t], IsSet, <<f>>)
      BY <1>3 DEF Linked
    <3>3. Head(<<f>>) = f
      OBVIOUS
    <3> QED BY <1>3, <2>1, <2>2, <3>1, <3>2, <3>3 DEF Sound, Top, Foot
  <2>3. CASE stack[t] = << >>
    <3>1. Linked(envSet[t], IsSet, << >>)
      BY <1>3 DEF Linked
    <3> QED BY <2>1, <2>3, <3>1 DEF Sound
  <2> QED BY <1>1, <2>2, <2>3
<1>6. ~SetsDebug(f)
  BY <1>2 DEF SetsDebug
<1>7. EnvFirst
  <2>1. \A n \in Int : n > LOG_DEBUG => n # LOG_DEBUG
    BY Levels
  <2>2. gMinimumLogLevel \in Int
    BY Levels DEF LogInit
  <2> QED BY <1>1, <1>5, <1>6, <2>1, <2>2 DEF EnvFirst, Debugging
<1> QED BY <1>1, <1>2, <1>5, <1>6, <1>7, InitLevelInv DEF NestInv, Unresolved

-----------------------------------------------------------------------------
(* Who holds something goes on, or waits for one that does. *)

LEMMA RoomToCall ==
  ASSUME NestInv, MaxDepth >= MaxCalls + 4, NEW t \in Threads, stack[t] # << >>
  PROVE  Len(stack[t]) < MaxDepth
<1> DEFINE n == Len(stack[t])
<1>1. n \in Nat /\ n <= made + 3 /\ made \in 0..MaxCalls
  BY DEF NestInv, LevelInv, LogInv, SettingsOK, Typed, Sound, Shallow
<1> HIDE DEF n
<1>2. n < MaxDepth
  BY <1>1, LoggingAssumption
<1> QED BY <1>2 DEF n

(* What a call can wait for. *)
LEMMA WaitsFor ==
  ASSUME NestInv, NEW t \in Threads, stack[t] # << >>, Waits(t)
  PROVE  /\ Top(t).op \notin {"log", "env"}
         /\ \/ ~EnvFree(t)
            \/ cacheMutex \in Threads \ {t}
            \/ Top(t).op = "jJvmLog" /\ Top(t).at = 2 /\ once["jJvmLog"] \in Threads
            \/ Top(t).op = "setLevel" /\ Top(t).at = 7 /\ once["setLevel"] \in Threads
            \/ Top(t).op = "setLevel" /\ Top(t).at = 3 /\ once["static"] \in Threads
<1>1. /\ Typed /\ once \in [Flags -> Threads \cup {NoThread, "set"}]
      /\ cacheMutex \in Threads \cup {NoThread}
  BY DEF NestInv, LevelInv, LogInv, SettingsOK, LockInv
<1>2. {"jJvmLog", "setLevel", "static"} = Flags
  BY DEF Flags
<1>3. CASE AtStage(t, "once") /\ once[Top(t).op] \notin {NoThread, "set"}
  <2>1. \/ Top(t).op = "jJvmLog" /\ Top(t).at = 2
        \/ Top(t).op = "setLevel" /\ Top(t).at = 7
    BY <1>1, <1>3, AtTop, Stages
  <2>2. once[Top(t).op] \in Threads
    BY <1>1, <1>2, <1>3, <2>1
  <2> QED BY <2>1, <2>2
<1>4. CASE AtStage(t, "static") /\ once["static"] \notin {NoThread, "set"}
  BY <1>1, <1>2, <1>4, AtTop, Stages
<1>5. CASE AtStage(t, "lock") /\ cacheMutex \notin {NoThread, t}
  <2>1. Top(t).op \in {"jJvmLog", "lookup", "setLevel"}
    BY <1>1, <1>5, AtTop, Stages
  <2> QED BY <1>1, <1>5, <2>1
<1>6. ASSUME NEW s \in {"env", "report", "java"}, AtStage(t, s), ~EnvFree(t)
      PROVE  Top(t).op \notin {"log", "env"} /\ ~EnvFree(t)
  <2>1. Top(t).op \in {"jJvmLog", "lookup", "setLevel"}
    BY <1>1, <1>6, AtTop, Stages
  <2> QED BY <1>6, <2>1
<1> QED BY <1>3, <1>4, <1>5, <1>6 DEF Waits

LEMMA EnvHolderSteps ==
  ASSUME NestInv, MaxDepth >= MaxCalls + 4, NEW u \in Threads, InEnv(u)
  PROVE  CanStep(u) /\ u \in Owners
<1> DEFINE s == stack[u]
<1>1. PICK i \in DOMAIN s : s[i].op = "env"
  BY DEF InEnv
<1>2. s \in Seq(Frames) /\ Linked(envSet[u], IsSet, s)
  BY DEF NestInv, LevelInv, LogInv, Typed, Sound
<1>3. i \in 1..Len(s) /\ Len(s) \in Nat
  BY <1>1, <1>2
<1>4. s # << >>
  <2>1. Len(<< >>) = 0
    OBVIOUS
  <2>2. Len(s) # 0
    BY <1>3
  <2> QED BY <2>1, <2>2
<1>5. s[1].op \in {"log", "env"}
  <2> HIDE DEF s
  <2>1. CASE i = 1
    BY <1>1, <2>1
  <2>2. CASE i = 2
    <3>1. 1 \in 1..Len(s) - 1 /\ 1 + 1 = 2
      BY <1>3, <2>2
    <3>2. Link(envSet[u], IsSet, s[1], s[2])
      BY <1>2, <3>1 DEF Linked
    <3> QED BY <1>1, <2>2, <3>2 DEF Link, Calling
  <2>3. CASE i \notin {1, 2}
    <3>1. /\ i - 1 \in 1..Len(s) - 1 /\ i - 1 + 1 = i
          /\ i - 2 \in 1..Len(s) - 1 /\ i - 2 + 1 = i - 1
      BY <1>3, <2>3
    <3>2. Link(envSet[u], IsSet, s[i - 1], s[i])
      BY <1>2, <3>1 DEF Linked
    <3>3. Link(envSet[u], IsSet, s[i - 2], s[i - 1])
      BY <1>2, <3>1 DEF Linked
    <3> QED BY <1>1, <3>2, <3>3 DEF Link, Calling
  <2> QED BY <2>1, <2>2, <2>3
<1>6. Top(u) = s[1]
  BY <1>4, Tops DEF NestInv, LevelInv, LogInv
<1>7. ~Waits(u)
  BY <1>4, <1>5, <1>6, WaitsFor
<1>8. Len(s) < MaxDepth
  BY <1>4, RoomToCall
<1> QED BY <1>4, <1>7, <1>8 DEF CanStep, Owners

(* Who is inside of the mutex or of a once flag, by its outermost call. *)
LEMMA HolderFoot ==
  ASSUME NestInv, NEW u \in Threads
  PROVE  /\ cacheMutex = u => stack[u] # << >> /\ Holds(Foot(u))
         /\ \A flag \in Flags : once[flag] = u =>
              /\ stack[u] # << >>
              /\ \/ Foot(u).op = "jJvmLog" /\ Foot(u).at \in 3..6
                 \/ Foot(u).op = "setLevel" /\ Foot(u).at \in {4, 5, 8, 9, 10, 11}
<1> DEFINE s == stack[u]
<1>1. ASSUME cacheMutex = u PROVE s # << >> /\ Holds(Foot(u))
  <2>1. /\ s \in Seq(Frames) /\ Linked(envSet[u], IsSet, s) /\ Nested(s)
        /\ depth = Cardinality(Held(s)) /\ depth # 0
    BY <1>1, LoggingAssumption DEF NestInv, LevelInv, LogInv, LockInv, Typed, Sound
  <2>2. Held(s) # {}
    BY <2>1, FS_EmptySet
  <2>3. PICK n \in 1..Len(s) : Holds(s[Len(s) + 1 - n])
    BY <2>2 DEF Held
  <2>4. Len(s) \in Nat
    BY <2>1
  <2>5. PICK i \in 1..Len(s) : Holds(s[i])
    <3>1. Len(s) + 1 - n \in 1..Len(s)
      BY <2>3, <2>4
    <3> QED BY <2>3, <3>1
  <2>6. i = Len(s)
    <3> HIDE DEF s
    <3> SUFFICES ASSUME i # Len(s) PROVE FALSE
      OBVIOUS
    <3>1. i \in 1..Len(s) - 1
      BY <2>4, <2>5
    <3>2. Link(envSet[u], IsSet, s[i], s[i + 1])
      BY <2>1, <3>1 DEF Linked
    <3> QED BY <2>5, <3>2 DEF Link, Holds
  <2>7. s # << >>
    <3>1. Len(<< >>) = 0 /\ Len(s) # 0
      BY <2>4, <2>5
    <3> QED BY <3>1
  <2> QED BY <2>5, <2>6, <2>7 DEF Foot
<1>2. ASSUME NEW flag \in Flags, once[flag] = u
      PROVE  /\ s # << >>
             /\ \/ Foot(u).op = "jJvmLog" /\ Foot(u).at \in 3..6
                \/ Foot(u).op = "setLevel" /\ Foot(u).at \in {4, 5, 8, 9, 10, 11}
  <2>1. s # << >> /\ Owning(flag, Foot(u))
    BY <1>2 DEF NestInv, Owned
  <2> QED BY <2>1, NotOwning
<1> QED BY <1>1, <1>2

(* The flag that a holder meets in a nested call is set. *)
LEMMA HolderWaits ==
  ASSUME NestInv, NEW u \in Threads,
         cacheMutex = u \/ \E flag \in Flags : once[flag] = u,
         Waits(u)
  PROVE  ~EnvFree(u) \/ cacheMutex \in Threads \ {u}
<1>1. /\ stack[u] # << >>
      /\ \/ Holds(Foot(u))
         \/ Foot(u).op = "jJvmLog" /\ Foot(u).at \in 3..6
         \/ Foot(u).op = "setLevel" /\ Foot(u).at \in {4, 5, 8, 9, 10, 11}
  BY HolderFoot
<1> SUFFICES ASSUME EnvFree(u), cacheMutex \notin Threads \ {u} PROVE FALSE
  OBVIOUS
<1>2. \/ Top(u).op = "jJvmLog" /\ Top(u).at = 2 /\ once["jJvmLog"] \in Threads
      \/ Top(u).op = "setLevel" /\ Top(u).at = 7
      \/ Top(u).op = "setLevel" /\ Top(u).at = 3
  BY <1>1, WaitsFor
<1>3. ~IsSet \/ Top(u).op = "setLevel"
  BY <1>2, LoggingAssumption DEF IsSet
<1>4. Foot(u) = Top(u)
  BY <1>1, <1>2, <1>3, Outermost
<1> QED BY <1>1, <1>2, <1>4 DEF Holds

LEMMA MutexHolderSteps ==
  ASSUME NestInv, MaxDepth >= MaxCalls + 4, NEW u \in Threads, cacheMutex = u
  PROVE  \E w \in Owners \cap Threads : CanStep(w)
<1>1. u \in Owners /\ stack[u] # << >>
  BY HolderFoot DEF Owners
<1>2. CASE ~Waits(u)
  BY <1>1, <1>2, RoomToCall DEF CanStep
<1>3. CASE Waits(u)
  <2>1. PICK w \in Threads : InEnv(w)
    BY <1>3, HolderWaits DEF EnvFree
  <2> QED BY <2>1, EnvHolderSteps
<1> QED BY <1>2, <1>3

LEMMA FlagHolderSteps ==
  ASSUME NestInv, MaxDepth >= MaxCalls + 4, NEW u \in Threads, NEW flag \in Flags, once[flag] = u
  PROVE  \E w \in Owners \cap Threads : CanStep(w)
<1>1. u \in Owners /\ stack[u] # << >>
  BY HolderFoot DEF Owners
<1>2. CASE ~Waits(u)
  BY <1>1, <1>2, RoomToCall DEF CanStep
<1>3. CASE Waits(u)
  <2>1. ~EnvFree(u) \/ cacheMutex \in Threads
    BY <1>3, HolderWaits
  <2> QED BY <2>1, EnvHolderSteps, MutexHolderSteps DEF EnvFree
<1> QED BY <1>2, <1>3

(* By the three usage rules, with room for the calls: of a thread that     *)
(* logs, sets the level or looks something up and of the owners of the     *)
(* once flags, of the mutex of the lookups and of that of env(), one can   *)
(* always go on.                                                           *)
THEOREM CallsProceedAlways ==
  ASSUME Rules, MaxDepth >= MaxCalls + 4
  PROVE  LogSpec => []CallsProceed
<1>1. LogInit => NestInv
  BY InitNestInv
<1>2. NestInv /\ [LogNext]_vars => NestInv'
  BY NextNestInv
<1>3. ASSUME NestInv PROVE CallsProceed
  <2> SUFFICES ASSUME NEW t \in Threads, stack[t] # << >>
               PROVE  \E u \in ({t} \cup Owners) \cap Threads : CanStep(u)
    BY DEF CallsProceed
  <2>1. CASE ~Waits(t)
    BY <1>3, <2>1, RoomToCall DEF CanStep
  <2>2. CASE Waits(t)
    <3>1. \/ \E u \in Threads : InEnv(u)
          \/ cacheMutex \in Threads
          \/ \E flag \in Flags : once[flag] \in Threads
      BY <1>3, <2>2, WaitsFor DEF EnvFree, Flags
    <3> QED BY <1>3, <3>1, EnvHolderSteps, MutexHolderSteps, FlagHolderSteps
  <2> QED BY <2>1, <2>2
<1> QED BY <1>1, <1>2, <1>3, PTL DEF LogSpec
=============================================================================
