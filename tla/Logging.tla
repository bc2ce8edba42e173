------------------------------ MODULE Logging ------------------------------
(***************************************************************************)
(* The two loggers of jni++ and the level both sides filter by             *)
(* (Loggers.cpp, JniLogger and its implementations,                        *)
(* JavaToNativeExporter.java 336-369).  A native logger can pass its       *)
(* messages to Java and a Java logger can pass its own to native code.     *)
(* The way to Java is a method call: it needs the JNIEnv of the thread and *)
(* a method that is resolved at its first use, and both env() and the      *)
(* lookup write to the log.                                                *)
(***************************************************************************)
EXTENDS Naturals, Sequences

CONSTANTS
  Threads,      \* threads attached to a VM that is up
  Initializer,  \* the one that runs initializeEnvironment
  NoThread,
  MinLevels,    \* levels that clients set as the minimum
  MaxCalls,     \* bound: calls the clients make
  MaxDepth,     \* bound: calls one thread is in, the stack it has
  Contract      \* usage rules the clients keep

LOG_DEBUG == 0
LOG_WARN == 1
LOG_ERROR == 2
LOG_DISABLE == 3

ASSUME LoggingAssumption ==
  /\ Initializer \in Threads /\ NoThread \notin Threads \cup {"set"}
  /\ "set" \notin Threads
  /\ MinLevels \subseteq LOG_DEBUG..LOG_DISABLE /\ MinLevels # {}
  /\ MaxCalls \in Nat /\ MaxDepth \in Nat \ {0}
  /\ Contract \subseteq {"notBoth", "resolvedFirst", "envFirst"}

VARIABLES
  gMinimumLogLevel,  \* of native code
  javaLevel,         \* gMinimumLogLevel of JavaToNativeExporter
  gLog,              \* the native logger: "stream" or "jvm"
  log,               \* the Java logger: "print" or "native"
  envSet,            \* per thread: isEnvSetup()
  once,              \* per flag: the thread that is in it, NoThread, or "set"
  cacheMutex, depth, \* owner of the recursive mutex of lookups, and how often
  stack,             \* per thread: the calls it is in, innermost first
  made,              \* number of calls the clients made
  alone              \* history: the level was last set by one thread with an env

locks == <<once, cacheMutex, depth>>
settings == <<gMinimumLogLevel, javaLevel, gLog, log>>
vars == <<settings, envSet, locks, stack, made, alone>>

(* The stages of the calls, in the order of the code: log_print, env() in  *)
(* a thread whose pointer is not set, a call of jJvmLog, the lookup of any *)
(* other method, setMinimumLogLevel with its call of jSetMinimumLogLevel.  *)
Route ==
  [log      |-> <<"filter">>,
   env      |-> <<"unset", "got", "set">>,
   jJvmLog  |-> <<"env", "once", "lock", "announce", "report", "unlock", "java">>,
   lookup   |-> <<"env", "lock", "announce", "report", "unlock">>,
   setLevel |-> <<"write", "pass", "static", "construct", "read",
                  "env", "once", "lock", "announce", "report", "unlock", "java">>]
Ops == DOMAIN Route

(* The once flags of the two methods that logging calls, and the guard of  *)
(* the function-local static that jSetMinimumLogLevel is.                  *)
Flags == {"jJvmLog", "setLevel", "static"}

Frames == [op : Ops, level : LOG_DEBUG..LOG_DISABLE, at : 1..13]

LogTypeOK ==
  /\ gMinimumLogLevel \in MinLevels
  /\ javaLevel \in MinLevels \cup {LOG_DEBUG}
  /\ gLog \in {"stream", "jvm"} /\ log \in {"print", "native"}
  /\ envSet \in [Threads -> BOOLEAN]
  /\ once \in [Flags -> Threads \cup {NoThread, "set"}]
  /\ cacheMutex \in Threads \cup {NoThread} /\ depth \in 0..MaxDepth
  /\ depth = 0 <=> cacheMutex = NoThread
  /\ \A t \in Threads : /\ Len(stack[t]) <= MaxDepth
                        /\ \A i \in DOMAIN stack[t] : stack[t][i] \in Frames
  /\ made \in 0..MaxCalls /\ alone \in BOOLEAN

(* initializeEnvironment is about to pass to Java the level, which may have *)
(* been set before there was a VM, like the logger.  gLog is not null: the *)
(* constructors of the library's own methods fetched it (getLogger,        *)
(* JniPlusPlus.hpp 121).  It is not a JVM logger at the debug level: that  *)
(* would not have got past the lookups earlier in initializeEnvironment.   *)
LogInit ==
  /\ gMinimumLogLevel \in MinLevels /\ javaLevel = LOG_DEBUG
  /\ gLog \in {"stream", "jvm"} /\ log \in {"print", "native"}
  /\ gLog = "jvm" => gMinimumLogLevel > LOG_DEBUG
  /\ "notBoth" \in Contract /\ gLog = "jvm" => log = "print"
  /\ envSet \in [Threads -> BOOLEAN] /\ envSet[Initializer]
  /\ once = [f \in Flags |-> NoThread] /\ cacheMutex = NoThread /\ depth = 0
  /\ stack = [t \in Threads |->
       IF t = Initializer THEN <<[op |-> "setLevel", level |-> LOG_DEBUG, at |-> 2]>> ELSE << >>]
  /\ made = 0 /\ alone = TRUE

-----------------------------------------------------------------------------
Top(t) == Head(stack[t])
Stage(f) == IF f.at \in DOMAIN Route[f.op] THEN Route[f.op][f.at] ELSE "return"
AtStage(t, s) == stack[t] # << >> /\ Stage(Top(t)) = s
At(t, op, s) == AtStage(t, s) /\ Top(t).op = op

(* javaEnv_mutex is recursive; who finds the pointer set lets go of it in  *)
(* the same step.                                                          *)
InEnv(t) == \E i \in DOMAIN stack[t] : stack[t][i].op = "env"
EnvFree(t) == \A u \in Threads \ {t} : ~InEnv(u)

(* The innermost call of t gives way to the calls fs. *)
Becomes(t, fs) == stack' = [stack EXCEPT ![t] = fs \o Tail(@)]
Frame(op, level) == [op |-> op, level |-> level, at |-> 1]
Up(f) == [f EXCEPT !.at = @ + 1]
Proceed(t) == Becomes(t, <<Up(Top(t))>>)
Return(t) == Becomes(t, << >>)
Calls(t, f) == Len(stack[t]) < MaxDepth /\ Becomes(t, <<f, Up(Top(t))>>)
Says(t, level) == Calls(t, Frame("log", level))

-----------------------------------------------------------------------------
(* What the clients do. *)

Setting(t) == \E i \in DOMAIN stack[t] : stack[t][i].op = "setLevel"
InSetLevel == \E t \in Threads : Setting(t)
Unresolved == gLog = "jvm" /\ once["jJvmLog"] # "set"

(* Debug messages go to Java, or are about to. *)
SetsDebug(f) == f.op = "setLevel" /\ f.at = 1 /\ f.level = LOG_DEBUG
Debugging ==
  /\ gLog = "jvm"
  /\ \/ gMinimumLogLevel = LOG_DEBUG
     \/ \E t \in Threads : stack[t] # << >> /\ SetsDebug(Top(t))
EnvFirst == Debugging => \A t \in Threads : stack[t] # << >> => envSet[t]

(* Usage rules:                                                            *)
(*   notBoth        not both loggers pass their messages to the other side *)
(*                  (JniLogger.java 26-28);                                *)
(*   resolvedFirst  until jJvmLog is resolved, the JVM logger is installed *)
(*                  only above the debug level and nobody looks members up;*)
(*   envFirst       while debug messages go to Java, only threads that     *)
(*                  have used their env call the library.                  *)
MayCall(t, op, level) ==
  "resolvedFirst" \in Contract /\ Unresolved =>
    op # "lookup" /\ ~(op = "setLevel" /\ level = LOG_DEBUG)

Call(t, op, level) ==
  /\ stack[t] = << >> /\ made < MaxCalls
  /\ MayCall(t, op, level)
  /\ stack' = [stack EXCEPT ![t] = <<Frame(op, level)>>]
  /\ made' = made + 1
  /\ alone' = IF op = "setLevel" THEN envSet[t] /\ ~InSetLevel ELSE alone
  /\ UNCHANGED <<settings, envSet, locks>>
  /\ "envFirst" \in Contract => EnvFirst'

Logs(t) == \E level \in {LOG_DEBUG, LOG_WARN, LOG_ERROR} : Call(t, "log", level)
LooksUp(t) == Call(t, "lookup", LOG_DEBUG)
SetsLevel(t) == \E level \in MinLevels : Call(t, "setLevel", level)

SetLogger(l) ==
  /\ made < MaxCalls /\ made' = made + 1 /\ l # gLog
  /\ "notBoth" \in Contract /\ l = "jvm" => log = "print"
  /\ "resolvedFirst" \in Contract /\ l = "jvm" /\ once["jJvmLog"] # "set" =>
       gMinimumLogLevel > LOG_DEBUG /\ \A t \in Threads : stack[t] = << >>
  /\ gLog' = l
  /\ UNCHANGED <<gMinimumLogLevel, javaLevel, log, envSet, locks, stack, alone>>
  /\ "envFirst" \in Contract => EnvFirst'

SetLog(l) ==
  /\ made < MaxCalls /\ made' = made + 1 /\ l # log
  /\ "notBoth" \in Contract /\ l = "native" => gLog = "stream"
  /\ log' = l
  /\ UNCHANGED <<gMinimumLogLevel, javaLevel, gLog, envSet, locks, stack, alone>>

-----------------------------------------------------------------------------
(* log_print: filtered by the native level, then written or sent to Java,  *)
(* with a new call of jJvmLog.                                             *)
Filtered(t) == Top(t).level < gMinimumLogLevel

Write(t) ==
  /\ AtStage(t, "filter") /\ (Filtered(t) \/ gLog = "stream")
  /\ Return(t)
  /\ UNCHANGED <<settings, envSet, locks, made, alone>>

SendToJava(t) ==
  /\ AtStage(t, "filter") /\ ~Filtered(t) /\ gLog = "jvm"
  /\ Becomes(t, <<Frame("jJvmLog", Top(t).level)>>)
  /\ UNCHANGED <<settings, envSet, locks, made, alone>>

(* Java filters by its own level; a Java logger that passes messages to    *)
(* native code calls log_print.                                            *)
JvmLog(t) ==
  /\ At(t, "jJvmLog", "java") /\ EnvFree(t)
  /\ \/ (log = "print" \/ Top(t).level < javaLevel) /\ Return(t)
     \/ log = "native" /\ Top(t).level >= javaLevel /\ Says(t, Top(t).level)
  /\ UNCHANGED <<settings, envSet, locks, made, alone>>

-----------------------------------------------------------------------------
(* env(): where the pointer of the thread is not set, it is set between    *)
(* two messages and the return, with javaEnv_mutex held.                   *)
Env(t) ==
  /\ AtStage(t, "env") /\ EnvFree(t)
  /\ IF envSet[t] THEN Proceed(t) ELSE Calls(t, Frame("env", LOG_DEBUG))
  /\ UNCHANGED <<settings, envSet, locks, made, alone>>

EnvSays(t) ==
  /\ AtStage(t, "unset") \/ AtStage(t, "got")
  /\ Says(t, LOG_DEBUG)
  /\ UNCHANGED <<settings, envSet, locks, made, alone>>

SetEnv(t) ==
  /\ AtStage(t, "set")
  /\ envSet' = [envSet EXCEPT ![t] = TRUE]
  /\ Return(t)
  /\ UNCHANGED <<settings, locks, made, alone>>

-----------------------------------------------------------------------------
(* The lookup of a method: call_once, the mutex, two messages, the cache. *)

Resolve(t) ==
  /\ AtStage(t, "once")
  /\ LET op == Top(t).op IN
     \/ /\ once[op] = "set"
        /\ Becomes(t, <<[Top(t) EXCEPT !.at = Len(Route[op])]>>)
        /\ UNCHANGED once
     \/ /\ once[op] = NoThread /\ once' = [once EXCEPT ![op] = t]
        /\ Proceed(t)
  /\ UNCHANGED <<settings, envSet, cacheMutex, depth, made, alone>>

Lock(t) ==
  /\ AtStage(t, "lock") /\ cacheMutex \in {NoThread, t}
  /\ cacheMutex' = t /\ depth' = depth + 1
  /\ Proceed(t)
  /\ UNCHANGED <<settings, envSet, once, made, alone>>

(* "Looking up method" *)
Announce(t) ==
  /\ AtStage(t, "announce")
  /\ Says(t, LOG_DEBUG)
  /\ UNCHANGED <<settings, envSet, locks, made, alone>>

(* Whether the method was found, after calls of env(); nothing when it was *)
(* cached, which the two methods of the log are not before.                *)
Report(t) ==
  /\ AtStage(t, "report")
  /\ \/ EnvFree(t) /\ Says(t, LOG_DEBUG)
     \/ EnvFree(t) /\ Top(t).op = "lookup" /\ Says(t, LOG_WARN)
     \/ Top(t).op = "lookup" /\ Proceed(t)
  /\ UNCHANGED <<settings, envSet, locks, made, alone>>

Resolved(t) ==
  once' = IF Top(t).op \in Flags THEN [once EXCEPT ![Top(t).op] = "set"] ELSE once

(* Mutations: the depth is not counted down, or the mutex is kept. *)
UnlockMiscounts(t) ==
  /\ AtStage(t, "unlock")
  /\ cacheMutex' = IF depth = 1 THEN NoThread ELSE t
  /\ Resolved(t) /\ Proceed(t)
  /\ UNCHANGED <<settings, envSet, depth, made, alone>>

UnlockKeepsMutex(t) ==
  /\ AtStage(t, "unlock")
  /\ Resolved(t) /\ Proceed(t)
  /\ UNCHANGED <<settings, envSet, cacheMutex, depth, made, alone>>

Unlock(t) ==
  /\ AtStage(t, "unlock")
  /\ depth' = depth - 1
  /\ cacheMutex' = IF depth = 1 THEN NoThread ELSE t
  /\ Resolved(t) /\ Proceed(t)
  /\ UNCHANGED <<settings, envSet, made, alone>>

Returns(t) ==
  /\ AtStage(t, "return")
  /\ Return(t)
  /\ UNCHANGED <<settings, envSet, locks, made, alone>>

-----------------------------------------------------------------------------
(* setMinimumLogLevel *)

WriteLevel(t) ==
  /\ AtStage(t, "write")
  /\ gMinimumLogLevel' = Top(t).level
  /\ Proceed(t)
  /\ UNCHANGED <<javaLevel, gLog, log, envSet, locks, made, alone>>

(* setJavaMinimumLogLevel: Java learns nothing from a thread that has not  *)
(* used its env yet.                                                       *)
PassLevel(t) ==
  /\ AtStage(t, "pass")
  /\ IF envSet[t] THEN Proceed(t) ELSE Return(t)
  /\ UNCHANGED <<settings, envSet, locks, made, alone>>

(* The first caller constructs jSetMinimumLogLevel; the others wait. *)
Static(t) ==
  /\ AtStage(t, "static")
  /\ \/ /\ once["static"] = "set" /\ Becomes(t, <<[Top(t) EXCEPT !.at = 5]>>)
        /\ UNCHANGED once
     \/ /\ once["static"] = NoThread /\ once' = [once EXCEPT !["static"] = t]
        /\ Proceed(t)
  /\ UNCHANGED <<settings, envSet, cacheMutex, depth, made, alone>>

(* "Signature for ..." *)
Construct(t) ==
  /\ AtStage(t, "construct")
  /\ Says(t, LOG_DEBUG)
  /\ UNCHANGED <<settings, envSet, locks, made, alone>>

(* Mutation: passes the level its caller has set. *)
ReadNothing(t) ==
  /\ AtStage(t, "read")
  /\ once' = [once EXCEPT !["static"] = "set"]
  /\ Proceed(t)
  /\ UNCHANGED <<settings, envSet, cacheMutex, depth, made, alone>>

(* It is constructed; the level is read again before the call. *)
ReadLevel(t) ==
  /\ AtStage(t, "read")
  /\ once' = [once EXCEPT !["static"] = "set"]
  /\ Becomes(t, <<Up([Top(t) EXCEPT !.level = gMinimumLogLevel])>>)
  /\ UNCHANGED <<settings, envSet, cacheMutex, depth, made, alone>>

SetJavaLevel(t) ==
  /\ At(t, "setLevel", "java") /\ EnvFree(t)
  /\ javaLevel' = Top(t).level
  /\ Return(t)
  /\ UNCHANGED <<gMinimumLogLevel, gLog, log, envSet, locks, made, alone>>

-----------------------------------------------------------------------------
LogStep(t) ==
  \/ Write(t) \/ SendToJava(t) \/ JvmLog(t)
  \/ Env(t) \/ EnvSays(t) \/ SetEnv(t)
  \/ Resolve(t) \/ Lock(t) \/ Announce(t) \/ Report(t) \/ Unlock(t) \/ Returns(t)
  \/ WriteLevel(t) \/ PassLevel(t) \/ Static(t) \/ Construct(t) \/ ReadLevel(t)
  \/ SetJavaLevel(t)

LogNext ==
  \/ \E t \in Threads : LogStep(t) \/ Logs(t) \/ LooksUp(t) \/ SetsLevel(t)
  \/ \E l \in {"stream", "jvm"} : SetLogger(l)
  \/ \E l \in {"print", "native"} : SetLog(l)

LogSpec == LogInit /\ [][LogNext]_vars /\ \A t \in Threads : WF_vars(LogStep(t))
-----------------------------------------------------------------------------
(* A setMinimumLogLevel that no other overlapped, by a thread that has its *)
(* env, leaves both sides filtering by one level, whatever levels earlier  *)
(* calls of several threads left behind; also the one set before there was *)
(* a VM (comment at Utilities.cpp 226).  Setters may overlap and a thread  *)
(* without its env may set the level: then the sides may differ, until a   *)
(* call like that.                                                         *)
LevelsAgree == alone /\ ~InSetLevel => javaLevel = gMinimumLogLevel

Waits(t) ==
  \/ AtStage(t, "once") /\ once[Top(t).op] \notin {NoThread, "set"}
  \/ AtStage(t, "static") /\ once["static"] \notin {NoThread, "set"}
  \/ AtStage(t, "lock") /\ cacheMutex \notin {NoThread, t}
  \/ \E s \in {"env", "report", "java"} : AtStage(t, s) /\ ~EnvFree(t)
CanStep(t) == stack[t] # << >> /\ ~Waits(t) /\ Len(stack[t]) < MaxDepth

Owners == {once[f] : f \in Flags} \cup {cacheMutex} \cup {t \in Threads : InEnv(t)}

(* Nobody waits in vain, on the way to the log or for a lookup: of a       *)
(* thread in a call and the threads that hold a once flag, the mutex of    *)
(* the lookups or that of env(), one can go on.  So no two threads wait    *)
(* for each other, none for itself, and no message goes round in circles   *)
(* until the stack is used up, while clients switch loggers and levels     *)
(* under it.                                                               *)
CallsProceed ==
  \A t \in Threads : stack[t] # << >> =>
    \E u \in ({t} \cup Owners) \cap Threads : CanStep(u)

(* A call that logs returns, whatever logger is installed in the middle of *)
(* it: logging inside of a lookup neither waits for that very lookup nor   *)
(* for one of another thread that waits for it, and no message goes round  *)
(* in circles (the stack would run out).                                   *)
LogReturns == \A t \in Threads : stack[t] # << >> ~> stack[t] = << >>
=============================================================================
