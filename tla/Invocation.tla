----------------------------- MODULE Invocation -----------------------------
(***************************************************************************)
(* What one thread's calls through jni++ do to the two things JNI keeps    *)
(* for a thread: its stack of local-reference frames and its pending       *)
(* exception (Method, Field and the array classes in JniPlusPlus.hpp,      *)
(* InvokersHighLevel.hpp, References.hpp, JvmObjectPassThrough in          *)
(* Converters.hpp, checkForExceptions).                                    *)
(*                                                                         *)
(* Calls nest: the lookup of a method and the conversion of a boxed value  *)
(* call the library again, and so does native code that Java calls back.   *)
(* A C++ exception unwinds the calls of the library up to the native code  *)
(* that made the outermost of them, and that code goes on.                 *)
(***************************************************************************)
EXTENDS Naturals, Sequences

CONSTANTS
  Refs,           \* bound: handles the JVM has for references
  NoRef,          \* the null reference
  NoException,
  Faults,         \* what may go wrong: "memory", "details"
  MaxCalls,       \* bound: library calls the thread makes
  MaxDepth        \* bound: library calls in progress at once

(* The stages of each operation, in the order of the code: "method" stands *)
(* for StaticMethod, InstanceMethod and SingletonMethod, "get" and "set"   *)
(* for the field classes, "create" and "element" for the array classes,    *)
(* "info" for getMethodInfo and getFieldInfo.                              *)
Route ==
  [method      |-> <<"gather", "lookup", "jni", "check", "convert", "pass">>,
   constructor |-> <<"gather", "lookup", "jni", "pass">>,
   get         |-> <<"lookup", "jni", "check", "convert", "pass">>,
   set         |-> <<"lookup", "gather", "jni", "check">>,
   create      |-> <<"jni", "pass">>,
   element     |-> <<"jni", "convert", "pass">>,
   info        |-> <<"jni", "resolve", "resolve">>]

(* What an operation answers to C++: nothing, a primitive (or boxed) value, *)
(* a string, or an object as a local or global reference.                   *)
MethodResults == {"void", "value", "string", "local", "global"}
GetResults == {"value", "string", "local", "global"}
SetResults == {"void"}
CreateResults == {"local"}

Results ==
  [method |-> MethodResults, constructor |-> {"local", "global"}, get |-> GetResults,
   set |-> SetResults, create |-> CreateResults, element |-> {"string", "local"},
   info |-> {"void"}]

Ops == DOMAIN Route
Unchecked == {"constructor", "create", "element"}

VARIABLES
  frames,   \* the JVM's frames of this thread: a stack of sets of references
  globals,  \* global references handed to the client
  pending,  \* the pending Java exception: who raised it, or NoException
  thrown,   \* the C++ exception that is unwinding library calls, or NoException
  calls,    \* the library calls in progress, innermost first
  made      \* number of library calls made

vars == <<frames, globals, pending, thrown, calls, made>>

Exceptions ==
  [call : 1..MaxCalls, op : Ops, why : {"java", "memory", "details", "noSingleton"}]

ASSUME InvocationAssumption ==
  /\ NoRef \notin Refs
  /\ NoException \notin Exceptions
  /\ Faults \subseteq {"memory", "details"}
  /\ MaxCalls \in Nat /\ MaxDepth \in Nat

(* framePushed and object are the code's; native: Java has called native   *)
(* code back; hadFrame, before: whether the call got a frame, and what the *)
(* frames were when it was made (history).                                 *)
CallRecords ==
  [id : 1..MaxCalls, op : Ops, ret : UNION {Results[op] : op \in Ops}, stage : 1..7,
   framePushed : BOOLEAN, object : Refs \cup {NoRef}, native : BOOLEAN,
   hadFrame : BOOLEAN, before : Seq(SUBSET Refs)]

InvocationTypeOK ==
  /\ frames \in Seq(SUBSET Refs) /\ frames # << >>
  /\ globals \subseteq Refs
  /\ pending \in Exceptions \cup {NoException}
  /\ thrown \in Exceptions \cup {NoException}
  /\ calls \in Seq(CallRecords) /\ Len(calls) <= MaxDepth
  /\ made \in 0..MaxCalls

InvocationInit ==
  /\ frames = <<{}>> /\ globals = {}
  /\ pending = NoException /\ thrown = NoException
  /\ calls = << >> /\ made = 0

-----------------------------------------------------------------------------
Top == Head(calls)
Stage(c) == IF c.stage \in DOMAIN Route[c.op] THEN Route[c.op][c.stage] ELSE "leave"

(* Native client code runs: outside of the library, or called back. *)
ClientRuns == thrown = NoException /\ (calls # << >> => Top.native)
At(s) == calls # << >> /\ thrown = NoException /\ ~Top.native /\ Stage(Top) = s

(* Client code made the innermost call, not the library for another one. *)
ClientsCall == Len(calls) > 1 => calls[2].native

Next1(stack) == [stack EXCEPT ![1].stage = @ + 1]
Proceed == calls' = Next1(calls)

(* Frames: the innermost is the last. *)
Live(fs) == UNION {fs[i] : i \in DOMAIN fs} \cup globals
Fresh(fs) == Refs \ Live(fs)
Popped == SubSeq(frames, 1, Len(frames) - 1)
With(fs, r) == IF r = NoRef THEN fs ELSE [fs EXCEPT ![Len(fs)] = @ \cup {r}]
Without(fs, r) == [fs EXCEPT ![Len(fs)] = @ \ {r}]

Raised(c, why) == [call |-> c.id, op |-> c.op, why |-> why]

-----------------------------------------------------------------------------
(* Entering a call. *)

ResolvesForLookup == Len(calls) > 1 /\ calls[2].op = "info"

(* Who calls what: client code any operation; the library itself a boxing  *)
(* or SWIG conversion, the lookup of a member, and the Java methods that   *)
(* the lookup uses, which are resolved since initializeEnvironment.        *)
MayEnter(op, ret) ==
  \/ ClientRuns /\ op # "info"
  \/ At("gather") /\ op \in {"method", "constructor"} /\ ret = "local"
  \/ At("lookup") /\ op = "info" /\ ~ResolvesForLookup
  \/ At("resolve") /\ op = "method" /\ ret \in {"value", "local"}
     /\ (Top.stage = 3 => calls[2].op \in {"get", "set"})
  \/ At("convert") /\ Top.ret = "value" /\ op = "method" /\ ret = "value"

(* JniLocalReferenceScope: without memory the call goes on with no frame   *)
(* of its own, and OutOfMemoryError is pending.                            *)
Enter(op, ret) ==
  LET c == [id |-> made + 1, op |-> op, ret |-> ret, stage |-> 1, framePushed |-> TRUE,
            object |-> NoRef, native |-> FALSE, hadFrame |-> TRUE, before |-> frames] IN
  /\ made < MaxCalls /\ Len(calls) < MaxDepth
  /\ MayEnter(op, ret)
  /\ made' = made + 1
  /\ \/ /\ frames' = Append(frames, {})
        /\ calls' = <<c>> \o calls
        /\ UNCHANGED pending
     \/ /\ "memory" \in Faults
        /\ calls' = <<[c EXCEPT !.framePushed = FALSE, !.hadFrame = FALSE]>> \o calls
        /\ pending' = Raised(c, "memory")
        /\ UNCHANGED frames
  /\ UNCHANGED <<globals, thrown>>

-----------------------------------------------------------------------------
(* The stages of a call. *)

(* A string argument becomes a local reference; other values need none. *)
Gather ==
  /\ At("gather")
  /\ \E r \in Fresh(frames) \cup {NoRef} : frames' = With(frames, r)
  /\ Proceed
  /\ UNCHANGED <<globals, pending, thrown, made>>

(* The member was resolved before. *)
LookupCached ==
  /\ At("lookup")
  /\ Proceed
  /\ UNCHANGED <<frames, globals, pending, thrown, made>>

(* No object is registered for a singleton's class. *)
NoSingleton ==
  /\ At("lookup") /\ ClientsCall /\ Top.op \in {"method", "get", "set"}
  /\ thrown' = Raised(Top, "noSingleton")
  /\ UNCHANGED <<frames, globals, pending, calls, made>>

(* JNI found the member, and it needs no check by a Java method.  If it    *)
(* did not, NoSuchMethodError is pending and a Java method searches.       *)
NotFound == pending # NoException /\ pending.call = Top.id /\ pending.why = "java"

Resolve ==
  /\ At("resolve") /\ ~NotFound
  /\ Proceed
  /\ UNCHANGED <<frames, globals, pending, thrown, made>>

(* The JNI function of the operation: it answers, or leaves a Java         *)
(* exception.  With an exception pending already its outcome is undefined: *)
(* any of these.  A field that is not found fails an assertion, which ends *)
(* the process.                                                            *)
JniReturns ==
  /\ At("jni")
  /\ \E r \in (IF Top.ret = "void" THEN {} ELSE Fresh(frames)) \cup {NoRef} :
       /\ frames' = With(frames, r)
       /\ calls' = Next1([calls EXCEPT ![1].object = r])
  /\ UNCHANGED <<globals, pending, thrown, made>>

JniRaises ==
  /\ At("jni")
  /\ Top.op = "info" => calls[2].op \notin {"get", "set"}
  /\ pending' = Raised(Top, "java")
  /\ Proceed
  /\ UNCHANGED <<frames, globals, thrown, made>>

(* Java code of the client calls native code, which gets a frame; its      *)
(* references go when it returns, and an exception it leaves pending is    *)
(* one in Java, where it is caught or not.                                 *)
NativeCalled ==
  /\ At("jni") /\ ClientsCall /\ Top.op \in {"method", "constructor"}
  /\ calls' = [calls EXCEPT ![1].native = TRUE]
  /\ frames' = Append(frames, {})
  /\ UNCHANGED <<globals, pending, thrown, made>>

NativeReturns ==
  /\ ClientRuns /\ calls # << >>
  /\ calls' = [calls EXCEPT ![1].native = FALSE]
  /\ frames' = Popped
  /\ pending' \in {pending, NoException}
  /\ UNCHANGED <<globals, thrown, made>>

(* Mutation: a field that was read is not checked for exceptions. *)
CheckSkipsGet ==
  /\ At("check")
  /\ \/ (pending = NoException \/ Top.op = "get") /\ Proceed /\ UNCHANGED <<pending, thrown>>
     \/ /\ pending # NoException /\ Top.op # "get"
        /\ thrown' = pending /\ pending' = NoException
        /\ UNCHANGED calls
  /\ UNCHANGED <<frames, globals, made>>

(* Mutation: the Java exception is reported but not cleared. *)
CheckKeepsPending ==
  /\ At("check")
  /\ \/ pending = NoException /\ Proceed /\ UNCHANGED <<frames, thrown>>
     \/ /\ pending # NoException
        /\ thrown' = pending
        /\ UNCHANGED <<calls, frames>>
  /\ UNCHANGED <<globals, pending, made>>

(* checkForExceptions: the Java exception is cleared and a C++ exception   *)
(* with its details is thrown.  The details are asked of the exception     *)
(* object, unchecked: that leaves references, and can raise again.         *)
CheckForExceptions ==
  /\ At("check")
  /\ \/ pending = NoException /\ Proceed /\ UNCHANGED <<frames, pending, thrown>>
     \/ /\ pending # NoException
        /\ thrown' = pending
        /\ \/ pending' = NoException
           \/ "details" \in Faults /\ pending' = Raised(Top, "details")
        /\ \E r \in Fresh(frames) \cup {NoRef} : frames' = With(frames, r)
        /\ UNCHANGED calls
  /\ UNCHANGED <<globals, made>>

(* A string is copied and its reference deleted; an object passes as it    *)
(* is; a boxed value makes a call instead (MayEnter).                      *)
ConvertToCpp ==
  /\ At("convert")
  /\ IF Top.ret = "string"
       THEN /\ frames' = Without(frames, Top.object)
            /\ calls' = Next1([calls EXCEPT ![1].object = NoRef])
       ELSE Proceed /\ UNCHANGED frames
  /\ UNCHANGED <<globals, pending, thrown, made>>

(* Mutation: a local reference is returned as it is, its frame popped      *)
(* later.                                                                  *)
PassUnchanged ==
  /\ At("pass")
  /\ Proceed
  /\ UNCHANGED <<frames, globals, pending, thrown, made>>

PassValue ==
  /\ At("pass") /\ (Top.object = NoRef \/ Top.ret \notin {"local", "global"})
  /\ Proceed
  /\ UNCHANGED <<frames, globals, pending, thrown, made>>

(* The frame is popped early, and the result gets a reference in the frame *)
(* below; a call without a frame returns the reference it has.             *)
PassLocal ==
  /\ At("pass") /\ Top.object # NoRef /\ Top.ret = "local"
  /\ IF Top.framePushed
       THEN \E r \in Fresh(Popped) :
              /\ frames' = With(Popped, r)
              /\ calls' = Next1([calls EXCEPT ![1].object = r, ![1].framePushed = FALSE])
       ELSE Proceed /\ UNCHANGED frames
  /\ UNCHANGED <<globals, pending, thrown, made>>

(* NewGlobalRef answers null without memory. *)
PassGlobal ==
  /\ At("pass") /\ Top.object # NoRef /\ Top.ret = "global"
  /\ frames' = Without(frames, Top.object)
  /\ \/ \E r \in Fresh(frames) : /\ globals' = globals \cup {r}
                                 /\ calls' = Next1([calls EXCEPT ![1].object = r])
     \/ /\ "memory" \in Faults
        /\ calls' = Next1([calls EXCEPT ![1].object = NoRef])
        /\ UNCHANGED globals
  /\ UNCHANGED <<pending, thrown, made>>

-----------------------------------------------------------------------------
(* The end of a call. *)

(* Mutation: the destructor forgets that the frame was popped early. *)
ReleaseAlways == frames' = Popped

(* The destructor of JniLocalReferenceScope. *)
ReleaseLocalRefs == frames' = IF Top.framePushed THEN Popped ELSE frames

(* A call the library made for another one goes back to it. *)
Leave ==
  /\ At("leave")
  /\ ReleaseLocalRefs
  /\ calls' = LET rest == Tail(calls) IN
                IF rest # << >> /\ ~Head(rest).native THEN Next1(rest) ELSE rest
  /\ UNCHANGED <<globals, pending, thrown, made>>

(* Mutation: an exception skips the frame. *)
UnwindKeepsFrame ==
  /\ calls # << >> /\ thrown # NoException
  /\ calls' = Tail(calls)
  /\ thrown' = IF Tail(calls) = << >> \/ Head(Tail(calls)).native THEN NoException ELSE thrown
  /\ UNCHANGED <<frames, globals, pending, made>>

Unwind ==
  /\ calls # << >> /\ thrown # NoException
  /\ ReleaseLocalRefs
  /\ calls' = Tail(calls)
  /\ thrown' = IF Tail(calls) = << >> \/ Head(Tail(calls)).native THEN NoException ELSE thrown
  /\ UNCHANGED <<globals, pending, made>>

(* The client deletes a global reference it was given. *)
DeleteGlobalRef ==
  /\ ClientRuns
  /\ \E r \in globals : globals' = globals \ {r}
  /\ UNCHANGED <<frames, pending, thrown, calls, made>>

InvocationNext ==
  \/ \E op \in Ops : \E ret \in Results[op] : Enter(op, ret)
  \/ Gather \/ LookupCached \/ NoSingleton \/ Resolve
  \/ JniReturns \/ JniRaises \/ NativeCalled \/ NativeReturns
  \/ CheckForExceptions \/ ConvertToCpp \/ PassValue \/ PassLocal \/ PassGlobal
  \/ Leave \/ Unwind \/ DeleteGlobalRef

InvocationSpec == InvocationInit /\ [][InvocationNext]_vars
-----------------------------------------------------------------------------
Ends == Len(calls') < Len(calls)

(* However a call ends, and whatever calls and callbacks were nested in    *)
(* it, the frames below are as they were: no frame too many or too few,    *)
(* and no reference gone or added, other than the result of a call that    *)
(* returns a local reference.  Comment at JniPlusPlus.hpp 422: "so that    *)
(* all local references will be cleaned up".  A call that got no frame can *)
(* only keep the number of frames.                                         *)
Result == IF thrown = NoException /\ Top.ret = "local" THEN Top.object ELSE NoRef

FramesRestored ==
  [][Ends => /\ Len(frames') = Len(Top.before)
             /\ Top.hadFrame => frames' = With(Top.before, Result)]_vars

(* The reference a call returns can be used by the caller: a local one is  *)
(* in the caller's frame, a global one is not deleted.                     *)
ResultIsLive ==
  [][Ends /\ thrown = NoException /\ Top.object # NoRef =>
       /\ Top.ret = "local" => Top.object \in frames'[Len(frames')]
       /\ Top.ret = "global" => Top.object \in globals']_vars

(* Exceptions that the code leaves pending: those raised in operations it  *)
(* does not check, for want of memory, and while it collects the details   *)
(* of another one.                                                         *)
Stray(e) == e.op \in Unchecked \/ e.why \in {"memory", "details"}

(* Client code never runs with a Java exception pending that a checked     *)
(* operation raised, its own or one nested in it.                          *)
NothingLeftPending == ClientRuns /\ pending # NoException => Stray(pending)

(* The exception a client's call throws was raised during that call, not   *)
(* by one before it.                                                       *)
ExceptionIsOwn ==
  [][Ends /\ thrown # NoException /\ thrown' = NoException =>
       thrown.call >= Top.id \/ Stray(thrown)]_vars

(* Where JNI does not find a method, Java is asked (Utilities.cpp 317,     *)
(* 320-321: "the signature didn't match a method", "Have java scan through *)
(* all the methods looking for the one we want"): a search only fails with *)
(* an exception of its own, never with the one that made it necessary.     *)
Searches == At("check") /\ Len(calls) > 1 /\ calls[2].op = "info"

SearchAnswers ==
  [][Searches /\ thrown' # NoException => thrown'.call >= Top.id]_vars
=============================================================================
