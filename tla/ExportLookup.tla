---------------------------- MODULE ExportLookup ----------------------------
(***************************************************************************)
(* The Java side of a member lookup by name (JavaToNativeExporter.java     *)
(* 38-286): which packages require ExportToNative, what is exportable, and *)
(* the search for the only method, constructor or field that native code   *)
(* may mean, while other threads change the packages.                      *)
(*                                                                         *)
(* Everything here has the one name that is looked up.  A member is        *)
(* identified by its class and its signature; a Kotlin method whose name   *)
(* has the suffix $app_debug counts as one of the name, with a signature   *)
(* of its own.                                                             *)
(***************************************************************************)
EXTENDS Naturals, Sequences, FiniteSets, SequencesExt

CONSTANTS
  Classes,
  Chain,          \* class -> it and its superclasses, nearest first
  Within,         \* class -> it and the classes it is declared in
  PackageOf,      \* class -> its package, a sequence of names
  OwnClass,       \* JavaToNativeExporter
  Signatures,
  NumParameters,  \* signature -> length of its parameter list
  Prefix,         \* class -> what a key has in front of the member's name
  Packages,       \* packages that may be configured
  Declarable,     \* bound: the members that may be declared
  Annotatable,    \* bound: the classes that may have ExportToNative
  MaxPolicies,    \* bound on calls of setRequiresExport
  Missing,        \* a class that does not exist
  Null

Members == Classes \X Signatures
ClassOf(m) == m[1]
SignatureOf(m) == m[2]
Attributes == [static : BOOLEAN, annotated : BOOLEAN]

ASSUME LookupAssumption ==
  /\ Chain \in [Classes -> Seq(Classes)]
  /\ \A c \in Classes : Len(Chain[c]) > 0 /\ Chain[c][1] = c /\ IsInjective(Chain[c])
  /\ Within \in [Classes -> SUBSET Classes]
  /\ PackageOf \in [Classes -> Seq(STRING)] /\ Packages \subseteq Seq(STRING)
  /\ NumParameters \in [Signatures -> Nat]
  /\ DOMAIN Prefix = Classes
  /\ Declarable \subseteq Members /\ Annotatable \subseteq Classes
  /\ MaxPolicies \in Nat
  /\ Missing \notin Classes /\ Null \notin Members

VARIABLES
  kind,             \* what has the name: "method", "constructor" or "field"
  className,        \* the class it is looked up in
  declared,         \* the members of that name: member -> its attributes
  annotatedClasses, \* classes with ExportToNative
  sAnnotationRequiredPackages,
  changes,          \* calls of setRequiresExport so far
  pc, query,        \* the lookup in progress
  depth,            \* how many classes of the chain it has read
  allMethods,       \* members it has yet to examine
  found, answer,
  policies          \* history: the policies in force since it began

world == <<kind, className, declared, annotatedClasses>>
search == <<pc, query, depth, allMethods, found, answer>>
vars == <<world, sAnnotationRequiredPackages, changes, search, policies>>

Policies == UNION {[D -> BOOLEAN] : D \in SUBSET Packages}

LookupTypeOK ==
  /\ kind \in {"method", "constructor", "field"}
  /\ className \in Classes \union {Missing}
  /\ DOMAIN declared \subseteq Members
  /\ \A m \in DOMAIN declared : declared[m] \in Attributes
  /\ annotatedClasses \subseteq Classes
  /\ sAnnotationRequiredPackages \in Policies
  /\ policies \subseteq Policies
  /\ changes \in 0..MaxPolicies
  /\ pc \in {"idle", "gather", "examine", "returned", "thrown"}
  /\ query \in [static : BOOLEAN, numParameters : Nat]
  /\ depth \in Nat
  /\ allMethods \subseteq DOMAIN declared
  /\ found \in DOMAIN declared \union {Null}
  /\ answer \in DOMAIN declared \union {Null}

-----------------------------------------------------------------------------
(* The policy *)

(* Of the configured packages that are pkg or contain it, the longest wins;*)
(* without one, nothing is required.                                       *)
Matching(policy, pkg) == {p \in DOMAIN policy : IsPrefix(p, pkg)}

(* Mutation: the shortest wins. *)
ShortestRequires(policy, pkg) ==
  \E p \in Matching(policy, pkg) :
    policy[p] /\ \A q \in Matching(policy, pkg) : Len(p) <= Len(q)

DoesPackageRequireExport(policy, pkg) ==
  \E p \in Matching(policy, pkg) :
    policy[p] /\ \A q \in Matching(policy, pkg) : Len(q) <= Len(p)

IsExportable(policy, m) ==
  \/ ClassOf(m) = OwnClass
  \/ ~DoesPackageRequireExport(policy, PackageOf[ClassOf(m)])
  \/ Within[ClassOf(m)] \intersect annotatedClasses # {}
  \/ declared[m].annotated

(* Called by any thread at any time; it holds the monitor of the map, and  *)
(* so does each question whether a package requires ExportToNative.        *)
SetRequiresExport(pkg, isAnnotationRequired) ==
  /\ changes < MaxPolicies
  /\ changes' = changes + 1
  /\ sAnnotationRequiredPackages' =
       [p \in DOMAIN sAnnotationRequiredPackages \union {pkg} |->
          IF p = pkg THEN isAnnotationRequired ELSE sAnnotationRequiredPackages[p]]
  /\ policies' = policies \union {sAnnotationRequiredPackages'}
  /\ UNCHANGED <<world, search>>

-----------------------------------------------------------------------------
(* The search *)

Superclasses == IF className = Missing THEN {} ELSE Range(Chain[className])

LookupInit ==
  /\ kind \in {"method", "constructor", "field"}
  /\ className \in Classes \union {Missing}
  /\ \E D \in SUBSET {m \in Declarable : ClassOf(m) \in Superclasses} :
       /\ kind = "field" => \A m, n \in D : ClassOf(m) = ClassOf(n) => m = n
       /\ declared \in [D -> Attributes]
  /\ kind = "constructor" => \A m \in DOMAIN declared : ~declared[m].static
  /\ annotatedClasses \in SUBSET Annotatable
  /\ sAnnotationRequiredPackages = << >>
  /\ changes = 0
  /\ pc = "idle"
  /\ query = [static |-> FALSE, numParameters |-> 0]
  /\ depth = 0 /\ allMethods = {} /\ found = Null /\ answer = Null
  /\ policies = {}

Searching == pc \in {"gather", "examine"}

(* lookupJavaMember and lookupJavaField *)
Lookup(isStatic, numParameters) ==
  /\ ~Searching
  /\ query' = [static |-> isStatic, numParameters |-> numParameters]
  /\ pc' = IF className = Missing THEN "thrown" ELSE "gather"
  /\ depth' = 0 /\ allMethods' = {} /\ found' = Null /\ answer' = Null
  /\ policies' = {sAnnotationRequiredPackages}
  /\ UNCHANGED <<world, sAnnotationRequiredPackages, changes>>

(* A key is the description of the member from the first occurrence of its *)
(* name on, without its exceptions.                                        *)
MakeKey(m) == <<Prefix[ClassOf(m)], SignatureOf(m)>>

DeclaredIn(class) == {m \in DOMAIN declared : ClassOf(m) = class}

(* Mutation: the walk takes members that are not declared. *)
PutAll(class) == allMethods \union ({class} \X Signatures)

(* Mutation: a method is kept next to one that overrides it. *)
KeepOverridden(class) == allMethods \union DeclaredIn(class)

Put(class) ==
  allMethods \union
    {m \in DeclaredIn(class) : \A n \in allMethods : MakeKey(n) # MakeKey(m)}

(* One class of the chain: constructors come from the first only, a field  *)
(* ends the walk, methods are kept unless one with that key is there.      *)
WalkIsOver ==
  \/ depth = Len(Chain[className])
  \/ kind = "constructor" /\ depth = 1
  \/ kind = "field" /\ allMethods # {}

(* Mutation: the walk stays at a class. *)
GatherAgain ==
  /\ pc = "gather" /\ ~WalkIsOver
  /\ allMethods' = Put(Chain[className][depth + 1])
  /\ UNCHANGED <<world, sAnnotationRequiredPackages, changes, pc, query, depth, found, answer,
                 policies>>

Gather ==
  /\ pc = "gather" /\ ~WalkIsOver
  /\ depth' = depth + 1
  /\ allMethods' = Put(Chain[className][depth + 1])
  /\ UNCHANGED <<world, sAnnotationRequiredPackages, changes, pc, query, found, answer, policies>>

Gathered ==
  /\ pc = "gather" /\ WalkIsOver
  /\ pc' = "examine"
  /\ UNCHANGED <<world, sAnnotationRequiredPackages, changes, query, depth, allMethods, found,
                 answer, policies>>

Fits(m) ==
  /\ kind = "method" => declared[m].static = query.static
  /\ kind \in {"method", "constructor"} =>
       NumParameters[SignatureOf(m)] = query.numParameters

Return(m) == answer' = m /\ pc' = "returned"

(* The monitor is free between two members, so that the policy may change. *)
Examine(m) ==
  /\ pc = "examine" /\ m \in allMethods
  /\ allMethods' = allMethods \ {m}
  /\ IF Fits(m) /\ IsExportable(sAnnotationRequiredPackages, m)
       THEN IF found # Null THEN Return(Null) /\ UNCHANGED found
                            ELSE found' = m /\ UNCHANGED <<answer, pc>>
       ELSE UNCHANGED <<found, answer, pc>>
  /\ UNCHANGED <<world, sAnnotationRequiredPackages, changes, query, depth, policies>>

Examined ==
  /\ pc = "examine" /\ allMethods = {}
  /\ Return(found)
  /\ UNCHANGED <<world, sAnnotationRequiredPackages, changes, query, depth, allMethods, found,
                 policies>>

SearchStep == Gather \/ Gathered \/ (\E m \in allMethods : Examine(m)) \/ Examined

LookupNext ==
  \/ \E s \in BOOLEAN, sig \in Signatures : Lookup(s, NumParameters[sig])
  \/ \E p \in Packages, r \in BOOLEAN : SetRequiresExport(p, r)
  \/ SearchStep

LookupSpec == LookupInit /\ [][LookupNext]_vars /\ WF_vars(SearchStep)
-----------------------------------------------------------------------------
(* What the comments promise (125-127, 181-186, 241-243), without a walk:  *)
(* the members of the name that fit, that no nearer class overrides or     *)
(* hides, and that the policy exports.                                     *)

Distance(m) == {i \in 1..Len(Chain[className]) : Chain[className][i] = ClassOf(m)}

Nearer(n, m) == \E i \in Distance(n), j \in Distance(m) : i < j

Reaches(m) ==
  /\ Distance(m) # {}
  /\ kind = "constructor" => ClassOf(m) = className
  /\ \A n \in DOMAIN declared :
       Nearer(n, m) => kind # "field" /\ SignatureOf(n) # SignatureOf(m)

Meant == {m \in DOMAIN declared : Reaches(m) /\ Fits(m)}

Valid(policy) == {m \in Meant : IsExportable(policy, m)}

(* "There must be one (and only one) valid match" (line 127): an answer    *)
(* was a valid match at some moment of the search, and every other was not *)
(* one at some moment; no answer means that each was not one at some       *)
(* moment, or that two of them were.  A search during which nobody changes *)
(* the policy has a single moment: the answer is then the only valid match.*)
AnswerExplained ==
  LET WasValid(m) == \E p \in policies : m \in Valid(p)
      WasNot(m) == \E p \in policies : m \notin Valid(p)
  IN  pc = "returned" =>
        /\ answer # Null => WasValid(answer) /\ \A m \in Meant \ {answer} : WasNot(m)
        /\ answer = Null =>
             \/ \A m \in Meant : WasNot(m)
             \/ \E m, n \in Meant : m # n /\ WasValid(m) /\ WasValid(n)

(* Configuring a package changes nothing for packages outside of it, nor   *)
(* for those a longer configured package decides (comment at lines 38-43). *)
PolicyIsLocal ==
  [][\A pkg \in Range(PackageOf) :
       LET before == sAnnotationRequiredPackages
           after == sAnnotationRequiredPackages'
       IN  DoesPackageRequireExport(before, pkg) # DoesPackageRequireExport(after, pkg)
             => \E p \in DOMAIN after :
                  /\ p \notin DOMAIN before \/ before[p] # after[p]
                  /\ IsPrefix(p, pkg)
                  /\ \A q \in Matching(before, pkg) : Len(q) <= Len(p)]_vars

(* Every search comes to an end, also while the policy changes. *)
SearchEnds == Searching ~> ~Searching
=============================================================================
