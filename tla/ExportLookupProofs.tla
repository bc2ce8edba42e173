------------------------- MODULE ExportLookupProofs -------------------------
(***************************************************************************)
(* Proofs about ExportLookup, for any classes, members, packages and any   *)
(* number of policy changes, if no key has a prefix of its own.            *)
(***************************************************************************)
EXTENDS ExportLookup, TLAPS

(* The name does not occur earlier in the description of a member than as  *)
(* its name, or what is in front of it is the same for all classes.        *)
PlainNames == \A c, d \in Classes : Prefix[c] = Prefix[d]

(* m is declared by the i-th class of the chain. *)
IsAt(m, i) == i \in 1..Len(Chain[className]) /\ Chain[className][i] = ClassOf(m)

WasValid(m) == \E p \in policies : IsExportable(p, m)
WasNot(m) == \E p \in policies : ~IsExportable(p, m)

WorldInv ==
  /\ kind \in {"method", "constructor", "field"}
  /\ className \in Classes \union {Missing}
  /\ DOMAIN declared \subseteq Members
  /\ pc \in {"idle", "gather", "examine", "returned", "thrown"}
  /\ Searching => className \in Classes /\ sAnnotationRequiredPackages \in policies

(* What the walk has kept after depth classes: nothing that a nearer member*)
(* overrides, and for everything it read something at least as near with   *)
(* the same signature.                                                     *)
GatherInv ==
  pc = "gather" =>
    /\ depth \in 0..Len(Chain[className])
    /\ allMethods \subseteq DOMAIN declared
    /\ found = Null
    /\ kind = "constructor" => depth \in {0, 1}
    /\ \A m \in allMethods :
         /\ \E i \in 1..depth : IsAt(m, i)
         /\ \A n \in DOMAIN declared :
              Nearer(n, m) => kind # "field" /\ SignatureOf(n) # SignatureOf(m)
    /\ \A m \in DOMAIN declared : \A i \in 1..depth :
         IsAt(m, i) => \E n \in allMethods, j \in 1..i :
                         IsAt(n, j) /\ SignatureOf(n) = SignatureOf(m)

(* What the examination has decided. *)
ExamineInv ==
  pc = "examine" =>
    /\ allMethods \subseteq {m \in DOMAIN declared : Reaches(m)}
    /\ \A m \in Meant \ allMethods : m # found => WasNot(m)
    /\ found # Null => found \in Meant \ allMethods /\ WasValid(found)

LookupInv == WorldInv /\ GatherInv /\ ExamineInv /\ AnswerExplained

-----------------------------------------------------------------------------
LEMMA PositionIsUnique ==
  ASSUME className \in Classes, NEW m, NEW i, NEW j, IsAt(m, i), IsAt(m, j)
  PROVE  i = j
<1> DEFINE chain == Chain[className]
<1>1. chain \in Seq(Classes) /\ IsInjective(chain)
  BY LookupAssumption
<1>2. DOMAIN chain = 1..Len(chain)
  BY <1>1
<1> QED
  BY <1>1, <1>2 DEF IsAt, IsInjective

LEMMA NearerIsAt ==
  ASSUME className \in Classes, NEW n, NEW m
  PROVE  Nearer(n, m) <=> \E i, j \in 1..Len(Chain[className]) : IsAt(n, i) /\ IsAt(m, j) /\ i < j
BY DEF Nearer, Distance, IsAt

LEMMA ReachesIsAt ==
  ASSUME NEW m, Reaches(m)
  PROVE  \E i \in 1..Len(Chain[className]) : IsAt(m, i)
BY DEF Reaches, Distance, IsAt

LEMMA InitLookupInv == LookupInit => LookupInv
<1> SUFFICES ASSUME LookupInit PROVE LookupInv
  OBVIOUS
<1>1. DOMAIN declared \subseteq Members
  <2>1. PICK D \in SUBSET {m \in Declarable : ClassOf(m) \in Superclasses} :
          declared \in [D -> Attributes]
    BY DEF LookupInit
  <2> QED
    BY <2>1, LookupAssumption
<1> QED
  BY <1>1 DEF LookupInit, LookupInv, WorldInv, GatherInv, ExamineInv, AnswerExplained, Searching

(* The world stays as it is, and so do the questions about it. *)
LEMMA SameWorld ==
  ASSUME UNCHANGED world
  PROVE  /\ \A m, i : IsAt(m, i)' <=> IsAt(m, i)
         /\ \A m, n : Nearer(m, n)' <=> Nearer(m, n)
         /\ \A m : Reaches(m)' <=> Reaches(m)
         /\ \A m, p : IsExportable(p, m)' <=> IsExportable(p, m)
         /\ query' = query => \A m : (Fits(m)' <=> Fits(m))
         /\ query' = query => Meant' = Meant
<1> USE DEF world
<1>1. \A m, i : IsAt(m, i)' <=> IsAt(m, i)
  BY DEF IsAt
<1>2. \A m, n : Nearer(m, n)' <=> Nearer(m, n)
  BY DEF Nearer, Distance
<1>3. \A m : Reaches(m)' <=> Reaches(m)
  BY <1>2 DEF Reaches, Distance
<1>4. \A m, p : IsExportable(p, m)' <=> IsExportable(p, m)
  BY DEF IsExportable
<1>5. query' = query => \A m : (Fits(m)' <=> Fits(m))
  BY DEF Fits
<1>6. query' = query => Meant' = Meant
  BY <1>3, <1>5 DEF Meant
<1> QED
  BY <1>1, <1>2, <1>3, <1>4, <1>5, <1>6

-----------------------------------------------------------------------------
(* A change of the policy adds to the history. *)
LEMMA SetRequiresExportInv ==
  ASSUME LookupInv, NEW p \in Packages, NEW r \in BOOLEAN, SetRequiresExport(p, r)
  PROVE  LookupInv'
<1> USE DEF SetRequiresExport
<1>1. UNCHANGED world /\ UNCHANGED search
  OBVIOUS
<1>2. policies \subseteq policies' /\ sAnnotationRequiredPackages' \in policies'
  OBVIOUS
<1>3. /\ \A m : WasValid(m) => WasValid(m)'
      /\ \A m : WasNot(m) => WasNot(m)'
  BY <1>1, <1>2, SameWorld DEF WasValid, WasNot
<1>4. query' = query
  BY <1>1 DEF search
<1>5. WorldInv'
  BY <1>1, <1>2 DEF LookupInv, WorldInv, Searching, world, search
<1>6. GatherInv'
  BY <1>1, SameWorld DEF LookupInv, GatherInv, world, search
<1>7. ExamineInv'
  BY <1>1, <1>3, <1>4, SameWorld DEF LookupInv, ExamineInv, world, search
<1>8. AnswerExplained'
  <2>1. \A q : Valid(q)' = Valid(q)
    BY <1>1, <1>4, SameWorld DEF Valid
  <2>2. Meant' = Meant /\ UNCHANGED <<declared, pc, answer>>
    BY <1>1, <1>4, SameWorld DEF world, search
  <2> QED
    BY <1>2, <2>1, <2>2 DEF LookupInv, AnswerExplained
<1> QED
  BY <1>5, <1>6, <1>7, <1>8 DEF LookupInv

LEMMA BeginInv ==
  ASSUME LookupInv, NEW s \in BOOLEAN, NEW n \in Nat, Lookup(s, n)
  PROVE  LookupInv'
<1> USE DEF Lookup, world
<1>1. WorldInv'
  BY DEF LookupInv, WorldInv, Searching
<1>2. GatherInv'
  <2>1. className = Missing \/ Chain[className] \in Seq(Classes)
    BY LookupAssumption DEF LookupInv, WorldInv
  <2> QED
    BY <2>1 DEF GatherInv
<1>3. ExamineInv' /\ AnswerExplained'
  BY DEF ExamineInv, AnswerExplained
<1> QED
  BY <1>1, <1>2, <1>3 DEF LookupInv

(* The next class of the walk.  A member is kept unless one with its key   *)
(* is there; as keys are signatures, that one is nearer and overrides it.  *)
LEMMA GatherKeepsInv ==
  ASSUME LookupInv, PlainNames, Gather
  PROVE  LookupInv'
<1> USE DEF Gather
<1>1. UNCHANGED world /\ query' = query /\ policies' = policies /\ pc' = "gather" /\ pc = "gather"
  OBVIOUS
<1>2. WorldInv'
  BY DEF LookupInv, WorldInv, Searching, world
<1>3. ExamineInv' /\ AnswerExplained'
  BY DEF ExamineInv, AnswerExplained
<1> DEFINE next == Chain[className][depth + 1]
<1>4. /\ className \in Classes /\ DOMAIN declared \subseteq Members
      /\ Len(Chain[className]) \in Nat
  <2>1. className \in Classes /\ DOMAIN declared \subseteq Members
    BY DEF LookupInv, WorldInv, Searching
  <2>2. Chain[className] \in Seq(Classes)
    BY <2>1, LookupAssumption
  <2> QED
    BY <2>1, <2>2
<1>5. /\ depth \in 0..Len(Chain[className]) /\ depth < Len(Chain[className])
      /\ depth' = depth + 1 /\ depth' \in 1..Len(Chain[className])
  BY <1>4 DEF LookupInv, GatherInv, WalkIsOver
<1>6. /\ kind = "constructor" => depth' \in {0, 1}
      /\ kind = "field" => allMethods = {}
  BY <1>5 DEF LookupInv, GatherInv, WalkIsOver
<1>7. /\ allMethods \subseteq DOMAIN declared
      /\ allMethods' = Put(next)
      /\ found' = Null
  BY DEF LookupInv, GatherInv
<1>8. \A m \in DOMAIN declared : ClassOf(m) = next <=> IsAt(m, depth + 1)
  BY <1>4, <1>5 DEF IsAt
<1>9. \A m, n \in DOMAIN declared :
         MakeKey(n) = MakeKey(m) <=> SignatureOf(n) = SignatureOf(m)
  BY <1>4 DEF PlainNames, MakeKey, Members, ClassOf
<1>10. \A m \in allMethods' :
         \/ m \in allMethods
         \/ /\ m \in DOMAIN declared /\ IsAt(m, depth + 1)
            /\ \A n \in allMethods : SignatureOf(n) # SignatureOf(m)
  BY <1>7, <1>8, <1>9 DEF Put, DeclaredIn
<1>11. ASSUME NEW m \in allMethods'
       PROVE  /\ \E i \in 1..depth' : IsAt(m, i)
              /\ \A n \in DOMAIN declared :
                   Nearer(n, m) => kind # "field" /\ SignatureOf(n) # SignatureOf(m)
  <2>1. CASE m \in allMethods
    BY <2>1, <1>1, <1>5 DEF LookupInv, GatherInv
  <2>2. CASE /\ m \in DOMAIN declared /\ IsAt(m, depth + 1)
             /\ \A n \in allMethods : SignatureOf(n) # SignatureOf(m)
    <3>1. \E i \in 1..depth' : IsAt(m, i)
      BY <2>2, <1>5
    <3>2. ASSUME NEW n \in DOMAIN declared, Nearer(n, m)
          PROVE  kind # "field" /\ SignatureOf(n) # SignatureOf(m)
      <4>1. PICK i, j \in 1..Len(Chain[className]) : IsAt(n, i) /\ IsAt(m, j) /\ i < j
        BY <3>2, <1>4, NearerIsAt
      <4>2. j = depth + 1
        BY <4>1, <2>2, <1>4, PositionIsUnique
      <4>3. i \in 1..depth
        BY <4>1, <4>2, <1>5
      <4>4. \E o \in allMethods : SignatureOf(o) = SignatureOf(n)
        BY <4>1, <4>3, <1>1 DEF LookupInv, GatherInv
      <4> QED
        BY <4>4, <2>2, <1>6
    <3> QED
      BY <3>1, <3>2
  <2> QED
    BY <2>1, <2>2, <1>10
<1>12. ASSUME NEW m \in DOMAIN declared, NEW i \in 1..depth', IsAt(m, i)
       PROVE  \E n \in allMethods', j \in 1..i : IsAt(n, j) /\ SignatureOf(n) = SignatureOf(m)
  <2>1. CASE i \in 1..depth
    <3>1. PICK n \in allMethods, j \in 1..i : IsAt(n, j) /\ SignatureOf(n) = SignatureOf(m)
      BY <2>1, <1>12, <1>1 DEF LookupInv, GatherInv
    <3> QED
      BY <3>1, <1>7 DEF Put
  <2>2. CASE i = depth + 1
    <3>1. CASE m \in allMethods'
      BY <3>1, <1>12, <1>5, <2>2
    <3>2. CASE m \notin allMethods'
      <4>1. PICK n \in allMethods : SignatureOf(n) = SignatureOf(m)
        BY <3>2, <2>2, <1>12, <1>7, <1>8, <1>9 DEF Put, DeclaredIn
      <4>2. PICK j \in 1..depth : IsAt(n, j)
        BY <4>1, <1>1 DEF LookupInv, GatherInv
      <4> QED
        BY <4>1, <4>2, <2>2, <1>5, <1>7 DEF Put
    <3> QED
      BY <3>1, <3>2
  <2> QED
    BY <2>1, <2>2, <1>5
<1>13. GatherInv'
  <2>1. allMethods' \subseteq DOMAIN declared
    BY <1>7, <1>10
  <2>2. UNCHANGED <<kind, className, declared>>
    BY <1>1 DEF world
  <2>3. /\ \A m, j : IsAt(m, j)' <=> IsAt(m, j)
        /\ \A m, n : Nearer(m, n)' <=> Nearer(m, n)
    BY <1>1, SameWorld
  <2>4. /\ depth' \in 0..Len(Chain[className])'
        /\ (allMethods \subseteq DOMAIN declared)' /\ found' = Null
        /\ kind' = "constructor" => depth' \in {0, 1}
    BY <1>4, <1>5, <1>6, <1>7, <2>1, <2>2
  <2>5. \A m \in allMethods' :
           /\ \E j \in 1..depth' : IsAt(m, j)'
           /\ \A n \in DOMAIN declared' :
                Nearer(n, m)' => kind' # "field" /\ SignatureOf(n) # SignatureOf(m)
    BY <1>11, <2>2, <2>3
  <2>6. \A m \in DOMAIN declared' : \A j \in 1..depth' :
           IsAt(m, j)' => \E n \in allMethods', l \in 1..j :
                            IsAt(n, l)' /\ SignatureOf(n) = SignatureOf(m)
    BY <1>12, <2>2, <2>3
  <2> QED
    BY <1>1, <2>4, <2>5, <2>6 DEF GatherInv
<1> QED
  BY <1>2, <1>3, <1>13 DEF LookupInv

(* The walk is over: what it has kept is what native code may mean, up to  *)
(* the kind of the member and its parameters.                              *)
LEMMA WalkKeepsWhatReaches ==
  ASSUME LookupInv, pc = "gather", WalkIsOver
  PROVE  allMethods = {m \in DOMAIN declared : Reaches(m)}
<1>1. /\ className \in Classes /\ DOMAIN declared \subseteq Members
      /\ Len(Chain[className]) \in Nat /\ Len(Chain[className]) > 0
      /\ Chain[className][1] = className
  BY LookupAssumption DEF LookupInv, WorldInv, Searching
<1>2. depth \in 0..Len(Chain[className]) /\ allMethods \subseteq DOMAIN declared
  BY DEF LookupInv, GatherInv
<1>3. ASSUME NEW m \in allMethods
      PROVE  Reaches(m)
  <2>1. PICK i \in 1..depth : IsAt(m, i)
    BY DEF LookupInv, GatherInv
  <2>2. Distance(m) # {}
    BY <2>1 DEF Distance, IsAt
  <2>3. kind = "constructor" => ClassOf(m) = className
    BY <2>1, <1>1 DEF LookupInv, GatherInv, IsAt
  <2>4. \A n \in DOMAIN declared :
          Nearer(n, m) => kind # "field" /\ SignatureOf(n) # SignatureOf(m)
    BY DEF LookupInv, GatherInv
  <2> QED
    BY <2>2, <2>3, <2>4 DEF Reaches
<1>4. ASSUME NEW m \in DOMAIN declared, Reaches(m)
      PROVE  m \in allMethods
  <2>1. PICK i \in 1..Len(Chain[className]) : IsAt(m, i)
    BY <1>4, ReachesIsAt
  <2>2. i \in 1..depth
    <3>1. CASE depth = Len(Chain[className])
      BY <3>1
    <3>2. CASE kind = "constructor" /\ depth = 1
      <4>1. IsAt(m, 1)
        BY <3>2, <1>1, <1>4 DEF Reaches, IsAt
      <4> QED
        BY <4>1, <2>1, <3>2, <1>1, PositionIsUnique
    <3>3. CASE kind = "field" /\ allMethods # {} /\ i \notin 1..depth
      <4>1. PICK n \in allMethods : TRUE
        BY <3>3
      <4>2. PICK j \in 1..depth : IsAt(n, j)
        BY <4>1 DEF LookupInv, GatherInv
      <4>3. Nearer(n, m)
        BY <4>2, <2>1, <3>3, <1>1, <1>2, NearerIsAt
      <4> QED
        BY <4>3, <4>1, <1>2, <1>4, <3>3 DEF Reaches
    <3> QED
      BY <3>1, <3>2, <3>3 DEF WalkIsOver
  <2>3. PICK n \in allMethods, j \in 1..i : IsAt(n, j) /\ SignatureOf(n) = SignatureOf(m)
    BY <2>1, <2>2 DEF LookupInv, GatherInv
  <2>4. j = i
    <3>1. SUFFICES ASSUME j < i PROVE FALSE
      BY <2>3
    <3>2. Nearer(n, m)
      BY <3>1, <2>1, <2>3, <1>1, NearerIsAt
    <3> QED
      BY <3>2, <2>3, <1>2, <1>4 DEF Reaches
  <2>5. ClassOf(n) = ClassOf(m)
    BY <2>1, <2>3, <2>4 DEF IsAt
  <2>6. n = m
    BY <2>3, <2>5, <1>1, <1>2 DEF Members, ClassOf, SignatureOf
  <2> QED
    BY <2>6
<1> QED
  BY <1>2, <1>3, <1>4

LEMMA GatheredInv ==
  ASSUME LookupInv, Gathered
  PROVE  LookupInv'
<1> USE DEF Gathered
<1>1. WorldInv'
  BY DEF LookupInv, WorldInv, Searching, world
<1>2. allMethods = {m \in DOMAIN declared : Reaches(m)} /\ found = Null
  BY WalkKeepsWhatReaches DEF LookupInv, GatherInv
<1>3. ExamineInv'
  <2>1. \A m : (Reaches(m)' <=> Reaches(m))
    BY SameWorld
  <2>2. Meant' = Meant /\ Meant \ allMethods = {}
    BY SameWorld, <1>2 DEF Meant
  <2> QED
    BY <1>2, <2>1, <2>2 DEF ExamineInv, world
<1>4. GatherInv' /\ AnswerExplained'
  BY DEF GatherInv, AnswerExplained
<1> QED
  BY <1>1, <1>3, <1>4 DEF LookupInv

(* One member is examined under the policy of the moment. *)
LEMMA ExamineKeepsInv ==
  ASSUME LookupInv, NEW m \in allMethods, Examine(m)
  PROVE  LookupInv'
<1> USE DEF Examine
<1>1. UNCHANGED world /\ query' = query /\ policies' = policies /\ pc = "examine"
  OBVIOUS
<1>2. WorldInv' /\ GatherInv'
  BY DEF LookupInv, WorldInv, GatherInv, Searching, world, Return
<1>3. /\ allMethods \subseteq {n \in DOMAIN declared : Reaches(n)}
      /\ \A n \in Meant \ allMethods : n # found => WasNot(n)
      /\ found # Null => found \in Meant \ allMethods /\ WasValid(found)
      /\ sAnnotationRequiredPackages \in policies
      /\ DOMAIN declared \subseteq Members
  BY DEF LookupInv, ExamineInv, WorldInv, Searching
<1>4. /\ Fits(m) <=> m \in Meant
      /\ Meant \subseteq DOMAIN declared
      /\ \A n \in Meant : n # Null
  BY <1>3, LookupAssumption DEF Meant
<1>5. /\ IsExportable(sAnnotationRequiredPackages, m) => WasValid(m)
      /\ ~IsExportable(sAnnotationRequiredPackages, m) => WasNot(m)
  BY <1>3 DEF WasValid, WasNot
<1>6. /\ \A n : WasValid(n)' <=> WasValid(n)
      /\ \A n : WasNot(n)' <=> WasNot(n)
      /\ Meant' = Meant
      /\ \A n : (Reaches(n)' <=> Reaches(n))
  BY <1>1, SameWorld DEF WasValid, WasNot
<1>7. CASE Fits(m) /\ IsExportable(sAnnotationRequiredPackages, m) /\ found # Null
  <2>1. pc' = "returned" /\ answer' = Null
    BY <1>7 DEF Return
  <2>2. /\ m \in Meant /\ found \in Meant /\ m # found
        /\ WasValid(m) /\ WasValid(found)
    BY <1>3, <1>4, <1>5, <1>7
  <2>3. \A q : Valid(q)' = Valid(q)
    BY <1>1, <1>6, SameWorld DEF Valid
  <2>4. AnswerExplained'
    BY <2>1, <2>2, <2>3, <1>1, <1>6 DEF AnswerExplained, Valid, WasValid
  <2>5. ExamineInv'
    BY <2>1 DEF ExamineInv
  <2> QED
    BY <1>2, <2>4, <2>5 DEF LookupInv
<1>8. CASE ~(Fits(m) /\ IsExportable(sAnnotationRequiredPackages, m) /\ found # Null)
  <2>1. pc' = "examine" /\ allMethods' = allMethods \ {m} /\ declared' = declared
    BY <1>8 DEF world
  <2>2. found' = IF Fits(m) /\ IsExportable(sAnnotationRequiredPackages, m) THEN m ELSE found
    BY <1>8
  <2>3. ExamineInv'
    <3>1. allMethods' \subseteq {n \in DOMAIN declared' : Reaches(n)'}
      BY <2>1, <1>3, <1>6
    <3>2. ASSUME NEW n \in Meant \ allMethods', n # found'
          PROVE  WasNot(n)
      <4>1. CASE n = m
        BY <4>1, <3>2, <2>2, <1>4, <1>5
      <4>2. CASE n # m
        BY <4>2, <3>2, <2>1, <2>2, <1>3, <1>4, <1>8
      <4> QED
        BY <4>1, <4>2
    <3>3. ASSUME found' # Null
          PROVE  found' \in Meant \ allMethods' /\ WasValid(found')
      BY <3>3, <2>1, <2>2, <1>3, <1>4, <1>5
    <3>4. found' # Null => WasValid(found)'
      BY <3>3, <1>1 DEF WasValid, IsExportable, world
    <3>5. \A n \in Meant' \ allMethods' : n # found' => WasNot(n)'
      BY <3>2, <1>6
    <3>6. found' # Null => found' \in Meant' \ allMethods'
      BY <3>3, <1>6
    <3> QED
      BY <3>1, <3>4, <3>5, <3>6 DEF ExamineInv
  <2>4. AnswerExplained'
    BY <2>1 DEF AnswerExplained
  <2> QED
    BY <1>2, <2>3, <2>4 DEF LookupInv
<1> QED
  BY <1>7, <1>8

LEMMA ExaminedInv ==
  ASSUME LookupInv, Examined
  PROVE  LookupInv'
<1> USE DEF Examined, Return
<1>1. UNCHANGED world /\ query' = query /\ policies' = policies /\ pc = "examine"
  OBVIOUS
<1>2. WorldInv' /\ GatherInv' /\ ExamineInv'
  BY DEF LookupInv, WorldInv, GatherInv, ExamineInv, Searching, world
<1>3. /\ \A n \in Meant : n # found => WasNot(n)
      /\ found # Null => found \in Meant /\ WasValid(found)
      /\ \A n \in Meant : n # Null
  BY LookupAssumption DEF LookupInv, ExamineInv, WorldInv, Meant
<1>4. \A q : Valid(q)' = Valid(q)
  BY <1>1, SameWorld DEF Valid
<1>5. Meant' = Meant /\ pc' = "returned" /\ answer' = found
  BY <1>1, SameWorld
<1>6. AnswerExplained'
  BY <1>1, <1>3, <1>4, <1>5 DEF AnswerExplained, Valid, WasValid, WasNot
<1> QED
  BY <1>2, <1>6 DEF LookupInv

-----------------------------------------------------------------------------
LEMMA LookupInvStep ==
  ASSUME LookupInv, PlainNames, [LookupNext]_vars
  PROVE  LookupInv'
<1>1. ASSUME NEW s \in BOOLEAN, NEW sig \in Signatures, Lookup(s, NumParameters[sig])
      PROVE  LookupInv'
  BY <1>1, BeginInv, LookupAssumption
<1>2. ASSUME NEW p \in Packages, NEW r \in BOOLEAN, SetRequiresExport(p, r)
      PROVE  LookupInv'
  BY <1>2, SetRequiresExportInv
<1>3. CASE SearchStep
  BY <1>3, GatherKeepsInv, GatheredInv, ExamineKeepsInv, ExaminedInv DEF SearchStep
<1>4. CASE UNCHANGED vars
  <2>1. UNCHANGED world /\ UNCHANGED search /\ policies' = policies
    BY <1>4 DEF vars
  <2>2. WorldInv' /\ GatherInv'
    BY <1>4, <2>1, SameWorld
    DEF vars, LookupInv, WorldInv, GatherInv, Searching, world, search
  <2>3. /\ \A n : WasValid(n)' <=> WasValid(n)
        /\ \A n : WasNot(n)' <=> WasNot(n)
        /\ \A q : Valid(q)' = Valid(q)
        /\ Meant' = Meant
    BY <2>1, SameWorld DEF search, WasValid, WasNot, Valid
  <2>4. ExamineInv' /\ AnswerExplained'
    BY <2>1, <2>3, SameWorld DEF LookupInv, ExamineInv, AnswerExplained, world, search
  <2> QED
    BY <2>2, <2>4 DEF LookupInv
<1> QED
  BY <1>1, <1>2, <1>3, <1>4 DEF LookupNext

(* Whatever classes declare and whenever the policy changes: an answer is  *)
(* never an overridden or hidden member, and it and the absence of one are *)
(* explained by what was exportable during the search.                     *)
THEOREM AnswerExplainedAlways ==
  ASSUME PlainNames
  PROVE  LookupSpec => []AnswerExplained
<1>1. LookupInit => LookupInv
  BY InitLookupInv
<1>2. LookupInv /\ [LookupNext]_vars => LookupInv'
  BY LookupInvStep, PlainNames
<1>3. LookupInv => AnswerExplained
  BY DEF LookupInv
<1> QED
  BY <1>1, <1>2, <1>3, PTL DEF LookupSpec

(* "There must be one (and only one) valid match" (line 127): while nobody *)
(* changes the policy, a search answers the only valid match, and nothing  *)
(* if there is none or more than one.                                      *)
OnlyMatch ==
  \A policy \in Policies :
    pc = "returned" /\ policies = {policy} =>
      /\ answer # Null => Valid(policy) = {answer}
      /\ answer = Null => \A m \in Members : Valid(policy) # {m}

(* For any chain of classes, what they declare, and any policy that stays  *)
(* as it is while the search runs.                                         *)
THEOREM OnlyMatchAnswered ==
  ASSUME PlainNames
  PROVE  LookupSpec => []OnlyMatch
<1>1. ASSUME AnswerExplained
      PROVE  OnlyMatch
  <2> SUFFICES ASSUME NEW policy \in Policies, pc = "returned", policies = {policy}
               PROVE  /\ answer # Null => Valid(policy) = {answer}
                      /\ answer = Null => \A m \in Members : Valid(policy) # {m}
    BY DEF OnlyMatch
  <2>1. CASE answer # Null
    <3>1. answer \in Valid(policy) /\ \A m \in Meant \ {answer} : m \notin Valid(policy)
      BY <1>1, <2>1 DEF AnswerExplained
    <3> QED
      BY <2>1, <3>1 DEF Valid
  <2>2. CASE answer = Null
    <3>1. \/ \A m \in Meant : m \notin Valid(policy)
          \/ \E m, n \in Meant : m # n /\ m \in Valid(policy) /\ n \in Valid(policy)
      BY <1>1, <2>2 DEF AnswerExplained
    <3> QED
      BY <2>2, <3>1 DEF Valid
  <2> QED
    BY <2>1, <2>2
<1> QED
  BY <1>1, AnswerExplainedAlways, PTL

-----------------------------------------------------------------------------
LEMMA NextPolicy ==
  ASSUME NEW p \in Packages, NEW r \in BOOLEAN, SetRequiresExport(p, r),
         sAnnotationRequiredPackages \in Policies
  PROVE  sAnnotationRequiredPackages' \in Policies
<1> DEFINE before == sAnnotationRequiredPackages
           D == DOMAIN before \union {p}
           after == [q \in D |-> IF q = p THEN r ELSE before[q]]
<1>1. DOMAIN before \subseteq Packages /\ \A q \in DOMAIN before : before[q] \in BOOLEAN
  BY DEF Policies
<1>2. after \in [D -> BOOLEAN] /\ D \subseteq Packages
  BY <1>1
<1>3. after \in Policies
  BY <1>2 DEF Policies
<1> QED
  BY <1>3 DEF SetRequiresExport

(* The variables of the model have their types in every state. *)
THEOREM LookupTypeCorrect == LookupSpec => []LookupTypeOK
<1>1. LookupInit => LookupTypeOK
  <2> SUFFICES ASSUME LookupInit PROVE LookupTypeOK
    OBVIOUS
  <2>1. PICK D \in SUBSET {m \in Declarable : ClassOf(m) \in Superclasses} :
          declared \in [D -> Attributes]
    BY DEF LookupInit
  <2>2. DOMAIN declared \subseteq Members /\ \A m \in DOMAIN declared : declared[m] \in Attributes
    BY <2>1, LookupAssumption
  <2>3. annotatedClasses \subseteq Classes
    BY LookupAssumption DEF LookupInit
  <2>4. sAnnotationRequiredPackages \in Policies
    <3>1. << >> \in [{} -> BOOLEAN]
      OBVIOUS
    <3> QED
      BY <3>1 DEF LookupInit, Policies
  <2> QED
    BY <2>2, <2>3, <2>4, LookupAssumption DEF LookupInit, LookupTypeOK
<1>2. ASSUME LookupTypeOK, [LookupNext]_vars
      PROVE  LookupTypeOK'
  <2> USE <1>2, LookupAssumption DEF LookupTypeOK, world
  <2>1. ASSUME NEW s \in BOOLEAN, NEW sig \in Signatures, Lookup(s, NumParameters[sig])
        PROVE  LookupTypeOK'
    BY <2>1 DEF Lookup
  <2>2. ASSUME NEW p \in Packages, NEW r \in BOOLEAN, SetRequiresExport(p, r)
        PROVE  LookupTypeOK'
    <3>1. sAnnotationRequiredPackages' \in Policies
      BY <2>2, NextPolicy
    <3>2. changes' \in 0..MaxPolicies
      BY <2>2 DEF SetRequiresExport
    <3>3. UNCHANGED world /\ UNCHANGED search
      BY <2>2 DEF SetRequiresExport
    <3>4. policies' = policies \union {sAnnotationRequiredPackages'} /\ policies \subseteq Policies
      BY <2>2 DEF SetRequiresExport
    <3> HIDE DEF LookupTypeOK
    <3>5. policies' \subseteq Policies
      BY <3>1, <3>4
    <3> QED
      BY <1>2, <3>1, <3>2, <3>3, <3>5 DEF search, LookupTypeOK
  <2>3. CASE Gather
    BY <2>3 DEF Gather, Put, DeclaredIn
  <2>4. CASE Gathered
    BY <2>4 DEF Gathered
  <2>5. ASSUME NEW m \in allMethods, Examine(m)
        PROVE  LookupTypeOK'
    BY <2>5 DEF Examine, Return
  <2>6. CASE Examined
    BY <2>6 DEF Examined, Return
  <2>7. CASE UNCHANGED vars
    BY <2>7 DEF vars, search
  <2> QED
    BY <2>1, <2>2, <2>3, <2>4, <2>5, <2>6, <2>7 DEF LookupNext, SearchStep
<1> QED
  BY <1>1, <1>2, PTL DEF LookupSpec

(* A package p gets the flag r.  Only packages inside of p notice, and only*)
(* if no longer one decides for them.                                      *)
LEMMA SetIsLocal ==
  ASSUME NEW p \in Packages, NEW r \in BOOLEAN, SetRequiresExport(p, r),
         sAnnotationRequiredPackages \in Policies,
         NEW pkg,
         DoesPackageRequireExport(sAnnotationRequiredPackages, pkg)
           # DoesPackageRequireExport(sAnnotationRequiredPackages', pkg)
  PROVE  LET before == sAnnotationRequiredPackages
             after == sAnnotationRequiredPackages'
         IN  /\ p \in DOMAIN after
             /\ p \notin DOMAIN before \/ before[p] # after[p]
             /\ IsPrefix(p, pkg)
             /\ \A q \in Matching(before, pkg) : Len(q) <= Len(p)
<1> DEFINE before == sAnnotationRequiredPackages
           after == sAnnotationRequiredPackages'
<1>1. /\ DOMAIN after = DOMAIN before \union {p}
      /\ after[p] = r
      /\ \A q \in DOMAIN before \ {p} : after[q] = before[q]
  BY DEF SetRequiresExport
<1>2. \A q \in DOMAIN after : Len(q) \in Nat
  BY <1>1, LookupAssumption DEF Policies
<1> HIDE DEF before, after
<1>3. Matching(after, pkg) \ {p} = Matching(before, pkg) \ {p}
  BY <1>1 DEF Matching
<1>4. Matching(before, pkg) \subseteq DOMAIN before /\ Matching(after, pkg) \subseteq DOMAIN after
  BY DEF Matching
<1>5. DoesPackageRequireExport(before, pkg) # DoesPackageRequireExport(after, pkg)
  BY DEF before, after
<1>6. IsPrefix(p, pkg)
  <2>1. SUFFICES ASSUME ~IsPrefix(p, pkg) PROVE FALSE
    OBVIOUS
  <2>2. Matching(after, pkg) = Matching(before, pkg) /\ p \notin Matching(after, pkg)
    BY <2>1, <1>1 DEF Matching
  <2>3. \A q \in Matching(before, pkg) : after[q] = before[q]
    BY <2>2, <1>1, <1>4
  <2> QED
    BY <2>2, <2>3, <1>5 DEF DoesPackageRequireExport
<1>7. p \notin DOMAIN before \/ before[p] # after[p]
  <2>1. SUFFICES ASSUME p \in DOMAIN before, before[p] = after[p] PROVE FALSE
    OBVIOUS
  <2>2. Matching(after, pkg) = Matching(before, pkg)
    BY <2>1, <1>1 DEF Matching
  <2>3. \A q \in Matching(before, pkg) : after[q] = before[q]
    BY <2>1, <1>1, <1>4
  <2> QED
    BY <2>2, <2>3, <1>5 DEF DoesPackageRequireExport
<1>8. ASSUME NEW q \in Matching(before, pkg), ~(Len(q) <= Len(p))
      PROVE  FALSE
  <2>1. /\ p \in DOMAIN after /\ q \in DOMAIN after /\ q # p
        /\ Len(p) < Len(q)
    BY <1>1, <1>2, <1>4, <1>8
  <2>2. q \in Matching(after, pkg) /\ Matching(before, pkg) \subseteq Matching(after, pkg)
    BY <1>1, <1>3, <2>1, <1>8, <1>6 DEF Matching
  <2>3. ASSUME NEW x \in Matching(after, pkg), after[x],
               \A y \in Matching(after, pkg) : Len(y) <= Len(x)
        PROVE  DoesPackageRequireExport(before, pkg)
    <3>1. x # p
      BY <2>1, <2>2, <2>3, <1>2, <1>4
    <3>2. x \in Matching(before, pkg) /\ before[x]
      BY <3>1, <1>1, <1>3, <1>4, <2>3
    <3> QED
      BY <3>2, <2>2, <2>3 DEF DoesPackageRequireExport
  <2>4. ASSUME NEW x \in Matching(before, pkg), before[x],
               \A y \in Matching(before, pkg) : Len(y) <= Len(x)
        PROVE  DoesPackageRequireExport(after, pkg)
    <3>1. Len(q) <= Len(x) /\ x \in DOMAIN after /\ x \in Matching(after, pkg)
      BY <2>4, <1>8, <2>2, <1>1, <1>4
    <3>2. x # p /\ after[x] = before[x]
      BY <3>1, <2>1, <1>1, <1>2, <1>4
    <3>3. \A y \in Matching(after, pkg) : Len(y) <= Len(x)
      <4> SUFFICES ASSUME NEW y \in Matching(after, pkg) PROVE Len(y) <= Len(x)
        OBVIOUS
      <4>1. CASE y = p
        BY <4>1, <3>1, <2>1, <1>2
      <4>2. CASE y # p
        BY <4>2, <1>3, <2>4
      <4> QED
        BY <4>1, <4>2
    <3> QED
      BY <3>1, <3>2, <3>3, <2>4 DEF DoesPackageRequireExport
  <2> QED
    BY <2>3, <2>4, <1>5 DEF DoesPackageRequireExport
<1> QED
  BY <1>1, <1>6, <1>7, <1>8 DEF before, after

(* Configuring a package changes nothing for packages outside of it, nor   *)
(* for those that a longer configured package decides.                     *)
THEOREM PolicyIsLocalAlways == LookupSpec => PolicyIsLocal
<1> DEFINE Local ==
      \A pkg \in Range(PackageOf) :
        LET before == sAnnotationRequiredPackages
            after == sAnnotationRequiredPackages'
        IN  DoesPackageRequireExport(before, pkg) # DoesPackageRequireExport(after, pkg)
              => \E p \in DOMAIN after :
                   /\ p \notin DOMAIN before \/ before[p] # after[p]
                   /\ IsPrefix(p, pkg)
                   /\ \A q \in Matching(before, pkg) : Len(q) <= Len(p)
<1>1. ASSUME LookupTypeOK, [LookupNext]_vars
      PROVE  [Local]_vars
  <2>1. ASSUME NEW p \in Packages, NEW r \in BOOLEAN, SetRequiresExport(p, r)
        PROVE  Local
    BY <1>1, <2>1, SetIsLocal DEF LookupTypeOK
  <2>2. CASE UNCHANGED sAnnotationRequiredPackages
    BY <2>2
  <2>3. ASSUME NEW s \in BOOLEAN, NEW sig \in Signatures, Lookup(s, NumParameters[sig])
        PROVE  UNCHANGED sAnnotationRequiredPackages
    BY <2>3 DEF Lookup
  <2>4. SearchStep => UNCHANGED sAnnotationRequiredPackages
    BY DEF SearchStep, Gather, Gathered, Examine, Examined
  <2>5. UNCHANGED vars => UNCHANGED sAnnotationRequiredPackages
    BY DEF vars
  <2> QED
    BY <1>1, <2>1, <2>2, <2>3, <2>4, <2>5 DEF LookupNext
<1> QED
  BY <1>1, LookupTypeCorrect, PTL DEF LookupSpec, PolicyIsLocal
=============================================================================
