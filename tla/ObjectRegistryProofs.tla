------------------------ MODULE ObjectRegistryProofs ------------------------
(***************************************************************************)
(* Proofs about ObjectRegistry for any finite set of vehicles, any set of  *)
(* addresses and any set of requests.                                      *)
(*                                                                         *)
(* The manager's end handler adds and removes objects one by one, in the   *)
(* order of a flattened sequence; what FlattenSeq returns is proved first. *)
(* Its definition is recursive, so the facts are proved for the smallest   *)
(* prefix that would violate them.                                         *)
(***************************************************************************)
EXTENDS ObjectRegistry, FiniteSetTheorems, TLAPS

-----------------------------------------------------------------------------
(* The smallest element, and flattened sequences.                          *)

\* A set of naturals that is not empty has a smallest element.
LEMMA SmallestExists ==
    ASSUME NEW T, T \subseteq Nat, T # {}
    PROVE  \E x \in T : \A y \in T : x <= y
<1>1. IsWellFoundedOn(OpToRel(<, Nat), Nat)
  BY NatLessThanWellFounded
<1>2. PICK x \in T : \A y \in T : ~ (<<y, x>> \in OpToRel(<, Nat))
  BY <1>1, WFMin
<1>3. \A y \in T : x <= y
  <2> SUFFICES ASSUME NEW y \in T, y < x PROVE FALSE
    OBVIOUS
  <2>1. <<y, x>> \in OpToRel(<, Nat)
    BY DEF OpToRel
  <2> QED
    BY <2>1, <1>2
<1> QED
  BY <1>3

\* f is the recursive function of FlattenSeq on the first n members of seqs.
Flattens(f, seqs, n) ==
    f = [i \in 1..n |-> IF i = 1 THEN seqs[i] ELSE f[i - 1] \o seqs[i]]

\* The recursive function of FlattenSeq exists.
LEMMA FlattenExists ==
    ASSUME NEW seqs, NEW n \in Nat
    PROVE  \E f : Flattens(f, seqs, n)
<1> DEFINE T == { k \in Nat : ~ \E f : Flattens(f, seqs, k) }
<1> SUFFICES ASSUME T # {} PROVE FALSE
  OBVIOUS
<1>1. PICK k \in T : \A y \in T : k <= y
  BY SmallestExists
<1>2. CASE k = 0
  <2>1. Flattens([i \in 1..0 |-> <<>>], seqs, 0)
    BY DEF Flattens
  <2> QED
    BY <2>1, <1>2
<1>3. CASE k # 0
  <2>1. k - 1 \in Nat /\ k - 1 \notin T
    BY <1>1, <1>3
  <2>2. PICK g : Flattens(g, seqs, k - 1)
    BY <2>1
  <2>3. PICK h : h = [i \in 1..k |->
                        IF i = 1 THEN seqs[i]
                        ELSE IF i = k THEN g[k - 1] \o seqs[k] ELSE g[i]]
    OBVIOUS
  <2>4. DOMAIN h = 1..k /\ \A i \in 1..(k - 1) : h[i] = g[i]
    <3>1. ASSUME NEW i \in 1..(k - 1) PROVE h[i] = g[i]
      <4>1. i \in 1..k /\ i # k
        OBVIOUS
      <4>2. g[i] = IF i = 1 THEN seqs[i] ELSE g[i - 1] \o seqs[i]
        BY <2>2 DEF Flattens
      <4> QED
        BY <4>1, <4>2, <2>3
    <3> QED
      BY <3>1, <2>3
  <2>5. ASSUME NEW i \in 1..k
        PROVE  h[i] = IF i = 1 THEN seqs[i] ELSE h[i - 1] \o seqs[i]
    <3>1. CASE i = 1
      BY <3>1, <2>3
    <3>2. CASE i # 1
      <4>1. i - 1 \in 1..(k - 1) /\ h[i - 1] = g[i - 1]
        BY <3>2, <2>4
      <4>2. CASE i = k
        BY <4>1, <4>2, <3>2, <2>3
      <4>3. CASE i # k
        <5>1. i \in 1..(k - 1)
          BY <4>3
        <5>2. g[i] = g[i - 1] \o seqs[i]
          BY <5>1, <3>2, <2>2 DEF Flattens
        <5> QED
          BY <5>1, <5>2, <4>1, <2>4, <3>2
      <4> QED
        BY <4>2, <4>3
    <3> QED
      BY <3>1, <3>2
  <2>6. h = [i \in 1..k |-> h[i]]
    BY <2>3
  <2>7. Flattens(h, seqs, k)
    BY <2>5, <2>6 DEF Flattens
  <2> QED
    BY <2>7
<1> QED
  BY <1>2, <1>3

\* FlattenSeq is the last value of that function.
LEMMA FlattenSeqLast ==
    ASSUME NEW seqs, Len(seqs) \in Nat \ {0}
    PROVE  \E f : Flattens(f, seqs, Len(seqs)) /\ FlattenSeq(seqs) = f[Len(seqs)]
<1>1. PICK f : f = CHOOSE g : Flattens(g, seqs, Len(seqs))
  OBVIOUS
<1>2. Flattens(f, seqs, Len(seqs))
  BY <1>1, FlattenExists
<1>3. FlattenSeq(seqs) = f[Len(seqs)]
  BY <1>1, Len(seqs) # 0 DEF FlattenSeq, Flattens
<1> QED
  BY <1>2, <1>3

\* The elements of a concatenation, and when they are distinct.
LEMMA ConcatFacts ==
    ASSUME NEW S, NEW s \in Seq(S), NEW t \in Seq(S)
    PROVE  /\ s \o t \in Seq(S)
           /\ Range(s \o t) = Range(s) \cup Range(t)
           /\ IsInjective(s) /\ IsInjective(t) /\ Range(s) \cap Range(t) = {}
                => IsInjective(s \o t)
<1>1. PICK m : m = Len(s)
  OBVIOUS
<1>2. PICK n : n = Len(t)
  OBVIOUS
<1>3. PICK c : c = s \o t
  OBVIOUS
<1>4. m \in Nat /\ n \in Nat /\ DOMAIN s = 1..m /\ DOMAIN t = 1..n
  BY <1>1, <1>2
<1>5. DOMAIN c = 1..(m + n) /\ c \in Seq(S)
  BY <1>1, <1>2, <1>3
<1>6. \A i \in 1..m : c[i] = s[i]
  BY <1>1, <1>2, <1>3
<1>7. \A i \in 1..n : c[m + i] = t[i]
  BY <1>1, <1>2, <1>3
<1>8. \A i \in 1..(m + n) : i \notin 1..m => i - m \in 1..n /\ c[i] = t[i - m]
  <2> TAKE i \in 1..(m + n)
  <2>1. CASE i \in 1..m
    BY <2>1
  <2>2. CASE i \notin 1..m
    <3>1. i - m \in 1..n /\ m + (i - m) = i
      BY <2>2, <1>4
    <3> QED
      BY <3>1, <1>7
  <2> QED
    BY <2>1, <2>2
<1>9. Range(c) = Range(s) \cup Range(t)
  <2>1. ASSUME NEW i \in 1..(m + n) PROVE c[i] \in Range(s) \cup Range(t)
    BY <1>4, <1>6, <1>8 DEF Range
  <2>2. ASSUME NEW i \in 1..m PROVE s[i] \in Range(c)
    <3>1. i \in 1..(m + n)
      BY <1>4
    <3> QED
      BY <3>1, <1>5, <1>6 DEF Range
  <2>3. ASSUME NEW i \in 1..n PROVE t[i] \in Range(c)
    <3>1. m + i \in 1..(m + n)
      BY <1>4
    <3> QED
      BY <3>1, <1>5, <1>7 DEF Range
  <2> QED
    BY <2>1, <2>2, <2>3, <1>4, <1>5 DEF Range
<1>10. ASSUME IsInjective(s), IsInjective(t), Range(s) \cap Range(t) = {}
       PROVE  IsInjective(c)
  <2> SUFFICES ASSUME NEW i \in 1..(m + n), NEW j \in 1..(m + n), c[i] = c[j]
               PROVE  i = j
    BY <1>5 DEF IsInjective
  <2>1. CASE i \in 1..m /\ j \in 1..m
    BY <2>1, <1>4, <1>6, <1>10 DEF IsInjective
  <2>2. CASE i \in 1..m /\ j \notin 1..m
    <3>1. c[i] \in Range(s)
      BY <2>2, <1>4, <1>6 DEF Range
    <3>2. c[j] \in Range(t)
      BY <2>2, <1>4, <1>8 DEF Range
    <3> QED
      BY <3>1, <3>2, <1>10
  <2>3. CASE i \notin 1..m /\ j \in 1..m
    <3>1. c[j] \in Range(s)
      BY <2>3, <1>4, <1>6 DEF Range
    <3>2. c[i] \in Range(t)
      BY <2>3, <1>4, <1>8 DEF Range
    <3> QED
      BY <3>1, <3>2, <1>10
  <2>4. CASE i \notin 1..m /\ j \notin 1..m
    <3>1. i - m \in 1..n /\ j - m \in 1..n /\ t[i - m] = t[j - m]
      BY <2>4, <1>8
    <3>2. i - m = j - m
      BY <3>1, <1>4, <1>10 DEF IsInjective
    <3> QED
      BY <3>2, <1>4
  <2> QED
    BY <2>1, <2>2, <2>3, <2>4
<1> QED
  BY <1>3, <1>5, <1>9, <1>10

\* Sequences whose members have distinct elements and none in common.
Apart(seqs) ==
    /\ \A i \in DOMAIN seqs : IsInjective(seqs[i])
    /\ \A i, j \in DOMAIN seqs : i # j => Range(seqs[i]) \cap Range(seqs[j]) = {}

\* FlattenSeq returns the elements of the members, and each once if each
\* occurs once in one member.
LEMMA FlattenFacts ==
    ASSUME NEW S, NEW seqs \in Seq(Seq(S))
    PROVE  /\ FlattenSeq(seqs) \in Seq(S)
           /\ Range(FlattenSeq(seqs)) = UNION { Range(seqs[i]) : i \in DOMAIN seqs }
           /\ Apart(seqs) => IsInjective(FlattenSeq(seqs))
<1>1. PICK n : n = Len(seqs)
  OBVIOUS
<1>2. n \in Nat /\ DOMAIN seqs = 1..n
  BY <1>1
<1>3. CASE n = 0
  <2>1. seqs = <<>>
    <3>1. Len(seqs) = 0
      BY <1>1, <1>3
    <3> QED
      BY <3>1
  <2>2. FlattenSeq(seqs) = <<>>
    BY <2>1, <1>1, <1>3 DEF FlattenSeq
  <2>3. DOMAIN <<>> = {}
    OBVIOUS
  <2>4. <<>> \in Seq(S) /\ Range(<<>>) = {} /\ IsInjective(<<>>)
    BY <2>3 DEF Range, IsInjective
  <2>5. UNION { Range(seqs[i]) : i \in DOMAIN seqs } = {}
    BY <2>1, <2>3
  <2> QED
    BY <2>2, <2>4, <2>5
<1>4. CASE n # 0
  <2>1. PICK f : Flattens(f, seqs, n) /\ FlattenSeq(seqs) = f[n]
    BY <1>1, <1>2, <1>4, FlattenSeqLast
  <2> DEFINE Good(k) ==
        /\ f[k] \in Seq(S)
        /\ \A x : x \in Range(f[k]) <=> \E i \in 1..k : x \in Range(seqs[i])
        /\ Apart(seqs) => IsInjective(f[k])
      T == { k \in 1..n : ~ Good(k) }
  <2>2. Good(1)
    <3>1. 1 \in 1..n
      BY <1>2, <1>4
    <3>4. f[1] = seqs[1] /\ seqs[1] \in Seq(S)
      BY <3>1, <2>1, <1>1, <1>2 DEF Flattens
    <3>2. \A i \in 1..1 : i = 1
      OBVIOUS
    <3> QED
      BY <3>1, <3>2, <3>4, <1>2 DEF Apart
  <2>3. ASSUME NEW k \in 2..n, Good(k - 1) PROVE Good(k)
    <3>0. k \in 1..n /\ k # 1
      BY <1>2
    <3>1. k \in 1..n /\ f[k] = f[k - 1] \o seqs[k]
      BY <3>0, <2>1 DEF Flattens
    <3>2. f[k - 1] \in Seq(S) /\ seqs[k] \in Seq(S)
      BY <2>3, <3>1, <1>1
    <3>3. \A i : i \in 1..k <=> i \in 1..(k - 1) \/ i = k
      BY <3>1
    <3>4. f[k] \in Seq(S) /\ Range(f[k]) = Range(f[k - 1]) \cup Range(seqs[k])
      BY <3>1, <3>2, ConcatFacts
    <3>5. \A x : x \in Range(f[k - 1]) <=> \E i \in 1..(k - 1) : x \in Range(seqs[i])
      BY <2>3
    <3>6. \A x : x \in Range(f[k]) <=> \E i \in 1..k : x \in Range(seqs[i])
      BY <3>3, <3>4, <3>5
    <3>7. ASSUME Apart(seqs) PROVE IsInjective(f[k])
      <4>1. Range(f[k - 1]) \cap Range(seqs[k]) = {}
        <5>1. \A i \in 1..(k - 1) : i \in 1..n /\ i # k
          BY <1>2
        <5>2. \A i \in 1..(k - 1) : Range(seqs[i]) \cap Range(seqs[k]) = {}
          BY <5>1, <3>1, <3>7, <1>2 DEF Apart
        <5> QED
          BY <5>2, <3>5
      <4>2. IsInjective(f[k - 1]) /\ IsInjective(seqs[k])
        BY <2>3, <3>1, <3>7, <1>2 DEF Apart
      <4> QED
        BY <4>1, <4>2, <3>1, <3>2, ConcatFacts
    <3> QED
      BY <3>4, <3>6, <3>7
  <2> HIDE DEF Good
  <2>4. T = {}
    <3> SUFFICES ASSUME T # {} PROVE FALSE
      OBVIOUS
    <3>1. PICK k \in T : \A y \in T : k <= y
      <4>1. T \subseteq Nat
        OBVIOUS
      <4> HIDE DEF T
      <4> QED
        BY <4>1, SmallestExists
    <3>2. k \in 1..n /\ ~ Good(k)
      OBVIOUS
    <3>3. k # 1
      BY <2>2, <3>2
    <3>4. k \in 2..n /\ k - 1 \in 1..n /\ k - 1 \notin T
      BY <3>1, <3>2, <3>3, <1>2
    <3>5. Good(k - 1)
      BY <3>4
    <3> QED
      BY <3>2, <3>4, <3>5, <2>3
  <2>5. Good(n)
    <3>1. n \in 1..n
      BY <1>2, <1>4
    <3> QED
      BY <2>4, <3>1
  <2>6. Range(FlattenSeq(seqs)) = UNION { Range(seqs[i]) : i \in DOMAIN seqs }
    BY <2>1, <2>5, <1>2 DEF Good
  <2> QED
    BY <2>1, <2>5, <2>6 DEF Good
<1> QED
  BY <1>3, <1>4

-----------------------------------------------------------------------------
(* Operators of the model.                                                 *)

\* A set of one element as a sequence.
LEMMA SingletonSeq ==
    ASSUME NEW x
    PROVE  SetToSeq({x}) = <<x>>
<1>1. Cardinality({x}) = 1
  BY FS_Singleton
<1>2. PICK f : f = SetToSeq({x})
  OBVIOUS
<1>3. [i \in 1..1 |-> x] \in [1..1 -> {x}] /\ IsInjective([i \in 1..1 |-> x])
  BY DEF IsInjective
<1>4. f \in [1..1 -> {x}]
  BY <1>1, <1>2, <1>3 DEF SetToSeq
<1>5. f = [i \in 1..1 |-> x]
  BY <1>4
<1>6. <<x>> = [i \in 1..1 |-> x]
  OBVIOUS
<1> QED
  BY <1>2, <1>5, <1>6

\* An order of a finite set is a sequence without repetition.
LEMMA OrderOfSet ==
    ASSUME NEW S, IsFiniteSet(S), NEW s \in SetToSeqs(S)
    PROVE  /\ s \in Seq(S)
           /\ \A i, j \in DOMAIN s : i # j => s[i] # s[j]
<1>1. Cardinality(S) \in Nat
  BY FS_CardinalityType
<1>2. PICK n \in Nat : n = Cardinality(S)
  BY <1>1
<1>3. s \in [1..n -> S] /\ \A i, j \in 1..n : i # j => s[i] # s[j]
  BY <1>2 DEF SetToSeqs
<1> QED
  BY <1>3

\* Three sequences of one element joined.
LEMMA ThreeJoined ==
    ASSUME NEW a, NEW b, NEW c
    PROVE  <<a>> \o <<b>> \o <<c>> = <<a, b, c>>
<1>1. PICK S : S = {a, b, c}
  OBVIOUS
<1>2. <<a>> \in Seq(S) /\ <<b>> \in Seq(S) /\ <<c>> \in Seq(S)
  BY <1>1
<1>3. PICK x \in Seq(S) : x = <<a>>
  BY <1>2
<1>4. PICK y \in Seq(S) : y = <<b>>
  BY <1>2
<1>5. PICK z \in Seq(S) : z = <<c>>
  BY <1>2
<1>6. Len(x) = 1 /\ Len(y) = 1 /\ Len(z) = 1 /\ x[1] = a /\ y[1] = b /\ z[1] = c
  BY <1>3, <1>4, <1>5
<1>7. PICK p : p = x \o y
  OBVIOUS
<1>8. p \in Seq(S)
  BY <1>3, <1>4, <1>7, ConcatFacts
<1>9. Len(p) = 2 /\ p[1] = a /\ p[2] = b
  BY <1>3, <1>4, <1>6, <1>7
<1>10. PICK t : t = p \o z
  OBVIOUS
<1>11. t \in Seq(S)
  BY <1>5, <1>8, <1>10, ConcatFacts
<1>12. Len(t) = 3 /\ t[1] = a /\ t[2] = b /\ t[3] = c
  <2>1. Len(t) = Len(p) + Len(z)
    BY <1>5, <1>8, <1>10
  <2>2. \A i \in 1..2 : t[i] = p[i]
    BY <1>5, <1>8, <1>9, <1>10
  <2>3. \A i \in 1..Len(z) : t[Len(p) + i] = z[i]
    BY <1>5, <1>8, <1>10
  <2>4. t[Len(p) + 1] = z[1]
    BY <2>3, <1>6
  <2> QED
    BY <2>1, <2>2, <2>4, <1>6, <1>9
<1>13. t = <<a, b, c>>
  BY <1>11, <1>12
<1> QED
  BY <1>3, <1>4, <1>5, <1>7, <1>10, <1>13

\* The objects of a vehicle, by name.
ObjectsOf(v) == {v} \X Range(Parts)

\* The three objects of a vehicle.
LEMMA PartNames == Range(Parts) = {"Microchannel", "VehicleObject", "Router"}
<1>1. DOMAIN Parts = 1..3 /\ Parts[1] = "Microchannel" /\ Parts[2] = "VehicleObject"
        /\ Parts[3] = "Router"
  BY DEF Parts
<1>2. \A i : i \in 1..3 <=> i = 1 \/ i = 2 \/ i = 3
  OBVIOUS
<1> QED
  BY <1>1, <1>2 DEF Range

\* What a new vehicle consists of.
LEMMA AddedObjects ==
    ASSUME NEW v \in Vehicles
    PROVE  ObjectsToAdd(v) \in Seq(ObjectIds) /\ Range(ObjectsToAdd(v)) = ObjectsOf(v)
<1>1. DOMAIN Parts = 1..3
  BY DEF Parts
<1>2. ObjectsToAdd(v) = [i \in 1..3 |-> <<v, Parts[i]>>]
  BY <1>1 DEF ObjectsToAdd
<1>3. \A i \in 1..3 : <<v, Parts[i]>> \in ObjectIds
  BY <1>1 DEF ObjectIds, Range
<1>4. ObjectsToAdd(v) \in Seq(ObjectIds)
  BY <1>2, <1>3
<1>5. Range(ObjectsToAdd(v)) = ObjectsOf(v)
  BY <1>1, <1>2 DEF Range, ObjectsOf
<1> QED
  BY <1>4, <1>5

\* A vehicle that is wholly in the container is found with its microchannel
\* and its router, each of them once.
LEMMA DeletedObjects ==
    ASSUME NEW v \in Vehicles, NEW container \in Containers,
           ObjectsOf(v) \subseteq container.mActiveObjects
    PROVE  /\ ObjectsToDelete(v, container) \in Seq(ObjectIds)
           /\ Range(ObjectsToDelete(v, container)) = ObjectsOf(v)
           /\ IsInjective(ObjectsToDelete(v, container))
<1> DEFINE o == <<v, "VehicleObject">>
           m == <<v, "Microchannel">>
           r == <<v, "Router">>
<1>1. ObjectsOf(v) = {o, m, r}
  BY PartNames DEF ObjectsOf
<1>2. Parents(o) = {m}
  BY DEF Parents, TempParents
<1>3. ParentsByName(o, "Microchannel", container) = {m}
  BY <1>1, <1>2 DEF ParentsByName
<1>4. Children(m) = {o, r}
  BY DEF Children, TempChildren
<1>5. SiblingsByName(o, "Router", container) = {r}
  <2>1. Parents(o) \cap container.mActiveObjects = {m}
    BY <1>1, <1>2
  <2>2. UNION { Children(p) : p \in Parents(o) \cap container.mActiveObjects } = {o, r}
    BY <2>1, <1>4
  <2> QED
    BY <2>2, <1>1 DEF SiblingsByName
<1>6. ObjectsToDelete(v, container) = <<o>> \o <<m>> \o <<r>>
  BY <1>3, <1>5, SingletonSeq DEF ObjectsToDelete
<1>7. ObjectsToDelete(v, container) = <<o, m, r>>
  BY <1>6, ThreeJoined
<1>8. {o, m, r} \subseteq ObjectIds
  BY PartNames DEF ObjectIds
<1>9. <<o, m, r>> \in Seq(ObjectIds)
  BY <1>8
<1>10. Range(<<o, m, r>>) = {o, m, r}
  <2>1. \A i : i \in 1..3 <=> i = 1 \/ i = 2 \/ i = 3
    OBVIOUS
  <2> QED
    BY <2>1 DEF Range
<1>11. IsInjective(<<o, m, r>>)
  <2>1. \A i : i \in 1..3 <=> i = 1 \/ i = 2 \/ i = 3
    OBVIOUS
  <2>2. o # m /\ m # r /\ o # r
    OBVIOUS
  <2> QED
    BY <2>1, <2>2 DEF IsInjective
<1> QED
  BY <1>1, <1>7, <1>9, <1>10, <1>11

-----------------------------------------------------------------------------
(* The invariants.                                                         *)

\* What the core changed last is what it published.
Published == memory[mCurrentCopy] = mWorkingCopy

\* While the manager's fiber computes no handler changes the objects by
\* halves, and none of the objects it sees has been removed since.
ManagerIsCurrent ==
    snapshot[Manager] # None =>
        /\ CoreIdle
        /\ memory[snapshot[Manager]].mActiveObjects \subseteq mWorkingCopy.mActiveObjects

\* The active objects when the running end handler is through.
ToBeActive == (mWorkingCopy.mActiveObjects \cup Range(adding)) \ Range(removing)

\* It leaves whole vehicles.
EndsWhole == Whole([mActiveObjects |-> ToBeActive])

\* Every object with an init action was added, or is about to be.
ScheduledKnown ==
    scheduled \subseteq mWorkingCopy.mActiveObjects \cup mWorkingCopy.mRemovedObjects
                          \cup Range(adding)

\* A weak pointer that has not expired points to a container in use.
LastIsHeld ==
    \A v \in Vehicles :
        mLastObjectContainer[v] # None => mLastObjectContainer[v] \in Held(mCurrentCopy, snapshot)

RegistryInv ==
    /\ TypeOK
    /\ Published
    /\ ManagerIsCurrent
    /\ EndsWhole
    /\ WholeVehicles
    /\ ScheduledKnown
    /\ RemovalsAreActive
    /\ LastIsHeld
    /\ CacheIsExact

-----------------------------------------------------------------------------
(* Publishing.                                                             *)

\* Publish leaves every container in use as it is and forgets no pointer to
\* one.
LEMMA PublishFacts ==
    ASSUME RegistryInv, NEW container \in Containers, Publish(container),
           UNCHANGED snapshot
    PROVE  /\ mWorkingCopy' = container
           /\ mCurrentCopy' \in Addresses
           /\ memory' \in [Addresses -> Containers]
           /\ mLastObjectContainer' \in [Vehicles -> Addresses \cup {None}]
           /\ mCachedRequests' = mCachedRequests
           /\ Published'
           /\ \A f \in Fibers : snapshot[f] # None => memory'[snapshot[f]] = memory[snapshot[f]]
           /\ WholeVehicles'
           /\ LastIsHeld'
           /\ CacheIsExact'
<1> USE DEF RegistryInv, TypeOK
<1>1. PICK a \in Addresses :
        /\ Free(a)
        /\ mWorkingCopy' = container
        /\ memory' = [memory EXCEPT ![a] = container]
        /\ mCurrentCopy' = a
        /\ mLastObjectContainer' = Expired(mLastObjectContainer, a, snapshot)
        /\ UNCHANGED mCachedRequests
  BY DEF Publish
<1>2. memory' \in [Addresses -> Containers] /\ memory'[a] = container
  BY <1>1
<1>3. \A b \in Held(mCurrentCopy, snapshot) : b # a /\ memory'[b] = memory[b]
  BY <1>1 DEF Free
<1>4. \A f \in Fibers : snapshot[f] # None =>
        snapshot[f] \in Held(mCurrentCopy, snapshot) /\ memory'[snapshot[f]] = memory[snapshot[f]]
  BY <1>3 DEF Held
<1>5. Published'
  BY <1>1, <1>2 DEF Published
<1>6. WholeVehicles'
  <2> SUFFICES ASSUME NEW f \in Fibers, snapshot[f] # None
               PROVE  Whole(memory'[snapshot[f]])
    BY DEF WholeVehicles
  <2>1. Whole(memory[snapshot[f]])
    BY DEF WholeVehicles
  <2> QED
    BY <2>1, <1>4
<1>7. \A v \in Vehicles : mLastObjectContainer'[v] # None =>
        /\ mLastObjectContainer'[v] = mLastObjectContainer[v]
        /\ mLastObjectContainer'[v] \in Held(mCurrentCopy', snapshot')
        /\ mLastObjectContainer[v] \in Held(mCurrentCopy, snapshot)
  BY <1>1 DEF Expired, LastIsHeld
<1>8. mLastObjectContainer' \in [Vehicles -> Addresses \cup {None}]
  BY <1>1 DEF Expired
<1>9. CacheIsExact'
  <2> SUFFICES ASSUME NEW v \in Vehicles, NEW r \in DOMAIN mCachedRequests[v],
                      mLastObjectContainer'[v] \in Held(mCurrentCopy', snapshot')
               PROVE  mCachedRequests[v][r] = Search(memory'[mLastObjectContainer'[v]], r, v)
    BY <1>1 DEF CacheIsExact
  <2>1. mLastObjectContainer'[v] # None
    BY DEF Held
  <2>2. mCachedRequests[v][r] = Search(memory[mLastObjectContainer[v]], r, v)
    BY <2>1, <1>7 DEF CacheIsExact
  <2> QED
    BY <2>1, <2>2, <1>3, <1>7
<1> QED
  BY <1>1, <1>2, <1>4, <1>5, <1>6, <1>7, <1>8, <1>9 DEF LastIsHeld

\* The head and the tail of a sequence are its elements.
LEMMA HeadAndTail ==
    ASSUME NEW S, NEW s \in Seq(S), s # <<>>
    PROVE  /\ Head(s) \in S
           /\ Tail(s) \in Seq(S)
           /\ Range(s) = {Head(s)} \cup Range(Tail(s))
           /\ IsInjective(s) => IsInjective(Tail(s)) /\ Head(s) \notin Range(Tail(s))
<1>1. PICK n : n = Len(s)
  OBVIOUS
<1>2. n \in Nat /\ n # 0 /\ DOMAIN s = 1..n
  BY <1>1
<1>3. PICK t : t = Tail(s)
  OBVIOUS
<1>4. t \in Seq(S) /\ DOMAIN t = 1..(n - 1) /\ \A i \in 1..(n - 1) : t[i] = s[i + 1]
  BY <1>1, <1>2, <1>3
<1>5. Head(s) = s[1] /\ s[1] \in S /\ 1 \in 1..n
  BY <1>1, <1>2
<1>6. \A i \in 1..n : i # 1 => i - 1 \in 1..(n - 1) /\ (i - 1) + 1 = i
  BY <1>2
<1>7. \A i \in 1..n : i # 1 => i - 1 \in DOMAIN t /\ s[i] = t[i - 1]
  BY <1>4, <1>6
<1>8. \A i \in 1..(n - 1) : i + 1 \in 1..n /\ i + 1 # 1
  BY <1>2
<1>9. Range(s) = {s[1]} \cup Range(t)
  <2>1. ASSUME NEW i \in 1..n PROVE s[i] \in {s[1]} \cup Range(t)
    BY <1>7 DEF Range
  <2>2. ASSUME NEW i \in 1..(n - 1) PROVE t[i] \in Range(s)
    BY <1>2, <1>4, <1>8 DEF Range
  <2>3. s[1] \in Range(s)
    BY <1>2, <1>5 DEF Range
  <2> QED
    BY <2>1, <2>2, <2>3, <1>2, <1>4 DEF Range
<1>10. ASSUME IsInjective(s) PROVE IsInjective(t) /\ s[1] \notin Range(t)
  <2>1. ASSUME NEW i \in 1..(n - 1), NEW j \in 1..(n - 1), t[i] = t[j] PROVE i = j
    <3>1. s[i + 1] = s[j + 1]
      BY <2>1, <1>4
    <3>2. i + 1 = j + 1
      BY <3>1, <1>2, <1>8, <1>10 DEF IsInjective
    <3> QED
      BY <3>2, <1>2
  <2>2. ASSUME NEW i \in 1..(n - 1) PROVE t[i] # s[1]
    BY <1>2, <1>4, <1>5, <1>8, <1>10 DEF IsInjective
  <2> QED
    BY <2>1, <2>2, <1>4 DEF IsInjective, Range
<1> QED
  BY <1>3, <1>4, <1>5, <1>9, <1>10

\* A function on 1..n into T is a sequence of members of T.
LEMMA EachInSeq ==
    ASSUME NEW T, NEW n \in Nat, NEW f, f = [i \in 1..n |-> f[i]],
           \A i \in 1..n : f[i] \in T
    PROVE  f \in Seq(T)
<1>1. f \in [1..n -> T]
  BY Zenon
<1> QED
  BY <1>1

\* What the end handler decides: vehicles it saw wholly are removed, each of
\* their objects once; new vehicles are added wholly.
LEMMA EndManagerFacts ==
    ASSUME RegistryInv, EndManager
    PROVE  /\ adding' \in Seq(ObjectIds)
           /\ removing' \in Seq(ObjectIds)
           /\ IsInjective(removing')
           /\ \E D, A \in SUBSET Vehicles :
                /\ Range(adding') = D \X Range(Parts)
                /\ Range(removing') = A \X Range(Parts)
                /\ Range(removing') \subseteq memory[snapshot[Manager]].mActiveObjects
<1> USE DEF RegistryInv, TypeOK
<1>1. PICK container : container = memory[snapshot[Manager]]
  OBVIOUS
<1>2. Manager \in Fibers /\ snapshot[Manager] # None
  BY DEF EndManager, Fibers
<1>3. container \in Containers /\ Whole(container)
  BY <1>1, <1>2 DEF WholeVehicles
<1>4. PICK departed \in SUBSET { v \in Vehicles : <<v, "Router">> \notin scheduled },
           arrived \in SUBSET VehiclesIn(memory[snapshot[Manager]]) :
        \E add \in SetToSeqs(departed), remove \in SetToSeqs(arrived) :
            /\ adding' = FlattenSeq([i \in DOMAIN add |-> ObjectsToAdd(add[i])])
            /\ removing' = FlattenSeq([i \in DOMAIN remove |->
                    ObjectsToDelete(remove[i], memory[snapshot[Manager]])])
  BY DEF EndManager
<1>5. PICK add \in SetToSeqs(departed), remove \in SetToSeqs(arrived) :
            /\ adding' = FlattenSeq([i \in DOMAIN add |-> ObjectsToAdd(add[i])])
            /\ removing' = FlattenSeq([i \in DOMAIN remove |->
                    ObjectsToDelete(remove[i], memory[snapshot[Manager]])])
  BY <1>4
<1>6. arrived \subseteq Vehicles /\ IsFiniteSet(departed) /\ IsFiniteSet(arrived)
  BY <1>1, <1>4, RegistryAssumption, FS_Subset DEF VehiclesIn
<1>7. add \in Seq(Vehicles) /\ remove \in Seq(arrived)
        /\ \A i, j \in DOMAIN remove : i # j => remove[i] # remove[j]
  <2>1. add \in Seq(departed)
    BY <1>5, <1>6, OrderOfSet
  <2>2. PICK n \in Nat : add \in [1..n -> departed]
    BY <2>1
  <2>3. add \in [1..n -> Vehicles]
    BY <2>2, <1>4
  <2>4. add \in Seq(Vehicles)
    BY <2>2, <2>3
  <2> QED
    BY <2>4, <1>5, <1>6, OrderOfSet
<1>8. PICK lists : lists = [i \in DOMAIN add |-> ObjectsToAdd(add[i])]
  OBVIOUS
<1>9. PICK lists2 : lists2 = [i \in DOMAIN remove |-> ObjectsToDelete(remove[i], container)]
  OBVIOUS
<1>10. \A i \in DOMAIN add : add[i] \in Vehicles /\ lists[i] \in Seq(ObjectIds)
                               /\ Range(lists[i]) = ObjectsOf(add[i])
  BY <1>7, <1>8, AddedObjects
<1>11. \A v \in arrived : v \in Vehicles /\ ObjectsOf(v) \subseteq container.mActiveObjects
  <2> TAKE v \in arrived
  <2>1. v \in Vehicles /\ <<v, "VehicleObject">> \in container.mActiveObjects
    BY <1>1, <1>4 DEF VehiclesIn
  <2>2. <<v, "VehicleObject">> \in {v} \X Range(Parts)
    BY PartNames
  <2> QED
    BY <2>1, <2>2, <1>3 DEF Whole, ObjectsOf
<1>12. \A i \in DOMAIN remove : remove[i] \in arrived
  BY <1>7
<1>13. \A i \in DOMAIN remove :
        /\ lists2[i] \in Seq(ObjectIds)
        /\ Range(lists2[i]) = ObjectsOf(remove[i])
        /\ IsInjective(lists2[i])
  BY <1>3, <1>9, <1>11, <1>12, DeletedObjects
<1>14. lists \in Seq(Seq(ObjectIds)) /\ DOMAIN lists = DOMAIN add
  <2>1. PICK n \in Nat : DOMAIN add = 1..n
    BY <1>7
  <2>2. PICK T : T = Seq(ObjectIds)
    OBVIOUS
  <2>3. lists = [i \in 1..n |-> lists[i]] /\ \A i \in 1..n : lists[i] \in T
    BY <2>1, <2>2, <1>8, <1>10
  <2>4. lists \in Seq(T)
    BY <2>1, <2>3, EachInSeq
  <2> QED
    BY <2>2, <2>4, <1>8
<1>15. lists2 \in Seq(Seq(ObjectIds)) /\ DOMAIN lists2 = DOMAIN remove
  <2>1. PICK n \in Nat : DOMAIN remove = 1..n
    BY <1>7
  <2>2. PICK T : T = Seq(ObjectIds)
    OBVIOUS
  <2>3. lists2 = [i \in 1..n |-> lists2[i]] /\ \A i \in 1..n : lists2[i] \in T
    BY <2>1, <2>2, <1>9, <1>13
  <2>4. lists2 \in Seq(T)
    BY <2>1, <2>3, EachInSeq
  <2> QED
    BY <2>2, <2>4, <1>9
<1>16. Apart(lists2)
  <2>1. ASSUME NEW i \in DOMAIN remove, NEW j \in DOMAIN remove, i # j
        PROVE  Range(lists2[i]) \cap Range(lists2[j]) = {}
    <3>1. remove[i] # remove[j]
      BY <2>1, <1>7
    <3>2. ObjectsOf(remove[i]) \cap ObjectsOf(remove[j]) = {}
      BY <3>1 DEF ObjectsOf
    <3> QED
      BY <3>2, <1>13
  <2> QED
    BY <2>1, <1>13, <1>15 DEF Apart
<1>17. /\ adding' \in Seq(ObjectIds)
       /\ Range(adding') = UNION { Range(lists[i]) : i \in DOMAIN lists }
  <2>1. adding' = FlattenSeq(lists)
    BY <1>5, <1>8
  <2>2. /\ FlattenSeq(lists) \in Seq(ObjectIds)
        /\ Range(FlattenSeq(lists)) = UNION { Range(lists[i]) : i \in DOMAIN lists }
    BY <1>14, FlattenFacts
  <2> QED
    BY <2>1, <2>2
<1>18. /\ removing' \in Seq(ObjectIds)
       /\ Range(removing') = UNION { Range(lists2[i]) : i \in DOMAIN lists2 }
       /\ IsInjective(removing')
  <2>1. removing' = FlattenSeq(lists2)
    BY <1>1, <1>5, <1>9
  <2>2. /\ FlattenSeq(lists2) \in Seq(ObjectIds)
        /\ Range(FlattenSeq(lists2)) = UNION { Range(lists2[i]) : i \in DOMAIN lists2 }
        /\ IsInjective(FlattenSeq(lists2))
    BY <1>15, <1>16, FlattenFacts
  <2> QED
    BY <2>1, <2>2
<1>19. Range(adding') = { add[i] : i \in DOMAIN add } \X Range(Parts)
  BY <1>10, <1>14, <1>17 DEF ObjectsOf
<1>20. Range(removing') = { remove[i] : i \in DOMAIN remove } \X Range(Parts)
  BY <1>13, <1>15, <1>18 DEF ObjectsOf
<1>21. Range(removing') \subseteq container.mActiveObjects
  BY <1>11, <1>12, <1>13, <1>15, <1>18
<1>22. { add[i] : i \in DOMAIN add } \in SUBSET Vehicles
         /\ { remove[i] : i \in DOMAIN remove } \in SUBSET Vehicles
  BY <1>10, <1>11, <1>12
<1> QED
  BY <1>1, <1>17, <1>18, <1>19, <1>20, <1>21, <1>22

-----------------------------------------------------------------------------
(* The invariant is inductive: one lemma for each action.                  *)

\* Nothing is registered at first.
LEMMA InitRegistryInv == Init => RegistryInv
<1> SUFFICES ASSUME Init PROVE RegistryInv
  OBVIOUS
<1> USE DEF Init, EmptyContainer
<1>1. DOMAIN <<>> = {}
  OBVIOUS
<1>2. Range(adding) = {} /\ Range(removing) = {} /\ IsInjective(removing)
  BY <1>1 DEF Range, IsInjective
<1>3. TypeOK
  <2>1. adding \in Seq(ObjectIds) /\ removing \in Seq(ObjectIds)
    OBVIOUS
  <2>2. \A v \in Vehicles : DOMAIN mCachedRequests[v] = {} /\ Range(mCachedRequests[v]) = {}
    BY DEF Range
  <2>3. EmptyContainer \in Containers
    BY DEF Containers
  <2> QED
    BY <2>1, <2>2, <2>3 DEF TypeOK
<1>4. Published /\ ManagerIsCurrent /\ WholeVehicles /\ LastIsHeld /\ CacheIsExact
  BY DEF Published, ManagerIsCurrent, WholeVehicles, LastIsHeld, CacheIsExact, Fibers
<1>5. EndsWhole
  BY <1>2 DEF EndsWhole, ToBeActive, Whole
<1> QED
  BY <1>2, <1>3, <1>4, <1>5 DEF RegistryInv, ScheduledKnown, RemovalsAreActive

\* Adding the next object of a vehicle.
LEMMA AddObjectInv == ASSUME RegistryInv, AddObject PROVE RegistryInv'
<1> DEFINE o == Head(adding)
           container == Inserted(o)
<1> USE DEF RegistryInv, TypeOK
<1>1. adding # <<>> /\ Publish(container) /\ adding' = Tail(adding)
        /\ UNCHANGED <<snapshot, scheduled, removing>>
  BY DEF AddObject
<1>2. /\ o \in ObjectIds
      /\ adding' \in Seq(ObjectIds)
      /\ Range(adding) = {o} \cup Range(adding')
  BY <1>1, HeadAndTail
<1>3. /\ container \in Containers
      /\ container.mActiveObjects = mWorkingCopy.mActiveObjects \cup {o}
      /\ container.mRemovedObjects = mWorkingCopy.mRemovedObjects
  BY <1>2 DEF Inserted, Containers
<1> HIDE DEF o, container
<1>4. /\ mWorkingCopy' = container
      /\ mCurrentCopy' \in Addresses
      /\ memory' \in [Addresses -> Containers]
      /\ mLastObjectContainer' \in [Vehicles -> Addresses \cup {None}]
      /\ mCachedRequests' = mCachedRequests
      /\ Published' /\ WholeVehicles' /\ LastIsHeld' /\ CacheIsExact'
  BY <1>1, <1>3, PublishFacts
<1>5. TypeOK'
  BY <1>1, <1>2, <1>3, <1>4
<1>6. ManagerIsCurrent'
  <2>1. snapshot[Manager] = None
    BY <1>1 DEF ManagerIsCurrent, CoreIdle
  <2> QED
    BY <2>1, <1>1 DEF ManagerIsCurrent
<1>7. EndsWhole'
  <2>1. ToBeActive' = ToBeActive
    BY <1>1, <1>2, <1>3, <1>4 DEF ToBeActive
  <2> QED
    BY <2>1 DEF EndsWhole, Whole
<1>8. ScheduledKnown'
  BY <1>1, <1>2, <1>3, <1>4 DEF ScheduledKnown
<1>9. RemovalsAreActive'
  BY <1>1, <1>3, <1>4 DEF RemovalsAreActive
<1> QED
  BY <1>4, <1>5, <1>6, <1>7, <1>8, <1>9

\* Removing the next object.
LEMMA RemoveObjectInv == ASSUME RegistryInv, RemoveObject PROVE RegistryInv'
<1> DEFINE o == Head(removing)
           container == Removed(o)
<1> USE DEF RegistryInv, TypeOK
<1>1. adding = <<>> /\ removing # <<>> /\ Publish(container) /\ removing' = Tail(removing)
        /\ UNCHANGED <<snapshot, scheduled, adding>>
  BY DEF RemoveObject
<1>2. /\ o \in ObjectIds
      /\ removing' \in Seq(ObjectIds)
      /\ Range(removing) = {o} \cup Range(removing')
      /\ IsInjective(removing') /\ o \notin Range(removing')
  BY <1>1, HeadAndTail DEF RemovalsAreActive
<1>3. /\ container \in Containers
      /\ container.mActiveObjects = mWorkingCopy.mActiveObjects \ {o}
      /\ container.mRemovedObjects = mWorkingCopy.mRemovedObjects \cup {o}
  BY <1>2 DEF Removed, Containers
<1> HIDE DEF o, container
<1>4. /\ mWorkingCopy' = container
      /\ mCurrentCopy' \in Addresses
      /\ memory' \in [Addresses -> Containers]
      /\ mLastObjectContainer' \in [Vehicles -> Addresses \cup {None}]
      /\ mCachedRequests' = mCachedRequests
      /\ Published' /\ WholeVehicles' /\ LastIsHeld' /\ CacheIsExact'
  BY <1>1, <1>3, PublishFacts
<1>5. TypeOK'
  BY <1>1, <1>2, <1>3, <1>4
<1>6. ManagerIsCurrent'
  <2>1. snapshot[Manager] = None
    BY <1>1 DEF ManagerIsCurrent, CoreIdle
  <2> QED
    BY <2>1, <1>1 DEF ManagerIsCurrent
<1>7. EndsWhole'
  <2>1. Range(adding) = {}
    <3>1. DOMAIN <<>> = {}
      OBVIOUS
    <3> QED
      BY <3>1, <1>1 DEF Range
  <2>2. ToBeActive' = ToBeActive
    BY <2>1, <1>1, <1>2, <1>3, <1>4 DEF ToBeActive
  <2> QED
    BY <2>2 DEF EndsWhole, Whole
<1>8. ScheduledKnown'
  BY <1>1, <1>3, <1>4 DEF ScheduledKnown
<1>9. RemovalsAreActive'
  BY <1>1, <1>2, <1>3, <1>4 DEF RemovalsAreActive
<1> QED
  BY <1>4, <1>5, <1>6, <1>7, <1>8, <1>9

\* A pointer to a container in use stays, whatever fiber ends, and the
\* results it stands for with it.
LEMMA FiberEndFacts ==
    ASSUME RegistryInv, NEW f \in Fibers,
           snapshot' = [snapshot EXCEPT ![f] = None],
           mLastObjectContainer' = Expired(mLastObjectContainer, mCurrentCopy, snapshot'),
           UNCHANGED <<listVars, mCachedRequests>>
    PROVE  /\ snapshot' \in [Fibers -> Addresses \cup {None}]
           /\ mLastObjectContainer' \in [Vehicles -> Addresses \cup {None}]
           /\ Published' /\ WholeVehicles' /\ LastIsHeld' /\ CacheIsExact'
           /\ \A g \in Fibers : snapshot'[g] # None => g # f /\ snapshot'[g] = snapshot[g]
<1> USE DEF RegistryInv, TypeOK, listVars
<1>1. snapshot' \in [Fibers -> Addresses \cup {None}]
        /\ \A g \in Fibers : snapshot'[g] # None => g # f /\ snapshot'[g] = snapshot[g]
  OBVIOUS
<1>2. Held(mCurrentCopy, snapshot') \subseteq Held(mCurrentCopy, snapshot)
  BY <1>1 DEF Held
<1>3. \A v \in Vehicles : mLastObjectContainer'[v] # None =>
        /\ mLastObjectContainer'[v] = mLastObjectContainer[v]
        /\ mLastObjectContainer'[v] \in Held(mCurrentCopy, snapshot')
  BY DEF Expired
<1>4. mLastObjectContainer' \in [Vehicles -> Addresses \cup {None}]
  BY DEF Expired
<1>5. WholeVehicles'
  BY <1>1 DEF WholeVehicles
<1>6. LastIsHeld' /\ Published'
  BY <1>3 DEF LastIsHeld, Published
<1>7. CacheIsExact'
  <2> SUFFICES ASSUME NEW v \in Vehicles, NEW r \in DOMAIN mCachedRequests[v],
                      mLastObjectContainer'[v] \in Held(mCurrentCopy', snapshot')
               PROVE  mCachedRequests[v][r] = Search(memory[mLastObjectContainer'[v]], r, v)
    BY DEF CacheIsExact
  <2>1. mLastObjectContainer'[v] # None
    BY DEF Held
  <2>2. mLastObjectContainer'[v] = mLastObjectContainer[v]
    BY <2>1, <1>3
  <2>3. mLastObjectContainer[v] \in Held(mCurrentCopy, snapshot)
    BY <2>2, <1>2
  <2> QED
    BY <2>2, <2>3 DEF CacheIsExact
<1> QED
  BY <1>1, <1>4, <1>5, <1>6, <1>7

\* The manager's end handler begins.
LEMMA EndManagerInv == ASSUME RegistryInv, EndManager PROVE RegistryInv'
<1> USE DEF RegistryInv, TypeOK
<1>1. /\ CoreIdle
      /\ snapshot[Manager] # None
      /\ scheduled' = scheduled \cup Range(adding')
      /\ snapshot' = [snapshot EXCEPT ![Manager] = None]
      /\ mLastObjectContainer' = Expired(mLastObjectContainer, mCurrentCopy, snapshot')
      /\ UNCHANGED <<listVars, mCachedRequests>>
  BY DEF EndManager
<1>2. Manager \in Fibers
  BY DEF Fibers
<1>3. /\ snapshot' \in [Fibers -> Addresses \cup {None}]
      /\ mLastObjectContainer' \in [Vehicles -> Addresses \cup {None}]
      /\ Published' /\ WholeVehicles' /\ LastIsHeld' /\ CacheIsExact'
  BY <1>1, <1>2, FiberEndFacts
<1>4. PICK D \in SUBSET Vehicles, A \in SUBSET Vehicles :
        /\ adding' \in Seq(ObjectIds)
        /\ removing' \in Seq(ObjectIds)
        /\ IsInjective(removing')
        /\ Range(adding') = D \X Range(Parts)
        /\ Range(removing') = A \X Range(Parts)
        /\ Range(removing') \subseteq memory[snapshot[Manager]].mActiveObjects
  BY EndManagerFacts
<1>5. UNCHANGED <<mWorkingCopy, mCurrentCopy, memory>>
  BY <1>1 DEF listVars
<1>6. DOMAIN <<>> = {}
  OBVIOUS
<1>7. Range(adding) = {} /\ Range(removing) = {}
  BY <1>1, <1>6 DEF CoreIdle, Range
<1>8. scheduled' \subseteq ObjectIds
  BY <1>1, <1>4 DEF ObjectIds
<1>9. TypeOK'
  BY <1>1, <1>3, <1>4, <1>5, <1>8
<1>10. ManagerIsCurrent'
  <2>1. snapshot'[Manager] = None
    BY <1>1, <1>2
  <2> QED
    BY <2>1 DEF ManagerIsCurrent
<1>11. EndsWhole'
  <2>1. ToBeActive = mWorkingCopy.mActiveObjects
    BY <1>7 DEF ToBeActive
  <2>2. ToBeActive' = (mWorkingCopy.mActiveObjects \cup (D \X Range(Parts))) \ (A \X Range(Parts))
    BY <1>4, <1>5 DEF ToBeActive
  <2> SUFFICES ASSUME NEW v \in Vehicles
               PROVE  \/ {v} \X Range(Parts) \subseteq ToBeActive'
                      \/ {v} \X Range(Parts) \cap ToBeActive' = {}
    BY DEF EndsWhole, Whole
  <2>3. CASE v \in A
    BY <2>2, <2>3
  <2>4. CASE v \notin A /\ v \in D
    BY <2>2, <2>4
  <2>5. CASE v \notin A /\ v \notin D
    <3>1. \/ {v} \X Range(Parts) \subseteq mWorkingCopy.mActiveObjects
          \/ {v} \X Range(Parts) \cap mWorkingCopy.mActiveObjects = {}
      BY <2>1 DEF EndsWhole, Whole
    <3> QED
      BY <3>1, <2>2, <2>5
  <2> QED
    BY <2>3, <2>4, <2>5
<1>12. ScheduledKnown'
  BY <1>1, <1>5, <1>7 DEF ScheduledKnown
<1>13. RemovalsAreActive'
  BY <1>1, <1>4, <1>5 DEF RemovalsAreActive, ManagerIsCurrent
<1> QED
  BY <1>3, <1>9, <1>10, <1>11, <1>12, <1>13

\* Between two handlers the current container holds whole vehicles, so a
\* fiber launched then sees whole vehicles.
LEMMA FiberStartFacts ==
    ASSUME RegistryInv, NEW f \in Fibers, CoreIdle, snapshot[f] = None,
           snapshot' = [snapshot EXCEPT ![f] = mCurrentCopy],
           UNCHANGED <<listVars, cacheVars, taskVars>>
    PROVE  RegistryInv'
<1> USE DEF RegistryInv, TypeOK, listVars, cacheVars, taskVars
<1>1. mCurrentCopy \in Addresses /\ mCurrentCopy # None
  BY RegistryAssumption
<1>2. snapshot' \in [Fibers -> Addresses \cup {None}]
        /\ \A g \in Fibers : snapshot'[g] = IF g = f THEN mCurrentCopy ELSE snapshot[g]
  BY <1>1
<1>3. TypeOK'
  BY <1>2
<1>4. DOMAIN <<>> = {}
  OBVIOUS
<1>5. ToBeActive = mWorkingCopy.mActiveObjects
  BY <1>4 DEF ToBeActive, CoreIdle, Range
<1>6. Whole(memory[mCurrentCopy])
  BY <1>5 DEF EndsWhole, Whole, Published
<1>7. WholeVehicles'
  BY <1>2, <1>6 DEF WholeVehicles
<1>8. ManagerIsCurrent'
  <2>1. Manager \in Fibers
    BY DEF Fibers
  <2>2. memory[mCurrentCopy] = mWorkingCopy
    BY DEF Published
  <2>3. CASE f = Manager
    BY <2>1, <2>2, <2>3, <1>2 DEF ManagerIsCurrent, CoreIdle
  <2>4. CASE f # Manager
    BY <2>1, <2>4, <1>2 DEF ManagerIsCurrent, CoreIdle
  <2> QED
    BY <2>3, <2>4
<1>9. Held(mCurrentCopy, snapshot') = Held(mCurrentCopy, snapshot)
  BY <1>2 DEF Held
<1>10. LastIsHeld' /\ CacheIsExact'
  BY <1>9 DEF LastIsHeld, CacheIsExact
<1>11. Published' /\ EndsWhole' /\ ScheduledKnown' /\ RemovalsAreActive'
  BY DEF Published, EndsWhole, ToBeActive, Whole, ScheduledKnown, RemovalsAreActive
<1> QED
  BY <1>3, <1>7, <1>8, <1>10, <1>11

\* The manager's fiber, and a router's, begins.
LEMMA StartManagerInv == ASSUME RegistryInv, StartManager PROVE RegistryInv'
<1>1. Manager \in Fibers /\ CoreIdle
  BY DEF StartManager, CanLaunch, Fibers
<1> QED
  BY <1>1, FiberStartFacts DEF StartManager

\* A router's fiber is launched between the handlers, when every vehicle is whole.
LEMMA StartRouterInv ==
    ASSUME RegistryInv, NEW v \in Vehicles, StartRouter(v) PROVE RegistryInv'
<1>1. v \in Fibers /\ CoreIdle
  BY DEF StartRouter, CanLaunch, Fibers
<1> QED
  BY <1>1, FiberStartFacts DEF StartRouter

\* A router's fiber ends.
LEMMA FinishRouterInv ==
    ASSUME RegistryInv, NEW v \in Vehicles, FinishRouter(v) PROVE RegistryInv'
<1> USE DEF RegistryInv, TypeOK, listVars, taskVars
<1>1. /\ v \in Fibers
      /\ snapshot' = [snapshot EXCEPT ![v] = None]
      /\ mLastObjectContainer' = Expired(mLastObjectContainer, mCurrentCopy, snapshot')
      /\ UNCHANGED <<listVars, mCachedRequests, taskVars>>
  BY DEF FinishRouter, Fibers
<1>2. /\ snapshot' \in [Fibers -> Addresses \cup {None}]
      /\ mLastObjectContainer' \in [Vehicles -> Addresses \cup {None}]
      /\ Published' /\ WholeVehicles' /\ LastIsHeld' /\ CacheIsExact'
      /\ \A g \in Fibers : snapshot'[g] # None => g # v /\ snapshot'[g] = snapshot[g]
  BY <1>1, FiberEndFacts
<1>3. TypeOK'
  BY <1>1, <1>2
<1>4. ManagerIsCurrent'
  <2>1. Manager \in Fibers
    BY DEF Fibers
  <2> QED
    BY <2>1, <1>1, <1>2 DEF ManagerIsCurrent, CoreIdle
<1>5. EndsWhole' /\ ScheduledKnown' /\ RemovalsAreActive'
  BY <1>1 DEF EndsWhole, ToBeActive, Whole, ScheduledKnown, RemovalsAreActive
<1> QED
  BY <1>2, <1>3, <1>4, <1>5

\* A search through the cache: results kept are those of the container
\* searched last, others are searched for.
LEMMA GetObjectsByTypeInv ==
    ASSUME RegistryInv, NEW v \in Vehicles, NEW r \in Requests, GetObjectsByType(v, r)
    PROVE  RegistryInv'
<1> USE DEF RegistryInv, TypeOK
<1>1. PICK a : a = snapshot[v]
  OBVIOUS
<1>2. PICK u : u = Usable(v)
  OBVIOUS
<1>3. v \in Fibers /\ a \in Addresses /\ a \in Held(mCurrentCopy, snapshot)
  BY <1>1 DEF GetObjectsByType, Fibers, Held
<1>4. /\ a # None
      /\ mLastObjectContainer' = [mLastObjectContainer EXCEPT ![v] = a]
      /\ UNCHANGED <<mWorkingCopy, mCurrentCopy, memory, snapshot, scheduled, adding, removing>>
  BY <1>1 DEF GetObjectsByType, listVars, taskVars
<1>5. PICK found :
        /\ found = [q \in DOMAIN u \cup {r} |->
                      IF q \in DOMAIN u THEN u[q] ELSE Search(memory[a], q, v)]
        /\ mCachedRequests' = [mCachedRequests EXCEPT ![v] = found]
  BY <1>1, <1>2 DEF GetObjectsByType
<1>6. DOMAIN u \subseteq Requests /\ \A q \in DOMAIN u : u[q] = Search(memory[a], q, v)
  <2>1. CASE mLastObjectContainer[v] = a
    <3>1. u = mCachedRequests[v]
      BY <2>1, <1>1, <1>2 DEF Usable
    <3> QED
      BY <3>1, <2>1, <1>3 DEF CacheIsExact
  <2>2. CASE mLastObjectContainer[v] # a
    <3>1. DOMAIN u = {}
      BY <2>2, <1>1, <1>2 DEF Usable
    <3> QED
      BY <3>1
  <2> QED
    BY <2>1, <2>2
<1>7. DOMAIN found = DOMAIN u \cup {r}
        /\ \A q \in DOMAIN found : found[q] = Search(memory[a], q, v)
  BY <1>5, <1>6
<1>8. /\ DOMAIN mCachedRequests' = Vehicles
      /\ \A w \in Vehicles :
            mCachedRequests'[w] = IF w = v THEN found ELSE mCachedRequests[w]
  BY <1>5
<1>9. \A w \in Vehicles :
        mLastObjectContainer'[w] = IF w = v THEN a ELSE mLastObjectContainer[w]
  BY <1>4
<1>10. TypeOK'
  <2>1. \A q : Search(memory[a], q, v) \subseteq ObjectIds
    BY <1>3 DEF Search, Containers
  <2>2. Range(found) \subseteq SUBSET ObjectIds
    BY <2>1, <1>7 DEF Range
  <2>3. DOMAIN found \subseteq Requests
    BY <1>6, <1>7
  <2>4. mLastObjectContainer' \in [Vehicles -> Addresses \cup {None}]
    BY <1>3, <1>4
  <2>5. \A w \in Vehicles : DOMAIN mCachedRequests'[w] \subseteq Requests
                              /\ Range(mCachedRequests'[w]) \subseteq SUBSET ObjectIds
    BY <2>2, <2>3, <1>8
  <2> QED
    BY <2>4, <2>5, <1>4, <1>8
<1>11. LastIsHeld'
  BY <1>3, <1>4, <1>9 DEF LastIsHeld
<1>12. CacheIsExact'
  <2> SUFFICES ASSUME NEW w \in Vehicles, NEW q \in DOMAIN mCachedRequests'[w],
                      mLastObjectContainer'[w] \in Held(mCurrentCopy, snapshot)
               PROVE  mCachedRequests'[w][q] = Search(memory[mLastObjectContainer'[w]], q, w)
    BY <1>4 DEF CacheIsExact
  <2>1. CASE w = v
    BY <2>1, <1>7, <1>8, <1>9
  <2>2. CASE w # v
    BY <2>2, <1>8, <1>9 DEF CacheIsExact
  <2> QED
    BY <2>1, <2>2
<1>13. Published' /\ ManagerIsCurrent' /\ WholeVehicles'
  BY <1>4 DEF Published, ManagerIsCurrent, WholeVehicles, Whole, CoreIdle
<1>14. EndsWhole' /\ ScheduledKnown' /\ RemovalsAreActive'
  BY <1>4 DEF EndsWhole, ToBeActive, Whole, ScheduledKnown, RemovalsAreActive
<1> QED
  BY <1>10, <1>11, <1>12, <1>13, <1>14

\* Every step of the registry preserves the invariant.
LEMMA NextRegistryInv == RegistryInv /\ [Next]_vars => RegistryInv'
<1> SUFFICES ASSUME RegistryInv, [Next]_vars PROVE RegistryInv'
  OBVIOUS
<1>1. CASE UNCHANGED vars
  BY <1>1 DEF vars, listVars, cacheVars, taskVars, RegistryInv, TypeOK, Published, ManagerIsCurrent,
     CoreIdle, EndsWhole, ToBeActive, Whole, WholeVehicles, ScheduledKnown, RemovalsAreActive,
     LastIsHeld, CacheIsExact
<1>2. CASE StartManager
  BY <1>2, StartManagerInv
<1>3. CASE EndManager
  BY <1>3, EndManagerInv
<1>4. CASE AddObject
  BY <1>4, AddObjectInv
<1>5. CASE RemoveObject
  BY <1>5, RemoveObjectInv
<1>6. CASE \E v \in Vehicles : StartRouter(v)
  BY <1>6, StartRouterInv
<1>7. CASE \E v \in Vehicles : FinishRouter(v)
  BY <1>7, FinishRouterInv
<1>8. CASE \E v \in Vehicles : \E r \in Requests : GetObjectsByType(v, r)
  BY <1>8, GetObjectsByTypeInv
<1> QED
  BY <1>1, <1>2, <1>3, <1>4, <1>5, <1>6, <1>7, <1>8 DEF Next

-----------------------------------------------------------------------------
(* The theorems.                                                           *)

\* The invariant holds in every reachable state.
THEOREM RegistryInvariant == Spec => []RegistryInv
<1>1. Init => RegistryInv
  BY InitRegistryInv
<1>2. RegistryInv /\ [Next]_vars => RegistryInv'
  BY NextRegistryInv
<1> QED
  BY <1>1, <1>2, PTL DEF Spec

\* Every variable has its type, whatever end handlers flatten, add and remove.
THEOREM RegistryTypeCorrect == Spec => []TypeOK
<1>1. RegistryInv => TypeOK
  BY DEF RegistryInv
<1> QED
  BY <1>1, RegistryInvariant, PTL

\* A fiber sees all objects of a vehicle or none, so getSiblingByName and
\* getParentByName find what they look for.
THEOREM FibersSeeWholeVehicles == Spec => []WholeVehicles
<1>1. RegistryInv => WholeVehicles
  BY DEF RegistryInv
<1> QED
  BY <1>1, RegistryInvariant, PTL

\* A cache used for the container it was filled from returns what a search of
\* it finds, although addresses are used again.
THEOREM CacheNeverStale == Spec => []CacheIsExact
<1>1. RegistryInv => CacheIsExact
  BY DEF RegistryInv
<1> QED
  BY <1>1, RegistryInvariant, PTL

\* ObjectContainer::getObject finds every object that has an init action.
THEOREM HandlersFindTheirObjects == Spec => []Resolvable
<1>1. RegistryInv => Resolvable
  <2> SUFFICES ASSUME RegistryInv, CoreIdle
               PROVE  scheduled \subseteq memory[mCurrentCopy].mActiveObjects
                                            \cup memory[mCurrentCopy].mRemovedObjects
    BY DEF Resolvable
  <2>1. DOMAIN <<>> = {}
    OBVIOUS
  <2>2. Range(adding) = {}
    BY <2>1 DEF CoreIdle, Range
  <2> QED
    BY <2>2 DEF RegistryInv, ScheduledKnown, Published
<1> QED
  BY <1>1, RegistryInvariant, PTL

\* The enforce of ObjectContainer::remove holds for every object the manager
\* removes by its snapshot.
THEOREM RemovedOnce == Spec => []RemovalsAreActive
<1>1. RegistryInv => RemovalsAreActive
  BY DEF RegistryInv
<1> QED
  BY <1>1, RegistryInvariant, PTL

\* No step changes the container a fiber computes with: the core publishes
\* only where nobody reads.
THEOREM SnapshotsNeverChange == Spec => SnapshotsAreStable
<1>1. RegistryInv /\ [Next]_vars =>
        [\A f \in Fibers : snapshot[f] # None /\ snapshot'[f] = snapshot[f]
            => memory'[snapshot[f]] = memory[snapshot[f]]]_vars
  <2> SUFFICES ASSUME RegistryInv, Next, NEW f \in Fibers, snapshot[f] # None
               PROVE  memory'[snapshot[f]] = memory[snapshot[f]]
    OBVIOUS
  <2>1. ASSUME NEW container, Publish(container)
        PROVE  memory'[snapshot[f]] = memory[snapshot[f]]
    <3>1. snapshot[f] \in Held(mCurrentCopy, snapshot)
      BY DEF Held
    <3> QED
      BY <2>1, <3>1 DEF Publish, Free, RegistryInv, TypeOK
  <2>2. CASE AddObject \/ RemoveObject
    BY <2>1, <2>2 DEF AddObject, RemoveObject
  <2>3. CASE StartManager \/ EndManager
    BY <2>3 DEF StartManager, EndManager, listVars
  <2>4. CASE \E v \in Vehicles :
                \/ StartRouter(v)
                \/ FinishRouter(v)
                \/ \E r \in Requests : GetObjectsByType(v, r)
    BY <2>4 DEF StartRouter, FinishRouter, GetObjectsByType, listVars
  <2> QED
    BY <2>2, <2>3, <2>4 DEF Next
<1> QED
  BY <1>1, RegistryInvariant, PTL DEF Spec, SnapshotsAreStable

=============================================================================
