----------------------------- MODULE TraciProofs ----------------------------
(***************************************************************************)
(* What the client and SUMO write is what the other side reads, whatever   *)
(* the ids, the variables, the types and the subscriptions are.            *)
(*                                                                         *)
(* The first two thirds are about operators alone: what the readers of     *)
(* TraciStorage take (TakesConcat, TakesEach), the values every method     *)
(* writes (Values) and the samples SUMO answers with (SampleTaken), that   *)
(* every request has the length it says it has (Frames, RequestFramed) and *)
(* can be read but for one (RequestUnderstood), that every response is     *)
(* read by the method it answers (AnswerTaken), and that a reader finds    *)
(* the results of all subscriptions (Advances, StepRead).                  *)
(*                                                                         *)
(* The last third is about behaviours. StreamInvariant says what is in the *)
(* stream at each stage of a call, pieces included; RequestsParse,         *)
(* OnlyRefusalsThrow, StepBringsResults and the implementation of          *)
(* RemoteCall follow from it.                                              *)
(***************************************************************************)
EXTENDS TraciInvariant, SequenceTheorems, FiniteSetTheorems, TLAPS

-----------------------------------------------------------------------------
(* Induction over numbers, and flattened sequences.                        *)

\* A set that has 0 and with each number the next one has all numbers.
LEMMA AllNumbers ==
    ASSUME NEW T, 0 \in T, \A n \in Nat : n \in T => n + 1 \in T
    PROVE  Nat \subseteq T
<1> DEFINE U == Nat \ T
<1> SUFFICES ASSUME U # {} PROVE FALSE
  OBVIOUS
<1>1. IsWellFoundedOn(OpToRel(<, Nat), Nat)
  BY NatLessThanWellFounded, Zenon
<1>2. PICK x \in U : \A y \in U : ~ (<<y, x>> \in OpToRel(<, Nat))
  BY <1>1, WFMin, Zenon
<1>3. x \in Nat /\ x \notin T /\ x # 0
  OBVIOUS
<1>4. x - 1 \in Nat /\ x - 1 < x
  BY <1>3
<1>5. <<x - 1, x>> \in OpToRel(<, Nat)
  BY <1>3, <1>4 DEF OpToRel
<1>6. x - 1 \in T
  BY <1>2, <1>4, <1>5, Zenon
<1>7. (x - 1) + 1 \in T
  BY <1>4, <1>6
<1> QED
  BY <1>3, <1>7

\* That function exists, with one more value for one more sequence.
LEMMA FlattensAppend ==
    ASSUME NEW S, NEW seqs \in Seq(S), NEW s \in S, NEW f, Flattens(f, seqs)
    PROVE  Flattens([i \in 1..(Len(seqs) + 1) |->
                       IF i = Len(seqs) + 1
                         THEN IF i = 1 THEN s ELSE f[i - 1] \o s
                         ELSE f[i]],
                    Append(seqs, s))
<1>1. PICK n : n = Len(seqs)
  OBVIOUS
<1>2. PICK m : m = Append(seqs, s)
  BY Zenon
<1>3. PICK h : h = [i \in 1..(n + 1) |-> IF i = n + 1 THEN IF i = 1 THEN s ELSE f[i - 1] \o s ELSE f[i]]
  BY Zenon
<1>4. n \in Nat /\ Len(m) = n + 1 /\ m[n + 1] = s /\ \A i \in 1..n : m[i] = seqs[i]
  BY <1>1, <1>2
<1>5. ASSUME NEW i \in 1..(n + 1)
      PROVE  h[i] = IF i = 1 THEN m[i] ELSE h[i - 1] \o m[i]
  <2>1. CASE i = n + 1
    BY <2>1, <1>3, <1>4
  <2>2. CASE i # n + 1
    <3>1. i \in 1..n /\ h[i] = f[i] /\ m[i] = seqs[i]
      BY <2>2, <1>3, <1>4
    <3>2. f[i] = IF i = 1 THEN seqs[i] ELSE f[i - 1] \o seqs[i]
      BY <3>1, <1>1, Zenon DEF Flattens
    <3>3. i # 1 => i - 1 \in 1..(n + 1) /\ i - 1 # n + 1 /\ h[i - 1] = f[i - 1]
      BY <3>1, <1>3, <1>4
    <3> QED
      BY <3>1, <3>2, <3>3
  <2> QED
    BY <2>1, <2>2
<1>6. h = [i \in 1..(n + 1) |-> h[i]]
  BY <1>3
<1>7. h = [i \in 1..Len(m) |-> IF i = 1 THEN m[i] ELSE h[i - 1] \o m[i]]
  BY <1>4, <1>5, <1>6, Zenon
<1>8. Flattens(h, m)
  BY <1>7, Zenon DEF Flattens
<1> QED
  BY <1>1, <1>2, <1>3, <1>8

\* Every sequence that is not empty is another one and a last member.
LEMMA LastMember ==
    ASSUME NEW S, NEW s \in Seq(S), s # <<>>
    PROVE  \E front \in Seq(S) : \E last \in S :
             s = Append(front, last) /\ Len(front) = Len(s) - 1 /\ last = s[Len(s)]
<1>1. Len(s) \in Nat \ {0}
  BY EmptySeq
<1>2. PICK n : n = Len(s)
  OBVIOUS
<1>3. PICK front : front = SubSeq(s, 1, n - 1)
  BY Zenon
<1>4. front \in Seq(S) /\ Len(front) = n - 1 /\ \A i \in 1..(n - 1) : front[i] = s[i]
  BY <1>1, <1>2, SubSeqProperties, <1>3
<1>5. s[n] \in S
  BY <1>1, <1>2
<1>6. Append(front, s[n]) \in Seq(S) /\ Len(Append(front, s[n])) = n
  BY <1>1, <1>2, <1>4, <1>5
<1>7. \A i \in 1..n : Append(front, s[n])[i] = s[i]
  BY <1>1, <1>2, <1>4, <1>5
<1>8. s = Append(front, s[n])
  BY <1>2, <1>6, <1>7, SeqEqual
<1> QED
  BY <1>2, <1>4, <1>5, <1>8

\* It exists for every sequence, and is the only one.
LEMMA FlattensOne ==
    ASSUME NEW S
    PROVE  \A seqs \in Seq(S) : /\ \E f : Flattens(f, seqs)
                                /\ \A f, g : Flattens(f, seqs) /\ Flattens(g, seqs) => f = g
<1> DEFINE T == { n \in Nat : \A seqs \in Seq(S) : Len(seqs) = n => \E f : Flattens(f, seqs) }
<1>1. 0 \in T
  <2> SUFFICES ASSUME NEW seqs \in Seq(S), Len(seqs) = 0 PROVE \E f : Flattens(f, seqs)
    OBVIOUS
  <2>1. Flattens([i \in 1..0 |-> 0], seqs)
    BY DEF Flattens
  <2> QED
    BY <2>1
<1>2. ASSUME NEW n \in Nat, n \in T PROVE n + 1 \in T
  <2> SUFFICES ASSUME NEW seqs \in Seq(S), Len(seqs) = n + 1 PROVE \E f : Flattens(f, seqs)
    BY <1>2
  <2>1. PICK front \in Seq(S), last \in S : seqs = Append(front, last) /\ Len(front) = n
    BY LastMember, EmptySeq
  <2>2. PICK f : Flattens(f, front)
    BY <1>2, <2>1
  <2> QED
    BY <2>1, <2>2, FlattensAppend, Zenon
<1>3. Nat \subseteq T
  <2> HIDE DEF T
  <2> QED
    BY <1>1, <1>2, AllNumbers
<1>4. ASSUME NEW seqs \in Seq(S), NEW f, NEW g, Flattens(f, seqs), Flattens(g, seqs) PROVE f = g
  <2> DEFINE U == { n \in Nat : \A i \in 1..Len(seqs) : i <= n => f[i] = g[i] }
  <2>1. 0 \in U
    OBVIOUS
  <2>2. ASSUME NEW n \in Nat, n \in U PROVE n + 1 \in U
    <3> SUFFICES ASSUME n + 1 \in 1..Len(seqs) PROVE f[n + 1] = g[n + 1]
      BY <2>2
    <3>1. n # 0 => n \in 1..Len(seqs) /\ f[n] = g[n]
      BY <2>2
    <3>2. (n + 1) - 1 = n
      OBVIOUS
    <3>3. f[n + 1] = IF n + 1 = 1 THEN seqs[n + 1] ELSE f[(n + 1) - 1] \o seqs[n + 1]
      BY <1>4, Zenon DEF Flattens
    <3>4. g[n + 1] = IF n + 1 = 1 THEN seqs[n + 1] ELSE g[(n + 1) - 1] \o seqs[n + 1]
      BY <1>4, Zenon DEF Flattens
    <3> QED
      BY <3>1, <3>2, <3>3, <3>4
  <2>3. Nat \subseteq U
    <3> HIDE DEF U
    <3> QED
      BY <2>1, <2>2, AllNumbers
  <2>4. \A i \in 1..Len(seqs) : f[i] = g[i]
    <3> TAKE i \in 1..Len(seqs)
    <3>1. i \in U
      BY <2>3
    <3> QED
      BY <3>1
  <2> QED
    BY <2>4, <1>4 DEF Flattens
<1>5. ASSUME NEW seqs \in Seq(S) PROVE \E f : Flattens(f, seqs)
  BY <1>3
<1> QED
  BY <1>4, <1>5

\* So FlattenSeq is its last value.
LEMMA FlattenIs ==
    ASSUME NEW S, NEW seqs \in Seq(S), NEW f, Flattens(f, seqs), Len(seqs) # 0
    PROVE  FlattenSeq(seqs) = f[Len(seqs)]
<1>1. PICK g : g = CHOOSE x : Flattens(x, seqs)
  OBVIOUS
<1>2. Flattens(g, seqs)
  BY <1>1, FlattensOne
<1>3. FlattenSeq(seqs) = g[Len(seqs)]
  BY <1>1 DEF FlattenSeq, Flattens
<1> QED
  BY <1>2, <1>3, FlattensOne

\* FlattenSeq, one sequence after the other.
LEMMA FlattenFacts ==
    ASSUME NEW S
    PROVE  /\ FlattenSeq(<<>>) = <<>>
           /\ \A seqs \in Seq(Seq(S)), s \in Seq(S) :
                FlattenSeq(Append(seqs, s)) = FlattenSeq(seqs) \o s
           /\ \A seqs \in Seq(Seq(S)) : FlattenSeq(seqs) \in Seq(S)
<1>1. FlattenSeq(<<>>) = <<>>
  BY DEF FlattenSeq
<1>2. ASSUME NEW seqs \in Seq(Seq(S)), NEW s \in Seq(S)
      PROVE  FlattenSeq(Append(seqs, s)) = FlattenSeq(seqs) \o s
  <2>1. PICK n : n = Len(seqs)
    OBVIOUS
  <2>2. PICK f : Flattens(f, seqs)
    BY FlattensOne
  <2>3. PICK h : h = [i \in 1..(n + 1) |->
                        IF i = n + 1 THEN IF i = 1 THEN s ELSE f[i - 1] \o s ELSE f[i]]
    BY Zenon
  <2>4. Flattens(h, Append(seqs, s))
    BY <2>1, <2>2, <2>3, FlattensAppend, Zenon
  <2>5. n \in Nat /\ Append(seqs, s) \in Seq(Seq(S)) /\ Len(Append(seqs, s)) = n + 1
    BY <2>1, AppendProperties
  <2>6. FlattenSeq(Append(seqs, s)) = h[n + 1]
    <3>1. PICK m \in Seq(Seq(S)) : m = Append(seqs, s)
      BY <2>5, Zenon
    <3>2. Len(m) = n + 1 /\ Flattens(h, m) /\ Len(m) # 0
      BY <2>4, <2>5, <3>1
    <3>3. FlattenSeq(m) = h[Len(m)]
      BY <3>2, FlattenIs
    <3> QED
      BY <3>1, <3>2, <3>3
  <2>7. CASE n = 0
    <3>1. seqs = <<>>
      BY <2>1, <2>7, EmptySeq, Zenon
    <3>2. h[n + 1] = s
      BY <2>3, <2>7
    <3> QED
      BY <1>1, <2>6, <3>1, <3>2, ConcatEmptySeq
  <2>8. CASE n # 0
    <3>1. FlattenSeq(seqs) = f[n]
      BY <2>1, <2>2, <2>8, FlattenIs
    <3>2. h[n + 1] = f[n] \o s
      BY <2>3, <2>5, <2>8
    <3> QED
      BY <2>6, <3>1, <3>2
  <2> QED
    BY <2>7, <2>8
<1> DEFINE T == { n \in Nat : \A seqs \in Seq(Seq(S)) : Len(seqs) = n => FlattenSeq(seqs) \in Seq(S) }
<1>3. 0 \in T
  <2> SUFFICES ASSUME NEW seqs \in Seq(Seq(S)), Len(seqs) = 0 PROVE FlattenSeq(seqs) \in Seq(S)
    OBVIOUS
  <2>1. seqs = <<>>
    BY EmptySeq
  <2> QED
    BY <1>1, <2>1, EmptySeq, Zenon
<1>4. ASSUME NEW n \in Nat, n \in T PROVE n + 1 \in T
  <2> SUFFICES ASSUME NEW seqs \in Seq(Seq(S)), Len(seqs) = n + 1 PROVE FlattenSeq(seqs) \in Seq(S)
    BY <1>4
  <2>0. seqs # <<>>
    BY EmptySeq
  <2>1. PICK front \in Seq(Seq(S)), last \in Seq(S) : seqs = Append(front, last) /\ Len(front) = n
    <3>1. \E front \in Seq(Seq(S)) : \E last \in Seq(S) :
            seqs = Append(front, last) /\ Len(front) = Len(seqs) - 1
      BY <2>0, LastMember, Zenon
    <3> QED
      BY <3>1
  <2>2. FlattenSeq(front) \in Seq(S)
    BY <1>4, <2>1
  <2> QED
    BY <1>2, <2>1, <2>2, ConcatProperties, Zenon
<1>5. Nat \subseteq T
  <2> HIDE DEF T
  <2> QED
    BY <1>3, <1>4, AllNumbers
<1>6. ASSUME NEW seqs \in Seq(Seq(S)) PROVE FlattenSeq(seqs) \in Seq(S)
  BY <1>5
<1> QED
  BY <1>1, <1>2, <1>6

-----------------------------------------------------------------------------
(* The size of a sequence of tokens.                                       *)

\* That function exists, with one more value for one more token.
LEMMA SumsAppend ==
    ASSUME NEW S, NEW tokens \in Seq(S), NEW t \in S, NEW f, Sums(f, tokens)
    PROVE  Sums([i \in 0..(Len(tokens) + 1) |->
                   IF i = Len(tokens) + 1 THEN f[i - 1] + Size(t) ELSE f[i]],
                Append(tokens, t))
<1>1. PICK n : n = Len(tokens)
  OBVIOUS
<1>2. PICK m : m = Append(tokens, t)
  BY Zenon
<1>3. PICK h : h = [i \in 0..(n + 1) |-> IF i = n + 1 THEN f[i - 1] + Size(t) ELSE f[i]]
  BY Zenon
<1>4. n \in Nat /\ Len(m) = n + 1 /\ m[n + 1] = t /\ \A i \in 1..n : m[i] = tokens[i]
  BY <1>1, <1>2
<1>5. ASSUME NEW i \in 0..(n + 1)
      PROVE  h[i] = IF i = 0 THEN 0 ELSE h[i - 1] + Size(m[i])
  BY <1>4, <1>3, <1>1 DEF Sums
<1>6. h = [i \in 0..(n + 1) |-> h[i]]
  BY <1>3
<1>7. h = [i \in 0..Len(m) |-> IF i = 0 THEN 0 ELSE h[i - 1] + Size(m[i])]
  BY <1>4, <1>5, <1>6, Zenon
<1>8. Sums(h, m)
  BY <1>7, Zenon DEF Sums
<1> QED
  BY <1>1, <1>2, <1>3, <1>8

\* It exists for every sequence, and is the only one.
LEMMA SumsOne ==
    ASSUME NEW S
    PROVE  \A tokens \in Seq(S) : /\ \E f : Sums(f, tokens)
                                  /\ \A f, g : Sums(f, tokens) /\ Sums(g, tokens) => f = g
<1> DEFINE T == { n \in Nat : \A tokens \in Seq(S) : Len(tokens) = n => \E f : Sums(f, tokens) }
<1>1. 0 \in T
  <2> SUFFICES ASSUME NEW tokens \in Seq(S), Len(tokens) = 0 PROVE \E f : Sums(f, tokens)
    OBVIOUS
  <2>1. Sums([i \in 0..0 |-> 0], tokens)
    BY DEF Sums
  <2> QED
    BY <2>1
<1>2. ASSUME NEW n \in Nat, n \in T PROVE n + 1 \in T
  <2> SUFFICES ASSUME NEW tokens \in Seq(S), Len(tokens) = n + 1 PROVE \E f : Sums(f, tokens)
    BY <1>2
  <2>1. PICK front \in Seq(S), last \in S : tokens = Append(front, last) /\ Len(front) = n
    BY LastMember, EmptySeq
  <2>2. PICK f : Sums(f, front)
    BY <1>2, <2>1
  <2> QED
    BY <2>1, <2>2, SumsAppend, Zenon
<1>3. Nat \subseteq T
  <2> HIDE DEF T
  <2> QED
    BY <1>1, <1>2, AllNumbers
<1>4. ASSUME NEW tokens \in Seq(S), NEW f, NEW g, Sums(f, tokens), Sums(g, tokens) PROVE f = g
  <2> DEFINE U == { n \in Nat : n <= Len(tokens) => f[n] = g[n] }
  <2>1. 0 \in U
    BY <1>4 DEF Sums
  <2>2. ASSUME NEW n \in Nat, n \in U PROVE n + 1 \in U
    <3> SUFFICES ASSUME n + 1 <= Len(tokens) PROVE f[n + 1] = g[n + 1]
      BY <2>2
    <3>1. n + 1 \in 0..Len(tokens) /\ n + 1 # 0 /\ (n + 1) - 1 = n /\ f[n] = g[n]
      BY <2>2
    <3>2. f[n + 1] = IF n + 1 = 0 THEN 0 ELSE f[(n + 1) - 1] + Size(tokens[n + 1])
      BY <1>4, <3>1 DEF Sums
    <3>3. g[n + 1] = IF n + 1 = 0 THEN 0 ELSE g[(n + 1) - 1] + Size(tokens[n + 1])
      BY <1>4, <3>1 DEF Sums
    <3> QED
      BY <3>1, <3>2, <3>3
  <2>3. Nat \subseteq U
    <3> HIDE DEF U
    <3> QED
      BY <2>1, <2>2, AllNumbers
  <2>4. \A i \in 0..Len(tokens) : f[i] = g[i]
    BY <2>3
  <2> QED
    BY <2>4, <1>4 DEF Sums
<1>5. ASSUME NEW tokens \in Seq(S) PROVE \E f : Sums(f, tokens)
  BY <1>3
<1> QED
  BY <1>4, <1>5

\* So SizeOf is its last value.
LEMMA SizeIs ==
    ASSUME NEW S, NEW tokens \in Seq(S), NEW f, Sums(f, tokens)
    PROVE  SizeOf(tokens) = f[Len(tokens)]
<1>1. PICK g : g = CHOOSE x : Sums(x, tokens)
  OBVIOUS
<1>2. Sums(g, tokens)
  BY <1>1, SumsOne
<1>3. SizeOf(tokens) = g[Len(tokens)]
  BY <1>1 DEF SizeOf, Sums
<1> QED
  BY <1>2, <1>3, SumsOne

\* The size of one token more.
LEMMA SizeAppend ==
    /\ SizeOf(<<>>) = 0
    /\ \A s \in Seq(Tokens), t \in Tokens : SizeOf(Append(s, t)) = SizeOf(s) + Size(t)
<1>1. SizeOf(<<>>) = 0
  <2>1. PICK f : Sums(f, <<>>)
    BY SumsOne, EmptySeq, Zenon
  <2>2. f[0] = 0
    BY <2>1 DEF Sums
  <2> QED
    BY <2>1, <2>2, SizeIs, EmptySeq, Zenon
<1>2. ASSUME NEW s \in Seq(Tokens), NEW t \in Tokens
      PROVE  SizeOf(Append(s, t)) = SizeOf(s) + Size(t)
  <2>1. PICK n : n = Len(s)
    OBVIOUS
  <2>2. PICK f : Sums(f, s)
    BY SumsOne
  <2>3. PICK h : h = [i \in 0..(n + 1) |-> IF i = n + 1 THEN f[i - 1] + Size(t) ELSE f[i]]
    BY Zenon
  <2>4. PICK m \in Seq(Tokens) : m = Append(s, t)
    BY AppendProperties, Zenon
  <2>5. n \in Nat /\ Len(m) = n + 1 /\ Sums(h, m)
    BY <2>1, <2>2, <2>3, <2>4, SumsAppend
  <2>6. SizeOf(m) = h[n + 1] /\ SizeOf(s) = f[n]
    BY <2>1, <2>2, <2>5, SizeIs
  <2>7. h[n + 1] = f[n] + Size(t)
    BY <2>3, <2>5
  <2> QED
    BY <2>4, <2>6, <2>7
<1> QED
  BY <1>1, <1>2

\* Sizes are numbers, only nothing has size 0, and sizes add up.
LEMMA SizeFacts ==
    /\ \A s \in Seq(Tokens) : SizeOf(s) \in Nat /\ (SizeOf(s) = 0 => s = <<>>)
    /\ \A t \in Tokens : SizeOf(<<t>>) = Size(t)
    /\ \A s, t \in Seq(Tokens) : SizeOf(s \o t) = SizeOf(s) + SizeOf(t)
<1>0. \A t \in Tokens : Size(t) \in Nat \ {0}
  BY DEF Tokens
<1>1. \A s \in Seq(Tokens) : SizeOf(s) \in Nat
  <2> DEFINE T == { n \in Nat : \A s \in Seq(Tokens) : Len(s) = n => SizeOf(s) \in Nat }
  <2>1. 0 \in T
    BY SizeAppend, EmptySeq
  <2>2. ASSUME NEW n \in Nat, n \in T PROVE n + 1 \in T
    <3> SUFFICES ASSUME NEW s \in Seq(Tokens), Len(s) = n + 1 PROVE SizeOf(s) \in Nat
      BY <2>2
    <3>1. PICK front \in Seq(Tokens), last \in Tokens : s = Append(front, last) /\ Len(front) = n
      BY LastMember, EmptySeq
    <3>2. SizeOf(front) \in Nat /\ SizeOf(s) = SizeOf(front) + Size(last)
      BY <2>2, <3>1, SizeAppend
    <3> QED
      BY <3>2, <1>0
  <2>3. Nat \subseteq T
    <3> HIDE DEF T
    <3> QED
      BY <2>1, <2>2, AllNumbers
  <2> TAKE s \in Seq(Tokens)
  <2>4. Len(s) \in T
    BY <2>3
  <2> QED
    BY <2>4
<1>2. ASSUME NEW s \in Seq(Tokens), SizeOf(s) = 0 PROVE s = <<>>
  <2> SUFFICES ASSUME s # <<>> PROVE FALSE
    OBVIOUS
  <2>1. PICK front \in Seq(Tokens), last \in Tokens : s = Append(front, last)
    BY LastMember
  <2>2. SizeOf(s) = SizeOf(front) + Size(last)
    BY <2>1, SizeAppend
  <2> QED
    BY <2>2, <1>0, <1>1, <1>2
<1>3. ASSUME NEW t \in Tokens PROVE SizeOf(<<t>>) = Size(t)
  <2>1. <<t>> = Append(<<>>, t) /\ <<>> \in Seq(Tokens)
    OBVIOUS
  <2>2. SizeOf(<<t>>) = 0 + Size(t)
    BY <2>1, SizeAppend, Zenon
  <2> QED
    BY <2>2, <1>0
<1>4. ASSUME NEW s \in Seq(Tokens) PROVE \A t \in Seq(Tokens) : SizeOf(s \o t) = SizeOf(s) + SizeOf(t)
  <2> DEFINE T == { n \in Nat : \A t \in Seq(Tokens) :
                                  Len(t) = n => SizeOf(s \o t) = SizeOf(s) + SizeOf(t) }
  <2>1. 0 \in T
    <3> SUFFICES ASSUME NEW t \in Seq(Tokens), Len(t) = 0 PROVE SizeOf(s \o t) = SizeOf(s) + SizeOf(t)
      OBVIOUS
    <3>1. t = <<>> /\ s \o t = s
      BY EmptySeq, ConcatEmptySeq
    <3> QED
      BY <3>1, <1>1, SizeAppend
  <2>2. ASSUME NEW n \in Nat, n \in T PROVE n + 1 \in T
    <3> SUFFICES ASSUME NEW t \in Seq(Tokens), Len(t) = n + 1
                 PROVE  SizeOf(s \o t) = SizeOf(s) + SizeOf(t)
      BY <2>2
    <3>1. PICK front \in Seq(Tokens), last \in Tokens : t = Append(front, last) /\ Len(front) = n
      BY LastMember, EmptySeq
    <3>2. s \o t = Append(s \o front, last) /\ s \o front \in Seq(Tokens)
      BY <3>1, AppendIsConcat, ConcatAssociative, ConcatProperties
    <3>3. SizeOf(s \o t) = SizeOf(s \o front) + Size(last) /\ SizeOf(t) = SizeOf(front) + Size(last)
      BY <3>1, <3>2, SizeAppend, Zenon
    <3>4. SizeOf(s \o front) = SizeOf(s) + SizeOf(front)
      BY <2>2, <3>1
    <3> QED
      BY <3>3, <3>4, <1>0, <1>1
  <2>3. Nat \subseteq T
    <3> HIDE DEF T
    <3> QED
      BY <2>1, <2>2, AllNumbers
  <2> TAKE t \in Seq(Tokens)
  <2>4. Len(t) \in T
    BY <2>3
  <2> QED
    BY <2>4
<1> QED
  BY <1>1, <1>2, <1>3, <1>4

-----------------------------------------------------------------------------
(* Reading one token after the other.                                      *)

\* The choice among one.
LEMMA OnlyReader ==
    ASSUME NEW r, NEW t
    PROVE  (CHOOSE after \in {ReadToken(before, t) : before \in {r}} : TRUE) = ReadToken(r, t)
  OBVIOUS

\* Reading returns the reader the tokens lead to.
LEMMA ReadingIs ==
    ASSUME NEW S, NEW tokens \in Seq(S), NEW want, NEW command, NEW after,
           Reads(Reader(want, command, 0, 0, 0, {}), tokens, after)
    PROVE  Reading(tokens, want, command) = after
<1> DEFINE start == [want |-> want, ok |-> TRUE, rest |-> 0, command |-> command, holder |-> 0,
                     object |-> 0, variables |-> 0, results |-> {}]
<1>1. PICK f : /\ f[0] = start
               /\ \A i \in 1..Len(tokens) : f[i] = ReadToken(f[i - 1], tokens[i])
               /\ f[Len(tokens)] = after
  BY DEF Reads, Reader
<1>2. PICK n : n = Len(tokens)
  OBVIOUS
<1>3. n \in Nat
  BY <1>2
<1>4. PICK g : g = [i \in 0..n |-> f[i]]
  BY Zenon
<1>5. Follows(g, tokens, want, command)
  <2>1. ASSUME NEW i \in 0..n
        PROVE  g[i] = IF i = 0 THEN start
                      ELSE CHOOSE x \in {ReadToken(before, tokens[i]) : before \in {g[i - 1]}} : TRUE
    <3>1. CASE i = 0
      BY <3>1, <1>1, <1>4
    <3>2. CASE i # 0
      BY <3>2, <1>2, <1>3, <1>1, <1>4, OnlyReader
    <3> QED
      BY <3>1, <3>2
  <2>2. g = [i \in 0..n |-> g[i]]
    BY <1>4
  <2> HIDE DEF start
  <2>3. g = [i \in 0..n |-> IF i = 0 THEN start
                     ELSE CHOOSE x \in {ReadToken(before, tokens[i]) : before \in {g[i - 1]}} : TRUE]
    BY <2>1, <2>2, Zenon
  <2> USE DEF start
  <2> QED
    BY <2>3, <1>2, Zenon DEF Follows
<1>6. PICK d : d = CHOOSE x : Follows(x, tokens, want, command)
  OBVIOUS
<1>7. Follows(d, tokens, want, command)
  BY <1>5, <1>6
<1>8. Reading(tokens, want, command) = d[n]
  BY <1>2, <1>6 DEF Reading, Follows
<1>9. d[n] = f[n]
  <2> DEFINE T == { k \in Nat : k <= n => d[k] = f[k] }
  <2>1. 0 \in T
    BY <1>1, <1>2, <1>3, <1>7 DEF Follows
  <2>2. ASSUME NEW k \in Nat, k \in T PROVE k + 1 \in T
    <3> SUFFICES ASSUME k + 1 <= n PROVE d[k + 1] = f[k + 1]
      BY <2>2
    <3>1. k + 1 \in 1..n /\ k + 1 \in 0..n /\ k + 1 # 0 /\ (k + 1) - 1 = k /\ d[k] = f[k]
      BY <2>2, <1>3
    <3>2. d[k + 1] = CHOOSE x \in {ReadToken(before, tokens[k + 1]) : before \in {d[(k + 1) - 1]}} : TRUE
      BY <3>1, <1>2, <1>7, Zenon DEF Follows
    <3>3. d[k + 1] = ReadToken(d[k], tokens[k + 1])
      BY <3>1, <3>2, OnlyReader
    <3>4. f[k + 1] = ReadToken(f[k], tokens[k + 1])
      BY <3>1, <1>1, <1>2
    <3> QED
      BY <3>1, <3>3, <3>4
  <2>3. Nat \subseteq T
    <3> HIDE DEF T
    <3> QED
      BY <2>1, <2>2, AllNumbers
  <2> QED
    BY <2>3, <1>3
<1> QED
  BY <1>1, <1>2, <1>8, <1>9

\* Nothing leaves a reader as it is.
LEMMA ReadsNothing == \A r : Reads(r, <<>>, r)
<1> SUFFICES ASSUME NEW r PROVE Reads(r, <<>>, r)
  OBVIOUS
<1>1. PICK f : f = [i \in 0..0 |-> r]
  BY Zenon
<1>2. f[0] = r /\ Len(<<>>) = 0
  BY <1>1
<1> QED
  BY <1>2 DEF Reads

\* One token.
LEMMA ReadsOne == \A r, t : Reads(r, <<t>>, ReadToken(r, t))
<1> SUFFICES ASSUME NEW r, NEW t PROVE Reads(r, <<t>>, ReadToken(r, t))
  BY Zenon
<1>1. PICK f : f = [i \in 0..1 |-> IF i = 0 THEN r ELSE ReadToken(r, t)]
  BY Zenon
<1>2. f[0] = r /\ f[1] = ReadToken(r, t) /\ Len(<<t>>) = 1 /\ <<t>>[1] = t
  BY <1>1
<1>3. \A i \in 1..1 : f[i] = ReadToken(f[i - 1], <<t>>[i])
  BY <1>2
<1> QED
  BY <1>2, <1>3 DEF Reads

\* Some tokens and then others.
LEMMA ReadsConcat ==
    ASSUME NEW S, NEW s \in Seq(S), NEW t \in Seq(S), NEW r, NEW r1, NEW r2,
           Reads(r, s, r1), Reads(r1, t, r2)
    PROVE  Reads(r, s \o t, r2)
<1>1. PICK m, n : m = Len(s) /\ n = Len(t)
  BY Zenon
<1>2. PICK c : c = s \o t
  BY Zenon
<1>3. /\ m \in Nat /\ n \in Nat /\ Len(c) = m + n
      /\ \A i \in 1..(m + n) : c[i] = IF i <= m THEN s[i] ELSE t[i - m]
  BY <1>1, <1>2, ConcatProperties
<1>4. PICK f : f[0] = r /\ (\A i \in 1..m : f[i] = ReadToken(f[i - 1], s[i])) /\ f[m] = r1
  BY <1>1 DEF Reads
<1>5. PICK g : g[0] = r1 /\ (\A i \in 1..n : g[i] = ReadToken(g[i - 1], t[i])) /\ g[n] = r2
  BY <1>1 DEF Reads
<1>6. PICK h : h = [i \in 0..(m + n) |-> IF i <= m THEN f[i] ELSE g[i - m]]
  BY Zenon
<1>7. h[0] = r /\ h[m + n] = r2
  BY <1>3, <1>4, <1>5, <1>6
<1>8. ASSUME NEW i \in 1..(m + n) PROVE h[i] = ReadToken(h[i - 1], c[i])
  <2>1. i - 1 \in 0..(m + n) /\ i \in 0..(m + n)
    BY <1>3
  <2>2. CASE i <= m
    <3>1. i \in 1..m /\ i - 1 <= m
      BY <2>2, <1>3
    <3>2. h[i] = f[i] /\ h[i - 1] = f[i - 1] /\ c[i] = s[i]
      BY <2>1, <2>2, <3>1, <1>3, <1>6
    <3> QED
      BY <3>1, <3>2, <1>4
  <2>3. CASE i > m
    <3>1. i - m \in 1..n /\ (i - 1) - m = (i - m) - 1 /\ ~ (i <= m)
      BY <2>3, <1>3
    <3>2. h[i] = g[i - m] /\ c[i] = t[i - m]
      BY <2>1, <3>1, <1>3, <1>6
    <3>3. h[i - 1] = g[(i - m) - 1]
      <4>1. CASE i - 1 = m
        BY <4>1, <2>1, <3>1, <1>3, <1>4, <1>5, <1>6
      <4>2. CASE i - 1 # m
        BY <4>2, <2>1, <2>3, <3>1, <1>3, <1>6
      <4> QED
        BY <4>1, <4>2
    <3> QED
      BY <3>1, <3>2, <3>3, <1>5
  <2> QED
    BY <2>2, <2>3, <1>3
<1> QED
  BY <1>2, <1>3, <1>7, <1>8, Zenon DEF Reads

-----------------------------------------------------------------------------
(* What tokens satisfy which wants.                                        *)

\* The items that are repeated.
LEMMA RowNames ==
    DOMAIN RowOf = {"vehicleRows", "linkRows", "logicRows", "phaseRows", "nextRows", "parameterRows",
                    "signalRows", "controlledRows", "tlsRows", "laneRows", "strings", "items"}
  BY DEF RowOf

\* A reader that accepts a token has what follows from it in the place of the item.
LEMMA ReadStep ==
    ASSUME NEW item \in Items, NEW rest \in Seq(Items), NEW token, Accepts(item, token),
           NEW command, NEW holder, NEW object, NEW variables, NEW found
    PROVE  \A reader, more :
             reader = Reader(<<item>> \o rest, command, holder, object, variables, found)
             /\ more = After(reader, token) =>
               /\ Head(reader.want) = item
               /\ item.as \notin Marks =>
                    ReadToken(reader, token) = Reader(more \o rest, command, holder, object, variables, found)
               /\ item.as = "command" =>
                    ReadToken(reader, token) = Reader(more \o rest, token.v, holder, object, variables, found)
               /\ item.as = "holder" =>
                    ReadToken(reader, token) = Reader(more \o rest, command, token.v, token.v, variables, found)
               /\ item.as = "object" =>
                    ReadToken(reader, token) = Reader(more \o rest, command, holder, token.v, variables, found)
               /\ item.as = "variables" =>
                    ReadToken(reader, token) = Reader(more \o rest, command, holder, object, token.v, found)
               /\ item.as = "variable" =>
                    \A one : one = found \cup {Result(command, holder, object, token.v)} =>
                      ReadToken(reader, token) = Reader(more \o rest, command, holder, object, variables, one)
<1>1. PICK want : want = <<item>> \o rest
  BY Zenon
<1>2. want # <<>> /\ Head(want) = item /\ Tail(want) = rest
  <2>1. <<item>> \in Seq(Items)
    OBVIOUS
  <2>2. Len(want) = Len(rest) + 1 /\ want[1] = item /\ want \in Seq(Items)
    BY <1>1, <2>1, ConcatProperties
  <2>3. want # <<>>
    BY <2>2, LenProperties
  <2>4. Tail(want) = rest
    <3>1. Tail(want) \in Seq(Items) /\ Len(Tail(want)) = Len(rest)
          /\ \A i \in 1..Len(Tail(want)) : Tail(want)[i] = want[i + 1]
      BY <2>2, <2>3, HeadTailProperties
    <3>2. \A i \in 1..Len(rest) : want[i + 1] = rest[i]
      <4> TAKE i \in 1..Len(rest)
      <4>1. i + 1 \in 1..(Len(<<item>>) + Len(rest)) /\ ~ (i + 1 <= Len(<<item>>)) /\ (i + 1) - Len(<<item>>) = i
        OBVIOUS
      <4> QED
        BY <4>1, <1>1, <2>1, ConcatProperties
    <3> QED
      BY <3>1, <3>2, SeqEqual
  <2> QED
    BY <2>2, <2>3, <2>4
<1>3. PICK reader : reader = Reader(want, command, holder, object, variables, found)
  OBVIOUS
<1>4. /\ reader.want = want /\ reader.ok /\ reader.command = command /\ reader.holder = holder
      /\ reader.object = object /\ reader.variables = variables /\ reader.results = found
      /\ reader.rest = 0
  BY <1>3 DEF Reader
<1>5. PICK more : more = After(reader, token)
  OBVIOUS
<1>6. ReadToken(reader, token) =
        [reader EXCEPT
          !.want = more \o Tail(want),
          !.command = IF item.as = "command" THEN token.v ELSE @,
          !.holder = IF item.as = "holder" THEN token.v ELSE @,
          !.object = IF item.as \in {"holder", "object"} THEN token.v ELSE @,
          !.variables = IF item.as = "variables" THEN token.v ELSE @,
          !.results = IF item.as = "variable"
                        THEN @ \cup {Result(command, holder, object, token.v)} ELSE @]
  BY <1>2, <1>4, <1>5, Zenon DEF ReadToken
<1>7. ReadToken(reader, token) =
        Reader(more \o rest,
               IF item.as = "command" THEN token.v ELSE command,
               IF item.as = "holder" THEN token.v ELSE holder,
               IF item.as \in {"holder", "object"} THEN token.v ELSE object,
               IF item.as = "variables" THEN token.v ELSE variables,
               IF item.as = "variable"
                 THEN found \cup {Result(command, holder, object, token.v)} ELSE found)
  BY <1>2, <1>3, <1>6, Zenon DEF Reader
<1>8. Head(reader.want) = item
  BY <1>2, <1>4
<1>9. LET next == ReadToken(reader, token) IN
      /\ item.as \notin Marks => next = Reader(more \o rest, command, holder, object, variables, found)
      /\ item.as = "command" => next = Reader(more \o rest, token.v, holder, object, variables, found)
      /\ item.as = "holder" => next = Reader(more \o rest, command, token.v, token.v, variables, found)
      /\ item.as = "object" => next = Reader(more \o rest, command, holder, token.v, variables, found)
      /\ item.as = "variables" => next = Reader(more \o rest, command, holder, object, token.v, found)
      /\ item.as = "variable" =>
           \A one : one = found \cup {Result(command, holder, object, token.v)} =>
             next = Reader(more \o rest, command, holder, object, variables, one)
  BY <1>7, Zenon DEF Marks
<1> QED
  BY <1>1, <1>3, <1>5, <1>8, <1>9

\* So a token of which no mark is made leads to what follows from it.
LEMMA ReadsItem ==
    ASSUME NEW item \in Items, NEW rest \in Seq(Items), NEW token, Accepts(item, token),
           NEW command, NEW holder, NEW object, NEW variables, NEW found,
           item.as \notin Marks, NEW w,
           \A reader : Head(reader.want) = item => After(reader, token) = w
    PROVE  Reads(Reader(<<item>> \o rest, command, holder, object, variables, found), <<token>>,
                 Reader(w \o rest, command, holder, object, variables, found))
  BY ReadStep, ReadsOne

\* Nothing is wanted.
LEMMA TakesNothing == Takes(<<>>, <<>>)
<1> SUFFICES ASSUME NEW rest \in Seq(Items), NEW command, NEW holder, NEW object, NEW variables, NEW found
             PROVE  Reads(Reader(<<>> \o rest, command, holder, object, variables, found), <<>>,
                          Reader(rest, command, holder, object, variables, found))
  BY EmptySeq DEF Takes
<1>1. <<>> \o rest = rest
  BY ConcatEmptySeq
<1> QED
  BY <1>1, ReadsNothing

\* Some items and then others.
LEMMA TakesConcat ==
    ASSUME NEW v, NEW w, NEW s, NEW t, Takes(v, s), Takes(w, t)
    PROVE  Takes(v \o w, s \o t)
<1>1. v \in Seq(Items) /\ w \in Seq(Items) /\ s \in Seq(Tokens) /\ t \in Seq(Tokens)
  BY DEF Takes
<1>2. v \o w \in Seq(Items) /\ s \o t \in Seq(Tokens)
  BY <1>1, ConcatProperties
<1>3. ASSUME NEW rest \in Seq(Items), NEW command, NEW holder, NEW object, NEW variables, NEW found
      PROVE  Reads(Reader((v \o w) \o rest, command, holder, object, variables, found), s \o t,
                   Reader(rest, command, holder, object, variables, found))
  <2>1. (v \o w) \o rest = v \o (w \o rest) /\ w \o rest \in Seq(Items)
    BY <1>1, ConcatAssociative, ConcatProperties
  <2>2. Reads(Reader(v \o (w \o rest), command, holder, object, variables, found), s,
              Reader(w \o rest, command, holder, object, variables, found))
    BY <2>1, Zenon DEF Takes
  <2>3. Reads(Reader(w \o rest, command, holder, object, variables, found), t,
              Reader(rest, command, holder, object, variables, found))
    BY DEF Takes
  <2> QED
    BY <2>1, <2>2, <2>3, <1>1, ReadsConcat
<1> QED
  BY <1>2, <1>3 DEF Takes

\* An item, and the items that its token puts in its place.
LEMMA TakesInside ==
    ASSUME NEW item \in Items, NEW token \in Tokens, Accepts(item, token), item.as \notin Marks,
           NEW w, NEW t, Takes(w, t),
           \A reader : Head(reader.want) = item => After(reader, token) = w
    PROVE  Takes(<<item>>, <<token>> \o t)
<1>1. <<item>> \in Seq(Items) /\ <<token>> \in Seq(Tokens) /\ t \in Seq(Tokens) /\ w \in Seq(Items)
  BY DEF Takes
<1>2. <<token>> \o t \in Seq(Tokens)
  BY <1>1, ConcatProperties
<1>3. ASSUME NEW rest \in Seq(Items), NEW command, NEW holder, NEW object, NEW variables, NEW found
      PROVE  Reads(Reader(<<item>> \o rest, command, holder, object, variables, found), <<token>> \o t,
                   Reader(rest, command, holder, object, variables, found))
  BY ReadsItem, <1>1, ReadsConcat, Zenon DEF Takes
<1> QED
  BY <1>1, <1>2, <1>3 DEF Takes

\* An item that is not expanded, repeated or stored takes one token that satisfies it.
LEMMA TakesToken ==
    ASSUME NEW item \in Items, NEW token \in Tokens, Accepts(item, token), item.as \in Plain
    PROVE  Takes(<<item>>, <<token>>)
<1>1. \A reader : Head(reader.want) = item => After(reader, token) = <<>>
  BY RowNames DEF After, Plain
<1>2. Takes(<<item>>, <<token>> \o <<>>)
  BY <1>1, TakesNothing, TakesInside, Zenon DEF Plain, Marks
<1>3. <<token>> \in Seq(Tokens)
  OBVIOUS
<1> QED
  BY <1>2, <1>3, ConcatEmptySeq

\* Copies, one after the other.
LEMMA CopiesFacts ==
    ASSUME NEW S, NEW w \in Seq(S)
    PROVE  /\ Copies(0, w) = <<>>
           /\ \A n \in Nat : Copies(n + 1, w) = Copies(n, w) \o w
           /\ \A n \in Nat : Copies(n, w) \in Seq(S)
           /\ Copies(1, w) = w
           /\ Copies(2, w) = w \o w
           /\ Copies(3, w) = (w \o w) \o w
<1>1. PICK W : W = Seq(S)
  OBVIOUS
<1>2. ASSUME NEW n \in Nat PROVE [i \in 1..n |-> w] \in Seq(W) /\ Len([i \in 1..n |-> w]) = n
  BY <1>1
<1>3. Copies(0, w) = <<>>
  BY <1>2, EmptySeq, FlattenFacts DEF Copies
<1>4. ASSUME NEW n \in Nat PROVE Copies(n + 1, w) = Copies(n, w) \o w
  <2>1. PICK c : c = [i \in 1..n |-> w]
    BY Zenon
  <2>2. PICK d : d = [i \in 1..(n + 1) |-> w]
    BY Zenon
  <2>3. c \in Seq(W) /\ d \in Seq(W) /\ Len(c) = n /\ Len(d) = n + 1 /\ w \in W
    BY <1>1, <1>2, <2>1, <2>2
  <2>4. Append(c, w) \in Seq(W) /\ Len(Append(c, w)) = n + 1
        /\ \A i \in 1..(n + 1) : Append(c, w)[i] = d[i]
    BY <2>1, <2>2, <2>3
  <2>5. d = Append(c, w)
    BY <2>3, <2>4, SeqEqual
  <2>6. FlattenSeq(d) = FlattenSeq(c) \o w
    BY <1>1, <2>3, <2>5, FlattenFacts
  <2> QED
    BY <2>1, <2>2, <2>6, Zenon DEF Copies
<1>5. ASSUME NEW n \in Nat PROVE Copies(n, w) \in Seq(S)
  BY <1>1, <1>2, FlattenFacts DEF Copies
<1>6. Copies(1, w) = w
  <2>1. Copies(0 + 1, w) = Copies(0, w) \o w
    BY <1>4, Zenon
  <2> QED
    BY <1>3, <2>1, ConcatEmptySeq
<1>7. Copies(2, w) = w \o w
  <2>1. Copies(1 + 1, w) = Copies(1, w) \o w
    BY <1>4, Zenon
  <2> QED
    BY <1>6, <2>1
<1>8. Copies(3, w) = (w \o w) \o w
  <2>1. Copies(3, w) = Copies(2, w) \o w
    <3>1. PICK n \in Nat : n = 2
      OBVIOUS
    <3>2. Copies(n + 1, w) = Copies(n, w) \o w
      BY <1>4, Zenon
    <3> QED
      BY <3>1, <3>2
  <2> QED
    BY <1>7, <2>1, Zenon
<1> QED
  BY <1>3, <1>4, <1>5, <1>6, <1>7, <1>8, Zenon

\* Copies of items take copies of tokens.
LEMMA TakesCopies ==
    ASSUME NEW w, NEW t, Takes(w, t)
    PROVE  \A n \in Nat : Takes(Copies(n, w), Copies(n, t))
<1> DEFINE T == { n \in Nat : Takes(Copies(n, w), Copies(n, t)) }
<1>1. w \in Seq(Items) /\ t \in Seq(Tokens)
  BY DEF Takes
<1>2. 0 \in T
  BY <1>1, CopiesFacts, TakesNothing
<1>3. ASSUME NEW n \in Nat, n \in T PROVE n + 1 \in T
  <2>0. PICK m \in Nat : m = n + 1
    OBVIOUS
  <2>1. Copies(m, w) = Copies(n, w) \o w /\ Copies(m, t) = Copies(n, t) \o t
    BY <1>1, <2>0, CopiesFacts, Zenon
  <2>2. Takes(Copies(n, w), Copies(n, t))
    BY <1>3
  <2>3. Takes(Copies(n, w) \o w, Copies(n, t) \o t)
    BY <2>2, TakesConcat
  <2>4. Takes(Copies(m, w), Copies(m, t))
    BY <2>1, <2>3
  <2> QED
    BY <2>0, <2>4
<1> HIDE DEF T
<1>4. Nat \subseteq T
  BY <1>2, <1>3, AllNumbers
<1> QED
  BY <1>4 DEF T

\* A byte is a token of size 1, written with its value if it is in range.
LEMMA Bytes ==
    ASSUME NEW n
    PROVE  /\ UByte(n) \in Tokens /\ Byte(n) \in Tokens
           /\ Size(UByte(n)) = 1 /\ Size(Byte(n)) = 1
           /\ UByte(n).as = "byte" /\ Byte(n).as = "byte"
           /\ n \in 0..255 => UByte(n).v = n
  BY DEF UByte, Byte, Throws, Tokens, Size

\* An int is a token of size 4.
LEMMA Ints ==
    ASSUME NEW n \in Int
    PROVE  I32(n) \in Tokens /\ Size(I32(n)) = 4 /\ I32(n).as = "int" /\ I32(n).v = n
  BY DEF I32, Tokens, Size

\* Doubles in a row are one token of eight bytes each.
LEMMA ManyDoubles ==
    ASSUME NEW n \in Nat \ {0}
    PROVE  /\ Doubles(n) \in Tokens /\ Size(Doubles(n)) = 8 * n
           /\ Doubles(n).as = "double" /\ Doubles(n).v = n
  BY DEF Doubles, Tokens, Size

\* A string is a token of its length and the four bytes that tell it.
LEMMA Strings ==
    ASSUME NEW n \in Nat
    PROVE  /\ String(n) \in Tokens /\ Size(String(n)) = 4 + n
           /\ String(n).as = "string" /\ String(n).v = n
  BY DEF String, Tokens, Size

\* What a reader wants of some kind is an item of that kind.
LEMMA Wants ==
    ASSUME NEW kind \in Kinds
    PROVE  Want(kind) \in Items /\ Want(kind).as = kind
  BY DEF Want, Items

\* A byte that must be a given one, and doubles in a row, are items too.
LEMMA NumberedItems ==
    ASSUME NEW n \in Int
    PROVE  /\ This(n) \in Items /\ This(n).as = "this" /\ This(n).v = n
           /\ Doubles(n) \in Items /\ Doubles(n).as = "double" /\ Doubles(n).v = n
  BY DEF This, Doubles, Items, Kinds

\* An item that one token satisfies takes it, and is done with it.
LEMMA TakesOne ==
    /\ \A n : Takes(<<Want("byte")>>, <<UByte(n)>>) /\ Takes(<<Want("byte")>>, <<Byte(n)>>)
    /\ \A n \in Int : Takes(<<Want("int")>>, <<I32(n)>>)
    /\ \A n \in Nat : Takes(<<Want("string")>>, <<String(n)>>)
    /\ \A n \in Nat \ {0} : Takes(<<Doubles(n)>>, <<Doubles(n)>>)
    /\ \A n \in 0..255 : Takes(<<This(n)>>, <<UByte(n)>>)
    /\ \A n \in Int : Takes(<<Want("longLength")>>, <<I32(n)>>)
<1>1. ASSUME NEW n PROVE Takes(<<Want("byte")>>, <<UByte(n)>>) /\ Takes(<<Want("byte")>>, <<Byte(n)>>)
  BY Bytes, Ints, ManyDoubles, Strings, Wants, NumberedItems, RowNames, TakesToken
     DEF Kinds, Accepts, CarrierOf, Want, Plain
<1>2. ASSUME NEW n \in Int PROVE Takes(<<Want("int")>>, <<I32(n)>>)
  BY Bytes, Ints, ManyDoubles, Strings, Wants, NumberedItems, RowNames, TakesToken
     DEF Kinds, Accepts, CarrierOf, Want, I32, Plain
<1>3. ASSUME NEW n \in Nat PROVE Takes(<<Want("string")>>, <<String(n)>>)
  BY Bytes, Ints, ManyDoubles, Strings, Wants, NumberedItems, RowNames, TakesToken
     DEF Kinds, Accepts, CarrierOf, Want, String, Plain
<1>4. ASSUME NEW n \in Nat \ {0} PROVE Takes(<<Doubles(n)>>, <<Doubles(n)>>)
  BY Bytes, Ints, ManyDoubles, Strings, Wants, NumberedItems, RowNames, TakesToken
     DEF Kinds, Accepts, CarrierOf, Doubles, Plain
<1>5. ASSUME NEW n \in 0..255 PROVE Takes(<<This(n)>>, <<UByte(n)>>)
  BY Bytes, Ints, ManyDoubles, Strings, Wants, NumberedItems, RowNames, TakesToken
     DEF Kinds, Accepts, CarrierOf, This, Plain
<1>6. ASSUME NEW n \in Int PROVE Takes(<<Want("longLength")>>, <<I32(n)>>)
  BY Bytes, Ints, ManyDoubles, Strings, Wants, NumberedItems, RowNames, TakesToken
     DEF Kinds, Accepts, CarrierOf, Want, I32, Plain
<1> QED
  BY <1>1, <1>2, <1>3, <1>4, <1>5, <1>6, Zenon

\* A byte that is a type, and a value of that type.
LEMMA TakesValue ==
    ASSUME NEW type \in 0..255, NEW t, Takes(Value(type), t)
    PROVE  Takes(<<Want("value")>>, <<UByte(type)>> \o t)
<1>1. Want("value") \in Items /\ UByte(type) \in Tokens /\ UByte(type).v = type
  BY Bytes, Ints, ManyDoubles, Strings, Wants, NumberedItems, Zenon DEF Kinds
<1>2. Accepts(Want("value"), UByte(type))
  BY RowNames, Bytes DEF Accepts, CarrierOf, Want
<1>3. \A reader : Head(reader.want) = Want("value") => After(reader, UByte(type)) = Value(type)
  BY <1>1, RowNames DEF After, Want
<1> QED
  BY <1>1, <1>2, <1>3, TakesInside DEF Want, Marks

\* An int that counts rows takes a number and that many rows.
LEMMA TakesRows ==
    ASSUME NEW kind \in DOMAIN RowOf, NEW n \in Nat, NEW t, Takes(Copies(n, RowOf[kind]), t)
    PROVE  Takes(<<Want(kind)>>, <<I32(n)>> \o t)
<1>1. Want(kind) \in Items /\ I32(n) \in Tokens
  <2>1. kind \in Kinds
    BY DEF Kinds
  <2> QED
    BY <2>1, Wants, Ints
<1>2. Accepts(Want(kind), I32(n))
  BY RowNames DEF Accepts, CarrierOf, Want, I32
<1>3. \A reader : Head(reader.want) = Want(kind) => After(reader, I32(n)) = Copies(n, RowOf[kind])
  BY RowNames DEF After, Want, I32
<1>4. Want(kind).as \notin Marks
  BY RowNames DEF Want, Marks
<1> QED
  BY <1>1, <1>2, <1>3, <1>4, TakesInside

\* The points of a polygon are announced in one byte or in an int: both ways are read.
LEMMA TakesPoints ==
    /\ \A n \in 1..255 : Takes(<<Want("points")>>, <<UByte(n)>> \o <<Doubles(2 * n)>>)
    /\ \A n \in Nat \ {0} : Takes(<<Want("points")>>, <<UByte(0)>> \o (<<I32(n)>> \o <<Doubles(2 * n)>>))
<1>1. ASSUME NEW n \in 0..255 PROVE Accepts(Want("points"), UByte(n))
  BY RowNames, Bytes DEF Accepts, CarrierOf, Want
<1>2. ASSUME NEW n \in 1..255 PROVE Takes(<<Want("points")>>, <<UByte(n)>> \o <<Doubles(2 * n)>>)
  <2>1. Want("points") \in Items /\ UByte(n) \in Tokens /\ UByte(n).v = n /\ n # 0 /\ n \in 0..255
    BY Wants, Bytes DEF Kinds
  <2>2. Takes(<<Doubles(2 * n)>>, <<Doubles(2 * n)>>)
    <3>1. 2 * n \in Nat \ {0}
      OBVIOUS
    <3> QED
      BY <3>1, TakesOne, Zenon
  <2>3. \A reader : Head(reader.want) = Want("points") => After(reader, UByte(n)) = <<Doubles(2 * n)>>
    BY <2>1, RowNames DEF After, Want
  <2> QED
    BY <1>1, <2>1, <2>2, <2>3, TakesInside DEF Want, Marks
<1>3. ASSUME NEW n \in Nat \ {0}
      PROVE  Takes(<<Want("points")>>, <<UByte(0)>> \o (<<I32(n)>> \o <<Doubles(2 * n)>>))
  <2>1. /\ Want("points") \in Items /\ UByte(0) \in Tokens /\ UByte(0).v = 0
        /\ Want("manyPoints") \in Items /\ I32(n) \in Tokens
    BY Bytes, Ints, ManyDoubles, Strings, Wants, NumberedItems DEF Kinds
  <2>2. Takes(<<Doubles(2 * n)>>, <<Doubles(2 * n)>>)
    <3>1. 2 * n \in Nat \ {0}
      OBVIOUS
    <3> QED
      BY <3>1, TakesOne, Zenon
  <2>3. Accepts(Want("manyPoints"), I32(n))
    BY RowNames DEF Accepts, CarrierOf, Want, I32
  <2>4. \A reader : Head(reader.want) = Want("manyPoints") => After(reader, I32(n)) = <<Doubles(2 * n)>>
    BY RowNames DEF After, Want, I32
  <2>5. Takes(<<Want("manyPoints")>>, <<I32(n)>> \o <<Doubles(2 * n)>>)
    BY <2>1, <2>2, <2>3, <2>4, TakesInside DEF Want, Marks
  <2>6. \A reader : Head(reader.want) = Want("points") => After(reader, UByte(0)) = <<Want("manyPoints")>>
    BY <2>1, RowNames DEF After, Want
  <2> QED
    BY <1>1, <2>1, <2>5, <2>6, TakesInside DEF Want, Marks
<1> QED
  BY <1>2, <1>3, Zenon

\* The length of a command or response, in one byte or in five.
LEMMA TakesLength ==
    /\ \A n \in 1..255 : Takes(<<Want("length")>>, <<UByte(n)>>)
    /\ \A n \in Int : Takes(<<Want("length")>>, <<UByte(0)>> \o <<I32(n)>>)
<1>1. ASSUME NEW n \in 0..255 PROVE Accepts(Want("length"), UByte(n))
  BY RowNames, Bytes DEF Accepts, CarrierOf, Want
<1>2. ASSUME NEW n \in 1..255 PROVE Takes(<<Want("length")>>, <<UByte(n)>>)
  <2>1. Want("length") \in Items /\ UByte(n) \in Tokens /\ UByte(n).v = n /\ n # 0 /\ n \in 0..255
    BY Wants, Bytes DEF Kinds
  <2>2. \A reader : Head(reader.want) = Want("length") => After(reader, UByte(n)) = <<>>
    BY <2>1, RowNames DEF After, Want
  <2>3. Takes(<<Want("length")>>, <<UByte(n)>> \o <<>>)
    BY <1>1, <2>1, <2>2, TakesNothing, TakesInside, Zenon DEF Want, Marks
  <2>4. <<UByte(n)>> \in Seq(Tokens)
    BY <2>1
  <2> QED
    BY <2>3, <2>4, ConcatEmptySeq
<1>3. ASSUME NEW n \in Int PROVE Takes(<<Want("length")>>, <<UByte(0)>> \o <<I32(n)>>)
  <2>1. Want("length") \in Items /\ UByte(0) \in Tokens /\ UByte(0).v = 0
    BY Bytes, Ints, ManyDoubles, Strings, Wants, NumberedItems DEF Kinds
  <2>2. Takes(<<Want("longLength")>>, <<I32(n)>>)
    BY TakesOne, Zenon
  <2>3. \A reader : Head(reader.want) = Want("length") => After(reader, UByte(0)) = <<Want("longLength")>>
    BY <2>1, RowNames DEF After, Want
  <2> QED
    BY <1>1, <2>1, <2>2, <2>3, TakesInside DEF Want, Marks
<1> QED
  BY <1>2, <1>3, Zenon

-----------------------------------------------------------------------------
(* Values, as a setter writes them and as SUMO reads them.                 *)

\* One member and another are a sequence of two.
LEMMA Pairs ==
    ASSUME NEW S, NEW a \in S, NEW b \in S
    PROVE  <<a>> \o <<b>> = <<a, b>> /\ <<a, b>> \in Seq(S)
<1>1. <<a>> \in Seq(S) /\ <<a, b>> \in Seq(S) /\ <<b>> \in Seq(S)
  OBVIOUS
<1>2. Append(<<a>>, b) = <<a, b>>
  <2>1. PICK s, t : s = Append(<<a>>, b) /\ t = <<a, b>>
    BY Zenon
  <2>2. s \in Seq(S) /\ Len(s) = 2 /\ s[1] = a /\ s[2] = b
    BY <1>1, <2>1, AppendProperties
  <2>3. t \in Seq(S) /\ Len(t) = 2 /\ t[1] = a /\ t[2] = b
    BY <1>1, <2>1
  <2>4. \A i \in 1..2 : s[i] = t[i]
    BY <2>2, <2>3
  <2>5. s = t
    BY <2>2, <2>3, <2>4, SeqEqual
  <2> QED
    BY <2>1, <2>5, Zenon
<1>3. Append(<<a>>, b) = <<a>> \o <<b>>
  BY <1>1, AppendIsConcat
<1> QED
  BY <1>1, <1>2, <1>3, Zenon

\* One item, and one token, are sequences.
LEMMA SingleWants ==
    ASSUME NEW item \in Items, NEW t \in Tokens
    PROVE  <<item>> \in Seq(Items) /\ <<t>> \in Seq(Tokens)
  OBVIOUS

\* So many copies of one member are a sequence of that length.
LEMMA CopiesOf ==
    ASSUME NEW S, NEW x \in S
    PROVE  \A n \in Nat : Copies(n, <<x>>) \in Seq(S) /\ Len(Copies(n, <<x>>)) = n
<1>0. <<x>> \in Seq(S) /\ Len(<<x>>) = 1
  OBVIOUS
<1>1. PICK w : w = <<x>>
  BY Zenon
<1>2. w \in Seq(S) /\ Len(w) = 1
  BY <1>0, <1>1
<1> DEFINE T == { n \in Nat : Len(Copies(n, w)) = n }
<1>3. 0 \in T
  BY <1>2, CopiesFacts, EmptySeq
<1>4. ASSUME NEW n \in Nat, n \in T PROVE n + 1 \in T
  <2>1. Copies(n + 1, w) = Copies(n, w) \o w /\ Copies(n, w) \in Seq(S)
    BY <1>2, CopiesFacts, Zenon
  <2>3. Len(Copies(n, w)) = n
    BY <1>4
  <2>4. PICK c : c = Copies(n, w)
    OBVIOUS
  <2>2. Len(Copies(n, w) \o w) = n + 1
    <3>1. c \in Seq(S) /\ Len(c) = n
      BY <2>1, <2>3, <2>4
    <3>2. Len(c \o w) = Len(c) + Len(w)
      BY <3>1, <1>2, ConcatProperties, Zenon
    <3> QED
      BY <3>1, <3>2, <1>2, <2>4
  <2> QED
    BY <2>1, <2>2
<1>5. Nat \subseteq T
  <2> HIDE DEF T
  <2> QED
    BY <1>3, <1>4, AllNumbers
<1> QED
  BY <1>1, <1>2, <1>5, CopiesFacts, Zenon

\* Values one after the other are that many values.
LEMMA ValuesInARow ==
    \A items \in Seq(Values) : Takes(Copies(Len(items), <<Want("value")>>), FlattenSeq(items))
<1> DEFINE T == { n \in Nat : \A items \in Seq(Values) :
                    Len(items) = n => Takes(Copies(n, <<Want("value")>>), FlattenSeq(items)) }
<1>0. <<Want("value")>> \in Seq(Items)
  BY Wants DEF Kinds
<1>1. 0 \in T
  <2> SUFFICES ASSUME NEW items \in Seq(Values), Len(items) = 0
               PROVE  Takes(Copies(0, <<Want("value")>>), FlattenSeq(items))
    OBVIOUS
  <2>1. items = <<>>
    BY EmptySeq
  <2>2. FlattenSeq(items) = <<>>
    BY <2>1, FlattenFacts
  <2>3. Copies(0, <<Want("value")>>) = <<>>
    BY <1>0, CopiesFacts, Zenon
  <2> QED
    BY <2>2, <2>3, TakesNothing
<1>2. ASSUME NEW n \in Nat, n \in T PROVE n + 1 \in T
  <2>0. PICK m \in Nat : m = n + 1
    OBVIOUS
  <2> SUFFICES ASSUME NEW items \in Seq(Values), Len(items) = m
               PROVE  Takes(Copies(m, <<Want("value")>>), FlattenSeq(items))
    BY <2>0
  <2>1. PICK front \in Seq(Values), last \in Values : items = Append(front, last) /\ Len(front) = n
    BY <2>0, LastMember, EmptySeq
  <2>2. Takes(Copies(n, <<Want("value")>>), FlattenSeq(front))
    BY <1>2, <2>1
  <2>3. Takes(<<Want("value")>>, last)
    BY DEF Values
  <2>4. Takes(Copies(n, <<Want("value")>>) \o <<Want("value")>>, FlattenSeq(front) \o last)
    BY <2>2, <2>3, TakesConcat
  <2>5. FlattenSeq(items) = FlattenSeq(front) \o last
    <3>1. Values \subseteq Seq(Tokens)
      BY DEF Values
    <3>2. front \in Seq(Seq(Tokens)) /\ last \in Seq(Tokens)
      BY <3>1
    <3> QED
      BY <2>1, <3>2, FlattenFacts
  <2>6. Copies(m, <<Want("value")>>) = Copies(n, <<Want("value")>>) \o <<Want("value")>>
    BY <1>0, <2>0, CopiesFacts, Zenon
  <2> QED
    BY <2>4, <2>5, <2>6, Zenon
<1>3. Nat \subseteq T
  <2> HIDE DEF T
  <2> QED
    BY <1>1, <1>2, AllNumbers
<1> TAKE items \in Seq(Values)
<1>4. Len(items) \in T
  BY <1>3
<1> QED
  BY <1>4

\* A type and a value of it.
LEMMA TypedIsValue ==
    ASSUME NEW type \in 0..255, NEW t, Takes(Value(type), t)
    PROVE  <<UByte(type)>> \o t \in Values
  BY TakesValue, Zenon DEF Takes, Values

\* A compound of values that announces as many as there are.
LEMMA CompoundIsValue ==
    ASSUME NEW items \in Seq(Values)
    PROVE  \A n : n = Len(items) => ACompound(n, items) \in Values
<1>1. PICK n \in Nat : n = Len(items)
  OBVIOUS
<1>2. RowOf["items"] = <<Want("value")>> /\ "items" \in DOMAIN RowOf
  BY DEF RowOf
<1>3. Takes(Copies(n, RowOf["items"]), FlattenSeq(items))
  BY <1>1, <1>2, ValuesInARow
<1>4. Takes(<<Want("items")>>, <<I32(n)>> \o FlattenSeq(items))
  BY <1>2, <1>3, TakesRows
<1>5. Value(TYPE_COMPOUND) = <<Want("items")>> /\ TYPE_COMPOUND \in 0..255
  BY DEF Value, TYPE_COMPOUND, TYPE_INTEGER, TYPE_DOUBLE, TYPE_STRING, TYPE_BYTE, TYPE_UBYTE, TYPE_COLOR,
         POSITION_2D, POSITION_LON_LAT, POSITION_3D, POSITION_LON_LAT_ALT, POSITION_ROADMAP, TYPE_POLYGON,
         TYPE_STRINGLIST
<1>6. <<UByte(TYPE_COMPOUND)>> \o (<<I32(n)>> \o FlattenSeq(items)) \in Values
  BY <1>4, <1>5, TypedIsValue, Zenon
<1>7. <<UByte(TYPE_COMPOUND)>> \in Seq(Tokens) /\ <<I32(n)>> \in Seq(Tokens) /\ FlattenSeq(items) \in Seq(Tokens)
  BY <1>3, Bytes, Ints DEF Takes
<1>8. <<UByte(TYPE_COMPOUND)>> \o (<<I32(n)>> \o FlattenSeq(items)) = <<UByte(TYPE_COMPOUND), I32(n)>> \o FlattenSeq(items)
  BY <1>7, ConcatAssociative, Pairs, Bytes, Ints
<1> QED
  BY <1>1, <1>6, <1>8, Zenon DEF ACompound

\* Three members, and four, as sequences of one put together.
LEMMA Triples ==
    ASSUME NEW S, NEW a \in S, NEW b \in S, NEW c \in S
    PROVE  <<a>> \o (<<b>> \o <<c>>) = <<a, b, c>> /\ <<a, b, c>> \in Seq(S)
<1>1. <<a>> \in Seq(S) /\ <<b, c>> \in Seq(S) /\ <<b>> \o <<c>> = <<b, c>>
  BY Pairs
<1>2. PICK p, q, s, t : p = <<a>> /\ q = <<b, c>> /\ s = p \o q /\ t = <<a, b, c>>
  BY Zenon
<1>3. p \in Seq(S) /\ q \in Seq(S) /\ Len(p) = 1 /\ Len(q) = 2 /\ p[1] = a /\ q[1] = b /\ q[2] = c
  BY <1>1, <1>2
<1>4. t \in Seq(S) /\ Len(t) = 3 /\ t[1] = a /\ t[2] = b /\ t[3] = c
  BY <1>2
<1>5. s \in Seq(S) /\ Len(s) = 3 /\ s[1] = p[1] /\ s[2] = q[1] /\ s[3] = q[2]
  BY <1>2, <1>3, ConcatProperties
<1>6. \A i \in 1..3 : s[i] = t[i]
  BY <1>3, <1>4, <1>5
<1>7. s = t
  BY <1>4, <1>5, <1>6, SeqEqual
<1> QED
  BY <1>1, <1>2, <1>4, <1>7, Zenon

\* Four members put together, one after another.
LEMMA Quadruples ==
    ASSUME NEW S, NEW a \in S, NEW b \in S, NEW c \in S, NEW d \in S
    PROVE  <<a>> \o (<<b>> \o (<<c>> \o <<d>>)) = <<a, b, c, d>> /\ <<a, b, c, d>> \in Seq(S)
<1>1. <<a>> \in Seq(S) /\ <<b, c, d>> \in Seq(S) /\ <<b>> \o (<<c>> \o <<d>>) = <<b, c, d>>
  BY Triples
<1>2. PICK p, q, s, t : p = <<a>> /\ q = <<b, c, d>> /\ s = p \o q /\ t = <<a, b, c, d>>
  BY Zenon
<1>3. p \in Seq(S) /\ q \in Seq(S) /\ Len(p) = 1 /\ Len(q) = 3 /\ p[1] = a /\ q[1] = b /\ q[2] = c /\ q[3] = d
  BY <1>1, <1>2
<1>4. t \in Seq(S) /\ Len(t) = 4 /\ t[1] = a /\ t[2] = b /\ t[3] = c /\ t[4] = d
  BY <1>2
<1>5. s \in Seq(S) /\ Len(s) = 4 /\ s[1] = p[1] /\ s[2] = q[1] /\ s[3] = q[2] /\ s[4] = q[3]
  BY <1>2, <1>3, ConcatProperties
<1>6. \A i \in 1..4 : s[i] = t[i]
  BY <1>3, <1>4, <1>5
<1>7. s = t
  BY <1>4, <1>5, <1>6, SeqEqual
<1> QED
  BY <1>1, <1>2, <1>4, <1>7, Zenon

\* A type, and what a value of it holds, are a value.
LEMMA ValueOf ==
    /\ Value(TYPE_INTEGER) = <<Want("int")>>
    /\ Value(TYPE_DOUBLE) = <<Doubles(1)>>
    /\ Value(TYPE_STRING) = <<Want("string")>>
    /\ Value(TYPE_BYTE) = <<Want("byte")>>
    /\ Value(TYPE_UBYTE) = <<Want("byte")>>
    /\ Value(TYPE_COLOR) = Copies(4, <<Want("byte")>>)
    /\ Value(POSITION_2D) = Copies(2, <<Doubles(1)>>)
    /\ Value(POSITION_LON_LAT) = Copies(2, <<Doubles(1)>>)
    /\ Value(POSITION_3D) = Copies(3, <<Doubles(1)>>)
    /\ Value(POSITION_LON_LAT_ALT) = Copies(3, <<Doubles(1)>>)
    /\ Value(POSITION_ROADMAP) = <<Want("string"), Doubles(1), Want("byte")>>
    /\ Value(TYPE_POLYGON) = <<Want("points")>>
    /\ Value(TYPE_STRINGLIST) = <<Want("strings")>>
    /\ Value(TYPE_COMPOUND) = <<Want("items")>>
  BY DEF Value, TYPE_COMPOUND, TYPE_INTEGER, TYPE_DOUBLE, TYPE_STRING, TYPE_BYTE, TYPE_UBYTE, TYPE_COLOR,
         POSITION_2D, POSITION_LON_LAT, POSITION_3D, POSITION_LON_LAT_ALT, POSITION_ROADMAP, TYPE_POLYGON,
         TYPE_STRINGLIST

\* The types are bytes.
LEMMA TypesAreBytes ==
    {TYPE_COMPOUND, TYPE_INTEGER, TYPE_DOUBLE, TYPE_STRING, TYPE_BYTE, TYPE_UBYTE, TYPE_COLOR, POSITION_2D,
     POSITION_LON_LAT, POSITION_3D, POSITION_LON_LAT_ALT, POSITION_ROADMAP, TYPE_POLYGON, TYPE_STRINGLIST} \subseteq 0..127
  BY DEF TYPE_COMPOUND, TYPE_INTEGER, TYPE_DOUBLE, TYPE_STRING, TYPE_BYTE, TYPE_UBYTE, TYPE_COLOR,
         POSITION_2D, POSITION_LON_LAT, POSITION_3D, POSITION_LON_LAT_ALT, POSITION_ROADMAP, TYPE_POLYGON,
         TYPE_STRINGLIST

\* A signed byte that is not negative is written like an unsigned one.
LEMMA SmallBytes == \A n \in 0..127 : Byte(n) = UByte(n)
<1> SUFFICES ASSUME NEW n \in 0..127 PROVE Byte(n) = UByte(n)
  OBVIOUS
<1>1. n \in -128..127 /\ n \in 0..255 /\ (n + 256) % 256 = n
  OBVIOUS
<1> QED
  BY <1>1 DEF Byte, UByte

\* What each type wants takes the values the methods write and the samples of SUMO.
LEMMA TakesTyped ==
    /\ \A n \in Int : Takes(Value(TYPE_INTEGER), <<I32(n)>>)
    /\ Takes(Value(TYPE_DOUBLE), <<Doubles(1)>>)
    /\ \A n \in Nat : Takes(Value(TYPE_STRING), <<String(n)>>)
    /\ \A n : Takes(Value(TYPE_BYTE), <<Byte(n)>>) /\ Takes(Value(TYPE_BYTE), <<UByte(n)>>)
    /\ \A n : Takes(Value(TYPE_UBYTE), <<Byte(n)>>) /\ Takes(Value(TYPE_UBYTE), <<UByte(n)>>)
    /\ Takes(Value(TYPE_COLOR), Copies(4, <<UByte(0)>>))
    /\ Takes(Value(POSITION_2D), Copies(2, <<Doubles(1)>>))
    /\ Takes(Value(POSITION_LON_LAT), Copies(2, <<Doubles(1)>>))
    /\ Takes(Value(POSITION_3D), Copies(3, <<Doubles(1)>>))
    /\ Takes(Value(POSITION_LON_LAT_ALT), Copies(3, <<Doubles(1)>>))
    /\ \A n : Takes(Value(POSITION_ROADMAP), <<String(1), Doubles(1), UByte(n)>>)
    /\ \A n \in Nat : Takes(Value(TYPE_STRINGLIST), <<I32(n)>> \o Copies(n, <<String(1)>>))
    /\ \A n \in 1..255 : Takes(Value(TYPE_POLYGON), <<UByte(n)>> \o <<Doubles(2 * n)>>)
    /\ \A n \in Nat \ {0} : Takes(Value(TYPE_POLYGON), <<UByte(0)>> \o (<<I32(n)>> \o <<Doubles(2 * n)>>))
<1>1. Takes(<<Doubles(1)>>, <<Doubles(1)>>)
  <2>1. PICK n \in Nat \ {0} : n = 1
    OBVIOUS
  <2>2. Takes(<<Doubles(n)>>, <<Doubles(n)>>)
    BY TakesOne, Zenon
  <2> QED
    BY <2>1, <2>2
<1>2. \A n \in Nat : Takes(Copies(n, <<Doubles(1)>>), Copies(n, <<Doubles(1)>>))
  BY <1>1, TakesCopies
<1>3. Takes(<<Want("byte")>>, <<UByte(0)>>)
  BY TakesOne, Zenon
<1>4. \A n \in Nat : Takes(Copies(n, <<Want("byte")>>), Copies(n, <<UByte(0)>>))
  BY <1>3, TakesCopies
<1>5. ASSUME NEW n PROVE Takes(<<Want("string"), Doubles(1), Want("byte")>>, <<String(1), Doubles(1), UByte(n)>>)
  <2>1. /\ Takes(<<Want("string")>>, <<String(1)>>)
        /\ Takes(<<Want("byte")>>, <<UByte(n)>>)
    BY TakesOne, Zenon
  <2>2. Takes(<<Want("string")>> \o (<<Doubles(1)>> \o <<Want("byte")>>), <<String(1)>> \o (<<Doubles(1)>> \o <<UByte(n)>>))
    BY <1>1, <2>1, TakesConcat
  <2>3. Want("string") \in Items /\ Doubles(1) \in Items /\ Want("byte") \in Items
    BY Wants, NumberedItems DEF Kinds
  <2>4. String(1) \in Tokens /\ Doubles(1) \in Tokens /\ UByte(n) \in Tokens
    BY Strings, ManyDoubles, Bytes
  <2>5. <<Want("string")>> \o (<<Doubles(1)>> \o <<Want("byte")>>) = <<Want("string"), Doubles(1), Want("byte")>>
    BY <2>3, Triples
  <2>6. <<String(1)>> \o (<<Doubles(1)>> \o <<UByte(n)>>) = <<String(1), Doubles(1), UByte(n)>>
    BY <2>4, Triples
  <2> QED
    BY <2>2, <2>5, <2>6, Zenon
<1>6. ASSUME NEW n \in Nat PROVE Takes(<<Want("strings")>>, <<I32(n)>> \o Copies(n, <<String(1)>>))
  BY TakesOne, TakesCopies, TakesRows, Zenon DEF RowOf
<1> QED
  BY <1>1, <1>2, <1>4, <1>5, <1>6, TakesOne, TakesPoints, ValueOf, Zenon

\* Each value that a setter writes is read as a value of its type.
LEMMA Written ==
    /\ ADouble \in Values
    /\ AnInt \in Values
    /\ AString \in Values
    /\ AColor \in Values
    /\ APosition2D \in Values
    /\ \A n : AByte(n) \in Values /\ AUByte(n) \in Values
    /\ \A n : <<UByte(TYPE_BYTE), UByte(n)>> \in Values
    /\ \A n : <<Byte(TYPE_UBYTE), Byte(n)>> \in Values
    /\ \A n \in Nat : <<UByte(TYPE_STRING), String(n)>> \in Values
    /\ \A n \in Nat : AStringList(n) \in Values
    /\ \A n \in Nat \ {0} : APolygon(n) \in Values
<1>0. /\ Doubles(1) \in Tokens /\ String(1) \in Tokens
      /\ \A n : UByte(n) \in Tokens /\ Byte(n) \in Tokens
      /\ \A n \in Int : I32(n) \in Tokens
      /\ \A n \in Nat : String(n) \in Tokens
  BY Bytes, Ints, ManyDoubles, Strings
<1>t. /\ TYPE_INTEGER \in 0..255 /\ TYPE_DOUBLE \in 0..255 /\ TYPE_STRING \in 0..255 /\ TYPE_BYTE \in 0..255
      /\ TYPE_UBYTE \in 0..127 /\ TYPE_UBYTE \in 0..255 /\ TYPE_COLOR \in 0..255 /\ POSITION_2D \in 0..255
      /\ TYPE_STRINGLIST \in 0..255 /\ TYPE_POLYGON \in 0..255
  BY TypesAreBytes
<1>1. ADouble \in Values
  BY <1>0, <1>t, TakesTyped, TypedIsValue, Pairs, Zenon DEF ADouble
<1>2. AnInt \in Values
  <2>1. PICK n \in Int : n = 0
    OBVIOUS
  <2>2. Takes(Value(TYPE_INTEGER), <<I32(n)>>)
    BY TakesTyped, Zenon
  <2>3. <<UByte(TYPE_INTEGER)>> \o <<I32(n)>> \in Values
    BY <2>2, <1>t, TypedIsValue, Zenon
  <2>4. <<UByte(TYPE_INTEGER)>> \o <<I32(n)>> = <<UByte(TYPE_INTEGER), I32(n)>>
    BY <1>0, Pairs
  <2> QED
    BY <2>1, <2>3, <2>4, Zenon DEF AnInt
<1>3. ASSUME NEW n \in Nat PROVE <<UByte(TYPE_STRING), String(n)>> \in Values
  BY <1>t, TakesTyped, TypedIsValue, <1>0, Pairs, Zenon
<1>4. AColor \in Values
  BY <1>t, TakesTyped, TypedIsValue, Zenon DEF AColor
<1>5. APosition2D \in Values
  <2>1. <<UByte(POSITION_2D)>> \o Copies(2, <<Doubles(1)>>) \in Values
    BY <1>t, TakesTyped, TypedIsValue, Zenon
  <2>2. Copies(2, <<Doubles(1)>>) = <<Doubles(1)>> \o <<Doubles(1)>>
    <3>1. <<Doubles(1)>> \in Seq(Tokens)
      BY <1>0, SingleWants
    <3> QED
      BY <3>1, CopiesFacts, Zenon
  <2>3. <<UByte(POSITION_2D)>> \o (<<Doubles(1)>> \o <<Doubles(1)>>) = <<UByte(POSITION_2D), Doubles(1), Doubles(1)>>
    BY <1>0, Triples
  <2> QED
    BY <2>1, <2>2, <2>3, Zenon DEF APosition2D
<1>6. ASSUME NEW n PROVE AByte(n) \in Values /\ <<UByte(TYPE_BYTE), UByte(n)>> \in Values
  BY <1>t, TakesTyped, TypedIsValue, <1>0, Pairs, Zenon DEF AByte
<1>7. ASSUME NEW n PROVE AUByte(n) \in Values /\ <<Byte(TYPE_UBYTE), Byte(n)>> \in Values
  <2>1. <<UByte(TYPE_UBYTE)>> \o <<Byte(n)>> \in Values /\ <<UByte(TYPE_UBYTE)>> \o <<UByte(n)>> \in Values
    BY <1>t, TakesTyped, TypedIsValue, Zenon
  <2>2. /\ <<UByte(TYPE_UBYTE)>> \o <<Byte(n)>> = <<UByte(TYPE_UBYTE), Byte(n)>>
        /\ <<UByte(TYPE_UBYTE)>> \o <<UByte(n)>> = <<UByte(TYPE_UBYTE), UByte(n)>>
    BY <1>0, Pairs
  <2>3. Byte(TYPE_UBYTE) = UByte(TYPE_UBYTE)
    BY <1>t, SmallBytes
  <2> QED
    BY <2>1, <2>2, <2>3, Zenon DEF AUByte
<1>8. ASSUME NEW n \in Nat PROVE AStringList(n) \in Values
  <2>1. <<UByte(TYPE_STRINGLIST)>> \o (<<I32(n)>> \o Copies(n, <<String(1)>>)) \in Values
    BY <1>t, TakesTyped, TypedIsValue, Zenon
  <2>2. <<UByte(TYPE_STRINGLIST)>> \in Seq(Tokens) /\ <<I32(n)>> \in Seq(Tokens) /\ Copies(n, <<String(1)>>) \in Seq(Tokens)
    BY <1>0, SingleWants, CopiesOf
  <2>3. <<UByte(TYPE_STRINGLIST)>> \o (<<I32(n)>> \o Copies(n, <<String(1)>>))
          = (<<UByte(TYPE_STRINGLIST)>> \o <<I32(n)>>) \o Copies(n, <<String(1)>>)
    BY <2>2, ConcatAssociative
  <2>4. <<UByte(TYPE_STRINGLIST)>> \o <<I32(n)>> = <<UByte(TYPE_STRINGLIST), I32(n)>>
    BY <1>0, Pairs
  <2> QED
    BY <2>1, <2>3, <2>4, Zenon DEF AStringList
<1>9. ASSUME NEW n \in Nat \ {0} PROVE APolygon(n) \in Values
  <2>1. <<Doubles(2 * n)>> \in Seq(Tokens)
    BY ManyDoubles, SingleWants
  <2>2. CASE n < 256
    <3>1. n \in 1..255
      BY <2>2
    <3>2. <<UByte(TYPE_POLYGON)>> \o (<<UByte(n)>> \o <<Doubles(2 * n)>>) \in Values
      BY <3>1, <1>t, TakesTyped, TypedIsValue, Zenon
    <3>3. <<UByte(TYPE_POLYGON)>> \in Seq(Tokens) /\ <<UByte(n)>> \in Seq(Tokens)
      BY <1>0, SingleWants
    <3>4. <<UByte(TYPE_POLYGON)>> \o (<<UByte(n)>> \o <<Doubles(2 * n)>>)
            = <<UByte(TYPE_POLYGON)>> \o <<UByte(n)>> \o <<Doubles(2 * n)>>
      BY <2>1, <3>3, ConcatAssociative
    <3> QED
      BY <2>2, <3>2, <3>4, Zenon DEF APolygon
  <2>3. CASE ~ (n < 256)
    <3>2. <<UByte(TYPE_POLYGON)>> \o (<<UByte(0)>> \o (<<I32(n)>> \o <<Doubles(2 * n)>>)) \in Values
      BY <1>t, TakesTyped, TypedIsValue, Zenon
    <3>3. <<UByte(TYPE_POLYGON)>> \in Seq(Tokens) /\ <<UByte(0)>> \in Seq(Tokens) /\ <<I32(n)>> \in Seq(Tokens)
          /\ <<UByte(0), I32(n)>> \in Seq(Tokens) /\ <<UByte(0)>> \o <<I32(n)>> = <<UByte(0), I32(n)>>
      BY <1>0, SingleWants, Pairs
    <3>4. <<UByte(0)>> \o (<<I32(n)>> \o <<Doubles(2 * n)>>) = <<UByte(0), I32(n)>> \o <<Doubles(2 * n)>>
      BY <2>1, <3>3, ConcatAssociative
    <3>5. <<UByte(TYPE_POLYGON)>> \o (<<UByte(0), I32(n)>> \o <<Doubles(2 * n)>>)
            = <<UByte(TYPE_POLYGON)>> \o <<UByte(0), I32(n)>> \o <<Doubles(2 * n)>>
      BY <2>1, <3>3, ConcatAssociative
    <3> QED
      BY <2>3, <3>2, <3>4, <3>5, Zenon DEF APolygon
  <2> QED
    BY <2>2, <2>3
<1>10. AString \in Values
  BY <1>3 DEF AString
<1> QED
  BY <1>1, <1>2, <1>3, <1>4, <1>5, <1>6, <1>7, <1>8, <1>9, <1>10, Zenon

-----------------------------------------------------------------------------
(* The numbers of the variables.                                           *)

\* The names of VehicleCommands.
LEMMA NamesOfVehicleCommands ==
    DOMAIN VehicleCommands =
      {"CMD_STOP", "CMD_CHANGELANE", "CMD_SLOWDOWN", "CMD_CHANGESUBLANE", "CMD_OPENGAP",
       "CMD_CHANGETARGET"}
  BY DEF VehicleCommands

\* The names of StepVariables.
LEMMA NamesOfStepVariables ==
    DOMAIN StepVariables =
      {"TRACI_ID_LIST", "ID_COUNT", "LAST_STEP_VEHICLE_NUMBER", "LAST_STEP_MEAN_SPEED",
       "LAST_STEP_VEHICLE_ID_LIST", "LAST_STEP_OCCUPANCY", "LAST_STEP_VEHICLE_HALTING_NUMBER",
       "LAST_STEP_LENGTH", "LAST_STEP_TIME_SINCE_DETECTION", "LAST_STEP_VEHICLE_DATA",
       "LAST_STEP_PERSON_ID_LIST", "VAR_NAME", "TL_RED_YELLOW_GREEN_STATE", "TL_PHASE_INDEX",
       "TL_PROGRAM", "TL_PHASE_DURATION", "TL_CONTROLLED_LANES", "TL_CONTROLLED_LINKS",
       "TL_CURRENT_PHASE", "TL_CURRENT_PROGRAM", "TL_COMPLETE_DEFINITION_RYG",
       "TL_COMPLETE_PROGRAM_RYG", "TL_NEXT_SWITCH", "LANE_LINK_NUMBER", "LANE_EDGE_ID",
       "LANE_LINKS", "LANE_ALLOWED", "LANE_DISALLOWED", "VAR_FOES", "VAR_SLOPE", "VAR_SPEED",
       "VAR_MAXSPEED", "VAR_POSITION", "VAR_POSITION3D", "VAR_ANGLE", "VAR_LENGTH", "VAR_COLOR",
       "VAR_ACCEL", "VAR_DECEL", "VAR_EMERGENCY_DECEL", "VAR_APPARENT_DECEL"}
  BY DEF StepVariables

\* The names of ObjectVariables.
LEMMA NamesOfObjectVariables ==
    DOMAIN ObjectVariables =
      {"VAR_TAU", "VAR_VEHICLECLASS", "VAR_EMISSIONCLASS", "VAR_SHAPECLASS", "VAR_MINGAP",
       "VAR_WIDTH", "VAR_SHAPE", "VAR_TYPE", "VAR_ROAD_ID", "VAR_LANE_ID", "VAR_LANE_INDEX",
       "VAR_ROUTE_ID", "VAR_EDGES", "VAR_IMAGEFILE", "VAR_LANEPOSITION", "VAR_ROUTE",
       "VAR_EDGE_TRAVELTIME", "VAR_EDGE_EFFORT", "VAR_CURRENT_TRAVELTIME", "VAR_SIGNALS",
       "VAR_MOVE_TO", "VAR_IMPERFECTION", "VAR_SPEED_FACTOR", "VAR_SPEED_DEVIATION",
       "VAR_ROUTING_MODE", "VAR_SPEED_WITHOUT_TRACI", "VAR_BEST_LANES", "VAR_SPEEDSETMODE",
       "MOVE_TO_XY", "VAR_STOPSTATE", "VAR_ALLOWED_SPEED", "VAR_LANEPOSITION_LAT",
       "VAR_LATALIGNMENT", "VAR_MAXSPEED_LAT", "VAR_MINGAP_LAT", "VAR_HEIGHT", "VAR_LINE",
       "VAR_VIA", "VAR_CO2EMISSION", "VAR_COEMISSION", "VAR_HCEMISSION", "VAR_PMXEMISSION"}
  BY DEF ObjectVariables

\* The names of EmissionAndSimulationVariables.
LEMMA NamesOfEmissionAndSimulationVariables ==
    DOMAIN EmissionAndSimulationVariables =
      {"VAR_NOXEMISSION", "VAR_FUELCONSUMPTION", "VAR_NOISEEMISSION", "VAR_PERSON_NUMBER",
       "VAR_LEADER", "VAR_ROUTE_INDEX", "VAR_WAITING_TIME", "VAR_ACCUMULATED_WAITING_TIME",
       "VAR_NEXT_TLS", "VAR_ACCELERATION", "VAR_TIME", "VAR_TIME_STEP",
       "VAR_ELECTRICITYCONSUMPTION", "VAR_LOADED_VEHICLES_NUMBER", "VAR_LOADED_VEHICLES_IDS",
       "VAR_DEPARTED_VEHICLES_NUMBER", "VAR_DEPARTED_VEHICLES_IDS",
       "VAR_TELEPORT_STARTING_VEHICLES_NUMBER", "VAR_TELEPORT_STARTING_VEHICLES_IDS",
       "VAR_TELEPORT_ENDING_VEHICLES_NUMBER", "VAR_TELEPORT_ENDING_VEHICLES_IDS",
       "VAR_ARRIVED_VEHICLES_NUMBER", "VAR_ARRIVED_VEHICLES_IDS", "VAR_DELTA_T",
       "VAR_NET_BOUNDING_BOX", "VAR_MIN_EXPECTED_VEHICLES", "VAR_PARAMETER", "ADD", "REMOVE",
       "COPY", "POSITION_CONVERSION", "DISTANCE_REQUEST", "VAR_DISTANCE", "ADD_FULL"}
  BY DEF EmissionAndSimulationVariables

\* The names of StageAndViewVariables.
LEMMA NamesOfStageAndViewVariables ==
    DOMAIN StageAndViewVariables =
      {"CMD_REROUTE_TRAVELTIME", "VAR_ROUTE_VALID", "VAR_STAGE", "VAR_NEXT_EDGE",
       "VAR_STAGES_REMAINING", "VAR_VEHICLE", "APPEND_STAGE", "REMOVE_STAGE", "VAR_VIEW_ZOOM",
       "VAR_VIEW_OFFSET", "VAR_VIEW_SCHEMA", "VAR_VIEW_BOUNDARY", "VAR_SCREENSHOT",
       "VAR_TRACK_VEHICLE"}
  BY DEF StageAndViewVariables

\* A variable has the number that the table it stands in gives.
LEMMA VarIs ==
    /\ \A n \in DOMAIN VehicleCommands : Var[n] = VehicleCommands[n]
    /\ \A n \in DOMAIN StepVariables : Var[n] = StepVariables[n]
    /\ \A n \in DOMAIN ObjectVariables : Var[n] = ObjectVariables[n]
    /\ \A n \in DOMAIN EmissionAndSimulationVariables : Var[n] = EmissionAndSimulationVariables[n]
    /\ \A n \in DOMAIN StageAndViewVariables : Var[n] = StageAndViewVariables[n]
<1> DEFINE tables == <<VehicleCommands, StepVariables, ObjectVariables,
                     EmissionAndSimulationVariables, StageAndViewVariables>>
           names == UNION {DOMAIN tables[i] : i \in DOMAIN tables}
           chosen(n) == CHOOSE i \in DOMAIN tables : n \in DOMAIN tables[i]
<1>1. Var = [n \in names |-> tables[chosen(n)][n]]
  BY DEF Var
<1>2. DOMAIN tables = 1..5
  OBVIOUS
<1>3. ASSUME NEW i \in 1..5, NEW n \in DOMAIN tables[i],
             \A j \in 1..5 : j # i => n \notin DOMAIN tables[j]
      PROVE  Var[n] = tables[i][n]
  <2> HIDE DEF tables
  <2>1. n \in names
    BY <1>2, <1>3
  <2>2. chosen(n) \in 1..5 /\ n \in DOMAIN tables[chosen(n)]
    BY <1>2, <1>3
  <2>3. chosen(n) = i
    BY <2>2, <1>3
  <2> HIDE DEF names, chosen
  <2> QED
    BY <1>1, <2>1, <2>3
<1>4. /\ tables[1] = VehicleCommands
      /\ tables[2] = StepVariables
      /\ tables[3] = ObjectVariables
      /\ tables[4] = EmissionAndSimulationVariables
      /\ tables[5] = StageAndViewVariables
  OBVIOUS
<1> HIDE DEF tables
<1>5. ASSUME NEW n \in DOMAIN VehicleCommands PROVE Var[n] = VehicleCommands[n]
  BY <1>4, NamesOfVehicleCommands, NamesOfStepVariables, NamesOfObjectVariables,
     NamesOfEmissionAndSimulationVariables, NamesOfStageAndViewVariables, <1>3
<1>6. ASSUME NEW n \in DOMAIN StepVariables PROVE Var[n] = StepVariables[n]
  BY <1>4, NamesOfVehicleCommands, NamesOfStepVariables, NamesOfObjectVariables,
     NamesOfEmissionAndSimulationVariables, NamesOfStageAndViewVariables, <1>3
<1>7. ASSUME NEW n \in DOMAIN ObjectVariables PROVE Var[n] = ObjectVariables[n]
  BY <1>4, NamesOfVehicleCommands, NamesOfStepVariables, NamesOfObjectVariables,
     NamesOfEmissionAndSimulationVariables, NamesOfStageAndViewVariables, <1>3
<1>8. ASSUME NEW n \in DOMAIN EmissionAndSimulationVariables PROVE Var[n] = EmissionAndSimulationVariables[n]
  BY <1>4, NamesOfVehicleCommands, NamesOfStepVariables, NamesOfObjectVariables,
     NamesOfEmissionAndSimulationVariables, NamesOfStageAndViewVariables, <1>3
<1>9. ASSUME NEW n \in DOMAIN StageAndViewVariables PROVE Var[n] = StageAndViewVariables[n]
  BY <1>4, NamesOfVehicleCommands, NamesOfStepVariables, NamesOfObjectVariables,
     NamesOfEmissionAndSimulationVariables, NamesOfStageAndViewVariables, <1>3
<1> QED
  BY <1>5, <1>6, <1>7, <1>8, <1>9

\* The numbers of VehicleCommands.
LEMMA NumbersOfVehicleCommands ==
    /\ Var["CMD_STOP"] = 18 /\ Var["CMD_CHANGELANE"] = 19 /\ Var["CMD_SLOWDOWN"] = 20
    /\ Var["CMD_CHANGESUBLANE"] = 21 /\ Var["CMD_OPENGAP"] = 22 /\ Var["CMD_CHANGETARGET"] = 49
  BY VarIs, NamesOfVehicleCommands DEF VehicleCommands

\* The numbers of StepVariables.
LEMMA NumbersOfStepVariables ==
    /\ Var["TRACI_ID_LIST"] = 0 /\ Var["ID_COUNT"] = 1 /\ Var["LAST_STEP_VEHICLE_NUMBER"] = 16
    /\ Var["LAST_STEP_MEAN_SPEED"] = 17 /\ Var["LAST_STEP_VEHICLE_ID_LIST"] = 18
    /\ Var["LAST_STEP_OCCUPANCY"] = 19 /\ Var["LAST_STEP_VEHICLE_HALTING_NUMBER"] = 20
    /\ Var["LAST_STEP_LENGTH"] = 21 /\ Var["LAST_STEP_TIME_SINCE_DETECTION"] = 22
    /\ Var["LAST_STEP_VEHICLE_DATA"] = 23 /\ Var["LAST_STEP_PERSON_ID_LIST"] = 26
    /\ Var["VAR_NAME"] = 27 /\ Var["TL_RED_YELLOW_GREEN_STATE"] = 32
    /\ Var["TL_PHASE_INDEX"] = 34 /\ Var["TL_PROGRAM"] = 35 /\ Var["TL_PHASE_DURATION"] = 36
    /\ Var["TL_CONTROLLED_LANES"] = 38 /\ Var["TL_CONTROLLED_LINKS"] = 39
    /\ Var["TL_CURRENT_PHASE"] = 40 /\ Var["TL_CURRENT_PROGRAM"] = 41
    /\ Var["TL_COMPLETE_DEFINITION_RYG"] = 43 /\ Var["TL_COMPLETE_PROGRAM_RYG"] = 44
    /\ Var["TL_NEXT_SWITCH"] = 45 /\ Var["LANE_LINK_NUMBER"] = 48 /\ Var["LANE_EDGE_ID"] = 49
    /\ Var["LANE_LINKS"] = 51 /\ Var["LANE_ALLOWED"] = 52 /\ Var["LANE_DISALLOWED"] = 53
    /\ Var["VAR_FOES"] = 55 /\ Var["VAR_SLOPE"] = 54 /\ Var["VAR_SPEED"] = 64
    /\ Var["VAR_MAXSPEED"] = 65 /\ Var["VAR_POSITION"] = 66 /\ Var["VAR_POSITION3D"] = 57
    /\ Var["VAR_ANGLE"] = 67 /\ Var["VAR_LENGTH"] = 68 /\ Var["VAR_COLOR"] = 69
    /\ Var["VAR_ACCEL"] = 70 /\ Var["VAR_DECEL"] = 71 /\ Var["VAR_EMERGENCY_DECEL"] = 123
    /\ Var["VAR_APPARENT_DECEL"] = 124
  BY VarIs, NamesOfStepVariables DEF StepVariables

\* The numbers of ObjectVariables.
LEMMA NumbersOfObjectVariables ==
    /\ Var["VAR_TAU"] = 72 /\ Var["VAR_VEHICLECLASS"] = 73 /\ Var["VAR_EMISSIONCLASS"] = 74
    /\ Var["VAR_SHAPECLASS"] = 75 /\ Var["VAR_MINGAP"] = 76 /\ Var["VAR_WIDTH"] = 77
    /\ Var["VAR_SHAPE"] = 78 /\ Var["VAR_TYPE"] = 79 /\ Var["VAR_ROAD_ID"] = 80
    /\ Var["VAR_LANE_ID"] = 81 /\ Var["VAR_LANE_INDEX"] = 82 /\ Var["VAR_ROUTE_ID"] = 83
    /\ Var["VAR_EDGES"] = 84 /\ Var["VAR_IMAGEFILE"] = 147 /\ Var["VAR_LANEPOSITION"] = 86
    /\ Var["VAR_ROUTE"] = 87 /\ Var["VAR_EDGE_TRAVELTIME"] = 88 /\ Var["VAR_EDGE_EFFORT"] = 89
    /\ Var["VAR_CURRENT_TRAVELTIME"] = 90 /\ Var["VAR_SIGNALS"] = 91 /\ Var["VAR_MOVE_TO"] = 92
    /\ Var["VAR_IMPERFECTION"] = 93 /\ Var["VAR_SPEED_FACTOR"] = 94
    /\ Var["VAR_SPEED_DEVIATION"] = 95 /\ Var["VAR_ROUTING_MODE"] = 137
    /\ Var["VAR_SPEED_WITHOUT_TRACI"] = 177 /\ Var["VAR_BEST_LANES"] = 178
    /\ Var["VAR_SPEEDSETMODE"] = 179 /\ Var["MOVE_TO_XY"] = 180 /\ Var["VAR_STOPSTATE"] = 181
    /\ Var["VAR_ALLOWED_SPEED"] = 183 /\ Var["VAR_LANEPOSITION_LAT"] = 184
    /\ Var["VAR_LATALIGNMENT"] = 185 /\ Var["VAR_MAXSPEED_LAT"] = 186
    /\ Var["VAR_MINGAP_LAT"] = 187 /\ Var["VAR_HEIGHT"] = 188 /\ Var["VAR_LINE"] = 189
    /\ Var["VAR_VIA"] = 190 /\ Var["VAR_CO2EMISSION"] = 96 /\ Var["VAR_COEMISSION"] = 97
    /\ Var["VAR_HCEMISSION"] = 98 /\ Var["VAR_PMXEMISSION"] = 99
  BY VarIs, NamesOfObjectVariables DEF ObjectVariables

\* The numbers of EmissionAndSimulationVariables.
LEMMA NumbersOfEmissionAndSimulationVariables ==
    /\ Var["VAR_NOXEMISSION"] = 100 /\ Var["VAR_FUELCONSUMPTION"] = 101
    /\ Var["VAR_NOISEEMISSION"] = 102 /\ Var["VAR_PERSON_NUMBER"] = 103
    /\ Var["VAR_LEADER"] = 104 /\ Var["VAR_ROUTE_INDEX"] = 105 /\ Var["VAR_WAITING_TIME"] = 122
    /\ Var["VAR_ACCUMULATED_WAITING_TIME"] = 135 /\ Var["VAR_NEXT_TLS"] = 112
    /\ Var["VAR_ACCELERATION"] = 114 /\ Var["VAR_TIME"] = 102 /\ Var["VAR_TIME_STEP"] = 112
    /\ Var["VAR_ELECTRICITYCONSUMPTION"] = 113 /\ Var["VAR_LOADED_VEHICLES_NUMBER"] = 113
    /\ Var["VAR_LOADED_VEHICLES_IDS"] = 114 /\ Var["VAR_DEPARTED_VEHICLES_NUMBER"] = 115
    /\ Var["VAR_DEPARTED_VEHICLES_IDS"] = 116
    /\ Var["VAR_TELEPORT_STARTING_VEHICLES_NUMBER"] = 117
    /\ Var["VAR_TELEPORT_STARTING_VEHICLES_IDS"] = 118
    /\ Var["VAR_TELEPORT_ENDING_VEHICLES_NUMBER"] = 119
    /\ Var["VAR_TELEPORT_ENDING_VEHICLES_IDS"] = 120
    /\ Var["VAR_ARRIVED_VEHICLES_NUMBER"] = 121 /\ Var["VAR_ARRIVED_VEHICLES_IDS"] = 122
    /\ Var["VAR_DELTA_T"] = 123 /\ Var["VAR_NET_BOUNDING_BOX"] = 124
    /\ Var["VAR_MIN_EXPECTED_VEHICLES"] = 125 /\ Var["VAR_PARAMETER"] = 126 /\ Var["ADD"] = 128
    /\ Var["REMOVE"] = 129 /\ Var["COPY"] = 136 /\ Var["POSITION_CONVERSION"] = 130
    /\ Var["DISTANCE_REQUEST"] = 131 /\ Var["VAR_DISTANCE"] = 132 /\ Var["ADD_FULL"] = 133
  BY VarIs, NamesOfEmissionAndSimulationVariables DEF EmissionAndSimulationVariables

\* The numbers of StageAndViewVariables.
LEMMA NumbersOfStageAndViewVariables ==
    /\ Var["CMD_REROUTE_TRAVELTIME"] = 144 /\ Var["VAR_ROUTE_VALID"] = 146
    /\ Var["VAR_STAGE"] = 192 /\ Var["VAR_NEXT_EDGE"] = 193
    /\ Var["VAR_STAGES_REMAINING"] = 194 /\ Var["VAR_VEHICLE"] = 195
    /\ Var["APPEND_STAGE"] = 196 /\ Var["REMOVE_STAGE"] = 197 /\ Var["VAR_VIEW_ZOOM"] = 160
    /\ Var["VAR_VIEW_OFFSET"] = 161 /\ Var["VAR_VIEW_SCHEMA"] = 162
    /\ Var["VAR_VIEW_BOUNDARY"] = 163 /\ Var["VAR_SCREENSHOT"] = 165
    /\ Var["VAR_TRACK_VEHICLE"] = 166
  BY VarIs, NamesOfStageAndViewVariables DEF StageAndViewVariables

-----------------------------------------------------------------------------
(* The questions: of which type each variable of each domain is.           *)

\* The numbers of the domains.
LEMMA DomainNumbers ==
    /\ DOMAIN Domain = {"INDUCTIONLOOP", "MULTIENTRYEXIT", "TL", "LANE", "VEHICLE", "VEHICLETYPE", "ROUTE",
                        "POI", "POLYGON", "JUNCTION", "EDGE", "SIM", "GUI", "LANEAREA", "PERSON"}
    /\ Domain["INDUCTIONLOOP"] = 0 /\ Domain["MULTIENTRYEXIT"] = 1 /\ Domain["TL"] = 2 /\ Domain["LANE"] = 3
    /\ Domain["VEHICLE"] = 4 /\ Domain["VEHICLETYPE"] = 5 /\ Domain["ROUTE"] = 6 /\ Domain["POI"] = 7
    /\ Domain["POLYGON"] = 8 /\ Domain["JUNCTION"] = 9 /\ Domain["EDGE"] = 10 /\ Domain["SIM"] = 11
    /\ Domain["GUI"] = 12 /\ Domain["LANEAREA"] = 13 /\ Domain["PERSON"] = 14
  BY DEF DomainsToPolygon, DomainsFromJunction, Domain

\* The types of the getters.
LEMMA GetterTypes ==
    /\ GetterType["getInt"] = TYPE_INTEGER /\ GetterType["getDouble"] = TYPE_DOUBLE
    /\ GetterType["getString"] = TYPE_STRING /\ GetterType["getStringVector"] = TYPE_STRINGLIST
    /\ GetterType["getPolygon"] = TYPE_POLYGON /\ GetterType["getPosition"] = POSITION_2D
    /\ GetterType["getPosition3D"] = POSITION_3D /\ GetterType["getColor"] = TYPE_COLOR
  BY DEF GetterType

\* A question, in its parts.
LEMMA GetFields ==
    \A d, name, value, type, reads, getter :
      /\ GetReading(d, name, value, type, reads).kind = "get"
      /\ GetReading(d, name, value, type, reads).command = CMD_GET + Domain[d]
      /\ GetReading(d, name, value, type, reads).variable = Var[name]
      /\ GetReading(d, name, value, type, reads).value = value
      /\ GetReading(d, name, value, type, reads).expects = type
      /\ GetReading(d, name, value, type, reads).reads = reads
      /\ Get(d, name, value, getter) = GetReading(d, name, value, GetterType[getter], "plain")
      /\ GetCompound(d, name, value, reads) = GetReading(d, name, value, TYPE_COMPOUND, reads)
  BY DEF Get, GetReading, GetCompound

(* The type and the reading of the answer, for the numbers that are asked for. *)

\* Asks gives for each domain the type and the reading of its own variables.
LEMMA AsksIs ==
    \A n : /\ Asks("EDGE", n) = EdgeAsks(n)
           /\ Asks("GUI", n) = GUIAsks(n)
           /\ Asks("INDUCTIONLOOP", n) = InductionLoopAsks(n)
           /\ Asks("JUNCTION", n) = JunctionAsks(n)
           /\ Asks("LANE", n) = LaneAsks(n)
           /\ Asks("LANEAREA", n) = LaneAreaAsks(n)
           /\ Asks("MULTIENTRYEXIT", n) = MeMeAsks(n)
           /\ Asks("POI", n) = POIAsks(n)
           /\ Asks("POLYGON", n) = PolygonAsks(n)
           /\ Asks("ROUTE", n) = RouteAsks(n)
           /\ Asks("SIM", n) = SimulationAsks(n)
           /\ Asks("TL", n) = TrafficLightAsks(n)
           /\ Asks("VEHICLETYPE", n) = VehicleTypeAsks(n)
           /\ Asks("VEHICLE", n) = VehicleAsks(n)
           /\ Asks("PERSON", n) = PersonAsks(n)
  BY DEF Asks

\* A getter whose variable has in its domain the type and the reading it expects asks a question
\* of that domain.
LEMMA OneQuestion ==
    ASSUME NEW d, NEW name, NEW value, NEW type, NEW reads, value = <<>> \/ value \in Values,
           Var[name] \in 0..255, d = "SIM" => Var[name] \notin {130, 131}, <<type, reads>> = Asks(d, Var[name])
    PROVE  \A c : c = GetReading(d, name, value, type, reads) => IsQuestion(c, d)
<1> SUFFICES ASSUME NEW c, c = GetReading(d, name, value, type, reads) PROVE IsQuestion(c, d)
  OBVIOUS
<1>1. /\ c.kind = "get" /\ c.command = CMD_GET + Domain[d] /\ c.variable = Var[name] /\ c.value = value
      /\ c.expects = type /\ c.reads = reads
  BY GetFields
<1> QED
  BY <1>1 DEF IsQuestion

\* So does every getter of a table if each of its variables does.
LEMMA TableQuestions ==
    ASSUME NEW d, NEW table, NEW c \in Gets(d, table),
           \A getter \in DOMAIN table : \A name \in table[getter] :
             /\ Var[name] \in 0..255
             /\ d = "SIM" => Var[name] \notin {130, 131}
             /\ <<GetterType[getter], "plain">> = Asks(d, Var[name])
    PROVE  IsQuestion(c, d)
<1>1. PICK getter \in DOMAIN table : \E name \in table[getter] : c = Get(d, name, <<>>, getter)
  BY DEF Gets
<1>2. PICK name \in table[getter] : c = Get(d, name, <<>>, getter)
  BY <1>1
<1>3. c = GetReading(d, name, <<>>, GetterType[getter], "plain")
  BY <1>2, GetFields
<1> QED
  BY <1>3, OneQuestion, Zenon

\* Every method in EdgeGets asks for a variable of its domain with the type and the reading SUMO
\* answers it with.
LEMMA EdgeGetsAsk ==
    ASSUME NEW c \in EdgeGets
    PROVE  IsQuestion(c, "EDGE")
<1>1. CASE c = Get("EDGE", "VAR_EDGE_TRAVELTIME", ADouble, "getDouble")
  <2>1. /\ c.kind = "get" /\ c.command = CMD_GET + Domain["EDGE"] /\ c.variable = Var["VAR_EDGE_TRAVELTIME"]
        /\ c.value = ADouble /\ c.expects = TYPE_DOUBLE /\ c.reads = "plain"
    BY <1>1, GetFields, GetterTypes
  <2>2. Var["VAR_EDGE_TRAVELTIME"] = 88 /\ <<TYPE_DOUBLE, "plain">> = Asks("EDGE", Var["VAR_EDGE_TRAVELTIME"])
    BY NumbersOfObjectVariables, AsksIs DEF EdgeAsks
  <2> QED
    BY <2>1, <2>2, Written DEF IsQuestion
<1>2. CASE c = Get("EDGE", "VAR_EDGE_EFFORT", ADouble, "getDouble")
  <2>1. /\ c.kind = "get" /\ c.command = CMD_GET + Domain["EDGE"] /\ c.variable = Var["VAR_EDGE_EFFORT"]
        /\ c.value = ADouble /\ c.expects = TYPE_DOUBLE /\ c.reads = "plain"
    BY <1>2, GetFields, GetterTypes
  <2>2. Var["VAR_EDGE_EFFORT"] = 89 /\ <<TYPE_DOUBLE, "plain">> = Asks("EDGE", Var["VAR_EDGE_EFFORT"])
    BY NumbersOfObjectVariables, AsksIs DEF EdgeAsks
  <2> QED
    BY <2>1, <2>2, Written DEF IsQuestion
<1>3. CASE /\ c # Get("EDGE", "VAR_EDGE_TRAVELTIME", ADouble, "getDouble")
             /\ c # Get("EDGE", "VAR_EDGE_EFFORT", ADouble, "getDouble")
  BY <1>3, NumbersOfStepVariables, NumbersOfObjectVariables, NumbersOfEmissionAndSimulationVariables,
     AsksIs, GetterTypes, TableQuestions
     DEF EdgeGets, EdgeAsks
<1> QED
  BY <1>1, <1>2, <1>3

\* Every method in GUIGets asks for a variable of its domain with the type and the reading SUMO
\* answers it with.
LEMMA GUIGetsAsk ==
    ASSUME NEW c \in GUIGets
    PROVE  IsQuestion(c, "GUI")
  BY NumbersOfStepVariables, NumbersOfStageAndViewVariables, AsksIs, GetterTypes, TableQuestions
     DEF GUIGets, GUIAsks

\* Every method in InductionLoopGets asks for a variable of its domain with the type and the
\* reading SUMO answers it with.
LEMMA InductionLoopGetsAsk ==
    ASSUME NEW c \in InductionLoopGets
    PROVE  IsQuestion(c, "INDUCTIONLOOP")
<1>1. CASE c = GetCompound("INDUCTIONLOOP", "LAST_STEP_VEHICLE_DATA", <<>>, "vehicleData")
  <2>1. /\ c.kind = "get" /\ c.command = CMD_GET + Domain["INDUCTIONLOOP"] /\ c.variable = Var["LAST_STEP_VEHICLE_DATA"]
        /\ c.value = <<>> /\ c.expects = TYPE_COMPOUND /\ c.reads = "vehicleData"
    BY <1>1, GetFields
  <2>2. Var["LAST_STEP_VEHICLE_DATA"] = 23 /\ <<TYPE_COMPOUND, "vehicleData">> = Asks("INDUCTIONLOOP", Var["LAST_STEP_VEHICLE_DATA"])
    BY NumbersOfStepVariables, AsksIs DEF InductionLoopAsks
  <2> QED
    BY <2>1, <2>2, Written DEF IsQuestion
<1>2. CASE c # GetCompound("INDUCTIONLOOP", "LAST_STEP_VEHICLE_DATA", <<>>, "vehicleData")
  <2>1. PICK table : /\ c \in Gets("INDUCTIONLOOP", table)
                     /\ DOMAIN table = {"getStringVector", "getDouble", "getString", "getInt"}
                     /\ table["getStringVector"] =
                          {"TRACI_ID_LIST", "LAST_STEP_VEHICLE_ID_LIST"}
                     /\ table["getDouble"] =
                          {"VAR_POSITION", "LAST_STEP_MEAN_SPEED", "LAST_STEP_OCCUPANCY",
                           "LAST_STEP_LENGTH", "LAST_STEP_TIME_SINCE_DETECTION"}
                     /\ table["getString"] =
                          {"VAR_LANE_ID"}
                     /\ table["getInt"] =
                          {"LAST_STEP_VEHICLE_NUMBER"}
    BY <1>2 DEF InductionLoopGets
  <2>2. \A name \in table["getStringVector"] :
        <<TYPE_STRINGLIST, "plain">> = Asks("INDUCTIONLOOP", Var[name]) /\ Var[name] \in (0..255) \ {130, 131}
    BY <2>1, AsksIs, NumbersOfStepVariables DEF InductionLoopAsks
  <2>3. \A name \in table["getDouble"] :
        <<TYPE_DOUBLE, "plain">> = Asks("INDUCTIONLOOP", Var[name]) /\ Var[name] \in (0..255) \ {130, 131}
    BY <2>1, AsksIs, NumbersOfStepVariables DEF InductionLoopAsks
  <2>4. \A name \in table["getString"] :
        <<TYPE_STRING, "plain">> = Asks("INDUCTIONLOOP", Var[name]) /\ Var[name] \in (0..255) \ {130, 131}
    BY <2>1, AsksIs, NumbersOfObjectVariables DEF InductionLoopAsks
  <2>5. \A name \in table["getInt"] :
        <<TYPE_INTEGER, "plain">> = Asks("INDUCTIONLOOP", Var[name]) /\ Var[name] \in (0..255) \ {130, 131}
    BY <2>1, AsksIs, NumbersOfStepVariables DEF InductionLoopAsks
  <2> QED
    BY <2>1, <2>2, <2>3, <2>4, <2>5, GetterTypes, TableQuestions
<1> QED
  BY <1>1, <1>2

\* Every method in JunctionGets asks for a variable of its domain with the type and the reading
\* SUMO answers it with.
LEMMA JunctionGetsAsk ==
    ASSUME NEW c \in JunctionGets
    PROVE  IsQuestion(c, "JUNCTION")
  BY NumbersOfStepVariables, AsksIs, GetterTypes, TableQuestions DEF JunctionGets, JunctionAsks

\* Every method in LaneGets asks for a variable of its domain with the type and the reading SUMO
\* answers it with.
LEMMA LaneGetsAsk ==
    ASSUME NEW c \in LaneGets
    PROVE  IsQuestion(c, "LANE")
<1>1. CASE c = GetCompound("LANE", "LANE_LINKS", <<>>, "links")
  <2>1. /\ c.kind = "get" /\ c.command = CMD_GET + Domain["LANE"] /\ c.variable = Var["LANE_LINKS"]
        /\ c.value = <<>> /\ c.expects = TYPE_COMPOUND /\ c.reads = "links"
    BY <1>1, GetFields
  <2>2. Var["LANE_LINKS"] = 51 /\ <<TYPE_COMPOUND, "links">> = Asks("LANE", Var["LANE_LINKS"])
    BY NumbersOfStepVariables, AsksIs DEF LaneAsks
  <2> QED
    BY <2>1, <2>2, Written DEF IsQuestion
<1>2. CASE c # GetCompound("LANE", "LANE_LINKS", <<>>, "links")
  <2>1. PICK table : /\ c \in Gets("LANE", table)
                     /\ DOMAIN table = {"getStringVector", "getInt", "getDouble"}
                     /\ table["getStringVector"] =
                          {"TRACI_ID_LIST", "LANE_ALLOWED", "LANE_DISALLOWED"}
                     /\ table["getInt"] =
                          {"ID_COUNT", "LANE_LINK_NUMBER"}
                     /\ table["getDouble"] =
                          {"VAR_LENGTH", "VAR_MAXSPEED", "VAR_WIDTH"}
    BY <1>2 DEF LaneGets
  <2>2. \A name \in table["getStringVector"] :
        <<TYPE_STRINGLIST, "plain">> = Asks("LANE", Var[name]) /\ Var[name] \in (0..255) \ {130, 131}
    BY <2>1, AsksIs, NumbersOfStepVariables DEF LaneAsks
  <2>3. \A name \in table["getInt"] :
        <<TYPE_INTEGER, "plain">> = Asks("LANE", Var[name]) /\ Var[name] \in (0..255) \ {130, 131}
    BY <2>1, AsksIs, NumbersOfStepVariables DEF LaneAsks
  <2>4. \A name \in table["getDouble"] :
        <<TYPE_DOUBLE, "plain">> = Asks("LANE", Var[name]) /\ Var[name] \in (0..255) \ {130, 131}
    BY <2>1, AsksIs, NumbersOfObjectVariables, NumbersOfStepVariables DEF LaneAsks
  <2> QED
    BY <2>1, <2>2, <2>3, <2>4, GetterTypes, TableQuestions
<1> QED
  BY <1>1, <1>2

\* Every method in LaneStepGets asks for a variable of its domain with the type and the reading
\* SUMO answers it with.
LEMMA LaneStepGetsAsk ==
    ASSUME NEW c \in LaneStepGets
    PROVE  IsQuestion(c, "LANE")
<1>1. ASSUME NEW m \in {0, 1}, c = Get("LANE", "VAR_FOES", <<UByte(TYPE_STRING), String(m)>>, "getStringVector")
      PROVE  IsQuestion(c, "LANE")
  <2>1. <<UByte(TYPE_STRING), String(m)>> \in Values
    BY Written
  <2>2. /\ c.kind = "get" /\ c.command = CMD_GET + Domain["LANE"] /\ c.variable = Var["VAR_FOES"]
        /\ c.value = <<UByte(TYPE_STRING), String(m)>> /\ c.expects = TYPE_STRINGLIST /\ c.reads = "plain"
    BY <1>1, GetFields, GetterTypes
  <2>3. Var["VAR_FOES"] = 55 /\ <<TYPE_STRINGLIST, "plain">> = Asks("LANE", Var["VAR_FOES"])
    BY NumbersOfStepVariables, AsksIs DEF LaneAsks
  <2> QED
    BY <2>1, <2>2, <2>3 DEF IsQuestion
<1>2. CASE c \notin {Get("LANE", "VAR_FOES", <<UByte(TYPE_STRING), String(m)>>, "getStringVector") : m \in {0, 1}}
  BY <1>2, NumbersOfStepVariables, NumbersOfObjectVariables, NumbersOfEmissionAndSimulationVariables,
     AsksIs, GetterTypes, TableQuestions
     DEF LaneStepGets, LaneAsks
<1> QED
  BY <1>1, <1>2

\* Every method in LaneAreaGets asks for a variable of its domain with the type and the reading
\* SUMO answers it with.
LEMMA LaneAreaGetsAsk ==
    ASSUME NEW c \in LaneAreaGets
    PROVE  IsQuestion(c, "LANEAREA")
  BY NumbersOfStepVariables, AsksIs, GetterTypes, TableQuestions DEF LaneAreaGets, LaneAreaAsks

\* Every method in MeMeGets asks for a variable of its domain with the type and the reading SUMO
\* answers it with.
LEMMA MeMeGetsAsk ==
    ASSUME NEW c \in MeMeGets
    PROVE  IsQuestion(c, "MULTIENTRYEXIT")
  BY NumbersOfStepVariables, AsksIs, GetterTypes, TableQuestions DEF MeMeGets, MeMeAsks

\* Every method in POIGets asks for a variable of its domain with the type and the reading SUMO
\* answers it with.
LEMMA POIGetsAsk ==
    ASSUME NEW c \in POIGets
    PROVE  IsQuestion(c, "POI")
  BY NumbersOfStepVariables, NumbersOfObjectVariables, AsksIs, GetterTypes, TableQuestions
     DEF POIGets, POIAsks

\* Every method in PolygonGets asks for a variable of its domain with the type and the reading
\* SUMO answers it with.
LEMMA PolygonGetsAsk ==
    ASSUME NEW c \in PolygonGets
    PROVE  IsQuestion(c, "POLYGON")
  BY NumbersOfStepVariables, NumbersOfObjectVariables, AsksIs, GetterTypes, TableQuestions
     DEF PolygonGets, PolygonAsks

\* Every question in RouteCalls asks for a variable of its domain with the type and the reading
\* SUMO answers it with.
LEMMA RouteCallsAsk ==
    ASSUME NEW c \in RouteCalls, c.kind = "get"
    PROVE  IsQuestion(c, "ROUTE")
  BY NumbersOfStepVariables, NumbersOfObjectVariables, AsksIs, GetterTypes, TableQuestions
     DEF RouteCalls, Set, RouteAsks

\* Every method in SimulationGets asks for a variable of its domain with the type and the
\* reading SUMO answers it with.
LEMMA SimulationGetsAsk ==
    ASSUME NEW c \in SimulationGets
    PROVE  IsQuestion(c, "SIM")
  BY NumbersOfEmissionAndSimulationVariables, AsksIs, GetterTypes, TableQuestions
     DEF SimulationGets, SimulationAsks

\* Every method in TrafficLightGets asks for a variable of its domain with the type and the
\* reading SUMO answers it with.
LEMMA TrafficLightGetsAsk ==
    ASSUME NEW c \in TrafficLightGets
    PROVE  IsQuestion(c, "TL")
<1>1. CASE c = GetCompound("TL", "TL_COMPLETE_DEFINITION_RYG", <<>>, "logics")
  <2>1. /\ c.kind = "get" /\ c.command = CMD_GET + Domain["TL"] /\ c.variable = Var["TL_COMPLETE_DEFINITION_RYG"]
        /\ c.value = <<>> /\ c.expects = TYPE_COMPOUND /\ c.reads = "logics"
    BY <1>1, GetFields
  <2>2. Var["TL_COMPLETE_DEFINITION_RYG"] = 43 /\ <<TYPE_COMPOUND, "logics">> = Asks("TL", Var["TL_COMPLETE_DEFINITION_RYG"])
    BY NumbersOfStepVariables, AsksIs DEF TrafficLightAsks
  <2> QED
    BY <2>1, <2>2, Written DEF IsQuestion
<1>2. CASE c = GetCompound("TL", "TL_CONTROLLED_LINKS", <<>>, "controlledLinks")
  <2>1. /\ c.kind = "get" /\ c.command = CMD_GET + Domain["TL"] /\ c.variable = Var["TL_CONTROLLED_LINKS"]
        /\ c.value = <<>> /\ c.expects = TYPE_COMPOUND /\ c.reads = "controlledLinks"
    BY <1>2, GetFields
  <2>2. Var["TL_CONTROLLED_LINKS"] = 39 /\ <<TYPE_COMPOUND, "controlledLinks">> = Asks("TL", Var["TL_CONTROLLED_LINKS"])
    BY NumbersOfStepVariables, AsksIs DEF TrafficLightAsks
  <2> QED
    BY <2>1, <2>2, Written DEF IsQuestion
<1>3. CASE /\ c # GetCompound("TL", "TL_COMPLETE_DEFINITION_RYG", <<>>, "logics")
             /\ c # GetCompound("TL", "TL_CONTROLLED_LINKS", <<>>, "controlledLinks")
  <2>1. PICK table : /\ c \in Gets("TL", table)
                     /\ DOMAIN table = {"getStringVector", "getInt", "getString", "getDouble"}
                     /\ table["getStringVector"] =
                          {"TRACI_ID_LIST", "TL_CONTROLLED_LANES"}
                     /\ table["getInt"] =
                          {"ID_COUNT", "TL_CURRENT_PHASE"}
                     /\ table["getString"] =
                          {"TL_RED_YELLOW_GREEN_STATE", "TL_CURRENT_PROGRAM", "VAR_NAME"}
                     /\ table["getDouble"] =
                          {"TL_PHASE_DURATION", "TL_NEXT_SWITCH"}
    BY <1>3 DEF TrafficLightGets
  <2>2. \A name \in table["getStringVector"] :
        <<TYPE_STRINGLIST, "plain">> = Asks("TL", Var[name]) /\ Var[name] \in (0..255) \ {130, 131}
    BY <2>1, AsksIs, NumbersOfStepVariables DEF TrafficLightAsks
  <2>3. \A name \in table["getInt"] :
        <<TYPE_INTEGER, "plain">> = Asks("TL", Var[name]) /\ Var[name] \in (0..255) \ {130, 131}
    BY <2>1, AsksIs, NumbersOfStepVariables DEF TrafficLightAsks
  <2>4. \A name \in table["getString"] :
        <<TYPE_STRING, "plain">> = Asks("TL", Var[name]) /\ Var[name] \in (0..255) \ {130, 131}
    BY <2>1, AsksIs, NumbersOfStepVariables DEF TrafficLightAsks
  <2>5. \A name \in table["getDouble"] :
        <<TYPE_DOUBLE, "plain">> = Asks("TL", Var[name]) /\ Var[name] \in (0..255) \ {130, 131}
    BY <2>1, AsksIs, NumbersOfStepVariables DEF TrafficLightAsks
  <2> QED
    BY <2>1, <2>2, <2>3, <2>4, <2>5, GetterTypes, TableQuestions
<1> QED
  BY <1>1, <1>2, <1>3

\* Every method in VehicleTypeGets asks for a variable of its domain with the type and the
\* reading SUMO answers it with.
LEMMA VehicleTypeGetsAsk ==
    ASSUME NEW c \in VehicleTypeGets
    PROVE  IsQuestion(c, "VEHICLETYPE")
  BY NumbersOfStepVariables, NumbersOfObjectVariables, AsksIs, GetterTypes, TableQuestions
     DEF VehicleTypeGets, VehicleTypeAsks

\* Every method in VehicleGets asks for a variable of its domain with the type and the reading
\* SUMO answers it with.
LEMMA VehicleGetsAsk ==
    ASSUME NEW c \in VehicleGets
    PROVE  IsQuestion(c, "VEHICLE")
  BY NumbersOfStepVariables, NumbersOfObjectVariables, NumbersOfEmissionAndSimulationVariables, AsksIs,
     GetterTypes, TableQuestions
     DEF VehicleGets, VehicleAsks

\* Every method in VehicleMoreGets asks for a variable of its domain with the type and the
\* reading SUMO answers it with.
LEMMA VehicleMoreGetsAsk ==
    ASSUME NEW c \in VehicleMoreGets
    PROVE  IsQuestion(c, "VEHICLE")
  BY NumbersOfStepVariables, NumbersOfObjectVariables, AsksIs, GetterTypes, TableQuestions
     DEF VehicleMoreGets, VehicleAsks

\* Every method in VehicleCompoundGets asks for a variable of its domain with the type and the
\* reading SUMO answers it with.
LEMMA VehicleCompoundGetsAsk ==
    ASSUME NEW c \in VehicleCompoundGets
    PROVE  IsQuestion(c, "VEHICLE")
<1>1. CASE c = GetCompound("VEHICLE", "VAR_NEXT_TLS", <<>>, "nextTLS")
  <2>1. /\ c.kind = "get" /\ c.command = CMD_GET + Domain["VEHICLE"] /\ c.variable = Var["VAR_NEXT_TLS"]
        /\ c.value = <<>> /\ c.expects = TYPE_COMPOUND /\ c.reads = "nextTLS"
    BY <1>1, GetFields
  <2>2. Var["VAR_NEXT_TLS"] = 112 /\ <<TYPE_COMPOUND, "nextTLS">> = Asks("VEHICLE", Var["VAR_NEXT_TLS"])
    BY NumbersOfEmissionAndSimulationVariables, AsksIs DEF VehicleAsks
  <2> QED
    BY <2>1, <2>2, Written DEF IsQuestion
<1>2. CASE c = GetCompound("VEHICLE", "VAR_BEST_LANES", <<>>, "bestLanes")
  <2>1. /\ c.kind = "get" /\ c.command = CMD_GET + Domain["VEHICLE"] /\ c.variable = Var["VAR_BEST_LANES"]
        /\ c.value = <<>> /\ c.expects = TYPE_COMPOUND /\ c.reads = "bestLanes"
    BY <1>2, GetFields
  <2>2. Var["VAR_BEST_LANES"] = 178 /\ <<TYPE_COMPOUND, "bestLanes">> = Asks("VEHICLE", Var["VAR_BEST_LANES"])
    BY NumbersOfObjectVariables, AsksIs DEF VehicleAsks
  <2> QED
    BY <2>1, <2>2, Written DEF IsQuestion
<1>3. CASE c = GetCompound("VEHICLE", "VAR_LEADER", ADouble, "leader")
  <2>1. /\ c.kind = "get" /\ c.command = CMD_GET + Domain["VEHICLE"] /\ c.variable = Var["VAR_LEADER"]
        /\ c.value = ADouble /\ c.expects = TYPE_COMPOUND /\ c.reads = "leader"
    BY <1>3, GetFields
  <2>2. Var["VAR_LEADER"] = 104 /\ <<TYPE_COMPOUND, "leader">> = Asks("VEHICLE", Var["VAR_LEADER"])
    BY NumbersOfEmissionAndSimulationVariables, AsksIs DEF VehicleAsks
  <2> QED
    BY <2>1, <2>2, Written DEF IsQuestion
<1>4. CASE c = GetCompound("VEHICLE", "CMD_CHANGELANE", AnInt, "laneChangeState")
  <2>1. /\ c.kind = "get" /\ c.command = CMD_GET + Domain["VEHICLE"] /\ c.variable = Var["CMD_CHANGELANE"]
        /\ c.value = AnInt /\ c.expects = TYPE_COMPOUND /\ c.reads = "laneChangeState"
    BY <1>4, GetFields
  <2>2. Var["CMD_CHANGELANE"] = 19 /\ <<TYPE_COMPOUND, "laneChangeState">> = Asks("VEHICLE", Var["CMD_CHANGELANE"])
    BY NumbersOfVehicleCommands, AsksIs DEF VehicleAsks
  <2> QED
    BY <2>1, <2>2, Written DEF IsQuestion
<1> QED
  BY <1>1, <1>2, <1>3, <1>4 DEF VehicleCompoundGets

\* Every method in VehicleStateGets asks for a variable of its domain with the type and the
\* reading SUMO answers it with.
LEMMA VehicleStateGetsAsk ==
    ASSUME NEW c \in VehicleStateGets
    PROVE  IsQuestion(c, "VEHICLE")
<1>1. CASE c = Get("VEHICLE", "VAR_ROUTE_VALID", <<>>, "getInt")
  <2>1. /\ c.kind = "get" /\ c.command = CMD_GET + Domain["VEHICLE"] /\ c.variable = Var["VAR_ROUTE_VALID"]
        /\ c.value = <<>> /\ c.expects = TYPE_INTEGER /\ c.reads = "plain"
    BY <1>1, GetFields, GetterTypes
  <2>2. Var["VAR_ROUTE_VALID"] = 146 /\ <<TYPE_INTEGER, "plain">> = Asks("VEHICLE", Var["VAR_ROUTE_VALID"])
    BY NumbersOfStageAndViewVariables, AsksIs DEF VehicleAsks
  <2> QED
    BY <2>1, <2>2, Written DEF IsQuestion
<1>2. CASE c # Get("VEHICLE", "VAR_ROUTE_VALID", <<>>, "getInt")
  <2>1. PICK table : /\ c \in Gets("VEHICLE", table)
                     /\ DOMAIN table = {"getStringVector", "getInt", "getDouble", "getString"}
                     /\ table["getStringVector"] =
                          {"LAST_STEP_PERSON_ID_LIST"}
                     /\ table["getInt"] =
                          {"VAR_STOPSTATE", "VAR_ROUTING_MODE", "VAR_PERSON_NUMBER"}
                     /\ table["getDouble"] =
                          {"VAR_ACCEL", "VAR_DECEL", "VAR_TAU", "VAR_IMPERFECTION", "VAR_SPEED_FACTOR",
                           "VAR_SPEED_DEVIATION", "VAR_MINGAP", "VAR_WIDTH", "VAR_LENGTH", "VAR_HEIGHT",
                           "VAR_ACCUMULATED_WAITING_TIME", "VAR_ALLOWED_SPEED",
                           "VAR_SPEED_WITHOUT_TRACI", "VAR_MAXSPEED_LAT", "VAR_MINGAP_LAT"}
                     /\ table["getString"] =
                          {"VAR_VEHICLECLASS", "VAR_LATALIGNMENT"}
    BY <1>2 DEF VehicleStateGets
  <2>2. \A name \in table["getStringVector"] :
        <<TYPE_STRINGLIST, "plain">> = Asks("VEHICLE", Var[name]) /\ Var[name] \in (0..255) \ {130, 131}
    BY <2>1, AsksIs, NumbersOfStepVariables DEF VehicleAsks
  <2>3. \A name \in table["getInt"] :
        <<TYPE_INTEGER, "plain">> = Asks("VEHICLE", Var[name]) /\ Var[name] \in (0..255) \ {130, 131}
    BY <2>1, AsksIs, NumbersOfEmissionAndSimulationVariables, NumbersOfObjectVariables DEF VehicleAsks
  <2>4. \A name \in table["getDouble"] :
        <<TYPE_DOUBLE, "plain">> = Asks("VEHICLE", Var[name]) /\ Var[name] \in (0..255) \ {130, 131}
    BY <2>1, AsksIs, NumbersOfEmissionAndSimulationVariables, NumbersOfObjectVariables,
       NumbersOfStepVariables DEF VehicleAsks
  <2>5. \A name \in table["getString"] :
        <<TYPE_STRING, "plain">> = Asks("VEHICLE", Var[name]) /\ Var[name] \in (0..255) \ {130, 131}
    BY <2>1, AsksIs, NumbersOfObjectVariables DEF VehicleAsks
  <2> QED
    BY <2>1, <2>2, <2>3, <2>4, <2>5, GetterTypes, TableQuestions
<1> QED
  BY <1>1, <1>2

\* Every method in PersonGets asks for a variable of its domain with the type and the reading
\* SUMO answers it with.
LEMMA PersonGetsAsk ==
    ASSUME NEW c \in PersonGets
    PROVE  IsQuestion(c, "PERSON")
<1>1. CASE c = Get("PERSON", "VAR_STAGE", AnInt, "getInt")
  <2>1. /\ c.kind = "get" /\ c.command = CMD_GET + Domain["PERSON"] /\ c.variable = Var["VAR_STAGE"]
        /\ c.value = AnInt /\ c.expects = TYPE_INTEGER /\ c.reads = "plain"
    BY <1>1, GetFields, GetterTypes
  <2>2. Var["VAR_STAGE"] = 192 /\ <<TYPE_INTEGER, "plain">> = Asks("PERSON", Var["VAR_STAGE"])
    BY NumbersOfStageAndViewVariables, AsksIs DEF PersonAsks
  <2> QED
    BY <2>1, <2>2, Written DEF IsQuestion
<1>2. CASE c = Get("PERSON", "VAR_EDGES", AnInt, "getStringVector")
  <2>1. /\ c.kind = "get" /\ c.command = CMD_GET + Domain["PERSON"] /\ c.variable = Var["VAR_EDGES"]
        /\ c.value = AnInt /\ c.expects = TYPE_STRINGLIST /\ c.reads = "plain"
    BY <1>2, GetFields, GetterTypes
  <2>2. Var["VAR_EDGES"] = 84 /\ <<TYPE_STRINGLIST, "plain">> = Asks("PERSON", Var["VAR_EDGES"])
    BY NumbersOfObjectVariables, AsksIs DEF PersonAsks
  <2> QED
    BY <2>1, <2>2, Written DEF IsQuestion
<1>3. CASE /\ c # Get("PERSON", "VAR_STAGE", AnInt, "getInt")
             /\ c # Get("PERSON", "VAR_EDGES", AnInt, "getStringVector")
  BY <1>3, NumbersOfStepVariables, NumbersOfObjectVariables, NumbersOfEmissionAndSimulationVariables,
     NumbersOfStageAndViewVariables, AsksIs, GetterTypes, TableQuestions
     DEF PersonGets, PersonAsks
<1> QED
  BY <1>1, <1>2, <1>3

-----------------------------------------------------------------------------
(* Compounds and positions.                                                *)

\* Compounds of up to eight values.
LEMMA SmallCompounds ==
    /\ \A a \in Values : ACompound(1, <<a>>) \in Values
    /\ \A a, b \in Values : ACompound(2, <<a, b>>) \in Values
    /\ \A a, b, c \in Values : ACompound(3, <<a, b, c>>) \in Values
    /\ \A a, b, c, d \in Values : ACompound(4, <<a, b, c, d>>) \in Values
    /\ \A a, b, c, d, e \in Values : ACompound(5, <<a, b, c, d, e>>) \in Values
    /\ \A a, b, c, d, e, f \in Values : ACompound(6, <<a, b, c, d, e, f>>) \in Values
    /\ \A a, b, c, d, e, f, g \in Values : ACompound(7, <<a, b, c, d, e, f, g>>) \in Values
    /\ \A a, b, c, d, e, f, g, h \in Values : ACompound(8, <<a, b, c, d, e, f, g, h>>) \in Values
<1>1. ASSUME NEW a \in Values
      PROVE  ACompound(1, <<a>>) \in Values
  <2>1. <<a>> \in Seq(Values) /\ Len(<<a>>) = 1
    OBVIOUS
  <2> QED
    BY <2>1, CompoundIsValue, Zenon
<1>2. ASSUME NEW a \in Values, NEW b \in Values
      PROVE  ACompound(2, <<a, b>>) \in Values
  <2>1. <<a, b>> \in Seq(Values) /\ Len(<<a, b>>) = 2
    OBVIOUS
  <2> QED
    BY <2>1, CompoundIsValue, Zenon
<1>3. ASSUME NEW a \in Values, NEW b \in Values, NEW c \in Values
      PROVE  ACompound(3, <<a, b, c>>) \in Values
  <2>1. <<a, b, c>> \in Seq(Values) /\ Len(<<a, b, c>>) = 3
    OBVIOUS
  <2> QED
    BY <2>1, CompoundIsValue, Zenon
<1>4. ASSUME NEW a \in Values, NEW b \in Values, NEW c \in Values, NEW d \in Values
      PROVE  ACompound(4, <<a, b, c, d>>) \in Values
  <2>1. <<a, b, c, d>> \in Seq(Values) /\ Len(<<a, b, c, d>>) = 4
    OBVIOUS
  <2> QED
    BY <2>1, CompoundIsValue, Zenon
<1>5. ASSUME NEW a \in Values, NEW b \in Values, NEW c \in Values, NEW d \in Values, NEW e \in Values
      PROVE  ACompound(5, <<a, b, c, d, e>>) \in Values
  <2>1. <<a, b, c, d, e>> \in Seq(Values) /\ Len(<<a, b, c, d, e>>) = 5
    OBVIOUS
  <2> QED
    BY <2>1, CompoundIsValue, Zenon
<1>6. ASSUME NEW a \in Values, NEW b \in Values, NEW c \in Values, NEW d \in Values,
      NEW e \in Values, NEW f \in Values
      PROVE  ACompound(6, <<a, b, c, d, e, f>>) \in Values
  <2>1. <<a, b, c, d, e, f>> \in Seq(Values) /\ Len(<<a, b, c, d, e, f>>) = 6
    OBVIOUS
  <2> QED
    BY <2>1, CompoundIsValue, Zenon
<1>7. ASSUME NEW a \in Values, NEW b \in Values, NEW c \in Values, NEW d \in Values,
      NEW e \in Values, NEW f \in Values, NEW g \in Values
      PROVE  ACompound(7, <<a, b, c, d, e, f, g>>) \in Values
  <2>1. <<a, b, c, d, e, f, g>> \in Seq(Values) /\ Len(<<a, b, c, d, e, f, g>>) = 7
    OBVIOUS
  <2> QED
    BY <2>1, CompoundIsValue, Zenon
<1>8. ASSUME NEW a \in Values, NEW b \in Values, NEW c \in Values, NEW d \in Values,
      NEW e \in Values, NEW f \in Values, NEW g \in Values, NEW h \in Values
      PROVE  ACompound(8, <<a, b, c, d, e, f, g, h>>) \in Values
  <2>1. <<a, b, c, d, e, f, g, h>> \in Seq(Values) /\ Len(<<a, b, c, d, e, f, g, h>>) = 8
    OBVIOUS
  <2> QED
    BY <2>1, CompoundIsValue, Zenon
<1> QED
  BY <1>1, <1>2, <1>3, <1>4, <1>5, <1>6, <1>7, <1>8, Zenon

\* A compound of as many copies of a value as it announces; an empty one too.
LEMMA CompoundOfCopies ==
    ASSUME NEW a \in Values, NEW n \in Nat
    PROVE  ACompound(n, Copies(n, <<a>>)) \in Values
  BY CopiesOf, CompoundIsValue

\* A compound of nothing is a value.
LEMMA EmptyCompound == ACompound(0, <<>>) \in Values
<1>1. <<>> \in Seq(Values) /\ 0 = Len(<<>>)
  OBVIOUS
<1> QED
  BY <1>1, CompoundIsValue, Zenon

\* The positions a question about a distance or a place names are values.
LEMMA Positions ==
    /\ \A type \in {POSITION_2D, POSITION_LON_LAT} : PositionOn(type) \in Values
    /\ PositionOnRoad \in Values
<1>0. Doubles(1) \in Tokens /\ String(1) \in Tokens /\ \A n : Byte(n) \in Tokens /\ UByte(n) \in Tokens
  BY Bytes, ManyDoubles, Strings
<1>1. ASSUME NEW type \in {POSITION_2D, POSITION_LON_LAT} PROVE PositionOn(type) \in Values
  <2>1. type \in 0..127 /\ type \in 0..255
    BY DEF POSITION_2D, POSITION_LON_LAT
  <2>2. <<UByte(type)>> \o Copies(2, <<Doubles(1)>>) \in Values
    BY <2>1, TakesTyped, TypedIsValue, Zenon
  <2>3. Copies(2, <<Doubles(1)>>) = <<Doubles(1)>> \o <<Doubles(1)>>
    <3>1. <<Doubles(1)>> \in Seq(Tokens)
      BY <1>0, SingleWants
    <3> QED
      BY <3>1, CopiesFacts, Zenon
  <2>4. <<UByte(type)>> \o (<<Doubles(1)>> \o <<Doubles(1)>>) = <<UByte(type), Doubles(1), Doubles(1)>>
    BY <1>0, Triples
  <2> QED
    BY <2>1, <2>2, <2>3, <2>4, SmallBytes, Zenon DEF PositionOn
<1>2. PositionOnRoad \in Values
  <2>1. POSITION_ROADMAP \in 0..127 /\ POSITION_ROADMAP \in 0..255 /\ 0 \in 0..127
    BY DEF POSITION_ROADMAP
  <2>2. <<UByte(POSITION_ROADMAP)>> \o <<String(1), Doubles(1), UByte(0)>> \in Values
    BY <2>1, TakesTyped, TypedIsValue, Zenon
  <2>3. <<String(1), Doubles(1), UByte(0)>> = <<String(1)>> \o (<<Doubles(1)>> \o <<UByte(0)>>)
    BY <1>0, Triples
  <2>4. <<UByte(POSITION_ROADMAP)>> \o (<<String(1)>> \o (<<Doubles(1)>> \o <<UByte(0)>>))
          = <<UByte(POSITION_ROADMAP), String(1), Doubles(1), UByte(0)>>
    BY <1>0, Quadruples
  <2>5. Byte(POSITION_ROADMAP) = UByte(POSITION_ROADMAP) /\ Byte(0) = UByte(0)
    BY <2>1, SmallBytes
  <2> QED
    BY <2>2, <2>3, <2>4, <2>5, Zenon DEF PositionOnRoad
<1> QED
  BY <1>1, <1>2

\* The boundary a view is given: two points.
LEMMA SmallPolygon == <<UByte(TYPE_POLYGON), Byte(2), Doubles(4)>> \in Values
<1>1. PICK n : n = 2
  OBVIOUS
<1>2. n \in 1..255 /\ n \in 0..127 /\ 2 * n = 4 /\ TYPE_POLYGON \in 0..255
  BY <1>1 DEF TYPE_POLYGON
<1>3. Takes(Value(TYPE_POLYGON), <<UByte(n)>> \o <<Doubles(2 * n)>>)
  BY <1>2, TakesTyped, Zenon
<1>4. <<UByte(TYPE_POLYGON)>> \o (<<UByte(n)>> \o <<Doubles(4)>>) \in Values
  BY <1>2, <1>3, TypedIsValue, Zenon
<1>5. UByte(TYPE_POLYGON) \in Tokens /\ UByte(n) \in Tokens /\ Doubles(4) \in Tokens
  BY Bytes, ManyDoubles
<1>6. <<UByte(TYPE_POLYGON)>> \o (<<UByte(n)>> \o <<Doubles(4)>>) = <<UByte(TYPE_POLYGON), UByte(n), Doubles(4)>>
  BY <1>5, Triples
<1>7. Byte(n) = UByte(n)
  BY <1>2, SmallBytes
<1> QED
  BY <1>1, <1>4, <1>6, <1>7, Zenon

\* The compound of fourteen that adds a vehicle.
LEMMA LongCompound == ACompound(14, Copies(12, <<AString>>) \o <<AnInt, AnInt>>) \in Values
<1>1. PICK s, t : s = Copies(12, <<AString>>) /\ t = <<AnInt, AnInt>>
  BY Zenon
<1>2. s \in Seq(Values) /\ Len(s) = 12
  BY Written, CopiesOf, <1>1, Zenon
<1>3. t \in Seq(Values) /\ Len(t) = 2
  BY <1>1, Written
<1>4. s \o t \in Seq(Values)
  BY <1>2, <1>3, ConcatProperties
<1>5. Len(s \o t) = Len(s) + Len(t)
  BY <1>2, <1>3, ConcatProperties, Zenon
<1>6. Len(s \o t) = 14
  BY <1>2, <1>3, <1>5
<1>7. ACompound(14, s \o t) \in Values
  BY <1>4, <1>6, CompoundIsValue, Zenon
<1> QED
  BY <1>1, <1>7
-----------------------------------------------------------------------------
(* What the setters write.                                                 *)

\* A setter, in its parts.
LEMMA SetFields ==
    \A d, name, value :
      /\ Set(d, name, value).kind = "set"
      /\ Set(d, name, value).command = CMD_SET + Domain[d]
      /\ Set(d, name, value).variable = Var[name]
      /\ Set(d, name, value).value = value
  BY DEF Set

\* A setter of a scope is a setting of its domain if it writes a value SUMO reads.
LEMMA OneSetting ==
    ASSUME NEW d, NEW names, NEW value \in Values, NEW c \in Sets(d, names, value),
           \A name \in names : Var[name] \in 0..255 /\ (d = "EDGE" => Var[name] # 65)
    PROVE  IsSetting(c, d)
<1>1. PICK name \in names : c = Set(d, name, value)
  BY DEF Sets
<1>2. /\ c.kind = "set" /\ c.command = CMD_SET + Domain[d] /\ c.variable = Var[name] /\ c.value = value
  BY <1>1, SetFields
<1>3. value \in Seq(Tokens)
  BY DEF Values
<1> QED
  BY <1>2, <1>3 DEF IsSetting

\* Every method in EdgeSets sets a variable of its domain to a value SUMO reads.
LEMMA EdgeSetsSet ==
    ASSUME NEW c \in EdgeSets
    PROVE  IsSetting(c, "EDGE")
<1>1. ACompound(3, Copies(3, <<ADouble>>)) \in Values
  BY Written, CompoundOfCopies
<1>2. ACompound(1, <<ADouble>>) \in Values
  BY Written, SmallCompounds
<1>3. /\ c.kind = "set" /\ c.command = CMD_SET + Domain["EDGE"]
      /\ c.variable \in (0..255) \ {65}
  BY SetFields, NumbersOfObjectVariables DEF EdgeSets, Sets
<1>4. c.value \in Values
  BY <1>1, <1>2, Written, SetFields DEF EdgeSets, Sets
<1>5. c.value \in Seq(Tokens)
  BY <1>4 DEF Values
<1> QED
  BY <1>3, <1>4, <1>5 DEF IsSetting

\* Every method in GUISets sets a variable of its domain to a value SUMO reads.
LEMMA GUISetsSet ==
    ASSUME NEW c \in GUISets
    PROVE  IsSetting(c, "GUI")
<1>1. <<UByte(TYPE_POLYGON), Byte(2), Doubles(4)>> \in Values
  BY Written, SmallPolygon
<1>2. ACompound(3, <<AString, AnInt, AnInt>>) \in Values
  BY Written, SmallCompounds
<1>3. /\ c.kind = "set" /\ c.command = CMD_SET + Domain["GUI"]
      /\ c.variable \in 0..255
  BY SetFields, NumbersOfStageAndViewVariables DEF GUISets, Sets
<1>4. c.value \in Values
  BY <1>1, <1>2, Written, SetFields DEF GUISets, Sets
<1>5. c.value \in Seq(Tokens)
  BY <1>4 DEF Values
<1> QED
  BY <1>3, <1>4, <1>5 DEF IsSetting

\* Every method in LaneSets sets a variable of its domain to a value SUMO reads.
LEMMA LaneSetsSet ==
    ASSUME NEW c \in LaneSets
    PROVE  IsSetting(c, "LANE")
<1>1. ListSizes \subseteq Nat
  BY DEF ListSizes
<1>2. /\ c.kind = "set" /\ c.command = CMD_SET + Domain["LANE"]
      /\ c.variable \in 0..255
  BY SetFields, NumbersOfStepVariables DEF LaneSets, Sets
<1>3. c.value \in Values
  <2>1. CASE c \in Sets("LANE", {"VAR_MAXSPEED", "VAR_LENGTH"}, ADouble)
    BY <2>1, Written, SetFields DEF Sets
  <2>2. CASE \E name \in {"LANE_ALLOWED", "LANE_DISALLOWED"}, n \in ListSizes : c = Set("LANE", name, AStringList(n))
    BY <1>1, <2>2, Written, SetFields
  <2> QED
    BY <2>1, <2>2 DEF LaneSets
<1>4. c.value \in Seq(Tokens)
  BY <1>3 DEF Values
<1> QED
  BY <1>2, <1>3, <1>4 DEF IsSetting

\* Every method in POISets sets a variable of its domain to a value SUMO reads.
LEMMA POISetsSet ==
    ASSUME NEW c \in POISets
    PROVE  IsSetting(c, "POI")
<1>1. ACompound(8, <<AString, AColor, AnInt, APosition2D, AString, ADouble, ADouble, ADouble>>) \in Values
  BY Written, SmallCompounds, Zenon
<1>2. /\ c.kind = "set" /\ c.command = CMD_SET + Domain["POI"]
      /\ c.variable \in 0..255
  BY SetFields, NumbersOfStepVariables, NumbersOfObjectVariables,
     NumbersOfEmissionAndSimulationVariables DEF POISets, Sets
<1>3. c.value \in Values
  BY <1>1, Written, SetFields DEF POISets, Sets
<1>4. c.value \in Seq(Tokens)
  BY <1>3 DEF Values
<1> QED
  BY <1>2, <1>3, <1>4 DEF IsSetting

\* Every setter in RouteCalls sets a variable of its domain to a value SUMO reads.
LEMMA RouteCallsSet ==
    ASSUME NEW c \in RouteCalls, c.kind = "set"
    PROVE  IsSetting(c, "ROUTE")
<1>1. ListSizes \subseteq Nat
  BY DEF ListSizes
<1>2. ASSUME NEW table, c \in Gets("ROUTE", table) PROVE FALSE
  BY <1>2, GetFields DEF Gets
<1>3. PICK n \in ListSizes : c = Set("ROUTE", "ADD", AStringList(n))
  BY <1>2 DEF RouteCalls
<1>4. /\ c.kind = "set" /\ c.command = CMD_SET + Domain["ROUTE"] /\ c.variable \in 0..255 /\ c.value \in Values
  BY <1>1, <1>3, Written, SetFields, NumbersOfEmissionAndSimulationVariables
<1>5. c.value \in Seq(Tokens)
  BY <1>4 DEF Values
<1> QED
  BY <1>4, <1>5 DEF IsSetting

\* Every method in TrafficLightSets sets a variable of its domain to a value SUMO reads.
LEMMA TrafficLightSetsSet ==
    ASSUME NEW c \in TrafficLightSets
    PROVE  IsSetting(c, "TL")
<1>1. /\ c.kind = "set" /\ c.command = CMD_SET + Domain["TL"]
      /\ c.variable \in 0..255
  BY SetFields, NumbersOfStepVariables DEF TrafficLightSets, Sets
<1>2. c.value \in Values
  BY Written, SetFields DEF TrafficLightSets, Sets
<1>3. c.value \in Seq(Tokens)
  BY <1>2 DEF Values
<1> QED
  BY <1>1, <1>2, <1>3 DEF IsSetting

\* Every method in VehicleTypeSets sets a variable of its domain to a value SUMO reads.
LEMMA VehicleTypeSetsSet ==
    ASSUME NEW c \in VehicleTypeSets
    PROVE  IsSetting(c, "VEHICLETYPE")
<1>1. /\ c.kind = "set" /\ c.command = CMD_SET + Domain["VEHICLETYPE"]
      /\ c.variable \in 0..255
  BY SetFields, NumbersOfStepVariables, NumbersOfObjectVariables,
     NumbersOfEmissionAndSimulationVariables DEF VehicleTypeSets, Sets
<1>2. c.value \in Values
  BY Written, SetFields DEF VehicleTypeSets, Sets
<1>3. c.value \in Seq(Tokens)
  BY <1>2 DEF Values
<1> QED
  BY <1>1, <1>2, <1>3 DEF IsSetting

\* Every method in VehicleAddSets sets a variable of its domain to a value SUMO reads.
LEMMA VehicleAddSetsSet ==
    ASSUME NEW c \in VehicleAddSets
    PROVE  IsSetting(c, "VEHICLE")
<1>1. ACompound(14, Copies(12, <<AString>>) \o <<AnInt, AnInt>>) \in Values
  BY Written, LongCompound
<1>2. /\ c.kind = "set" /\ c.command = CMD_SET + Domain["VEHICLE"]
      /\ c.variable \in 0..255
  BY SetFields, NumbersOfEmissionAndSimulationVariables DEF VehicleAddSets, Sets
<1>3. c.value \in Values
  BY <1>1, Written, SetFields DEF VehicleAddSets, Sets
<1>4. c.value \in Seq(Tokens)
  BY <1>3 DEF Values
<1> QED
  BY <1>2, <1>3, <1>4 DEF IsSetting

\* Every method in VehicleManeuverSets sets a variable of its domain to a value SUMO reads.
LEMMA VehicleManeuverSetsSet ==
    ASSUME NEW c \in VehicleManeuverSets
    PROVE  IsSetting(c, "VEHICLE")
<1>1. ListSizes \subseteq Nat
  BY DEF ListSizes
<1>2. ACompound(2, <<AByte(1), ADouble>>) \in Values
  BY Written, SmallCompounds
<1>3. ACompound(3, <<AByte(-1), ADouble, AByte(1)>>) \in Values
  BY Written, SmallCompounds, Zenon
<1>4. ACompound(0, <<>>) \in Values
  BY EmptyCompound
<1>5. ACompound(2, <<AString, ADouble>>) \in Values
  BY Written, SmallCompounds
<1>6. ACompound(6, <<AString, AnInt, ADouble, ADouble, ADouble, AByte(1)>>) \in Values
  BY Written, SmallCompounds, Zenon
<1>7. ACompound(2, <<ADouble, ADouble>>) \in Values
  BY Written, SmallCompounds
<1>8. /\ c.kind = "set" /\ c.command = CMD_SET + Domain["VEHICLE"]
      /\ c.variable \in 0..255
  <2>1. c.kind = "set"
    BY SetFields DEF VehicleManeuverSets, Sets
  <2>2. c.command = CMD_SET + Domain["VEHICLE"]
    BY SetFields DEF VehicleManeuverSets, Sets
  <2>3. /\ Var["REMOVE"] \in 0..255 /\ Var["CMD_CHANGETARGET"] \in 0..255 /\ Var["VAR_ROUTE_ID"] \in 0..255
        /\ Var["CMD_CHANGELANE"] \in 0..255 /\ Var["CMD_CHANGESUBLANE"] \in 0..255 /\ Var["VAR_ROUTE"] \in 0..255
        /\ Var["CMD_REROUTE_TRAVELTIME"] \in 0..255 /\ Var["VAR_MOVE_TO"] \in 0..255
        /\ Var["MOVE_TO_XY"] \in 0..255 /\ Var["CMD_SLOWDOWN"] \in 0..255
    BY NumbersOfObjectVariables, NumbersOfEmissionAndSimulationVariables,
       NumbersOfStageAndViewVariables, NumbersOfVehicleCommands
  <2>4. c.variable \in 0..255
    <3>1. CASE c \in {Set("VEHICLE", "REMOVE", <<UByte(TYPE_BYTE), UByte(reason)>>) : reason \in 0 .. 4}
      BY <2>3, <3>1, SetFields
    <3>2. CASE c \in Sets("VEHICLE", {"CMD_CHANGETARGET", "VAR_ROUTE_ID"}, AString)
      BY <2>3, <3>2, SetFields DEF Sets
    <3>3. CASE c \in {Set("VEHICLE", "CMD_CHANGELANE", ACompound(2, <<AByte(1), ADouble>>)),
                     Set("VEHICLE", "CMD_CHANGELANE", ACompound(3, <<AByte(-1), ADouble, AByte(1)>>)),
                     Set("VEHICLE", "CMD_CHANGESUBLANE", ADouble)}
      BY <2>3, <3>3, SetFields
    <3>4. CASE c \in {Set("VEHICLE", "VAR_ROUTE", AStringList(n)) : n \in ListSizes}
      BY <2>3, <3>4, SetFields
    <3>5. CASE c \in {Set("VEHICLE", "CMD_REROUTE_TRAVELTIME", ACompound(0, <<>>)),
                     Set("VEHICLE", "VAR_MOVE_TO", ACompound(2, <<AString, ADouble>>)),
                     Set("VEHICLE", "MOVE_TO_XY", ACompound(6, <<AString, AnInt, ADouble, ADouble, ADouble, AByte(1)>>)),
                     Set("VEHICLE", "CMD_SLOWDOWN", ACompound(2, <<ADouble, ADouble>>))}
      <4> PICK v : v = ACompound(0, <<>>)
        OBVIOUS
      <4>1. CASE c = Set("VEHICLE", "CMD_REROUTE_TRAVELTIME", v)
        BY <2>3, <4>1, SetFields
      <4>2. CASE c \in {Set("VEHICLE", "VAR_MOVE_TO", ACompound(2, <<AString, ADouble>>)),
                       Set("VEHICLE", "MOVE_TO_XY", ACompound(6, <<AString, AnInt, ADouble, ADouble, ADouble, AByte(1)>>)),
                       Set("VEHICLE", "CMD_SLOWDOWN", ACompound(2, <<ADouble, ADouble>>))}
        <5>1. PICK u, w, x : /\ u = ACompound(2, <<AString, ADouble>>)
                           /\ w = ACompound(6, <<AString, AnInt, ADouble, ADouble, ADouble, AByte(1)>>)
                           /\ x = ACompound(2, <<ADouble, ADouble>>)
          OBVIOUS
        <5>2. c \in {Set("VEHICLE", "VAR_MOVE_TO", u), Set("VEHICLE", "MOVE_TO_XY", w), Set("VEHICLE", "CMD_SLOWDOWN", x)}
          BY <4>2, <5>1
        <5> QED
          <6>1. CASE c = Set("VEHICLE", "VAR_MOVE_TO", u)
            BY <2>3, <6>1, SetFields
          <6>2. CASE c = Set("VEHICLE", "MOVE_TO_XY", w)
            BY <2>3, <6>2, SetFields
          <6>3. CASE c = Set("VEHICLE", "CMD_SLOWDOWN", x)
            BY <2>3, <6>3, SetFields
          <6> QED
            BY <5>2, <6>1, <6>2, <6>3
      <4> QED
        BY <3>5, <4>1, <4>2
    <3> QED
      BY <3>1, <3>2, <3>3, <3>4, <3>5 DEF VehicleManeuverSets
  <2> QED
    BY <2>1, <2>2, <2>4
<1>9. c.value \in Values
  BY <1>1, <1>2, <1>3, <1>4, <1>5, <1>6, <1>7, Written, SetFields DEF VehicleManeuverSets, Sets
<1>10. c.value \in Seq(Tokens)
  BY <1>9 DEF Values
<1> QED
  BY <1>8, <1>9, <1>10 DEF IsSetting

\* Every method in VehicleSets sets a variable of its domain to a value SUMO reads.
LEMMA VehicleSetsSet ==
    ASSUME NEW c \in VehicleSets
    PROVE  IsSetting(c, "VEHICLE")
<1>1. ListSizes \subseteq Nat
  BY DEF ListSizes
<1>2. \A n \in {3, 4} : ACompound(n, Copies(n, <<ADouble>>)) \in Values
  BY Written, CompoundOfCopies
<1>3. ACompound(7, <<AString, ADouble, AByte(0), ADouble, AByte(1), ADouble, ADouble>>) \in Values
  BY Written, SmallCompounds, Zenon
<1>4. /\ c.kind = "set" /\ c.command = CMD_SET + Domain["VEHICLE"]
      /\ c.variable \in 0..255
  BY SetFields, NumbersOfStepVariables, NumbersOfObjectVariables,
     NumbersOfEmissionAndSimulationVariables, NumbersOfVehicleCommands DEF VehicleSets, Sets
<1>5. c.value \in Values
  BY <1>1, <1>2, <1>3, Written, SetFields DEF VehicleSets, Sets
<1>6. c.value \in Seq(Tokens)
  BY <1>5 DEF Values
<1> QED
  BY <1>4, <1>5, <1>6 DEF IsSetting

\* Every method in PersonSets sets a variable of its domain to a value SUMO reads.
LEMMA PersonSetsSet ==
    ASSUME NEW c \in PersonSets
    PROVE  IsSetting(c, "PERSON")
<1>1. ListSizes \subseteq Nat
  BY DEF ListSizes
<1>2. ACompound(0, <<>>) \in Values
  BY EmptyCompound
<1>3. ACompound(4, <<AString, AString, ADouble, ADouble>>) \in Values
  BY Written, SmallCompounds, Zenon
<1>4. ACompound(4, <<AnInt, AnInt, AString, AString>>) \in Values
  BY Written, SmallCompounds, Zenon
<1>5. ACompound(4, <<AnInt, AString, AString, AString>>) \in Values
  BY Written, SmallCompounds, Zenon
<1>6. \A n \in Nat : ACompound(6, <<AnInt, AStringList(n), ADouble, AnInt, ADouble, AString>>) \in Values
  BY Written, SmallCompounds, Zenon
<1>7. /\ c.kind = "set" /\ c.command = CMD_SET + Domain["PERSON"]
      /\ c.variable \in 0..255
      /\ c.value \in Values
  <2>0. /\ Var["VAR_SPEED"] \in 0..255 /\ Var["VAR_LENGTH"] \in 0..255 /\ Var["VAR_WIDTH"] \in 0..255
        /\ Var["VAR_HEIGHT"] \in 0..255 /\ Var["VAR_MINGAP"] \in 0..255
        /\ Var["CMD_REROUTE_TRAVELTIME"] \in 0..255 /\ Var["ADD"] \in 0..255 /\ Var["APPEND_STAGE"] \in 0..255
        /\ Var["REMOVE_STAGE"] \in 0..255 /\ Var["VAR_TYPE"] \in 0..255 /\ Var["VAR_COLOR"] \in 0..255
    BY NumbersOfStepVariables, NumbersOfObjectVariables, NumbersOfEmissionAndSimulationVariables,
       NumbersOfStageAndViewVariables
  <2>1. CASE \E n \in ListSizes : c = Set("PERSON", "APPEND_STAGE",
                ACompound(6, <<AnInt, AStringList(n), ADouble, AnInt, ADouble, AString>>))
    BY <1>1, <1>6, <2>0, <2>1, SetFields
  <2>2. CASE c \in Sets("PERSON", {"VAR_SPEED", "VAR_LENGTH", "VAR_WIDTH", "VAR_HEIGHT", "VAR_MINGAP"}, ADouble)
    BY <2>0, <2>2, Written, SetFields DEF Sets
  <2>3. CASE c \in {Set("PERSON", "CMD_REROUTE_TRAVELTIME", ACompound(0, <<>>)),
                   Set("PERSON", "ADD", ACompound(4, <<AString, AString, ADouble, ADouble>>)),
                   Set("PERSON", "APPEND_STAGE", ACompound(4, <<AnInt, AnInt, AString, AString>>)),
                   Set("PERSON", "APPEND_STAGE", ACompound(4, <<AnInt, AString, AString, AString>>)),
                   Set("PERSON", "REMOVE_STAGE", AnInt), Set("PERSON", "VAR_TYPE", AString),
                   Set("PERSON", "VAR_COLOR", AColor)}
    <3>1. c.kind = "set" /\ c.command = CMD_SET + Domain["PERSON"] /\ c.variable \in 0..255
      <4> PICK v : v = ACompound(0, <<>>)
        OBVIOUS
      <4>1. CASE c = Set("PERSON", "CMD_REROUTE_TRAVELTIME", v)
        BY <2>0, <4>1, SetFields
      <4>2. CASE c \in {Set("PERSON", "ADD", ACompound(4, <<AString, AString, ADouble, ADouble>>)),
                       Set("PERSON", "APPEND_STAGE", ACompound(4, <<AnInt, AnInt, AString, AString>>)),
                       Set("PERSON", "APPEND_STAGE", ACompound(4, <<AnInt, AString, AString, AString>>)),
                       Set("PERSON", "REMOVE_STAGE", AnInt), Set("PERSON", "VAR_TYPE", AString),
                       Set("PERSON", "VAR_COLOR", AColor)}
        <5>1. PICK u, w, x : /\ u = ACompound(4, <<AString, AString, ADouble, ADouble>>)
                           /\ w = ACompound(4, <<AnInt, AnInt, AString, AString>>)
                           /\ x = ACompound(4, <<AnInt, AString, AString, AString>>)
          OBVIOUS
        <5>2. c \in {Set("PERSON", "ADD", u), Set("PERSON", "APPEND_STAGE", w), Set("PERSON", "APPEND_STAGE", x),
                    Set("PERSON", "REMOVE_STAGE", AnInt), Set("PERSON", "VAR_TYPE", AString),
                    Set("PERSON", "VAR_COLOR", AColor)}
          BY <4>2, <5>1
        <5> QED
          <6>1. CASE c = Set("PERSON", "ADD", u)
            BY <2>0, <6>1, SetFields
          <6>2. CASE c = Set("PERSON", "APPEND_STAGE", w)
            BY <2>0, <6>2, SetFields
          <6>3. CASE c = Set("PERSON", "APPEND_STAGE", x)
            BY <2>0, <6>3, SetFields
          <6>4. CASE c = Set("PERSON", "REMOVE_STAGE", AnInt)
            BY <2>0, <6>4, SetFields
          <6>5. CASE c = Set("PERSON", "VAR_TYPE", AString)
            BY <2>0, <6>5, SetFields
          <6>6. CASE c = Set("PERSON", "VAR_COLOR", AColor)
            BY <2>0, <6>6, SetFields
          <6> QED
            BY <5>2, <6>1, <6>2, <6>3, <6>4, <6>5, <6>6
      <4> QED
        BY <2>3, <4>1, <4>2
    <3>2. c.value \in Values
      BY <1>2, <1>3, <1>4, <1>5, <2>3, Written, SetFields
    <3> QED
      BY <3>1, <3>2
  <2> QED
    BY <2>1, <2>2, <2>3, Zenon DEF PersonSets
<1>9. c.value \in Seq(Tokens)
  BY <1>7 DEF Values
<1> QED
  BY <1>7, <1>9 DEF IsSetting

\* What is written in two parts can be written if both can.
LEMMA WritableParts ==
    ASSUME NEW S, NEW s \in Seq(S), NEW t \in Seq(S)
    PROVE  Writable(s \o t) <=> Writable(s) /\ Writable(t)
<1>1. s \o t \in Seq(S) /\ Len(s \o t) = Len(s) + Len(t)
  BY ConcatProperties
<1>2. \A i \in 1..Len(s) : (s \o t)[i] = s[i]
  BY ConcatProperties
<1>3. \A i \in 1..Len(t) : (s \o t)[Len(s) + i] = t[i]
  BY ConcatProperties
<1>4. DOMAIN s = 1..Len(s) /\ DOMAIN t = 1..Len(t) /\ DOMAIN (s \o t) = 1..(Len(s) + Len(t)) /\ Len(s) \in Nat /\ Len(t) \in Nat
  BY <1>1
<1>5. ASSUME Writable(s \o t) PROVE Writable(s) /\ Writable(t)
  <2>1. ASSUME NEW i \in 1..Len(s) PROVE s[i].v # Throws
    BY <1>2, <1>4, <1>5, <2>1 DEF Writable
  <2>2. ASSUME NEW i \in 1..Len(t) PROVE t[i].v # Throws
    <3>1. Len(s) + i \in 1..(Len(s) + Len(t))
      BY <1>4
    <3> QED
      BY <1>3, <1>4, <1>5, <3>1, Zenon DEF Writable
  <2> QED
    BY <1>4, <2>1, <2>2 DEF Writable
<1>6. ASSUME Writable(s), Writable(t), NEW i \in 1..(Len(s) + Len(t)) PROVE (s \o t)[i].v # Throws
  <2>1. CASE i \in 1..Len(s)
    BY <1>2, <1>4, <1>6, <2>1 DEF Writable
  <2>2. CASE i \notin 1..Len(s)
    <3>1. PICK j \in 1..Len(t) : i = Len(s) + j
      <4>1. i - Len(s) \in 1..Len(t) /\ i = Len(s) + (i - Len(s))
        BY <1>4, <2>2
      <4> QED
        BY <4>1, Zenon
    <3> QED
      BY <1>3, <1>4, <1>6, <3>1 DEF Writable
  <2> QED
    BY <2>1, <2>2
<1> QED
  BY <1>4, <1>5, <1>6 DEF Writable

\* A fifth after four.
LEMMA FourAndOne ==
    ASSUME NEW S, NEW a \in S, NEW b \in S, NEW c \in S, NEW d \in S, NEW e \in S
    PROVE  <<a, b, c, d>> \in Seq(S) /\ Append(<<a, b, c, d>>, e) = <<a, b, c, d, e>>
<1>1. <<a, b, c, d>> \in Seq(S)
  OBVIOUS
<1>2. Append(<<a, b, c, d>>, e) \in Seq(S) /\ <<a, b, c, d, e>> \in Seq(S)
  BY <1>1
<1>3. Len(Append(<<a, b, c, d>>, e)) = 5 /\ Len(<<a, b, c, d, e>>) = 5
  BY <1>1
<1>4. \A i \in 1..5 : Append(<<a, b, c, d>>, e)[i] = <<a, b, c, d, e>>[i]
  BY <1>1
<1> QED
  BY <1>1, <1>2, <1>3, <1>4, SeqEqual, Zenon

\* Every method in PolygonSets sets a variable of its domain to a value SUMO reads, if it can be
\* written: the count of 256 points as one byte cannot.
LEMMA PolygonSetsSet ==
    ASSUME NEW c \in PolygonSets
    PROVE  IsSetting(c, "POLYGON")
<1>1. /\ Var["VAR_WIDTH"] \in 0..255 /\ Var["VAR_TYPE"] \in 0..255 /\ Var["VAR_COLOR"] \in 0..255
      /\ Var["REMOVE"] \in 0..255 /\ Var["VAR_SHAPE"] \in 0..255 /\ Var["ADD"] \in 0..255
  BY NumbersOfStepVariables, NumbersOfObjectVariables, NumbersOfEmissionAndSimulationVariables
<1>2. ASSUME NEW name, NEW value \in Values, c = Set("POLYGON", name, value), Var[name] \in 0..255
      PROVE  IsSetting(c, "POLYGON")
  BY <1>2, SetFields DEF Values, IsSetting
<1>3. ASSUME NEW n \in PolygonSizes, NEW p, p = <<UByte(TYPE_POLYGON), UByte(n), Doubles(2 * n)>>,
             c = Set("POLYGON", "ADD", ACompound(5, <<AString, AColor, AUByte(1), AnInt, p>>))
      PROVE  IsSetting(c, "POLYGON")
  <2>1. UByte(TYPE_POLYGON) \in Tokens /\ UByte(n) \in Tokens /\ Doubles(2 * n) \in Tokens
    BY Bytes, ManyDoubles DEF PolygonSizes
  <2>2. CASE n \in 1..255
    <3>1. TYPE_POLYGON \in 0..255
      BY DEF TYPE_POLYGON
    <3>2. Takes(Value(TYPE_POLYGON), <<UByte(n)>> \o <<Doubles(2 * n)>>)
      BY <2>2, TakesTyped, Zenon
    <3>3. <<UByte(TYPE_POLYGON)>> \o (<<UByte(n)>> \o <<Doubles(2 * n)>>) \in Values
      BY <3>1, <3>2, TypedIsValue, Zenon
    <3>4. <<UByte(TYPE_POLYGON)>> \o (<<UByte(n)>> \o <<Doubles(2 * n)>>) = p
      BY <1>3, <2>1, Triples
    <3>5. ACompound(5, <<AString, AColor, AUByte(1), AnInt, p>>) \in Values
      BY <3>3, <3>4, Written, SmallCompounds, Zenon
    <3> QED
      BY <1>1, <1>2, <1>3, <3>5
  <2>3. CASE n = 256
    <3>1. p \in Seq(Tokens) /\ Len(p) = 3 /\ p[2] = UByte(n)
      BY <1>3, <2>1
    <3>2. UByte(n).v = Throws
      BY <2>3 DEF UByte
    <3>3. ~Writable(p)
      BY <3>1, <3>2 DEF Writable
    <3>4. PICK q : q = <<AString, AColor, AUByte(1), AnInt>>
      BY Zenon
    <3>5. AString \in Seq(Tokens) /\ AColor \in Seq(Tokens) /\ AUByte(1) \in Seq(Tokens) /\ AnInt \in Seq(Tokens)
      BY Written DEF Values
    <3>6. q \in Seq(Seq(Tokens)) /\ Append(q, p) = <<AString, AColor, AUByte(1), AnInt, p>>
      BY <3>1, <3>4, <3>5, FourAndOne
    <3>7. PICK s \in Seq(Tokens) : s = FlattenSeq(q) /\ FlattenSeq(Append(q, p)) = s \o p
      BY <3>1, <3>6, FlattenFacts, Zenon
    <3>8. PICK h : h = <<UByte(TYPE_COMPOUND), I32(5)>> /\ h \in Seq(Tokens)
      <4>1. UByte(TYPE_COMPOUND) \in Tokens /\ I32(5) \in Tokens
        BY Bytes, Ints
      <4> QED
        BY <4>1, Pairs, Zenon
    <3>9. PICK v : v = ACompound(5, <<AString, AColor, AUByte(1), AnInt, p>>)
      OBVIOUS
    <3>10. v = h \o (s \o p)
      BY <3>6, <3>7, <3>8, <3>9, Zenon DEF ACompound
    <3>11. s \o p \in Seq(Tokens) /\ v \in Seq(Tokens)
      BY <3>1, <3>8, <3>10, ConcatProperties
    <3>12. ~Writable(s \o p)
      BY <3>1, <3>3, WritableParts
    <3>13. ~Writable(v)
      BY <3>8, <3>10, <3>11, <3>12, WritableParts, Zenon
    <3>14. c = Set("POLYGON", "ADD", v)
      BY <1>3, <3>9
    <3>15. c.kind = "set" /\ c.command = CMD_SET + Domain["POLYGON"] /\ c.variable = Var["ADD"] /\ c.value = v
      BY <3>14, SetFields
    <3> QED
      BY <1>1, <3>11, <3>13, <3>15 DEF IsSetting
  <2> QED
    BY <2>2, <2>3 DEF PolygonSizes
<1>4. CASE c \in {Set("POLYGON", "VAR_WIDTH", ADouble), Set("POLYGON", "VAR_TYPE", AString),
                 Set("POLYGON", "VAR_COLOR", AColor), Set("POLYGON", "REMOVE", AnInt)}
  BY <1>1, <1>2, <1>4, Written
<1>5. CASE \E n \in PolygonSizes : c = Set("POLYGON", "VAR_SHAPE", APolygon(n))
  BY <1>5, Written, <1>1, <1>2 DEF PolygonSizes
<1>6. CASE \E n \in PolygonSizes : c = Set("POLYGON", "ADD",
             ACompound(5, <<AString, AColor, AUByte(1), AnInt, <<UByte(TYPE_POLYGON), UByte(n), Doubles(2 * n)>> >>))
  BY <1>3, <1>6
<1> QED
  BY <1>4, <1>5, <1>6 DEF PolygonSets

\* Every method in TrafficLightDefinitionSets sets a variable of its domain to a value SUMO
\* reads.
LEMMA TrafficLightDefinitionSetsSet ==
    ASSUME NEW c \in TrafficLightDefinitionSets
    PROVE  IsSetting(c, "TL")
<1>1. PICK n \in Nat : c = Set("TL", "TL_COMPLETE_PROGRAM_RYG",
             ACompound(5, <<AString, AnInt, AnInt, ACompound(n, Copies(n, <<APhase(n)>>)),
                            ACompound(n, Copies(n, <<AStringList(2)>>))>>))
  BY DEF TrafficLightDefinitionSets, ListSizes
<1>2. PICK next : next = ACompound(n, Copies(n, <<AnInt>>)) /\ next \in Values
  BY Written, CompoundOfCopies
<1>3. APhase(n) \in Values
  BY <1>2, Written, SmallCompounds, Zenon DEF APhase
<1>4. PICK phases : phases = ACompound(n, Copies(n, <<APhase(n)>>)) /\ phases \in Values
  BY <1>3, CompoundOfCopies
<1>5. PICK parameters : parameters = ACompound(n, Copies(n, <<AStringList(2)>>)) /\ parameters \in Values
  BY Written, CompoundOfCopies
<1>6. PICK v : v = ACompound(5, <<AString, AnInt, AnInt, phases, parameters>>) /\ v \in Values
  BY <1>4, <1>5, Written, SmallCompounds, Zenon
<1>7. c = Set("TL", "TL_COMPLETE_PROGRAM_RYG", v)
  BY <1>1, <1>4, <1>5, <1>6
<1>8. /\ c.kind = "set" /\ c.command = CMD_SET + Domain["TL"] /\ c.variable = Var["TL_COMPLETE_PROGRAM_RYG"]
      /\ c.value = v
  BY <1>7, SetFields
<1>9. v \in Seq(Tokens) /\ c.variable \in 0..255
  BY <1>6, <1>8, NumbersOfStepVariables DEF Values
<1> QED
  BY <1>6, <1>8, <1>9 DEF IsSetting

\* A method about a parameter asks or sets in its domain, or its domain has no command to set.
LEMMA ParameterCallsAskOrSet ==
    ASSUME NEW c \in ParameterCalls
    PROVE  IsUnset(c) \/ \E d \in DOMAIN Domain : IsQuestion(c, d) \/ IsSetting(c, d)
<1>1. CASE \E d \in DOMAIN Domain : c = Get(d, "VAR_PARAMETER", AString, "getString")
  <2>1. PICK d \in DOMAIN Domain : c = Get(d, "VAR_PARAMETER", AString, "getString")
    BY <1>1
  <2>2. c = GetReading(d, "VAR_PARAMETER", AString, TYPE_STRING, "plain")
    BY <2>1, GetFields, GetterTypes
  <2>3. Var["VAR_PARAMETER"] = 126
    BY NumbersOfEmissionAndSimulationVariables
  <2>4. PICK n : n = 126
    OBVIOUS
  <2>5. Asks(d, n) = <<TYPE_STRING, "plain">>
    BY <2>4, AsksIs, DomainNumbers DEF EdgeAsks, GUIAsks, InductionLoopAsks, JunctionAsks,
       LaneAsks, LaneAreaAsks, MeMeAsks,
       POIAsks, PolygonAsks, RouteAsks, SimulationAsks, TrafficLightAsks, VehicleTypeAsks, VehicleAsks, PersonAsks
  <2>6. /\ c.kind = "get" /\ c.command = CMD_GET + Domain[d] /\ c.variable = n /\ c.value = AString
        /\ c.expects = TYPE_STRING /\ c.reads = "plain"
    BY <2>2, <2>3, <2>4, GetFields
  <2>7. IsQuestion(c, d)
    BY <2>4, <2>5, <2>6, Written DEF IsQuestion
  <2> QED
    BY <2>7
<1>2. CASE \E d \in DOMAIN Domain : c = [Set(d, "VAR_PARAMETER", ACompound(2, <<AString, AString>>))
              EXCEPT !.command = IF d \in ReadOnly THEN -1 ELSE @]
  <2>1. PICK v : v = ACompound(2, <<AString, AString>>)
    OBVIOUS
  <2>2. v \in Values
    BY <2>1, Written, SmallCompounds
  <2>3. PICK d \in DOMAIN Domain : c = [Set(d, "VAR_PARAMETER", v) EXCEPT !.command = IF d \in ReadOnly THEN -1 ELSE @]
    BY <1>2, <2>1
  <2>4. /\ c.kind = "set" /\ c.variable = Var["VAR_PARAMETER"] /\ c.value = v
        /\ c.command = IF d \in ReadOnly THEN -1 ELSE CMD_SET + Domain[d]
    BY <2>3 DEF Set
  <2>5. Var["VAR_PARAMETER"] = 126
    BY NumbersOfEmissionAndSimulationVariables
  <2>6. v \in Seq(Tokens)
    BY <2>2 DEF Values
  <2>7. c.variable \in 0..255 /\ c.variable # 65
    BY <2>4, <2>5
  <2>8. CASE d \in ReadOnly
    BY <2>2, <2>4, <2>7, <2>8 DEF IsUnset
  <2>9. CASE d \notin ReadOnly
    BY <2>2, <2>4, <2>6, <2>7, <2>9 DEF IsSetting
  <2> QED
    BY <2>8, <2>9
<1> QED
  BY <1>1, <1>2 DEF ParameterCalls

-----------------------------------------------------------------------------
(* The questions about positions and distances.                            *)

\* Up to three members, appended one by one.
LEMMA Appends ==
    ASSUME NEW S
    PROVE  /\ \A a \in S : Append(<<>>, a) = <<a>> /\ <<a>> \in Seq(S)
           /\ \A a, b \in S : Append(<<a>>, b) = <<a, b>> /\ <<a, b>> \in Seq(S)
           /\ \A a, b, c \in S : Append(<<a, b>>, c) = <<a, b, c>>
<1>2. ASSUME NEW a \in S PROVE Append(<<>>, a) = <<a>> /\ <<a>> \in Seq(S)
  OBVIOUS
<1>3. ASSUME NEW a \in S, NEW b \in S PROVE Append(<<a>>, b) = <<a, b>> /\ <<a, b>> \in Seq(S)
  <2>1. <<a>> \in Seq(S) /\ <<a, b>> \in Seq(S)
    OBVIOUS
  <2>2. Append(<<a>>, b) \in Seq(S) /\ Len(Append(<<a>>, b)) = 2 /\ Len(<<a, b>>) = 2
    BY <2>1
  <2>3. \A i \in 1..2 : Append(<<a>>, b)[i] = <<a, b>>[i]
    BY <2>1
  <2> QED
    BY <2>1, <2>2, <2>3, SeqEqual, Zenon
<1>4. ASSUME NEW a \in S, NEW b \in S, NEW c \in S PROVE Append(<<a, b>>, c) = <<a, b, c>>
  <2>1. <<a, b>> \in Seq(S) /\ <<a, b, c>> \in Seq(S)
    OBVIOUS
  <2>2. Append(<<a, b>>, c) \in Seq(S) /\ Len(Append(<<a, b>>, c)) = 3 /\ Len(<<a, b, c>>) = 3
    BY <2>1
  <2>3. \A i \in 1..3 : Append(<<a, b>>, c)[i] = <<a, b, c>>[i]
    BY <2>1
  <2> QED
    BY <2>1, <2>2, <2>3, SeqEqual, Zenon
<1> QED
  BY <1>2, <1>3, <1>4

\* Two sequences, or three, one after the other.
LEMMA FlattenTwo ==
    ASSUME NEW S, NEW a \in Seq(S), NEW b \in Seq(S)
    PROVE  FlattenSeq(<<a, b>>) = a \o b
<1>1. PICK T : T = Seq(S)
  OBVIOUS
<1>2. <<>> \in Seq(T) /\ <<a>> \in Seq(T) /\ Append(<<>>, a) = <<a>> /\ Append(<<a>>, b) = <<a, b>>
  BY <1>1, Appends
<1>3. FlattenSeq(<<a>>) = <<>> \o a
  BY <1>1, <1>2, FlattenFacts, Zenon
<1>4. FlattenSeq(<<a>>) = a
  BY <1>3, ConcatEmptySeq
<1> QED
  BY <1>1, <1>2, <1>4, FlattenFacts, Zenon

\* Three sequences, one after the other.
LEMMA FlattenThree ==
    ASSUME NEW S, NEW a \in Seq(S), NEW b \in Seq(S), NEW c \in Seq(S)
    PROVE  \A t : t = <<a, b, c>> => FlattenSeq(t) = (a \o b) \o c
<1>1. PICK T : T = Seq(S)
  OBVIOUS
<1>2. <<a, b>> \in Seq(T) /\ Append(<<a, b>>, c) = <<a, b, c>>
  BY <1>1, Appends
<1>3. FlattenSeq(Append(<<a, b>>, c)) = FlattenSeq(<<a, b>>) \o c
  BY <1>1, <1>2, FlattenFacts, Zenon
<1> QED
  BY <1>2, <1>3, FlattenTwo, Zenon

\* A member of the latter of two sequences is as far behind as the former is long.
LEMMA LatterAt ==
    ASSUME NEW S, NEW s \in Seq(S), NEW t \in Seq(S), NEW i \in 1..Len(t)
    PROVE  \A j : j = Len(s) + i => (s \o t)[j] = t[i]
  BY ConcatProperties

\* Where the second tokens of the parts of a compound are.
LEMMA PartsOf ==
    ASSUME NEW S, NEW h \in Seq(S), NEW a \in Seq(S), NEW r \in Seq(S), Len(a) >= 2, Len(r) >= 2,
           NEW m, m = Len(h) + 2, NEW n, n = Len(h) + (Len(a) + 2)
    PROVE  (h \o (a \o r))[m] = a[2] /\ (h \o (a \o r))[n] = r[2]
  BY ConcatProperties, LatterAt

\* A conversion, in its parts.
LEMMA ConvertFields ==
    \A from, to, more, value :
      value = ACompound(2 + Len(more), <<from, <<Byte(TYPE_UBYTE), Byte(to)>> >> \o more) =>
        /\ Convert(from, to, more).kind = "get"
        /\ Convert(from, to, more).command = CMD_GET + Domain["SIM"]
        /\ Convert(from, to, more).variable = Var["POSITION_CONVERSION"]
        /\ Convert(from, to, more).value = value
        /\ Convert(from, to, more).expects = to
        /\ Convert(from, to, more).reads = "plain"
  BY GetFields DEF Convert

\* The value of a conversion to a type.
LEMMA ConversionValue ==
    ASSUME NEW from \in Values, NEW to \in PositionTypes, Len(from) >= 2,
           NEW more, more = <<>> \/ more = <<AString>>, NEW value,
           value = ACompound(2 + Len(more), <<from, <<Byte(TYPE_UBYTE), Byte(to)>> >> \o more)
    PROVE  /\ value \in Values
           /\ value[4] = from[2]
           /\ value[Len(from) + 4].v = to
<1>1. to \in 0..127 /\ to \in 0..255
  <2>1. to \in 0..127
    BY TypesAreBytes, Zenon DEF PositionTypes
  <2> QED
    BY <2>1
<1>2. PICK b : b = <<Byte(TYPE_UBYTE), Byte(to)>>
  OBVIOUS
<1>3. b \in Values /\ b \in Seq(Tokens) /\ from \in Seq(Tokens) /\ AString \in Values /\ AString \in Seq(Tokens)
  BY <1>2, Written, Zenon DEF Values
<1>4. Len(b) = 2 /\ b[2].v = to
  BY <1>2, <1>1, SmallBytes, Bytes, Zenon
<1>5. PICK h : h = <<UByte(TYPE_COMPOUND), I32(2 + Len(more))>>
  BY Zenon
<1>6. Len(more) \in Nat
  OBVIOUS
<1>7. h \in Seq(Tokens) /\ Len(h) = 2
  BY <1>6, Bytes, Ints, <1>5
<1>8. CASE more = <<>>
  <2>1. <<from, b>> \o more = <<from, b>> /\ Len(more) = 0
    BY <1>3, <1>8
  <2>2. value = ACompound(2, <<from, b>>)
    BY <1>2, <2>1
  <2>3. value \in Values
    BY <1>3, <2>2, SmallCompounds
  <2>4. value = h \o (from \o b)
    <3>1. FlattenSeq(<<from, b>>) = from \o b
      BY <1>3, FlattenTwo, Zenon
    <3>2. h = <<UByte(TYPE_COMPOUND), I32(2)>>
      BY <1>5, <2>1
    <3> QED
      BY <2>2, <3>1, <3>2, Zenon DEF ACompound
  <2>5. Len(b) >= 2
    BY <1>4
  <2>6. value[4] = from[2] /\ value[Len(from) + 4] = b[2]
    <3>1. PICK m, n : m = Len(h) + 2 /\ n = Len(h) + (Len(from) + 2)
      OBVIOUS
    <3>2. h \in Seq(Tokens) /\ from \in Seq(Tokens) /\ b \in Seq(Tokens) /\ Len(b) >= 2
      BY <1>3, <1>7, <2>4, <2>5
    <3>3. (h \o (from \o b))[m] = from[2] /\ (h \o (from \o b))[n] = b[2]
      BY <3>1, <3>2, PartsOf
    <3>4. Len(from) \in Nat /\ m = 4 /\ n = Len(from) + 4
      BY <1>3, <1>7, <3>1
    <3> QED
      BY <2>4, <3>3, <3>4, Zenon
  <2> QED
    BY <1>4, <2>3, <2>6
<1>9. CASE more = <<AString>>
  <2>0. PICK T : T = Values
    OBVIOUS
  <2>1. <<from, b>> \o more = <<from, b, AString>> /\ Len(more) = 1
    BY <1>3, <2>0, Appends, AppendIsConcat, <1>9, Zenon
  <2>2. value = ACompound(3, <<from, b, AString>>)
    <3>1. value = ACompound(2 + 1, <<from, b, AString>>)
      BY <1>2, <2>1, Zenon
    <3> QED
      BY <3>1
  <2>3. value \in Values
    BY <1>3, <2>2, SmallCompounds
  <2>4. value = h \o ((from \o b) \o AString)
    <3>0. PICK c : c = AString
      OBVIOUS
    <3>1. PICK t : t = <<from, b, c>>
      BY Zenon
    <3>2. FlattenSeq(t) = (from \o b) \o c
      BY <1>3, <3>0, <3>1, FlattenThree
    <3>3. h = <<UByte(TYPE_COMPOUND), I32(3)>>
      BY <1>5, <2>1
    <3> QED
      BY <2>2, <3>0, <3>1, <3>2, <3>3, Zenon DEF ACompound
  <2>5. (from \o b) \o AString = from \o (b \o AString)
    BY <1>3, ConcatAssociative
  <2>6. PICK r : r = b \o AString
    BY Zenon
  <2>7. r \in Seq(Tokens) /\ Len(r) >= 2 /\ r[2] = b[2]
    <3>1. r \in Seq(Tokens) /\ Len(r) = Len(b) + Len(AString) /\ Len(AString) \in Nat
      BY <1>3, <2>6, ConcatProperties
    <3>2. \A i \in 1..Len(b) : r[i] = b[i]
      BY <1>3, <2>6, ConcatProperties
    <3> QED
      BY <1>4, <3>1, <3>2
  <2>8. value = h \o (from \o r)
    BY <2>4, <2>5, <2>6, Zenon
  <2>9. value[4] = from[2] /\ value[Len(from) + 4] = r[2]
    <3>1. PICK m, n : m = Len(h) + 2 /\ n = Len(h) + (Len(from) + 2)
      OBVIOUS
    <3>2. h \in Seq(Tokens) /\ from \in Seq(Tokens) /\ r \in Seq(Tokens) /\ Len(r) >= 2
      BY <1>3, <1>7, <2>7, <2>8
    <3>3. (h \o (from \o r))[m] = from[2] /\ (h \o (from \o r))[n] = r[2]
      BY <3>1, <3>2, PartsOf
    <3>4. Len(from) \in Nat /\ m = 4 /\ n = Len(from) + 4
      BY <1>3, <1>7, <3>1
    <3> QED
      BY <2>8, <3>3, <3>4, Zenon
  <2> QED
    BY <1>4, <2>3, <2>7, <2>9
<1> QED
  BY <1>8, <1>9

\* Every method in Conversions asks SUMO to convert a position it can read to a type of positions.
LEMMA ConversionsAsk ==
    ASSUME NEW c \in Conversions
    PROVE  IsConversion(c)
<1>1. ASSUME NEW from \in Values, NEW to \in PositionTypes, NEW more, more = <<>> \/ more = <<AString>>,
             c = Convert(from, to, more),
             \/ Len(from) = 4 /\ from[2].as = "string"
             \/ Len(from) = 3 /\ from[2].as # "string"
      PROVE  IsConversion(c)
  <2>1. PICK value : value = ACompound(2 + Len(more), <<from, <<Byte(TYPE_UBYTE), Byte(to)>> >> \o more)
    OBVIOUS
  <2>2. /\ c.kind = "get" /\ c.command = CMD_GET + Domain["SIM"] /\ c.variable = Var["POSITION_CONVERSION"]
        /\ c.value = value /\ c.expects = to /\ c.reads = "plain"
    BY <1>1, <2>1, ConvertFields
  <2>3. Len(from) >= 2
    BY <1>1
  <2>4. value \in Values /\ value[4] = from[2] /\ value[Len(from) + 4].v = to
    BY <1>1, <2>1, <2>3, ConversionValue
  <2>5. Target(value) = to
    <3>1. CASE Len(from) = 4 /\ from[2].as = "string"
      BY <2>4, <3>1 DEF Target
    <3>2. CASE Len(from) = 3 /\ from[2].as # "string"
      BY <2>4, <3>2 DEF Target
    <3> QED
      BY <1>1, <3>1, <3>2
  <2> QED
    BY <2>2, <2>4, <2>5, NumbersOfEmissionAndSimulationVariables DEF IsConversion
<1>2. /\ PositionOnRoad \in Values /\ Len(PositionOnRoad) = 4 /\ PositionOnRoad[2].as = "string"
  BY Positions DEF PositionOnRoad, String
<1>3. \A type \in {POSITION_2D, POSITION_LON_LAT} :
         PositionOn(type) \in Values /\ Len(PositionOn(type)) = 3 /\ PositionOn(type)[2].as # "string"
  BY Positions DEF PositionOn, Doubles
<1>4. CASE \E type \in {POSITION_LON_LAT, POSITION_2D, POSITION_LON_LAT_ALT, POSITION_3D} : c = Convert(PositionOnRoad, type, <<>>)
  BY <1>4, <1>1, <1>2 DEF PositionTypes
<1>5. CASE \E type \in {POSITION_LON_LAT, POSITION_2D} : c = Convert(PositionOn(type), POSITION_ROADMAP, <<AString>>)
  BY <1>5, <1>1, <1>3 DEF PositionTypes
<1>6. CASE c = Convert(PositionOn(POSITION_LON_LAT), POSITION_2D, <<>>)
  BY <1>1, <1>3, <1>6 DEF PositionTypes
<1>7. CASE c = Convert(PositionOn(POSITION_2D), POSITION_LON_LAT, <<>>)
  BY <1>1, <1>3, <1>7 DEF PositionTypes
<1> QED
  BY <1>4, <1>5, <1>6, <1>7 DEF Conversions

\* Every method in Distances asks for a distance between two positions that SUMO can read.
LEMMA DistancesAsk ==
    ASSUME NEW c \in Distances
    PROVE  IsDistance(c)
<1>1. PICK from \in Values, n \in {0, 1} : c = GetReading("SIM", "DISTANCE_REQUEST", ACompound(3, <<from, from, <<Byte(n)>> >>), TYPE_DOUBLE, "plain")
  BY Positions DEF Distances
<1>2. PICK value : value = ACompound(3, <<from, from, <<Byte(n)>> >>)
  OBVIOUS
<1>3. /\ c.kind = "get" /\ c.command = CMD_GET + Domain["SIM"] /\ c.variable = 131 /\ c.value = value
      /\ c.expects = TYPE_DOUBLE /\ c.reads = "plain"
  BY <1>1, <1>2, GetFields, NumbersOfEmissionAndSimulationVariables
<1>4. PICK b : b = <<Byte(n)>>
  BY Zenon
<1>5. Takes(<<Want("byte")>>, b)
  BY <1>4, TakesOne, Zenon
<1>6. Takes(<<Want("value")>>, from)
  BY DEF Values
<1>7. from \in Seq(Tokens) /\ b \in Seq(Tokens)
  BY <1>5, <1>6 DEF Takes
<1>8. value = <<UByte(TYPE_COMPOUND), I32(3)>> \o ((from \o from) \o b)
  <2>1. FlattenSeq(<<from, from, b>>) = (from \o from) \o b
    BY <1>7, FlattenThree
  <2> QED
    BY <1>2, <1>4, <2>1, Zenon DEF ACompound
<1>9. Takes(<<This(TYPE_COMPOUND)>>, <<UByte(TYPE_COMPOUND)>>)
  <2>1. TYPE_COMPOUND \in 0..255
    BY DEF TYPE_COMPOUND
  <2> QED
    BY <2>1, TakesOne, Zenon
<1>10. Takes(<<Want("int")>>, <<I32(3)>>)
  <2>1. PICK m \in Int : m = 3
    OBVIOUS
  <2> QED
    BY <2>1, TakesOne, Zenon
<1>11. Takes(<<This(TYPE_COMPOUND)>> \o <<Want("int")>>, <<UByte(TYPE_COMPOUND)>> \o <<I32(3)>>)
  BY <1>9, <1>10, TakesConcat
<1>12. Takes(<<Want("value")>> \o <<Want("value")>>, from \o from)
  BY <1>6, TakesConcat
<1>13. Takes((<<Want("value")>> \o <<Want("value")>>) \o <<Want("byte")>>, (from \o from) \o b)
  BY <1>5, <1>12, TakesConcat
<1>14. Takes((<<This(TYPE_COMPOUND)>> \o <<Want("int")>>) \o ((<<Want("value")>> \o <<Want("value")>>) \o <<Want("byte")>>),
             (<<UByte(TYPE_COMPOUND)>> \o <<I32(3)>>) \o ((from \o from) \o b))
  BY <1>11, <1>13, TakesConcat
<1>15. <<UByte(TYPE_COMPOUND)>> \o <<I32(3)>> = <<UByte(TYPE_COMPOUND), I32(3)>>
  BY Bytes, Ints, Pairs
<1>16. (<<This(TYPE_COMPOUND)>> \o <<Want("int")>>) \o ((<<Want("value")>> \o <<Want("value")>>) \o <<Want("byte")>>)
         = DistanceWants
  <2>1. PICK a, m, v, y : a = This(TYPE_COMPOUND) /\ m = Want("int") /\ v = Want("value") /\ y = Want("byte")
    OBVIOUS
  <2>2. PICK S : S = {a, m, v, y}
    BY Zenon
  <2>3. <<a>> \o <<m>> = <<a, m>> /\ <<v>> \o <<v>> = <<v, v>> /\ <<a, m>> \in Seq(S) /\ <<v, v>> \in Seq(S)
    BY <2>2, Pairs
  <2>4. <<v, v>> \o <<y>> = <<v, v, y>>
    <3>1. Append(<<v, v>>, y) = <<v, v, y>> /\ <<y>> \in Seq(S)
      BY <2>2, Appends
    <3> QED
      BY <2>2, <2>3, <3>1, AppendIsConcat, Zenon
  <2>5. <<a, m>> \o <<v, v, y>> = <<a, m, v, v, y>>
    <3>1. <<v, v, y>> \in Seq(S) /\ <<a, m, v, v, y>> \in Seq(S)
      BY <2>2
    <3>2. <<a, m>> \o <<v, v, y>> \in Seq(S) /\ Len(<<a, m>> \o <<v, v, y>>) = 5 /\ Len(<<a, m, v, v, y>>) = 5
      BY <2>3, <3>1
    <3>3. \A i \in 1..5 : (<<a, m>> \o <<v, v, y>>)[i] = <<a, m, v, v, y>>[i]
      BY <2>3, <3>1
    <3> QED
      BY <3>1, <3>2, <3>3, SeqEqual, Zenon
  <2> QED
    BY <2>1, <2>3, <2>4, <2>5, Zenon DEF DistanceWants
<1> QED
  BY <1>3, <1>8, <1>14, <1>15, <1>16, Zenon DEF IsDistance

-----------------------------------------------------------------------------
(* Every call.                                                             *)

\* EdgeScope::setMaxSpeed is such a call.
LEMMA UntypedIs == IsUntyped(UntypedSetMaxSpeed)
  BY SetFields, NumbersOfStepVariables DEF UntypedSetMaxSpeed, IsUntyped

\* A get or a set the client makes is one of these: a setter of a domain that cannot be set,
\* EdgeScope::setMaxSpeed, a conversion or a distance of SimulationScope, or a usual one.
LEMMA EveryCall ==
    ASSUME NEW c \in GetsAndSets
    PROVE  IsUnset(c) \/ IsUntyped(c) \/ IsConversion(c) \/ IsDistance(c) \/ IsUsual(c)
<1>1. ASSUME NEW d \in DOMAIN Domain, IsQuestion(c, d) \/ IsSetting(c, d)
      PROVE  IsUsual(c)
  BY <1>1 DEF IsUsual
<1>2. {"INDUCTIONLOOP", "MULTIENTRYEXIT", "TL", "LANE", "VEHICLE", "VEHICLETYPE", "ROUTE", "POI", "POLYGON",
       "JUNCTION", "EDGE", "SIM", "GUI", "LANEAREA", "PERSON"} = DOMAIN Domain
  BY DomainNumbers
<1>3. CASE c \in RouteCalls
  BY GetFields, SetFields, <1>3, <1>1, <1>2, RouteCallsAsk, RouteCallsSet DEF Gets, RouteCalls
<1>4. CASE c \in EdgeGets \cup GUIGets \cup InductionLoopGets \cup JunctionGets \cup LaneGets \cup LaneStepGets
                 \cup LaneAreaGets \cup MeMeGets \cup POIGets \cup PolygonGets
  BY <1>1, <1>2, <1>4, EdgeGetsAsk, GUIGetsAsk, InductionLoopGetsAsk, JunctionGetsAsk, LaneGetsAsk,
     LaneStepGetsAsk,
     LaneAreaGetsAsk, MeMeGetsAsk, POIGetsAsk, PolygonGetsAsk
<1>5. CASE c \in SimulationGets \cup TrafficLightGets \cup VehicleTypeGets \cup VehicleGets \cup VehicleMoreGets
                 \cup VehicleCompoundGets \cup VehicleStateGets \cup PersonGets
  BY <1>1, <1>2, <1>5, SimulationGetsAsk, TrafficLightGetsAsk, VehicleTypeGetsAsk, VehicleGetsAsk,
     VehicleMoreGetsAsk, VehicleCompoundGetsAsk, VehicleStateGetsAsk, PersonGetsAsk
<1>6. CASE c \in EdgeSets \cup GUISets \cup LaneSets \cup POISets \cup PolygonSets \cup TrafficLightSets
                 \cup TrafficLightDefinitionSets
  BY <1>1, <1>2, <1>6, EdgeSetsSet, GUISetsSet, LaneSetsSet, POISetsSet, PolygonSetsSet, TrafficLightSetsSet,
     TrafficLightDefinitionSetsSet
<1>7. CASE c \in VehicleTypeSets \cup VehicleAddSets \cup VehicleManeuverSets \cup VehicleSets \cup PersonSets
  BY <1>1, <1>2, <1>7, VehicleTypeSetsSet, VehicleAddSetsSet, VehicleManeuverSetsSet,
     VehicleSetsSet, PersonSetsSet
<1>8. CASE c \in Conversions
  BY <1>8, ConversionsAsk
<1>9. CASE c \in Distances
  BY <1>9, DistancesAsk
<1>10. CASE c = UntypedSetMaxSpeed
  BY <1>10, UntypedIs
<1>11. CASE c \in ParameterCalls
  BY <1>1, <1>11, ParameterCallsAskOrSet DEF IsUsual
<1> QED
  BY <1>3, <1>4, <1>5, <1>6, <1>7, <1>8, <1>9, <1>10, <1>11 DEF GetsAndSets

-----------------------------------------------------------------------------
(* Commands and responses: a length, a number and what follows.            *)

\* The tail of a sequence, from where its second part starts.
LEMMA SecondPart ==
    ASSUME NEW S, NEW s \in Seq(S), NEW t \in Seq(S)
    PROVE  \A n : n = Len(s) + 1 => SubSeq(s \o t, n, Len(s \o t)) = t
<1> SUFFICES SubSeq(s \o t, Len(s) + 1, Len(s \o t)) = t
  OBVIOUS
<1>1. s \o t \in Seq(S) /\ Len(s \o t) = Len(s) + Len(t) /\ Len(s) \in Nat /\ Len(t) \in Nat
  BY ConcatProperties
<1>2. \A i \in 1..Len(t) : (s \o t)[Len(s) + i] = t[i]
  BY LatterAt
<1>3. PICK u : u = SubSeq(s \o t, Len(s) + 1, Len(s \o t))
  OBVIOUS
<1>4. u \in Seq(S) /\ Len(u) = Len(t) /\ \A i \in 1..Len(u) : u[i] = (s \o t)[Len(s) + i]
  <2>1. PICK p : p = s \o t
    BY Zenon
  <2>2. /\ u = [i \in 1..Len(t) |-> p[Len(s) + i]]
    BY <1>1, <1>3, <2>1
  <2>3. \A i \in 1..Len(t) : p[Len(s) + i] \in S
    BY <1>2, <2>1
  <2> QED
    BY <1>1, <2>1, <2>2, <2>3
<1> QED
  BY <1>2, <1>3, <1>4, SeqEqual

\* A length in one byte, or a zero and a length in four.
LEMMA FrameOf ==
    ASSUME NEW h \in Seq(Tokens), NEW command \in 0..255, NEW rest \in Seq(Tokens),
           \/ Len(h) = 1 /\ h[1].v # 0
           \/ Len(h) = 2 /\ h[1].v = 0,
           h[Len(h)].v = SizeOf(h) + 1 + SizeOf(rest)
    PROVE  \A t : t = h \o (<<UByte(command)>> \o rest) => Framed(t, command, rest)
<1>1. PICK t : t = h \o (<<UByte(command)>> \o rest)
  BY Zenon
<1>2. PICK m : m = <<UByte(command)>>
  BY Zenon
<1>3. m \in Seq(Tokens) /\ Len(m) = 1 /\ m[1].v = command /\ SizeOf(m) = 1
  <2>1. UByte(command) \in Tokens /\ Size(UByte(command)) = 1 /\ UByte(command).v = command
    BY Bytes, Zenon
  <2> QED
    BY <1>2, <2>1, SizeFacts
<1>4. m \o rest \in Seq(Tokens) /\ SizeOf(m \o rest) = 1 + SizeOf(rest) /\ Len(m \o rest) = 1 + Len(rest)
  <2>1. m \o rest \in Seq(Tokens) /\ Len(m \o rest) = Len(m) + Len(rest)
    BY <1>3, ConcatProperties, Zenon
  <2>2. SizeOf(m \o rest) = SizeOf(m) + SizeOf(rest)
    BY <1>3, SizeFacts
  <2> QED
    BY <1>3, <2>1, <2>2
<1>5. t \in Seq(Tokens) /\ SizeOf(t) = SizeOf(h) + (1 + SizeOf(rest)) /\ Len(t) = Len(h) + (1 + Len(rest))
  <2>1. h \o (m \o rest) \in Seq(Tokens) /\ Len(h \o (m \o rest)) = Len(h) + Len(m \o rest)
    BY <1>4, ConcatProperties
  <2>2. SizeOf(h \o (m \o rest)) = SizeOf(h) + SizeOf(m \o rest)
    BY <1>4, SizeFacts, Zenon
  <2> QED
    BY <1>1, <1>2, <1>4, <2>1, <2>2, Zenon
<1>6. t = (h \o m) \o rest /\ h \o m \in Seq(Tokens) /\ Len(h \o m) = Len(h) + 1
  BY <1>1, <1>2, <1>3, ConcatAssociative, ConcatProperties
<1>7. Len(h) \in {1, 2} /\ Len(rest) \in Nat /\ SizeOf(h) \in Nat /\ SizeOf(rest) \in Nat
  BY SizeFacts
<1>8. t[1] = h[1] /\ t[Len(h)] = h[Len(h)]
  BY <1>1, <1>2, <1>4, <1>7, ConcatProperties
<1>9. (h \o m)[Len(h) + 1] = m[1] /\ t[Len(h) + 1] = (h \o m)[Len(h) + 1]
  BY <1>3, <1>6, <1>7, ConcatProperties
<1>10. CommandAt(t) = Len(h) + 1
  BY <1>7, <1>8 DEF CommandAt
<1>11. ASSUME NEW i \in 1..Len(rest) PROVE t[(Len(h) + 1) + i] = rest[i]
  BY <1>6, LatterAt
<1>12. SubSeq(t, (Len(h) + 1) + 1, Len(t)) = rest
  BY <1>6, SecondPart, Zenon
<1>13. (Len(h) + 1) - 1 = Len(h)
  BY <1>7
<1>14. Framed(t, command, rest)
  <2>1. PICK k : k = CommandAt(t)
    OBVIOUS
  <2>2. k = Len(h) + 1 /\ k \in {2, 3} /\ Len(t) = k + Len(rest)
    BY <1>5, <1>7, <1>10, <2>1
  <2>3. t[k].v = command /\ t[k - 1].v = SizeOf(t)
    BY <1>3, <1>5, <1>7, <1>8, <1>9, <1>13, <2>2
  <2>4. (\A i \in 1..Len(rest) : t[k + i] = rest[i]) /\ SubSeq(t, k + 1, Len(t)) = rest
    BY <1>11, <1>12, <2>2
  <2> QED
    BY <1>5, <2>1, <2>2, <2>3, <2>4 DEF Framed
<1> QED
  BY <1>1, <1>14

\* The two heads of a command.
LEMMA Heads ==
    /\ \A n \in 1..255 : <<UByte(n)>> \in Seq(Tokens) /\ Len(<<UByte(n)>>) = 1 /\ <<UByte(n)>>[1].v = n
                         /\ SizeOf(<<UByte(n)>>) = 1
    /\ \A n \in Int : <<UByte(0), I32(n)>> \in Seq(Tokens) /\ Len(<<UByte(0), I32(n)>>) = 2
                      /\ <<UByte(0), I32(n)>>[1].v = 0 /\ <<UByte(0), I32(n)>>[2].v = n
                      /\ SizeOf(<<UByte(0), I32(n)>>) = 5
<1>1. ASSUME NEW n \in 1..255
      PROVE  <<UByte(n)>> \in Seq(Tokens) /\ Len(<<UByte(n)>>) = 1 /\ <<UByte(n)>>[1].v = n /\ SizeOf(<<UByte(n)>>) = 1
  <2>1. UByte(n) \in Tokens /\ UByte(n).v = n /\ Size(UByte(n)) = 1
    BY Bytes
  <2> QED
    BY <2>1, SizeFacts
<1>2. ASSUME NEW n \in Int
      PROVE  /\ <<UByte(0), I32(n)>> \in Seq(Tokens) /\ Len(<<UByte(0), I32(n)>>) = 2
             /\ <<UByte(0), I32(n)>>[1].v = 0 /\ <<UByte(0), I32(n)>>[2].v = n
             /\ SizeOf(<<UByte(0), I32(n)>>) = 5
  <2>1. UByte(0) \in Tokens /\ UByte(0).v = 0 /\ Size(UByte(0)) = 1
    BY Bytes
  <2>2. I32(n) \in Tokens /\ I32(n).v = n /\ Size(I32(n)) = 4
    BY Ints
  <2>3. <<UByte(0)>> \o <<I32(n)>> = <<UByte(0), I32(n)>> /\ <<UByte(0), I32(n)>> \in Seq(Tokens)
    BY <2>1, <2>2, Pairs
  <2>4. <<UByte(0)>> \in Seq(Tokens) /\ <<I32(n)>> \in Seq(Tokens)
    BY <2>1, <2>2
  <2>5. SizeOf(<<UByte(0)>> \o <<I32(n)>>) = SizeOf(<<UByte(0)>>) + SizeOf(<<I32(n)>>)
    BY <2>4, SizeFacts, Zenon
  <2>6. SizeOf(<<UByte(0)>>) = 1 /\ SizeOf(<<I32(n)>>) = 4
    BY <2>1, <2>2, SizeFacts
  <2>7. PICK a, b : a = UByte(0) /\ b = I32(n)
    OBVIOUS
  <2>8. Len(<<a, b>>) = 2 /\ <<a, b>>[1].v = a.v /\ <<a, b>>[2].v = b.v
    OBVIOUS
  <2>9. Len(<<UByte(0), I32(n)>>) = 2 /\ <<UByte(0), I32(n)>>[1].v = 0 /\ <<UByte(0), I32(n)>>[2].v = n
    BY <2>1, <2>2, <2>7, <2>8
  <2>10. SizeOf(<<UByte(0), I32(n)>>) = 5
    <3>1. SizeOf(<<UByte(0)>> \o <<I32(n)>>) = 5
      BY <2>5, <2>6
    <3> QED
      BY <2>3, <3>1, Zenon
  <2> QED
    BY <2>3, <2>9, <2>10
<1> QED
  BY <1>1, <1>2, Zenon

\* So what starts with the right length is framed.
LEMMA Frames ==
    ASSUME NEW command \in 0..255, NEW rest \in Seq(Tokens), NEW n
    PROVE  /\ n = 2 + SizeOf(rest) /\ n <= 255 =>
                Framed(<<UByte(n)>> \o (<<UByte(command)>> \o rest), command, rest)
           /\ n = 6 + SizeOf(rest) =>
                Framed(<<UByte(0), I32(n)>> \o (<<UByte(command)>> \o rest), command, rest)
<1>1. SizeOf(rest) \in Nat
  BY SizeFacts
<1>2. ASSUME n = 2 + SizeOf(rest), n <= 255
      PROVE  Framed(<<UByte(n)>> \o (<<UByte(command)>> \o rest), command, rest)
  <2>1. n \in 1..255
    <3>1. PICK m \in Nat : m = SizeOf(rest)
      BY <1>1
    <3>2. 2 + m <= 255 => 2 + m \in 1..255
      OBVIOUS
    <3> QED
      BY <1>2, <3>1, <3>2
  <2>2. PICK h : h = <<UByte(n)>>
    BY Zenon
  <2>3. h \in Seq(Tokens) /\ Len(h) = 1 /\ h[1].v = n /\ SizeOf(h) = 1
    BY <2>1, <2>2, Heads, Zenon
  <2>4. h[1].v # 0 /\ h[Len(h)].v = SizeOf(h) + 1 + SizeOf(rest)
    BY <1>1, <1>2, <2>1, <2>3
  <2> QED
    BY <2>2, <2>3, <2>4, FrameOf, Zenon
<1>3. ASSUME n = 6 + SizeOf(rest)
      PROVE  Framed(<<UByte(0), I32(n)>> \o (<<UByte(command)>> \o rest), command, rest)
  <2>1. n \in Int
    BY <1>1, <1>3
  <2>2. PICK h : h = <<UByte(0), I32(n)>>
    BY Zenon
  <2>3. h \in Seq(Tokens) /\ Len(h) = 2 /\ h[1].v = 0 /\ h[2].v = n /\ SizeOf(h) = 5
    BY <2>1, <2>2, Heads, Zenon
  <2>4. h[Len(h)].v = SizeOf(h) + 1 + SizeOf(rest)
    BY <1>1, <1>3, <2>3
  <2> QED
    BY <2>2, <2>3, <2>4, FrameOf, Zenon
<1> QED
  BY <1>2, <1>3

\* Responses.
LEMMA ResponseFramed ==
    ASSUME NEW command \in 0..255, NEW content \in Seq(Tokens)
    PROVE  Framed(Response(command, content), command, content)
<1>1. SizeOf(content) \in Nat
  BY SizeFacts
<1>2. PICK length : length = 1 + 1 + SizeOf(content)
  OBVIOUS
<1>3. Response(command, content)
        = (IF length <= 255 THEN <<UByte(length)>> ELSE <<UByte(0), I32(length + 4)>>) \o <<UByte(command)>> \o content
  BY <1>2 DEF Response
<1>4. PICK m : m = <<UByte(command)>> /\ m \in Seq(Tokens)
  <2>1. UByte(command) \in Tokens
    BY Bytes
  <2>2. <<UByte(command)>> \in Seq(Tokens)
    BY <2>1
  <2> QED
    BY <2>2, Zenon
<1>5. CASE length <= 255
  <2>1. length \in 1..255
    <3>1. PICK n \in Nat : n = SizeOf(content)
      BY <1>1
    <3>2. 1 + 1 + n <= 255 => 1 + 1 + n \in 1..255
      OBVIOUS
    <3> QED
      BY <1>2, <1>5, <3>1, <3>2
  <2>2. PICK h : h = <<UByte(length)>> /\ h \in Seq(Tokens)
    BY <2>1, Heads, Zenon
  <2>3. Response(command, content) = h \o (m \o content)
    BY <1>3, <1>4, <1>5, <2>2, ConcatAssociative
  <2>4. length = 2 + SizeOf(content)
    BY <1>1, <1>2
  <2> QED
    BY <1>4, <1>5, <2>2, <2>3, <2>4, Frames, Zenon
<1>6. CASE ~(length <= 255)
  <2>1. PICK n \in Int : n = length + 4
    BY <1>1, <1>2
  <2>2. PICK h : h = <<UByte(0), I32(n)>> /\ h \in Seq(Tokens)
    BY <2>1, Heads, Zenon
  <2>3. Response(command, content) = h \o (m \o content)
    BY <1>3, <1>4, <1>6, <2>1, <2>2, ConcatAssociative
  <2>4. n = 6 + SizeOf(content)
    BY <1>1, <1>2, <2>1
  <2> QED
    BY <1>4, <2>2, <2>3, <2>4, Frames, Zenon
<1> QED
  BY <1>5, <1>6

\* Commands about a variable of an object.
LEMMA CommandFramed ==
    ASSUME NEW cmdID \in 0..255, NEW varID, NEW objID \in Nat, NEW add \in Seq(Tokens)
    PROVE  Framed(CreateCommand(cmdID, varID, objID, add), cmdID, <<UByte(varID), String(objID)>> \o add)
<1>1. SizeOf(add) \in Nat
  BY SizeFacts
<1>2. PICK length : length = 1 + 1 + 1 + 4 + objID + SizeOf(add)
  OBVIOUS
<1>3. PICK w : w = <<UByte(varID), String(objID)>>
  BY Zenon
<1>4. w \in Seq(Tokens) /\ SizeOf(w) = 5 + objID
  <2>1. UByte(varID) \in Tokens /\ Size(UByte(varID)) = 1 /\ String(objID) \in Tokens /\ Size(String(objID)) = 4 + objID
    BY Bytes, Strings
  <2>2. <<UByte(varID)>> \in Seq(Tokens) /\ <<String(objID)>> \in Seq(Tokens) /\ w = <<UByte(varID)>> \o <<String(objID)>>
        /\ w \in Seq(Tokens)
    BY <1>3, <2>1, Pairs
  <2>3. SizeOf(w) = SizeOf(<<UByte(varID)>>) + SizeOf(<<String(objID)>>)
    BY <2>2, SizeFacts, Zenon
  <2>4. SizeOf(<<UByte(varID)>>) = 1 /\ SizeOf(<<String(objID)>>) = 4 + objID
    BY <2>1, SizeFacts
  <2> QED
    BY <2>2, <2>3, <2>4
<1>5. PICK m : m = <<UByte(cmdID)>> /\ m \in Seq(Tokens)
  <2>1. UByte(cmdID) \in Tokens
    BY Bytes
  <2>2. <<UByte(cmdID)>> \in Seq(Tokens)
    BY <2>1
  <2> QED
    BY <2>2, Zenon
<1>6. <<UByte(cmdID), UByte(varID), String(objID)>> = m \o w
  <2>1. UByte(cmdID) \in Tokens /\ UByte(varID) \in Tokens /\ String(objID) \in Tokens
    BY Bytes, Strings
  <2>2. <<UByte(cmdID)>> \o (<<UByte(varID)>> \o <<String(objID)>>) = <<UByte(cmdID), UByte(varID), String(objID)>>
    BY <2>1, Triples
  <2>3. <<UByte(varID)>> \o <<String(objID)>> = w
    BY <1>3, <2>1, Pairs
  <2> QED
    BY <1>5, <2>2, <2>3, Zenon
<1>7. w \o add \in Seq(Tokens) /\ SizeOf(w \o add) = 5 + objID + SizeOf(add)
  BY <1>4, ConcatProperties, SizeFacts
<1>8. CreateCommand(cmdID, varID, objID, add)
        = (IF length <= 255 THEN <<UByte(length)>> ELSE <<UByte(0), I32(length + 4)>>) \o (m \o w) \o add
  BY <1>2, <1>6, Zenon DEF CreateCommand
<1>9. (m \o w) \o add = m \o (w \o add) /\ m \o w \in Seq(Tokens)
  BY <1>4, <1>5, ConcatAssociative, ConcatProperties
<1>10. CASE length <= 255
  <2>1. length \in 1..255
    <3>1. PICK n \in Nat : n = SizeOf(add)
      BY <1>1
    <3>2. 1 + 1 + 1 + 4 + objID + n <= 255 => 1 + 1 + 1 + 4 + objID + n \in 1..255
      OBVIOUS
    <3> QED
      BY <1>2, <1>10, <3>1, <3>2
  <2>2. PICK h : h = <<UByte(length)>> /\ h \in Seq(Tokens)
    BY <2>1, Heads, Zenon
  <2>3. CreateCommand(cmdID, varID, objID, add) = h \o (m \o (w \o add))
    <3>1. CreateCommand(cmdID, varID, objID, add) = (h \o (m \o w)) \o add
      BY <1>8, <1>10, <2>2
    <3>2. (h \o (m \o w)) \o add = h \o ((m \o w) \o add)
      BY <1>9, <2>2, ConcatAssociative
    <3> QED
      BY <1>9, <3>1, <3>2
  <2>4. length = 2 + SizeOf(w \o add)
    BY <1>1, <1>2, <1>7
  <2>5. Framed(h \o (m \o (w \o add)), cmdID, w \o add)
    BY <1>5, <1>7, <1>10, <2>2, <2>4, Frames, Zenon
  <2> QED
    BY <1>3, <2>3, <2>5, Zenon
<1>11. CASE ~(length <= 255)
  <2>1. PICK n \in Int : n = length + 4
    BY <1>1, <1>2
  <2>2. PICK h : h = <<UByte(0), I32(n)>> /\ h \in Seq(Tokens)
    BY <2>1, Heads, Zenon
  <2>3. CreateCommand(cmdID, varID, objID, add) = h \o (m \o (w \o add))
    <3>1. CreateCommand(cmdID, varID, objID, add) = (h \o (m \o w)) \o add
      BY <1>8, <1>11, <2>1, <2>2, Zenon
    <3>2. (h \o (m \o w)) \o add = h \o ((m \o w) \o add)
      <4>1. PICK u : u = m \o w /\ u \in Seq(Tokens)
        BY <1>9, Zenon
      <4>2. (h \o u) \o add = h \o (u \o add)
        BY <2>2, <4>1, ConcatAssociative
      <4> QED
        BY <4>1, <4>2
    <3> QED
      BY <1>9, <3>1, <3>2
  <2>4. n = 6 + SizeOf(w \o add)
    BY <1>1, <1>2, <1>7, <2>1
  <2>5. Framed(h \o (m \o (w \o add)), cmdID, w \o add)
    BY <1>5, <1>7, <2>2, <2>4, Frames, Zenon
  <2> QED
    BY <1>3, <2>3, <2>5, Zenon
<1> QED
  BY <1>10, <1>11

-----------------------------------------------------------------------------
(* The requests.                                                           *)

\* The size of a few tokens is the sum of theirs.
LEMMA SizeOfFew ==
    /\ \A a, b \in Tokens : SizeOf(<<a, b>>) = Size(a) + Size(b)
    /\ \A a, b, c, d \in Tokens : SizeOf(<<a, b, c, d>>) = ((Size(a) + Size(b)) + Size(c)) + Size(d)
    /\ \A a, b, c, d, e, f \in Tokens :
         SizeOf(<<a, b, c, d, e, f>>) = ((((Size(a) + Size(b)) + Size(c)) + Size(d)) + Size(e)) + Size(f)
<1>1. ASSUME NEW a \in Tokens, NEW b \in Tokens
      PROVE  SizeOf(<<a, b>>) = Size(a) + Size(b)
  <2>1. <<a>> \in Seq(Tokens) /\ Append(<<a>>, b) = <<a, b>>
    BY Appends
  <2>2. SizeOf(Append(<<a>>, b)) = SizeOf(<<a>>) + Size(b)
    BY <2>1, SizeAppend, Zenon
  <2> QED
    BY <2>1, <2>2, SizeFacts, Zenon
<1>2. ASSUME NEW a \in Tokens, NEW b \in Tokens, NEW c \in Tokens, NEW d \in Tokens
      PROVE  SizeOf(<<a, b, c, d>>) = ((Size(a) + Size(b)) + Size(c)) + Size(d)
  <2>1. <<a, b>> \in Seq(Tokens) /\ Append(<<a, b>>, c) = <<a, b, c>> /\ <<a, b, c>> \in Seq(Tokens)
    BY Appends
  <2>2. Append(<<a, b, c>>, d) = <<a, b, c, d>>
    <3>1. <<a, b, c, d>> \in Seq(Tokens) /\ Append(<<a, b, c>>, d) \in Seq(Tokens)
      BY <2>1
    <3>2. Len(<<a, b, c, d>>) = 4 /\ Len(Append(<<a, b, c>>, d)) = 4
      BY <2>1
    <3>3. \A i \in 1..4 : Append(<<a, b, c>>, d)[i] = <<a, b, c, d>>[i]
      BY <2>1
    <3> QED
      BY <3>1, <3>2, <3>3, SeqEqual, Zenon
  <2>3. SizeOf(Append(<<a, b>>, c)) = SizeOf(<<a, b>>) + Size(c)
    BY <2>1, SizeAppend, Zenon
  <2>4. SizeOf(Append(<<a, b, c>>, d)) = SizeOf(<<a, b, c>>) + Size(d)
    BY <2>1, SizeAppend, Zenon
  <2>5. SizeOf(<<a, b>>) = Size(a) + Size(b)
    BY <1>1
  <2> QED
    BY <2>1, <2>2, <2>3, <2>4, <2>5, Zenon
<1>3. ASSUME NEW a \in Tokens, NEW b \in Tokens, NEW c \in Tokens, NEW d \in Tokens,
      NEW e \in Tokens, NEW f \in Tokens
      PROVE  SizeOf(<<a, b, c, d, e, f>>) = ((((Size(a) + Size(b)) + Size(c)) + Size(d)) + Size(e)) + Size(f)
  <2>1. <<a, b, c, d>> \in Seq(Tokens) /\ Append(<<a, b, c, d>>, e) = <<a, b, c, d, e>>
    BY FourAndOne
  <2>2. <<a, b, c, d, e>> \in Seq(Tokens)
    OBVIOUS
  <2>3. Append(<<a, b, c, d, e>>, f) = <<a, b, c, d, e, f>>
    <3>1. <<a, b, c, d, e, f>> \in Seq(Tokens) /\ Append(<<a, b, c, d, e>>, f) \in Seq(Tokens)
      BY <2>2
    <3>2. Len(<<a, b, c, d, e, f>>) = 6 /\ Len(Append(<<a, b, c, d, e>>, f)) = 6
      BY <2>2
    <3>3. \A i \in 1..6 : Append(<<a, b, c, d, e>>, f)[i] = <<a, b, c, d, e, f>>[i]
      BY <2>2
    <3> QED
      BY <3>1, <3>2, <3>3, SeqEqual, Zenon
  <2>4. SizeOf(Append(<<a, b, c, d>>, e)) = SizeOf(<<a, b, c, d>>) + Size(e)
    BY <2>1, SizeAppend, Zenon
  <2>5. SizeOf(Append(<<a, b, c, d, e>>, f)) = SizeOf(<<a, b, c, d, e>>) + Size(f)
    BY <2>2, SizeAppend, Zenon
  <2>6. SizeOf(<<a, b, c, d>>) = ((Size(a) + Size(b)) + Size(c)) + Size(d)
    BY <1>2
  <2> QED
    BY <2>1, <2>3, <2>4, <2>5, <2>6, Zenon
<1> QED
  BY <1>1, <1>2, <1>3, Zenon

\* What starts with three members.
LEMMA ThreeAnd ==
    ASSUME NEW S, NEW w \in Seq(S), NEW t \in Seq(S),
           Len(t) = 3 + Len(w), \A i \in 1..Len(w) : t[3 + i] = w[i]
    PROVE  t = <<t[1], t[2]>> \o (<<t[3]>> \o w)
<1>0. PICK a \in S, b \in S, c \in S : a = t[1] /\ b = t[2] /\ c = t[3]
  OBVIOUS
<1>1. PICK p \in Seq(S) : p = <<a, b>> /\ Len(p) = 2 /\ p[1] = a /\ p[2] = b
  <2>1. <<a, b>> \in Seq(S) /\ Len(<<a, b>>) = 2
    OBVIOUS
  <2> QED
    BY <2>1, Zenon
<1>2. PICK q \in Seq(S) : q = <<c>> /\ Len(q) = 1 /\ q[1] = c
  <2>1. <<c>> \in Seq(S) /\ Len(<<c>>) = 1
    OBVIOUS
  <2> QED
    BY <2>1, Zenon
<1>3. PICK k \in Nat : k = Len(w)
  OBVIOUS
<1>4. PICK u \in Seq(S) : u = q \o w /\ Len(u) = 1 + k /\ u[1] = c /\ \A i \in 1..k : u[1 + i] = w[i]
  <2>1. q \o w \in Seq(S) /\ Len(q \o w) = 1 + k
    BY <1>2, <1>3, ConcatProperties
  <2>2. (q \o w)[1] = c
    BY <1>2, <1>3, ConcatProperties
  <2>3. ASSUME NEW i \in 1..k PROVE (q \o w)[1 + i] = w[i]
    BY <1>2, <1>3, LatterAt
  <2> QED
    BY <2>1, <2>2, <2>3, Zenon
<1>5. PICK v \in Seq(S) : v = p \o u /\ Len(v) = 3 + k
  <2>1. p \o u \in Seq(S) /\ Len(p \o u) = Len(p) + Len(u)
    BY ConcatProperties
  <2> QED
    <3>1. Len(p) + Len(u) = 3 + k
      BY <1>1, <1>3, <1>4
    <3> QED
      BY <2>1, <3>1, Zenon
<1>6. v[1] = a /\ v[2] = b
  BY <1>1, <1>4, ConcatProperties, <1>5
<1>7. ASSUME NEW j \in 1..(1 + k) PROVE v[2 + j] = u[j]
  BY <1>4, LatterAt, <1>5, <1>1
<1>8. ASSUME NEW i \in 1..(3 + k) PROVE t[i] = v[i]
  <2>1. CASE i \in {1, 2}
    BY <2>1, <1>6, <1>0, Zenon
  <2>2. CASE i = 3
    BY <1>7, <1>3, <2>2, <1>4, <1>0
  <2>3. CASE i \notin {1, 2, 3}
    <3>1. PICK j \in 1..k : i = 3 + j
      BY <2>3, <1>3
    <3>2. PICK m \in 1..(1 + k) : m = 1 + j
      BY <1>3
    <3>3. t[i] = w[j]
      BY <3>1, <1>3
    <3>4. v[2 + m] = u[m]
      BY <3>2, <1>7
    <3>5. u[m] = w[j]
      BY <3>1, <3>2, <1>4, Zenon
    <3>6. 2 + m = i
      BY <3>1, <3>2
    <3> QED
      BY <3>3, <3>4, <3>5, <3>6
  <2> QED
    BY <2>1, <2>2, <2>3
<1>9. Len(t) = Len(v)
  BY <1>3, <1>5
<1>10. \A i \in 1..Len(t) : t[i] = v[i]
  BY <1>3, <1>8
<1>11. t = v
  BY <1>9, <1>10, SeqEqual, Zenon
<1> QED
  BY <1>0, <1>1, <1>2, <1>4, <1>5, <1>11

\* Both are a sequence, and of three it does not matter which two are put together first.
LEMMA ThenFacts ==
    ASSUME NEW S
    PROVE  /\ \A s, t \in Seq(S) : Then(s, t) \in Seq(S)
           /\ \A s, t, u \in Seq(S) : Then(s, Then(t, u)) = Then(Then(s, t), u)
  BY ConcatProperties, ConcatAssociative DEF Then

\* Two and one in front of others, that start another sequence.
LEMMA InFront ==
    ASSUME NEW S, NEW v \in Seq(S), NEW w \in Seq(S), NEW t \in Seq(S),
           Len(t) = 3 + Len(w), \A i \in 1..Len(w) : t[3 + i] = w[i]
    PROVE  t \o v = <<t[1], t[2]>> \o (<<t[3]>> \o (w \o v))
<1>1. t[1] \in S /\ t[2] \in S /\ t[3] \in S
  OBVIOUS
<1>2. PICK p \in Seq(S), q \in Seq(S) : p = <<t[1], t[2]>> /\ q = <<t[3]>>
  <2>1. <<t[1], t[2]>> \in Seq(S) /\ <<t[3]>> \in Seq(S)
    BY <1>1
  <2> QED
    BY <2>1, Zenon
<1>3. t = <<t[1], t[2]>> \o (<<t[3]>> \o w)
  BY ThreeAnd, Zenon
<1>4. t = p \o (q \o w)
  BY <1>2, <1>3, Zenon
<1>5. Then(Then(p, Then(q, w)), v) = Then(p, Then(q, Then(w, v)))
  BY ThenFacts
<1>6. t \o v = p \o (q \o (w \o v))
  BY <1>4, <1>5, Zenon DEF Then
<1> QED
  BY <1>2, <1>6, Zenon

\* A subscription to variables of an object, numbers that take a byte each.
LEMMA SubscribeFramed ==
    ASSUME NEW cmdID \in 0..255, NEW objID \in Nat, NEW numbers \in Seq(Tokens),
           SizeOf(numbers) = Len(numbers)
    PROVE  Framed(SubscribeObjectVariable(cmdID, objID, numbers), cmdID,
                  <<Doubles(1), Doubles(1), String(objID), UByte(Len(numbers))>> \o numbers)
<1>1. PICK a \in Tokens, b \in Tokens, c \in Tokens : a = UByte(0) /\ c = UByte(cmdID)
                     /\ b = I32(5 + 1 + 8 + 8 + 4 + objID + 1 + Len(numbers))
  BY Bytes, Ints
<1>2. PICK d \in Tokens, e \in Tokens, f \in Tokens :
         d = Doubles(1) /\ e = String(objID) /\ f = UByte(Len(numbers))
         /\ Size(d) = 8 /\ Size(e) = 4 + objID /\ Size(f) = 1
  <2>1. PICK k \in Nat : k = Len(numbers)
    OBVIOUS
  <2>2. UByte(k) \in Tokens /\ Size(UByte(k)) = 1
    BY Bytes
  <2>3. Doubles(1) \in Tokens /\ Size(Doubles(1)) = 8
    BY ManyDoubles
  <2>4. String(objID) \in Tokens /\ Size(String(objID)) = 4 + objID
    BY Strings, Zenon
  <2> QED
    BY <2>1, <2>2, <2>3, <2>4
<1>3. PICK w \in Seq(Tokens) : w = <<d, d, e, f>> \o numbers
                               /\ SizeOf(w) = (((8 + 8) + (4 + objID)) + 1) + Len(numbers)
  <2>1. <<d, d, e, f>> \in Seq(Tokens)
    OBVIOUS
  <2>2. SizeOf(<<d, d, e, f>>) = ((8 + 8) + (4 + objID)) + 1
    BY <1>2, SizeOfFew
  <2>3. <<d, d, e, f>> \o numbers \in Seq(Tokens)
    BY <2>1, ConcatProperties
  <2>4. SizeOf(<<d, d, e, f>> \o numbers) = SizeOf(<<d, d, e, f>>) + SizeOf(numbers)
    BY <2>1, SizeFacts, Zenon
  <2> QED
    BY <2>2, <2>3, <2>4, Zenon
<1>4. <<a, b, c, d, d, e, f>> \o numbers = <<a, b>> \o (<<c>> \o w)
  <2>1. PICK t \in Seq(Tokens) : t = <<a, b, c, d, d, e, f>> /\ Len(t) = 7
    <3>1. <<a, b, c, d, d, e, f>> \in Seq(Tokens) /\ Len(<<a, b, c, d, d, e, f>>) = 7
      OBVIOUS
    <3> QED
      BY <3>1, Zenon
  <2>2. PICK r \in Seq(Tokens) : r = <<d, d, e, f>> /\ Len(r) = 4
    <3>1. <<d, d, e, f>> \in Seq(Tokens) /\ Len(<<d, d, e, f>>) = 4
      OBVIOUS
    <3> QED
      BY <3>1, Zenon
  <2>3. Len(t) = 3 + Len(r) /\ \A i \in 1..Len(r) : t[3 + i] = r[i]
    BY <2>1, <2>2
  <2>4. t \o numbers = <<t[1], t[2]>> \o (<<t[3]>> \o (r \o numbers))
    BY <2>3, InFront, Zenon
  <2> QED
    BY <1>3, <2>1, <2>2, <2>4, Zenon
<1>5. PICK n \in Nat : n = 5 + 1 + 8 + 8 + 4 + objID + 1 + Len(numbers)
  OBVIOUS
<1>6. n = 6 + SizeOf(w)
  BY <1>3, <1>5
<1>7. Framed(<<UByte(0), I32(n)>> \o (<<UByte(cmdID)>> \o w), cmdID, w)
  BY <1>6, Frames, Zenon
<1>8. SubscribeObjectVariable(cmdID, objID, numbers) = <<a, b, c, d, d, e, f>> \o numbers
  BY <1>1, <1>2 DEF SubscribeObjectVariable
<1> QED
  BY <1>1, <1>2, <1>3, <1>4, <1>5, <1>7, <1>8, Zenon

\* A subscription to the context of an object.
LEMMA ContextFramed ==
    ASSUME NEW cmdID \in 0..255, NEW objID \in Nat, NEW domain, NEW numbers \in Seq(Tokens),
           SizeOf(numbers) = Len(numbers)
    PROVE  Framed(SubscribeObjectContext(cmdID, objID, domain, numbers), cmdID,
                  <<Doubles(1), Doubles(1), String(objID), UByte(domain), Doubles(1), UByte(Len(numbers))>> \o numbers)
<1>1. PICK a \in Tokens, b \in Tokens, c \in Tokens : a = UByte(0) /\ c = UByte(cmdID)
                     /\ b = I32(5 + 1 + 8 + 8 + 4 + objID + 1 + 8 + 1 + Len(numbers))
  BY Bytes, Ints
<1>2. PICK d \in Tokens, e \in Tokens, f \in Tokens, g \in Tokens :
         d = Doubles(1) /\ e = String(objID) /\ f = UByte(Len(numbers)) /\ g = UByte(domain)
         /\ Size(d) = 8 /\ Size(e) = 4 + objID /\ Size(f) = 1 /\ Size(g) = 1
  <2>1. Doubles(1) \in Tokens /\ Size(Doubles(1)) = 8
    BY ManyDoubles
  <2>2. String(objID) \in Tokens /\ Size(String(objID)) = 4 + objID
    BY Strings, Zenon
  <2>3. UByte(Len(numbers)) \in Tokens /\ Size(UByte(Len(numbers))) = 1
    BY Bytes
  <2>4. UByte(domain) \in Tokens /\ Size(UByte(domain)) = 1
    BY Bytes
  <2> QED
    BY <2>1, <2>2, <2>3, <2>4
<1>3. PICK w \in Seq(Tokens) : w = <<d, d, e, g, d, f>> \o numbers
                               /\ SizeOf(w) = (((((8 + 8) + (4 + objID)) + 1) + 8) + 1) + Len(numbers)
  <2>1. <<d, d, e, g, d, f>> \in Seq(Tokens)
    OBVIOUS
  <2>2. SizeOf(<<d, d, e, g, d, f>>) = ((((8 + 8) + (4 + objID)) + 1) + 8) + 1
    BY <1>2, SizeOfFew
  <2>3. <<d, d, e, g, d, f>> \o numbers \in Seq(Tokens)
    BY <2>1, ConcatProperties
  <2>4. SizeOf(<<d, d, e, g, d, f>> \o numbers) = SizeOf(<<d, d, e, g, d, f>>) + SizeOf(numbers)
    BY <2>1, SizeFacts, Zenon
  <2> QED
    BY <2>2, <2>3, <2>4, Zenon
<1>4. <<a, b, c, d, d, e, g, d, f>> \o numbers = <<a, b>> \o (<<c>> \o w)
  <2>1. PICK t \in Seq(Tokens) : t = <<a, b, c, d, d, e, g, d, f>> /\ Len(t) = 9
    <3>1. <<a, b, c, d, d, e, g, d, f>> \in Seq(Tokens) /\ Len(<<a, b, c, d, d, e, g, d, f>>) = 9
      OBVIOUS
    <3> QED
      BY <3>1, Zenon
  <2>2. PICK r \in Seq(Tokens) : r = <<d, d, e, g, d, f>> /\ Len(r) = 6
    <3>1. <<d, d, e, g, d, f>> \in Seq(Tokens) /\ Len(<<d, d, e, g, d, f>>) = 6
      OBVIOUS
    <3> QED
      BY <3>1, Zenon
  <2>3. Len(t) = 3 + Len(r) /\ \A i \in 1..Len(r) : t[3 + i] = r[i]
    BY <2>1, <2>2
  <2>4. t \o numbers = <<t[1], t[2]>> \o (<<t[3]>> \o (r \o numbers))
    BY <2>3, InFront, Zenon
  <2> QED
    BY <1>3, <2>1, <2>2, <2>4, Zenon
<1>5. PICK n \in Nat : n = 5 + 1 + 8 + 8 + 4 + objID + 1 + 8 + 1 + Len(numbers)
  OBVIOUS
<1>6. n = 6 + SizeOf(w)
  BY <1>3, <1>5
<1>7. Framed(<<UByte(0), I32(n)>> \o (<<UByte(cmdID)>> \o w), cmdID, w)
  BY <1>6, Frames, Zenon
<1>8. SubscribeObjectContext(cmdID, objID, domain, numbers) = <<a, b, c, d, d, e, g, d, f>> \o numbers
  BY <1>1, <1>2 DEF SubscribeObjectContext
<1> QED
  BY <1>1, <1>2, <1>3, <1>4, <1>5, <1>7, <1>8, Zenon

\* The commands of the session.
LEMMA SessionFramed ==
    /\ Framed(SimulationStepCommand, CMD_SIMSTEP, <<Doubles(1)>>)
    /\ Framed(SetOrderCommand, CMD_SETORDER, <<I32(0)>>)
    /\ Framed(CloseCommand, CMD_CLOSE, <<>>)
    /\ Framed(GetVersionCommand, CMD_GETVERSION, <<>>)
    /\ Framed(LoadCommand(2, 3), CMD_LOAD, <<UByte(TYPE_STRINGLIST), I32(2)>> \o Copies(2, <<String(3)>>))
<1>1. CMD_SIMSTEP \in 0..255 /\ CMD_SETORDER \in 0..255 /\ CMD_CLOSE \in 0..255 /\ CMD_GETVERSION \in 0..255
      /\ CMD_LOAD \in 0..255
  BY DEF CMD_SIMSTEP, CMD_SETORDER, CMD_CLOSE, CMD_GETVERSION, CMD_LOAD
<1>2. PICK d \in Tokens, i \in Tokens, l \in Tokens, s \in Tokens, two \in Tokens :
         d = Doubles(1) /\ i = I32(0) /\ l = UByte(TYPE_STRINGLIST) /\ s = String(3) /\ two = I32(2)
         /\ Size(d) = 8 /\ Size(i) = 4 /\ Size(l) = 1 /\ Size(s) = 7 /\ Size(two) = 4
  BY Bytes, ManyDoubles, Strings, Ints
<1>3. Framed(SimulationStepCommand, CMD_SIMSTEP, <<Doubles(1)>>)
  <2>1. PICK w \in Seq(Tokens) : w = <<d>> /\ SizeOf(w) = 8
    <3>1. <<d>> \in Seq(Tokens) /\ SizeOf(<<d>>) = 8
      BY <1>2, SizeFacts
    <3> QED
      BY <3>1, Zenon
  <2>2. PICK n : n = 1 + 1 + 8
    OBVIOUS
  <2>3. n = 2 + SizeOf(w) /\ n <= 255
    BY <2>1, <2>2
  <2>4. Framed(<<UByte(n)>> \o (<<UByte(CMD_SIMSTEP)>> \o w), CMD_SIMSTEP, w)
    BY <1>1, <2>3, Frames, Zenon
  <2>5. PICK a \in Tokens, b \in Tokens : a = UByte(n) /\ b = UByte(CMD_SIMSTEP)
    BY Bytes
  <2>6. <<a>> \o (<<b>> \o <<d>>) = <<a, b, d>>
    BY Triples
  <2> QED
    BY <1>2, <2>1, <2>2, <2>4, <2>5, <2>6, Zenon DEF SimulationStepCommand
<1>4. Framed(SetOrderCommand, CMD_SETORDER, <<I32(0)>>)
  <2>1. PICK w \in Seq(Tokens) : w = <<i>> /\ SizeOf(w) = 4
    <3>1. <<i>> \in Seq(Tokens) /\ SizeOf(<<i>>) = 4
      BY <1>2, SizeFacts
    <3> QED
      BY <3>1, Zenon
  <2>2. PICK n : n = 1 + 1 + 4
    OBVIOUS
  <2>3. n = 2 + SizeOf(w) /\ n <= 255
    BY <2>1, <2>2
  <2>4. Framed(<<UByte(n)>> \o (<<UByte(CMD_SETORDER)>> \o w), CMD_SETORDER, w)
    BY <1>1, <2>3, Frames, Zenon
  <2>5. PICK a \in Tokens, b \in Tokens : a = UByte(n) /\ b = UByte(CMD_SETORDER)
    BY Bytes
  <2>6. <<a>> \o (<<b>> \o <<i>>) = <<a, b, i>>
    BY Triples
  <2> QED
    BY <1>2, <2>1, <2>2, <2>4, <2>5, <2>6, Zenon DEF SetOrderCommand
<1>5. ASSUME NEW command \in 0..255
      PROVE  Framed(<<UByte(1 + 1), UByte(command)>>, command, <<>>)
  <2>1. PICK w \in Seq(Tokens) : w = <<>> /\ SizeOf(w) = 0
    <3>1. <<>> \in Seq(Tokens) /\ SizeOf(<<>>) = 0
      BY SizeAppend
    <3> QED
      BY <3>1, Zenon
  <2>2. PICK n : n = 1 + 1
    OBVIOUS
  <2>3. n = 2 + SizeOf(w) /\ n <= 255
    BY <2>1, <2>2
  <2>4. Framed(<<UByte(n)>> \o (<<UByte(command)>> \o w), command, w)
    BY <2>3, Frames, Zenon
  <2>5. PICK a \in Tokens, b \in Tokens : a = UByte(n) /\ b = UByte(command)
    BY Bytes
  <2>6. <<b>> \in Seq(Tokens) /\ <<b>> \o <<>> = <<b>> /\ <<a>> \o <<b>> = <<a, b>>
    BY Pairs, ConcatEmptySeq
  <2> QED
    BY <2>1, <2>2, <2>4, <2>5, <2>6, Zenon
<1>6. Framed(CloseCommand, CMD_CLOSE, <<>>) /\ Framed(GetVersionCommand, CMD_GETVERSION, <<>>)
  BY <1>1, <1>5, Zenon DEF CloseCommand, GetVersionCommand
<1>7. Framed(LoadCommand(2, 3), CMD_LOAD, <<UByte(TYPE_STRINGLIST), I32(2)>> \o Copies(2, <<String(3)>>))
  <2>1. <<s>> \in Seq(Tokens) /\ SizeOf(<<s>>) = 7
    BY <1>2, SizeFacts
  <2>2. PICK v \in Seq(Tokens) : v = Copies(2, <<s>>) /\ SizeOf(v) = 7 + 7
    <3>1. PICK u \in Seq(Tokens) : u = <<s>> /\ SizeOf(u) = 7
      BY <2>1, Zenon
    <3>2. Copies(2, u) = u \o u
      BY CopiesFacts, Zenon
    <3>3. u \o u \in Seq(Tokens) /\ SizeOf(u \o u) = SizeOf(u) + SizeOf(u)
      BY SizeFacts, ConcatProperties
    <3> QED
      BY <3>1, <3>2, <3>3, Zenon
  <2>3. PICK w \in Seq(Tokens) : w = <<l, two>> \o v /\ SizeOf(w) = (1 + 4) + (7 + 7)
    <3>1. <<l, two>> \in Seq(Tokens) /\ SizeOf(<<l, two>>) = 1 + 4
      BY <1>2, SizeOfFew
    <3>2. <<l, two>> \o v \in Seq(Tokens) /\ SizeOf(<<l, two>> \o v) = SizeOf(<<l, two>>) + SizeOf(v)
      BY <3>1, SizeFacts, ConcatProperties, Zenon
    <3> QED
      BY <2>2, <3>1, <3>2, Zenon
  <2>4. PICK n \in Nat : n = 1 + 4 + 1 + 1 + 4 + 2 * 3 + 4 * 2
    OBVIOUS
  <2>5. n = 6 + SizeOf(w)
    BY <2>3, <2>4
  <2>6. Framed(<<UByte(0), I32(n)>> \o (<<UByte(CMD_LOAD)>> \o w), CMD_LOAD, w)
    BY <1>1, <2>5, Frames, Zenon
  <2>7. PICK a \in Tokens, b \in Tokens, c \in Tokens : a = UByte(0) /\ b = I32(n) /\ c = UByte(CMD_LOAD)
    BY Bytes, Ints
  <2>8. <<a, b, c, l, two>> \o v = <<a, b>> \o (<<c>> \o w)
    <3>1. PICK t \in Seq(Tokens) : t = <<a, b, c, l, two>> /\ Len(t) = 5
      <4>1. <<a, b, c, l, two>> \in Seq(Tokens) /\ Len(<<a, b, c, l, two>>) = 5
        OBVIOUS
      <4> QED
        BY <4>1, Zenon
    <3>2. PICK r \in Seq(Tokens) : r = <<l, two>> /\ Len(r) = 2
      <4>1. <<l, two>> \in Seq(Tokens) /\ Len(<<l, two>>) = 2
        OBVIOUS
      <4> QED
        BY <4>1, Zenon
    <3>3. Len(t) = 3 + Len(r) /\ \A j \in 1..Len(r) : t[3 + j] = r[j]
      BY <3>1, <3>2
    <3>4. t \o v = <<t[1], t[2]>> \o (<<t[3]>> \o (r \o v))
      BY <3>3, InFront, Zenon
    <3> QED
      BY <2>3, <3>1, <3>2, <3>4, Zenon
  <2>9. LoadCommand(2, 3) = <<a, b, c, l, two>> \o v
    BY <1>2, <2>2, <2>4, <2>7 DEF LoadCommand
  <2> QED
    BY <1>2, <2>2, <2>3, <2>6, <2>7, <2>8, <2>9, Zenon
<1> QED
  BY <1>3, <1>4, <1>6, <1>7

-----------------------------------------------------------------------------
(* What SUMO makes of a request.                                           *)

\* What was taken was read to the end, with nothing left.
LEMMA TakesCompletes ==
    ASSUME NEW want, NEW tokens, Takes(want, tokens), NEW command
    PROVE  /\ Complete(Reading(tokens, want, command))
           /\ Reading(tokens, want, command).rest = 0
           /\ Reading(tokens, want, command).results = {}
<1>1. <<>> \in Seq(Items) /\ want \o <<>> = want
  BY ConcatEmptySeq DEF Takes
<1>2. Reads(Reader(want, command, 0, 0, 0, {}), tokens, Reader(<<>>, command, 0, 0, 0, {}))
  BY <1>1, Zenon DEF Takes
<1>3. Reading(tokens, want, command) = Reader(<<>>, command, 0, 0, 0, {})
  BY <1>2, ReadingIs DEF Takes
<1> QED
  BY <1>3 DEF Reader, Complete

\* A command that can be read is understood.
LEMMA UnderstoodIf ==
    ASSUME NEW tokens, NEW command, NEW rest, Framed(tokens, command, rest), Takes(Wanted(tokens), rest)
    PROVE  Understood(tokens)
<1>1. PICK k : k = CommandAt(tokens)
  OBVIOUS
<1>2. tokens[k - 1].v = SizeOf(tokens) /\ SubSeq(tokens, k + 1, Len(tokens)) = rest
  BY <1>1 DEF Framed
<1>3. PICK want : want = Wanted(tokens)
  OBVIOUS
<1>4. Complete(Reading(rest, want, 0)) /\ Reading(rest, want, 0).rest = 0
  BY <1>3, TakesCompletes
<1> QED
  BY <1>1, <1>2, <1>3, <1>4, Zenon DEF Understood

\* One whose reading fails is not.
LEMMA NotUnderstoodIf ==
    ASSUME NEW tokens, NEW command, NEW rest, Framed(tokens, command, rest),
           ~Complete(Reading(rest, Wanted(tokens), 0))
    PROVE  ~Understood(tokens)
  BY Zenon DEF Framed, Understood

\* The numbers of the commands of a kind are bytes, and of no other kind.
LEMMA CommandNumbers ==
    \A n : /\ n \in NumbersOf(CMD_GET) => n \in 160..174
           /\ n \in NumbersOf(CMD_SET) => n \in 192..206
           /\ n \in NumbersOf(CMD_SUBSCRIBE) => n \in 208..222
           /\ n \in NumbersOf(CMD_SUBSCRIBE_CONTEXT) => n \in 128..142
  BY DomainNumbers DEF NumbersOf, CMD_GET, CMD_SET, CMD_SUBSCRIBE, CMD_SUBSCRIBE_CONTEXT

\* A number to get or set something is not that of another command.
LEMMA NoOtherNumber ==
    ASSUME NEW n, n \in NumbersOf(CMD_GET) \/ n \in NumbersOf(CMD_SET)
    PROVE  n \notin {0, 1, 2, 3, 127} /\ n \notin NumbersOf(CMD_SUBSCRIBE) /\ n \notin NumbersOf(CMD_SUBSCRIBE_CONTEXT)
  BY CommandNumbers

\* The domain of a number.
LEMMA DomainIsOne ==
    \A d, e \in DOMAIN Domain : Domain[d] = Domain[e] => d = e
  BY DomainNumbers

(* What each command has after its number. *)

\* Wanted, in these names.
LEMMA WantedIs ==
    ASSUME NEW tokens
    PROVE  Wanted(tokens) =
             CASE tokens[CommandAt(tokens)].v \in NumbersOf(CMD_GET) \cup NumbersOf(CMD_SET) ->
                    ObjectWants
                    \o (IF Len(tokens) = CommandAt(tokens) + 2 THEN <<>>
                        ELSE IF tokens[CommandAt(tokens)].v = CMD_GET + Domain.SIM /\ tokens[CommandAt(tokens) + 1].v = Var.DISTANCE_REQUEST
                          THEN DistanceWants
                        ELSE ValueWants)
               [] tokens[CommandAt(tokens)].v \in NumbersOf(CMD_SUBSCRIBE) -> SubscribeWants
               [] tokens[CommandAt(tokens)].v \in NumbersOf(CMD_SUBSCRIBE_CONTEXT) -> ContextWants
               [] tokens[CommandAt(tokens)].v = CMD_SIMSTEP -> StepWants
               [] tokens[CommandAt(tokens)].v = CMD_SETORDER -> OrderWants
               [] tokens[CommandAt(tokens)].v = CMD_LOAD -> ValueWants
               [] tokens[CommandAt(tokens)].v \in {CMD_GETVERSION, CMD_CLOSE} -> <<>>
  BY Zenon DEF Wanted, ObjectWants, ValueWants, SubscribeWants, ContextWants, StepWants,
     OrderWants, DistanceWants

\* SUMO wants of a get or a set its variable, its object and then that.
LEMMA WantedVariable ==
    ASSUME NEW tokens, NEW command \in 0..255,
           command \in NumbersOf(CMD_GET) \/ command \in NumbersOf(CMD_SET),
           NEW rest, Framed(tokens, command, rest), Len(rest) >= 2
    PROVE  Wanted(tokens) = ObjectWants \o VariableWants(command, rest)
<1>1. PICK k \in {2, 3} : k = CommandAt(tokens)
  BY DEF Framed
<1>2. PICK m \in Nat : m = Len(rest)
  BY DEF Framed
<1>3. tokens[k].v = command /\ Len(tokens) = k + m /\ tokens[k + 1] = rest[1]
  BY <1>1, <1>2 DEF Framed
<1>4. Len(tokens) = k + 2 <=> m = 2
  BY <1>3
<1>5. CMD_GET + Domain.SIM = 171 /\ Var.DISTANCE_REQUEST = 131
  BY DomainNumbers, NumbersOfEmissionAndSimulationVariables DEF CMD_GET
<1>6. tokens[CommandAt(tokens)].v \in NumbersOf(CMD_GET) \cup NumbersOf(CMD_SET)
  BY <1>1, <1>3
<1>7. Wanted(tokens) =
        ObjectWants
        \o (IF Len(tokens) = CommandAt(tokens) + 2 THEN <<>>
            ELSE IF tokens[CommandAt(tokens)].v = CMD_GET + Domain.SIM
                    /\ tokens[CommandAt(tokens) + 1].v = Var.DISTANCE_REQUEST
              THEN DistanceWants
            ELSE ValueWants)
  <2>1. command \notin {0, 1, 2, 3, 127} /\ command \notin NumbersOf(CMD_SUBSCRIBE)
        /\ command \notin NumbersOf(CMD_SUBSCRIBE_CONTEXT)
    BY NoOtherNumber
  <2>2. tokens[CommandAt(tokens)].v = command
    BY <1>1, <1>3
  <2> QED
    BY <1>6, <2>1, <2>2, WantedIs, Zenon DEF CMD_SIMSTEP, CMD_SETORDER, CMD_LOAD, CMD_GETVERSION, CMD_CLOSE
<1> QED
  BY <1>1, <1>2, <1>3, <1>4, <1>5, <1>7, Zenon DEF VariableWants

\* What SUMO wants of the other commands.
LEMMA WantedOther ==
    ASSUME NEW tokens, NEW command, NEW rest, Framed(tokens, command, rest)
    PROVE  /\ command \in NumbersOf(CMD_SUBSCRIBE) => Wanted(tokens) = SubscribeWants
           /\ command \in NumbersOf(CMD_SUBSCRIBE_CONTEXT) => Wanted(tokens) = ContextWants
           /\ command = CMD_SIMSTEP => Wanted(tokens) = StepWants
           /\ command = CMD_SETORDER => Wanted(tokens) = OrderWants
           /\ command = CMD_LOAD => Wanted(tokens) = ValueWants
           /\ command \in {CMD_GETVERSION, CMD_CLOSE} => Wanted(tokens) = <<>>
<1>1. PICK k : k = CommandAt(tokens)
  OBVIOUS
<1>2. tokens[k].v = command
  BY <1>1 DEF Framed
<1>3. /\ command \in NumbersOf(CMD_SUBSCRIBE) =>
           command \notin NumbersOf(CMD_GET) \cup NumbersOf(CMD_SET) \cup NumbersOf(CMD_SUBSCRIBE_CONTEXT) \cup {0, 1, 2, 3, 127}
      /\ command \in NumbersOf(CMD_SUBSCRIBE_CONTEXT) =>
           command \notin NumbersOf(CMD_GET) \cup NumbersOf(CMD_SET) \cup NumbersOf(CMD_SUBSCRIBE) \cup {0, 1, 2, 3, 127}
  BY CommandNumbers
<1>4. command \in {0, 1, 2, 3, 127} =>
         command \notin NumbersOf(CMD_GET) \cup NumbersOf(CMD_SET) \cup NumbersOf(CMD_SUBSCRIBE)
                        \cup NumbersOf(CMD_SUBSCRIBE_CONTEXT)
  BY CommandNumbers
<1>5. command \in NumbersOf(CMD_SUBSCRIBE) => Wanted(tokens) = SubscribeWants
  BY <1>1, <1>2, <1>3, <1>4, WantedIs DEF CMD_SIMSTEP, CMD_SETORDER, CMD_LOAD, CMD_GETVERSION, CMD_CLOSE
<1>6. command \in NumbersOf(CMD_SUBSCRIBE_CONTEXT) => Wanted(tokens) = ContextWants
  BY <1>1, <1>2, <1>3, <1>4, WantedIs DEF CMD_SIMSTEP, CMD_SETORDER, CMD_LOAD, CMD_GETVERSION, CMD_CLOSE
<1>7. command = CMD_SIMSTEP => Wanted(tokens) = StepWants
  BY <1>1, <1>2, <1>3, <1>4, WantedIs DEF CMD_SIMSTEP, CMD_SETORDER, CMD_LOAD, CMD_GETVERSION, CMD_CLOSE
<1>8. command = CMD_SETORDER => Wanted(tokens) = OrderWants
  BY <1>1, <1>2, <1>3, <1>4, WantedIs DEF CMD_SIMSTEP, CMD_SETORDER, CMD_LOAD, CMD_GETVERSION, CMD_CLOSE
<1>9. command = CMD_LOAD => Wanted(tokens) = ValueWants
  BY <1>1, <1>2, <1>3, <1>4, WantedIs DEF CMD_SIMSTEP, CMD_SETORDER, CMD_LOAD, CMD_GETVERSION, CMD_CLOSE
<1>10. command = CMD_GETVERSION => Wanted(tokens) = <<>>
  BY <1>1, <1>2, <1>3, <1>4, WantedIs DEF CMD_SIMSTEP, CMD_SETORDER, CMD_LOAD, CMD_GETVERSION, CMD_CLOSE
<1>11. command = CMD_CLOSE => Wanted(tokens) = <<>>
  BY <1>1, <1>2, <1>3, <1>4, WantedIs DEF CMD_SIMSTEP, CMD_SETORDER, CMD_LOAD, CMD_GETVERSION, CMD_CLOSE
<1> QED
  BY <1>5, <1>6, <1>7, <1>8, <1>9, <1>10, <1>11

\* A count and so many bytes, none or one.
LEMMA TakesNumbers ==
    /\ Takes(<<Want("numbers")>>, <<UByte(0)>>)
    /\ \A v : Takes(<<Want("numbers")>>, <<UByte(1)>> \o <<UByte(v)>>)
<1>1. ASSUME NEW n \in 0..255 PROVE Accepts(Want("numbers"), UByte(n))
  BY RowNames, Bytes DEF Accepts, CarrierOf, Want
<1>2. ASSUME NEW n \in {0, 1}, NEW t, Takes(Copies(n, <<Want("byte")>>), t)
      PROVE  Takes(<<Want("numbers")>>, <<UByte(n)>> \o t)
  <2>1. n \in 0..255
    OBVIOUS
  <2>2. Want("numbers") \in Items /\ UByte(n) \in Tokens /\ UByte(n).v = n
    BY Wants, <2>1, Bytes DEF Kinds
  <2>3. \A reader : Head(reader.want) = Want("numbers") => After(reader, UByte(n)) = Copies(n, <<Want("byte")>>)
    BY <2>2, RowNames DEF After, Want
  <2> QED
    BY <1>1, <1>2, <2>1, <2>2, <2>3, TakesInside DEF Want, Marks
<1>3. Want("byte") \in Items
  BY Wants DEF Kinds
<1>4. <<Want("byte")>> \in Seq(Items)
  BY <1>3
<1>5. Copies(0, <<Want("byte")>>) = <<>> /\ Copies(1, <<Want("byte")>>) = <<Want("byte")>>
  BY <1>4, CopiesFacts, Zenon
<1>6. Takes(<<Want("numbers")>>, <<UByte(0)>>)
  <2>1. Takes(<<Want("numbers")>>, <<UByte(0)>> \o <<>>)
    BY <1>2, <1>5, TakesNothing, Zenon
  <2>2. <<UByte(0)>> \in Seq(Tokens)
    BY Bytes
  <2> QED
    BY <2>1, <2>2, ConcatEmptySeq
<1>7. ASSUME NEW v PROVE Takes(<<Want("numbers")>>, <<UByte(1)>> \o <<UByte(v)>>)
  BY <1>2, <1>5, TakesOne, Zenon
<1> QED
  BY <1>6, <1>7

\* The variable and the object of a request.
LEMMA TakesObject ==
    ASSUME NEW varID, NEW objID \in Nat
    PROVE  Takes(ObjectWants, <<UByte(varID), String(objID)>>)
<1>1. Takes(<<Want("byte")>>, <<UByte(varID)>>) /\ Takes(<<Want("string")>>, <<String(objID)>>)
  BY TakesOne, Zenon
<1>2. PICK a \in Items, b \in Items, c \in Tokens, d \in Tokens :
         a = Want("byte") /\ b = Want("string") /\ c = UByte(varID) /\ d = String(objID)
  BY Wants, Bytes, Strings DEF Kinds
<1>3. Takes(<<a>> \o <<b>>, <<c>> \o <<d>>)
  BY <1>1, <1>2, TakesConcat
<1>4. <<a>> \o <<b>> = <<a, b>> /\ <<c>> \o <<d>> = <<c, d>>
  BY Pairs
<1> QED
  BY <1>2, <1>3, <1>4, Zenon DEF ObjectWants

\* The members of the former of two sequences stay where they are.
LEMMA FormerAt ==
    ASSUME NEW S, NEW s \in Seq(S), NEW t \in Seq(S)
    PROVE  Len(s \o t) = Len(s) + Len(t) /\ \A i \in 1..Len(s) : (s \o t)[i] = s[i]
  BY ConcatProperties

\* What follows the variable and the object of a get or a set is its value.
LEMMA ObjectAndValue ==
    ASSUME NEW S, NEW h \in Seq(S), Len(h) = 2, NEW value \in Seq(S)
    PROVE  /\ Len(h \o value) = 2 + Len(value)
           /\ (h \o value)[1] = h[1]
           /\ (h \o value)[2] = h[2]
           /\ SubSeq(h \o value, 3, Len(h \o value)) = value
<1>1. Len(h \o value) = Len(h) + Len(value) /\ \A i \in 1..Len(h) : (h \o value)[i] = h[i]
  BY FormerAt, Zenon
<1>2. SubSeq(h \o value, 3, Len(h \o value)) = value
  <2>1. PICK n : n = Len(h) + 1
    OBVIOUS
  <2>2. SubSeq(h \o value, n, Len(h \o value)) = value
    BY <2>1, SecondPart, Zenon
  <2> QED
    BY <2>1, <2>2
<1> QED
  BY <1>1, <1>2

\* The empty sequence is the one of length 0.
LEMMA NoLength ==
    ASSUME NEW S, NEW s \in Seq(S)
    PROVE  Len(s) \in Nat /\ (Len(s) = 0 <=> s = <<>>)
  BY EmptySeq

\* A value that can be read makes a command that is understood.
LEMMA VariableUnderstood ==
    ASSUME NEW command \in 0..255, command \in NumbersOf(CMD_GET) \/ command \in NumbersOf(CMD_SET), NEW varID \in 0..255, NEW objID \in Nat,
           NEW value \in Seq(Tokens),
           value # <<>> /\ command = 171 /\ varID = 131 => Takes(DistanceWants, value),
           value # <<>> /\ ~(command = 171 /\ varID = 131) => value \in Values
    PROVE  Understood(CreateCommand(command, varID, objID, value))
<1>1. PICK h \in Seq(Tokens) : h = <<UByte(varID), String(objID)>> /\ Takes(ObjectWants, h)
                                /\ Len(h) = 2 /\ h[1].v = varID
  <2>1. PICK a \in Tokens, b \in Tokens : a = UByte(varID) /\ b = String(objID) /\ a.v = varID
    BY Bytes, Strings, Zenon
  <2>2. <<a, b>> \in Seq(Tokens) /\ Len(<<a, b>>) = 2
    OBVIOUS
  <2>3. Takes(ObjectWants, <<UByte(varID), String(objID)>>)
    BY TakesObject
  <2> QED
    BY <2>1, <2>2, <2>3, Zenon
<1>2. PICK tokens : tokens = CreateCommand(command, varID, objID, value)
  OBVIOUS
<1>3. Framed(tokens, command, h \o value)
  BY <1>1, <1>2, CommandFramed, Zenon
<1>4. Wanted(tokens) =
        ObjectWants
        \o (IF value = <<>> THEN <<>>
            ELSE IF command = 171 /\ varID = 131 THEN DistanceWants
            ELSE ValueWants)
  <2>1. PICK rest : rest = h \o value
    BY Zenon
  <2>2. /\ Len(rest) = 2 + Len(value)
        /\ rest[1].v = varID
    BY <1>1, <2>1, ObjectAndValue
  <2>3. Len(rest) >= 2 /\ (Len(rest) = 2 <=> value = <<>>)
    BY <2>2, NoLength
  <2>4. Framed(tokens, command, rest)
    BY <1>3, <2>1
  <2>5. Wanted(tokens) = ObjectWants \o VariableWants(command, rest)
    BY <2>3, <2>4, WantedVariable, Zenon
  <2> QED
    BY <2>2, <2>3, <2>5 DEF VariableWants
<1>5. CASE value = <<>>
  BY <1>1, TakesNothing, TakesConcat, <1>2, <1>3, <1>4, <1>5, UnderstoodIf
<1>6. CASE value # <<>> /\ command = 171 /\ varID = 131
  <2>1. Takes(ObjectWants \o DistanceWants, h \o value)
    BY <1>1, <1>6, TakesConcat
  <2> QED
    BY <1>2, <1>3, <1>4, <1>6, <2>1, UnderstoodIf, Zenon
<1>7. CASE value # <<>> /\ ~(command = 171 /\ varID = 131)
  <2>1. Takes(ValueWants, value)
    BY <1>7 DEF Values, ValueWants
  <2>2. Takes(ObjectWants \o ValueWants, h \o value)
    BY <1>1, <2>1, TakesConcat
  <2> QED
    BY <1>2, <1>3, <1>4, <1>7, <2>2, UnderstoodIf, Zenon
<1> QED
  BY <1>5, <1>6, <1>7

\* A double without a type is not.
LEMMA UntypedNotUnderstood ==
    ASSUME NEW objID \in Nat
    PROVE  ~Understood(CreateCommand(202, 65, objID, <<Doubles(1)>>))
<1>1. PICK h \in Seq(Tokens) : h = <<UByte(65), String(objID)>> /\ Takes(ObjectWants, h) /\ Len(h) = 2
  <2>1. PICK a \in Tokens, b \in Tokens : a = UByte(65) /\ b = String(objID)
    BY Bytes, Strings
  <2>2. <<a, b>> \in Seq(Tokens) /\ Len(<<a, b>>) = 2
    OBVIOUS
  <2>3. Takes(ObjectWants, <<UByte(65), String(objID)>>)
    BY TakesObject
  <2> QED
    BY <2>1, <2>2, <2>3, Zenon
<1>2. 202 \in 0..255 /\ 202 \in NumbersOf(CMD_SET) /\ 65 \in 0..255
  BY DomainNumbers DEF CMD_SET, NumbersOf
<1>3. PICK d \in Tokens : d = Doubles(1) /\ d.as = "double"
  BY ManyDoubles
<1>4. PICK value \in Seq(Tokens) : value = <<d>> /\ value # <<>>
  <2>1. <<d>> \in Seq(Tokens) /\ <<d>> # <<>>
    OBVIOUS
  <2> QED
    BY <2>1, Zenon
<1>5. PICK tokens : tokens = CreateCommand(202, 65, objID, value)
  OBVIOUS
<1>6. Framed(tokens, 202, h \o value)
  BY <1>1, <1>2, <1>5, CommandFramed, Zenon
<1>7. Wanted(tokens) = ObjectWants \o ValueWants
  <2>1. PICK c \in 0..255 : c = 202 /\ c \in NumbersOf(CMD_SET)
    BY <1>2
  <2>2. PICK rest : rest = h \o value
    BY Zenon
  <2>3. Framed(tokens, c, rest)
    BY <1>6, <2>1, <2>2
  <2>4. Len(rest) = 3
    BY <1>1, <2>2, ObjectAndValue, <1>4
  <2>5. Wanted(tokens) = ObjectWants \o VariableWants(c, rest)
    <3>1. (c \in NumbersOf(CMD_GET) \/ c \in NumbersOf(CMD_SET)) /\ Len(rest) >= 2
      BY <2>1, <2>4
    <3> QED
      BY <2>3, <3>1, WantedVariable, Zenon
  <2> QED
    BY <2>1, <2>4, <2>5 DEF VariableWants
<1>8. PICK item \in Items : item = Want("value")
  BY Wants DEF Kinds
<1>9. ValueWants = <<item>> /\ <<item>> \in Seq(Items)
  BY <1>8 DEF ValueWants
<1>10. PICK before : before = Reader(<<item>>, 0, 0, 0, 0, {})
  OBVIOUS
<1>11. Reads(Reader(ObjectWants \o ValueWants, 0, 0, 0, 0, {}), h, before)
  BY <1>1, <1>9, <1>10, Zenon DEF Takes
<1>12. ~Accepts(item, d)
  BY <1>3, <1>8 DEF Accepts, CarrierOf, Want
<1>13. PICK after : after = ReadToken(before, d)
  OBVIOUS
<1>14. after.ok = FALSE
  BY <1>9, <1>10, <1>12, <1>13 DEF Reader, ReadToken
<1>15. Reads(before, value, after)
  BY <1>4, <1>13, ReadsOne
<1>16. h \in Seq(Tokens)
  BY <1>1 DEF Takes
<1>17. Reads(Reader(ObjectWants \o ValueWants, 0, 0, 0, 0, {}), h \o value, after)
  BY <1>11, <1>15, <1>16, ReadsConcat
<1>18. h \o value \in Seq(Tokens)
  BY <1>16, ConcatProperties
<1>19. Reading(h \o value, ObjectWants \o ValueWants, 0) = after
  BY <1>17, <1>18, ReadingIs, Zenon
<1>20. ~Complete(Reading(h \o value, Wanted(tokens), 0))
  BY <1>7, <1>14, <1>19 DEF Complete
<1> QED
  BY <1>3, <1>4, <1>5, <1>6, <1>20, NotUnderstoodIf

\* One after three.
LEMMA ThreeAndOne ==
    ASSUME NEW S, NEW a \in S, NEW b \in S, NEW c \in S, NEW d \in S
    PROVE  <<a, b, c>> \o <<d>> = <<a, b, c, d>>
<1>1. PICK p \in Seq(S), q \in Seq(S), r \in Seq(S) : p = <<a, b, c>> /\ q = <<d>> /\ r = <<a, b, c, d>>
  <2>1. <<a, b, c>> \in Seq(S) /\ <<d>> \in Seq(S) /\ <<a, b, c, d>> \in Seq(S)
    OBVIOUS
  <2> QED
    BY <2>1, Zenon
<1>2. Len(p) = 3 /\ Len(q) = 1 /\ Len(r) = 4
  BY <1>1
<1>3. p \o q \in Seq(S) /\ Len(p \o q) = Len(p) + Len(q) /\ \A i \in 1..Len(p) : (p \o q)[i] = p[i]
  BY FormerAt, ConcatProperties
<1>4. (p \o q)[4] = d
  BY <1>2, LatterAt, <1>1
<1>5. \A i \in 1..4 : (p \o q)[i] = r[i]
  BY <1>1, <1>2, <1>3, <1>4
<1>6. Len(p \o q) = Len(r)
  BY <1>2, <1>3
<1>7. p \o q = r
  BY <1>2, <1>3, <1>5, <1>6, SeqEqual, Zenon
<1> QED
  BY <1>1, <1>7

\* One after five.
LEMMA FiveAndOne ==
    ASSUME NEW S, NEW a \in S, NEW b \in S, NEW c \in S, NEW d \in S, NEW e \in S, NEW f \in S
    PROVE  <<a, b, c, d, e>> \o <<f>> = <<a, b, c, d, e, f>>
<1>1. PICK p \in Seq(S), q \in Seq(S), r \in Seq(S) : p = <<a, b, c, d, e>> /\ q = <<f>> /\ r = <<a, b, c, d, e, f>>
  <2>1. <<a, b, c, d, e>> \in Seq(S) /\ <<f>> \in Seq(S) /\ <<a, b, c, d, e, f>> \in Seq(S)
    OBVIOUS
  <2> QED
    BY <2>1, Zenon
<1>2. Len(p) = 5 /\ Len(q) = 1 /\ Len(r) = 6
  BY <1>1
<1>3. p \o q \in Seq(S) /\ Len(p \o q) = Len(p) + Len(q) /\ \A i \in 1..Len(p) : (p \o q)[i] = p[i]
  BY FormerAt, ConcatProperties
<1>4. (p \o q)[6] = f
  BY <1>2, LatterAt, <1>1
<1>5. \A i \in 1..6 : (p \o q)[i] = r[i]
  BY <1>1, <1>2, <1>3, <1>4
<1>6. Len(p \o q) = Len(r)
  BY <1>2, <1>3
<1>7. p \o q = r
  BY <1>2, <1>3, <1>5, <1>6, SeqEqual, Zenon
<1> QED
  BY <1>1, <1>7

\* One double is what a reader that wants one takes.
LEMMA TakesDouble == Takes(<<Doubles(1)>>, <<Doubles(1)>>)
<1>1. 1 \in Nat \ {0}
  OBVIOUS
<1> QED
  BY <1>1, TakesOne, Zenon

\* Items that take one token each take these tokens.
LEMMA TakesEach ==
    ASSUME NEW want \in Seq(Items), NEW tokens \in Seq(Tokens), Len(want) = Len(tokens),
           \A i \in 1..Len(want) : Takes(<<want[i]>>, <<tokens[i]>>)
    PROVE  Takes(want, tokens)
<1> DEFINE Each(w, t) == Len(w) = Len(t) /\ \A i \in 1..Len(w) : Takes(<<w[i]>>, <<t[i]>>)
           T == { n \in Nat : \A w \in Seq(Items), t \in Seq(Tokens) : Len(w) = n /\ Each(w, t) => Takes(w, t) }
<1>1. 0 \in T
  BY EmptySeq, TakesNothing
<1>2. ASSUME NEW n \in Nat, n \in T PROVE n + 1 \in T
  <2>1. ASSUME NEW w \in Seq(Items), NEW t \in Seq(Tokens), Len(w) = n + 1, Each(w, t)
        PROVE  Takes(w, t)
    <3>1. w # <<>> /\ t # <<>> /\ Len(t) = n + 1
      BY <2>1
    <3>2. PICK v \in Seq(Items), a \in Items :
             w = Append(v, a) /\ Len(v) = n /\ a = w[n + 1]
      <4>1. PICK v \in Seq(Items) : \E a \in Items : w = Append(v, a) /\ Len(v) = Len(w) - 1 /\ a = w[Len(w)]
        BY <3>1, LastMember
      <4> QED
        BY <2>1, <4>1
    <3>3. PICK s \in Seq(Tokens), b \in Tokens :
             t = Append(s, b) /\ Len(s) = n /\ b = t[n + 1]
      <4>1. PICK s \in Seq(Tokens) : \E b \in Tokens : t = Append(s, b) /\ Len(s) = Len(t) - 1 /\ b = t[Len(t)]
        BY <3>1, LastMember, Zenon
      <4> QED
        BY <3>1, <4>1
    <3>4. \A i \in 1..n : v[i] = w[i] /\ s[i] = t[i]
      BY <3>2, <3>3, AppendProperties
    <3>5. Each(v, s)
      BY <2>1, <3>2, <3>3, <3>4
    <3>6. Takes(v, s)
      BY <1>2, <3>2, <3>5
    <3>7. Takes(<<a>>, <<b>>)
      BY <2>1, <3>2, <3>3
    <3>8. Takes(v \o <<a>>, s \o <<b>>)
      BY <3>6, <3>7, TakesConcat
    <3> QED
      BY <3>2, <3>3, <3>8, AppendIsConcat, Zenon
  <2> QED
    BY <2>1
<1>3. Nat \subseteq T
  <2> HIDE DEF T
  <2> QED
    BY <1>1, <1>2, AllNumbers
<1>4. Len(want) \in T
  BY <1>3
<1> QED
  BY <1>4

\* A subscription to variables, to none or one.
LEMMA TakesSubscription ==
    ASSUME NEW objID \in Nat, NEW numbers, numbers = <<>> \/ \E v : numbers = <<UByte(v)>>
    PROVE  Takes(SubscribeWants, <<Doubles(1), Doubles(1), String(objID), UByte(Len(numbers))>> \o numbers)
<1>1. PICK a \in Items, b \in Items, c \in Items : a = Doubles(1) /\ b = Want("string") /\ c = Want("numbers")
  BY Wants, NumberedItems DEF Kinds
<1>2. PICK d \in Tokens, e \in Tokens, f \in Tokens : d = Doubles(1) /\ e = String(objID) /\ f = UByte(Len(numbers))
  BY Bytes, Strings, ManyDoubles, SMTT(30)
<1>3. Takes(<<a>>, <<d>>) /\ Takes(<<b>>, <<e>>)
  BY TakesDouble, TakesOne, <1>1, <1>2, Zenon
<1>4. PICK w \in Seq(Items), t \in Seq(Tokens) : w = <<a, a, b>> /\ t = <<d, d, e>>
  <2>1. <<a, a, b>> \in Seq(Items) /\ <<d, d, e>> \in Seq(Tokens)
    OBVIOUS
  <2> QED
    BY <2>1, Zenon
<1>5. Takes(w, t)
  <2>1. Len(w) = 3 /\ Len(t) = 3 /\ \A i \in 1..3 : Takes(<<w[i]>>, <<t[i]>>)
    BY <1>3, <1>4
  <2> QED
    BY <2>1, TakesEach, Zenon
<1>6. Takes(<<c>>, <<f>> \o numbers) /\ numbers \in Seq(Tokens)
  <2>1. CASE numbers = <<>>
    BY <2>1, ConcatEmptySeq, <1>1, <1>2, TakesNumbers
  <2>2. CASE \E v : numbers = <<UByte(v)>>
    <3>1. PICK v : numbers = <<UByte(v)>>
      BY <2>2
    <3>2. Len(numbers) = 1 /\ numbers \in Seq(Tokens)
      BY <3>1, Bytes
    <3> QED
      BY <1>1, <1>2, <3>1, <3>2, TakesNumbers
  <2> QED
    BY <2>1, <2>2
<1>7. Takes(w \o <<c>>, t \o (<<f>> \o numbers))
  BY <1>5, <1>6, TakesConcat
<1>8. t \o (<<f>> \o numbers) = (t \o <<f>>) \o numbers
  <2>1. PICK u \in Seq(Tokens), r \in Seq(Tokens) : u = <<f>> /\ r = numbers
    <3>1. <<f>> \in Seq(Tokens)
      OBVIOUS
    <3> QED
      BY <1>6, <3>1, Zenon
  <2>2. t \o (u \o r) = (t \o u) \o r
    BY ConcatAssociative
  <2> QED
    BY <2>1, <2>2, Zenon
<1>9. w \o <<c>> = <<a, a, b, c>> /\ t \o <<f>> = <<d, d, e, f>>
  BY <1>4, ThreeAndOne
<1> QED
  BY <1>1, <1>2, <1>7, <1>8, <1>9, Zenon DEF SubscribeWants

\* A subscription to the context of an object.
LEMMA TakesContext ==
    ASSUME NEW objID \in Nat, NEW domain, NEW numbers, \E v : numbers = <<UByte(v)>>
    PROVE  Takes(ContextWants,
                 <<Doubles(1), Doubles(1), String(objID), UByte(domain), Doubles(1), UByte(Len(numbers))>> \o numbers)
<1>1. PICK a \in Items, b \in Items, c \in Items, x \in Items :
         a = Doubles(1) /\ b = Want("string") /\ c = Want("numbers") /\ x = Want("byte")
  BY Wants, NumberedItems DEF Kinds
<1>2. PICK d \in Tokens, e \in Tokens, f \in Tokens, y \in Tokens :
         d = Doubles(1) /\ e = String(objID) /\ f = UByte(Len(numbers)) /\ y = UByte(domain)
  <2>1. Doubles(1) \in Tokens
    BY ManyDoubles
  <2>2. String(objID) \in Tokens
    BY Strings
  <2>3. UByte(Len(numbers)) \in Tokens
    BY Bytes
  <2>4. UByte(domain) \in Tokens
    BY Bytes, SMTT(30)
  <2> QED
    BY <2>1, <2>2, <2>3, <2>4
<1>3. Takes(<<a>>, <<d>>) /\ Takes(<<b>>, <<e>>) /\ Takes(<<x>>, <<y>>)
  BY TakesDouble, TakesOne, <1>1, <1>2, Zenon
<1>4. PICK w \in Seq(Items), t \in Seq(Tokens) : w = <<a, a, b, x, a>> /\ t = <<d, d, e, y, d>>
  <2>1. <<a, a, b, x, a>> \in Seq(Items) /\ <<d, d, e, y, d>> \in Seq(Tokens)
    OBVIOUS
  <2> QED
    BY <2>1, Zenon
<1>5. Takes(w, t)
  <2>1. Len(w) = 5 /\ Len(t) = 5 /\ \A i \in 1..5 : Takes(<<w[i]>>, <<t[i]>>)
    BY <1>3, <1>4
  <2> QED
    BY <2>1, TakesEach, Zenon
<1>6. Takes(<<c>>, <<f>> \o numbers) /\ numbers \in Seq(Tokens)
  <2>1. PICK v : numbers = <<UByte(v)>>
    OBVIOUS
  <2>2. Len(numbers) = 1 /\ numbers \in Seq(Tokens)
    BY <2>1, Bytes
  <2> QED
    BY <1>1, <1>2, <2>1, <2>2, TakesNumbers
<1>7. Takes(w \o <<c>>, t \o (<<f>> \o numbers))
  BY <1>5, <1>6, TakesConcat
<1>8. t \o (<<f>> \o numbers) = (t \o <<f>>) \o numbers
  <2>1. PICK u \in Seq(Tokens), r \in Seq(Tokens) : u = <<f>> /\ r = numbers
    <3>1. <<f>> \in Seq(Tokens)
      OBVIOUS
    <3> QED
      BY <1>6, <3>1, Zenon
  <2>2. t \o (u \o r) = (t \o u) \o r
    BY ConcatAssociative
  <2> QED
    BY <2>1, <2>2
<1>9. w \o <<c>> = <<a, a, b, x, a, c>> /\ t \o <<f>> = <<d, d, e, y, d, f>>
  BY <1>4, FiveAndOne
<1> QED
  BY <1>1, <1>2, <1>7, <1>8, <1>9, Zenon DEF ContextWants

-----------------------------------------------------------------------------
(* Every request.                                                          *)

\* A get or a set is written with its value.
LEMMA VariableRequest ==
    ASSUME NEW c, c.kind = "get" \/ c.kind = "set"
    PROVE  /\ Request(c) = CreateCommand(c.command, c.variable, c.object, c.value)
           /\ Body(c) = <<UByte(c.variable), String(c.object)>> \o c.value
  BY Zenon DEF Request, Body

\* The requests of the other calls, in their parts.
LEMMA OtherRequests ==
    ASSUME NEW c
    PROVE  /\ c.kind = "subscribe" =>
                /\ Request(c) = SubscribeObjectVariable(c.command, c.object, c.value)
                /\ Body(c) = <<Doubles(1), Doubles(1), String(c.object), UByte(Len(c.value))>> \o c.value
           /\ c.kind = "context" =>
                /\ Request(c) = SubscribeObjectContext(c.command, c.object, Domain.VEHICLE, c.value)
                /\ Body(c) = <<Doubles(1), Doubles(1), String(c.object), UByte(Domain.VEHICLE), Doubles(1),
                               UByte(Len(c.value))>> \o c.value
           /\ c.kind = "step" => Request(c) = SimulationStepCommand /\ Body(c) = <<Doubles(1)>>
           /\ c.kind = "order" => Request(c) = SetOrderCommand /\ Body(c) = <<I32(0)>>
           /\ c.kind = "load" =>
                /\ Request(c) = LoadCommand(2, 3)
                /\ Body(c) = <<UByte(TYPE_STRINGLIST), I32(2)>> \o Copies(2, <<String(3)>>)
           /\ c.kind = "version" => Request(c) = GetVersionCommand /\ Body(c) = <<>>
           /\ c.kind = "close" => Request(c) = CloseCommand /\ Body(c) = <<>>
  BY Zenon DEF Request, Body

\* The values of the calls are tokens, and their variables bytes.
LEMMA GetOrSetParts ==
    ASSUME NEW c, IsUntyped(c) \/ IsConversion(c) \/ IsDistance(c) \/ IsUsual(c)
    PROVE  /\ c.kind = "get" \/ c.kind = "set"
           /\ c.kind = "get" => c.command \in NumbersOf(CMD_GET)
           /\ c.kind = "set" => c.command \in NumbersOf(CMD_SET)
           /\ c.command \in 0..255
           /\ c.variable \in 0..255
           /\ c.value \in Seq(Tokens)
<1>1. \A v \in Values : v \in Seq(Tokens)
  BY DEF Values
<1>2. \A d \in DOMAIN Domain : CMD_GET + Domain[d] \in NumbersOf(CMD_GET) /\ CMD_SET + Domain[d] \in NumbersOf(CMD_SET)
  BY DEF NumbersOf
<1>3. "EDGE" \in DOMAIN Domain /\ "SIM" \in DOMAIN Domain
  BY DomainNumbers
<1>4. \A n : n \in NumbersOf(CMD_GET) \/ n \in NumbersOf(CMD_SET) => n \in 0..255
  BY CommandNumbers
<1>5. CASE IsUntyped(c)
  BY ManyDoubles, <1>2, <1>3, <1>5, <1>4 DEF IsUntyped
<1>6. CASE IsConversion(c)
  BY <1>1, <1>2, <1>3, <1>6, <1>4 DEF IsConversion
<1>7. CASE IsDistance(c)
  BY <1>2, <1>3, <1>7, <1>4 DEF IsDistance, Takes
<1>8. ASSUME NEW d \in DOMAIN Domain, IsQuestion(c, d)
      PROVE  c.kind = "get" /\ c.command \in NumbersOf(CMD_GET) /\ c.variable \in 0..255 /\ c.value \in Seq(Tokens)
  <2>1. <<>> \in Seq(Tokens)
    OBVIOUS
  <2> QED
    BY <1>1, <1>2, <1>8, <2>1, Zenon DEF IsQuestion
<1>9. ASSUME NEW d \in DOMAIN Domain, IsSetting(c, d)
      PROVE  c.kind = "set" /\ c.command \in NumbersOf(CMD_SET) /\ c.variable \in 0..255 /\ c.value \in Seq(Tokens)
  BY <1>2, <1>9 DEF IsSetting
<1>10. CASE IsUsual(c)
  BY <1>10, <1>4, <1>8, <1>9 DEF IsUsual
<1> QED
  BY <1>5, <1>6, <1>7, <1>10, SMTT(30)

\* What a subscription asks for takes a byte each.
LEMMA SubscribedValue ==
    ASSUME NEW c, IsSubscription(c) \/ IsContext(c)
    PROVE  /\ c.value \in Seq(Tokens)
           /\ SizeOf(c.value) = Len(c.value)
           /\ c.value = <<>> \/ \E v : c.value = <<UByte(v)>>
           /\ IsContext(c) => \E v : c.value = <<UByte(v)>>
<1>1. c.value = <<>> \/ \E v \in SubscribedVariables : c.value = <<UByte(v)>>
  BY DEF IsSubscription, IsContext
<1>2. CASE c.value = <<>>
  BY SizeAppend, <1>2 DEF IsContext
<1>3. CASE \E v \in SubscribedVariables : c.value = <<UByte(v)>>
  BY <1>3, SubscribedAssumption, Bytes, SizeFacts
<1> QED
  BY <1>1, <1>2, <1>3

\* What a subscription asks for is about one domain.
LEMMA SubscribedCommand ==
    ASSUME NEW c
    PROVE  /\ IsSubscription(c) => c.command \in NumbersOf(CMD_SUBSCRIBE) /\ c.command \in 208..222
           /\ IsContext(c) => c.command \in NumbersOf(CMD_SUBSCRIBE_CONTEXT) /\ c.command \in 128..142
<1>1. \A d \in SubscribedDomains : /\ CMD_SUBSCRIBE + Domain[d] \in NumbersOf(CMD_SUBSCRIBE)
                                   /\ CMD_SUBSCRIBE_CONTEXT + Domain[d] \in NumbersOf(CMD_SUBSCRIBE_CONTEXT)
  BY SubscribedAssumption DEF NumbersOf
<1>2. IsSubscription(c) => c.command \in NumbersOf(CMD_SUBSCRIBE)
  BY <1>1 DEF IsSubscription
<1>3. IsContext(c) => c.command \in NumbersOf(CMD_SUBSCRIBE_CONTEXT)
  BY <1>1 DEF IsContext
<1> QED
  BY <1>2, <1>3, CommandNumbers

\* Every request has the length it says it has.
LEMMA RequestFramed ==
    ASSUME NEW c, Legal(c)
    PROVE  c.command \in 0..255 /\ Framed(Request(c), c.command, Body(c))
<1> USE DEF Legal
<1>1. CASE IsUntyped(c) \/ IsConversion(c) \/ IsDistance(c) \/ IsUsual(c)
  BY <1>1, GetOrSetParts, VariableRequest, CommandFramed, Zenon
<1>2. CASE IsSubscription(c)
  <2>1. c.kind = "subscribe" /\ c.command \in 0..255
    <3>1. c.command \in 208..222
      BY <1>2, SubscribedCommand
    <3>2. c.kind = "subscribe"
      BY <1>2 DEF IsSubscription
    <3> QED
      BY <3>1, <3>2
  <2>2. c.value \in Seq(Tokens) /\ SizeOf(c.value) = Len(c.value)
    BY <1>2, SubscribedValue
  <2>3. Framed(SubscribeObjectVariable(c.command, c.object, c.value), c.command,
               <<Doubles(1), Doubles(1), String(c.object), UByte(Len(c.value))>> \o c.value)
    BY <2>1, <2>2, SubscribeFramed, Zenon
  <2> QED
    BY <2>1, <2>3, OtherRequests, Zenon
<1>3. CASE IsContext(c)
  <2>1. c.kind = "context" /\ c.command \in 0..255
    BY <1>3, SubscribedCommand DEF IsContext
  <2>2. c.value \in Seq(Tokens) /\ SizeOf(c.value) = Len(c.value)
    BY <1>3, SubscribedValue
  <2>3. Framed(SubscribeObjectContext(c.command, c.object, Domain.VEHICLE, c.value), c.command,
               <<Doubles(1), Doubles(1), String(c.object), UByte(Domain.VEHICLE), Doubles(1), UByte(Len(c.value))>>
               \o c.value)
    BY <2>1, <2>2, ContextFramed, Zenon
  <2> QED
    BY <2>1, <2>3, OtherRequests, Zenon
<1>4. CASE IsSession(c)
  <2>1. c.command \in 0..255
    BY <1>4 DEF IsSession, CMD_SETORDER, CMD_LOAD, CMD_GETVERSION, CMD_CLOSE, CMD_SIMSTEP
  <2>2. CASE c.kind = "step" /\ c.command = CMD_SIMSTEP
    BY <2>1, <2>2, OtherRequests, SessionFramed, Zenon
  <2>3. CASE c.kind = "order" /\ c.command = CMD_SETORDER
    BY <2>1, <2>3, OtherRequests, SessionFramed, Zenon
  <2>4. CASE c.kind = "load" /\ c.command = CMD_LOAD
    BY <2>1, <2>4, OtherRequests, SessionFramed, Zenon
  <2>5. CASE c.kind = "version" /\ c.command = CMD_GETVERSION
    BY <2>1, <2>5, OtherRequests, SessionFramed, Zenon
  <2>6. CASE c.kind = "close" /\ c.command = CMD_CLOSE
    BY <2>1, <2>6, OtherRequests, SessionFramed, Zenon
  <2> QED
    BY <1>4, <2>2, <2>3, <2>4, <2>5, <2>6 DEF IsSession
<1> QED
  BY <1>1, <1>2, <1>3, <1>4

\* The one request that cannot be read has the number and the variable of EdgeScope::setMaxSpeed;
\* no other has both.
LEMMA UntypedIsOne ==
    ASSUME NEW c, Legal(c)
    PROVE  <<c.command, c.variable>> = <<UntypedSetMaxSpeed.command, UntypedSetMaxSpeed.variable>> <=> IsUntyped(c)
<1>1. UntypedSetMaxSpeed.command = 202 /\ UntypedSetMaxSpeed.variable = 65
  BY UntypedIs, DomainNumbers DEF IsUntyped, CMD_SET
<1>2. IsUntyped(c) => c.command = 202 /\ c.variable = 65
  BY DomainNumbers DEF IsUntyped, CMD_SET
<1>3. ASSUME c.command = 202, c.variable = 65 PROVE IsUntyped(c)
  <2>1. \A d \in DOMAIN Domain : CMD_GET + Domain[d] \in 160..174
    BY CommandNumbers DEF NumbersOf
  <2>2. ~IsConversion(c) /\ ~IsDistance(c)
    BY <1>3 DEF IsConversion, IsDistance
  <2>3. ~IsSubscription(c) /\ ~IsContext(c) /\ ~IsSession(c)
    BY <1>3 DEF IsSubscription, IsContext, IsSession
  <2>4. ~IsUsual(c)
    <3>1. SUFFICES ASSUME NEW d \in DOMAIN Domain, IsQuestion(c, d) \/ IsSetting(c, d) PROVE FALSE
      BY DEF IsUsual
    <3>2. ~IsQuestion(c, d)
      BY <1>3, <2>1 DEF IsQuestion
    <3>3. IsSetting(c, d)
      BY <3>1, <3>2
    <3>4. CMD_SET + Domain[d] = 202 /\ d # "EDGE"
      BY <1>3, <3>3 DEF IsSetting
    <3>5. "EDGE" \in DOMAIN Domain /\ Domain["EDGE"] = 10 /\ Domain[d] \in Int /\ CMD_SET = 192
      BY DomainNumbers DEF CMD_SET
    <3>6. Domain[d] = Domain["EDGE"]
      BY <3>4, <3>5
    <3> QED
      BY <3>4, <3>5, <3>6, DomainIsOne
  <2> QED
    BY <2>2, <2>3, <2>4 DEF Legal
<1>4. <<c.command, c.variable>> = <<UntypedSetMaxSpeed.command, UntypedSetMaxSpeed.variable>>
      <=> c.command = 202 /\ c.variable = 65
  BY <1>1
<1> QED
  BY <1>2, <1>3, <1>4

\* What can be written can be written in its parts.
LEMMA WritableRest ==
    ASSUME NEW tokens, NEW command, NEW rest, Framed(tokens, command, rest), Writable(tokens)
    PROVE  Writable(rest)
<1>1. /\ tokens \in Seq(Tokens) /\ rest \in Seq(Tokens)
      /\ CommandAt(tokens) \in {2, 3}
      /\ Len(tokens) = CommandAt(tokens) + Len(rest)
      /\ \A i \in 1..Len(rest) : tokens[CommandAt(tokens) + i] = rest[i]
  BY DEF Framed
<1>2. ASSUME NEW i \in 1..Len(rest) PROVE rest[i].v # Throws
  BY <1>1 DEF Writable
<1> QED
  BY <1>1, <1>2 DEF Writable

\* The value of a get or a set that can be written can be written.
LEMMA WritableValue ==
    ASSUME NEW c, IsUntyped(c) \/ IsConversion(c) \/ IsDistance(c) \/ IsUsual(c), c.object \in Nat,
           Writable(Request(c))
    PROVE  Writable(c.value)
<1>1. (c.kind = "get" \/ c.kind = "set") /\ c.command \in 0..255 /\ c.value \in Seq(Tokens)
  BY GetOrSetParts
<1>2. Framed(Request(c), c.command, Body(c))
  BY RequestFramed DEF Legal
<1>3. Writable(Body(c))
  BY <1>2, WritableRest
<1>4. Writable(<<UByte(c.variable), String(c.object)>> \o c.value)
  BY <1>1, <1>3, VariableRequest, Zenon
<1>5. UByte(c.variable) \in Tokens /\ String(c.object) \in Tokens
  BY Bytes, Strings
<1>6. <<UByte(c.variable), String(c.object)>> \in Seq(Tokens)
  BY <1>5, Pairs
<1> QED
  BY <1>1, <1>4, <1>6, WritableParts, Zenon

\* SUMO can read every request but that of EdgeScope::setMaxSpeed.
LEMMA GetOrSetUnderstood ==
    ASSUME NEW c, IsConversion(c) \/ IsDistance(c) \/ IsUsual(c), c.object \in Nat, Writable(Request(c))
    PROVE  Understood(Request(c))
<1>1. /\ c.command \in 0..255 /\ c.variable \in 0..255 /\ c.value \in Seq(Tokens)
      /\ c.command \in NumbersOf(CMD_GET) \/ c.command \in NumbersOf(CMD_SET)
      /\ c.kind = "get" \/ c.kind = "set"
  BY GetOrSetParts
<1>2. Request(c) = CreateCommand(c.command, c.variable, c.object, c.value)
  BY <1>1, VariableRequest, Zenon
<1>3. "SIM" \in DOMAIN Domain /\ Domain["SIM"] = 11 /\ CMD_GET = 160
  BY DomainNumbers DEF CMD_GET
<1>4. \A d \in DOMAIN Domain : Domain[d] \in Nat /\ CMD_SET + Domain[d] \in 192..206
  BY CommandNumbers, DomainNumbers DEF NumbersOf
<1>5. CASE IsConversion(c)
  <2>1. ~(c.command = 171 /\ c.variable = 131) /\ c.value \in Values
    BY <1>5 DEF IsConversion
  <2>2. Understood(CreateCommand(c.command, c.variable, c.object, c.value))
    BY <1>1, <2>1, VariableUnderstood, Zenon
  <2> QED
    BY <1>2, <2>2
<1>6. CASE IsDistance(c)
  <2>1. c.command = 171 /\ c.variable = 131 /\ Takes(DistanceWants, c.value)
    BY <1>3, <1>6 DEF IsDistance
  <2>3. /\ c.value # <<>> /\ c.command = 171 /\ c.variable = 131 => Takes(DistanceWants, c.value)
        /\ c.value # <<>> /\ ~(c.command = 171 /\ c.variable = 131) => c.value \in Values
    BY <2>1
  <2>2. Understood(CreateCommand(c.command, c.variable, c.object, c.value))
    BY <1>1, <2>3, VariableUnderstood, Zenon
  <2> QED
    BY <1>2, <2>2
<1>7. ASSUME NEW d \in DOMAIN Domain, IsQuestion(c, d)
      PROVE  Understood(Request(c))
  <2>1. c.command = 160 + Domain[d] /\ (d = "SIM" => c.variable \notin {130, 131})
    BY <1>3, <1>7 DEF IsQuestion
  <2>2. ~(c.command = 171 /\ c.variable = 131)
    <3>1. SUFFICES ASSUME c.command = 171, c.variable = 131 PROVE FALSE
      OBVIOUS
    <3>2. Domain[d] = Domain["SIM"]
      BY <1>3, <1>4, <2>1, <3>1
    <3> QED
      BY <1>3, <2>1, <3>1, <3>2, DomainIsOne
  <2>3. c.value # <<>> => c.value \in Values
    BY <1>7 DEF IsQuestion
  <2> QED
    BY <1>1, <1>2, <2>2, <2>3, VariableUnderstood, Zenon
<1>8. ASSUME NEW d \in DOMAIN Domain, IsSetting(c, d)
      PROVE  Understood(Request(c))
  <2>1. Writable(c.value)
    BY WritableValue
  <2>2. c.value \in Values
    BY <1>8, <2>1 DEF IsSetting
  <2>3. c.command # 171
    BY <1>4, <1>8 DEF IsSetting
  <2> QED
    BY <1>1, <1>2, <2>2, <2>3, VariableUnderstood, Zenon
<1> QED
  BY <1>5, <1>6, <1>7, <1>8 DEF IsUsual

\* The list of strings of the command to load.
LEMMA LoadValue ==
    Takes(<<Want("value")>>, <<UByte(TYPE_STRINGLIST), I32(2)>> \o Copies(2, <<String(3)>>))
<1>1. Takes(<<Want("string")>>, <<String(3)>>)
  BY TakesOne, Zenon
<1>2. PICK n \in Nat : n = 2
  OBVIOUS
<1>3. Takes(Copies(n, <<Want("string")>>), Copies(n, <<String(3)>>))
  BY <1>1, TakesCopies
<1>4. "strings" \in DOMAIN RowOf /\ RowOf["strings"] = <<Want("string")>>
  BY RowNames DEF RowOf
<1>5. Takes(<<Want("strings")>>, <<I32(n)>> \o Copies(n, <<String(3)>>))
  BY <1>3, <1>4, TakesRows
<1>6. TYPE_STRINGLIST \in 0..255 /\ Value(TYPE_STRINGLIST) = <<Want("strings")>>
  BY TypesAreBytes, ValueOf
<1>7. Takes(<<Want("value")>>, <<UByte(TYPE_STRINGLIST)>> \o (<<I32(n)>> \o Copies(n, <<String(3)>>)))
  BY <1>5, <1>6, TakesValue, Zenon
<1>8. UByte(TYPE_STRINGLIST) \in Tokens /\ I32(n) \in Tokens /\ String(3) \in Tokens
  BY Bytes, Ints, Strings
<1>9. <<UByte(TYPE_STRINGLIST)>> \in Seq(Tokens) /\ <<I32(n)>> \in Seq(Tokens) /\ Copies(n, <<String(3)>>) \in Seq(Tokens)
  BY <1>8, SingleWants, CopiesOf
<1>10. <<UByte(TYPE_STRINGLIST)>> \o (<<I32(n)>> \o Copies(n, <<String(3)>>))
         = (<<UByte(TYPE_STRINGLIST)>> \o <<I32(n)>>) \o Copies(n, <<String(3)>>)
  BY <1>9, ConcatAssociative
<1>11. <<UByte(TYPE_STRINGLIST)>> \o <<I32(n)>> = <<UByte(TYPE_STRINGLIST), I32(n)>>
  BY <1>8, Pairs
<1> QED
  BY <1>2, <1>7, <1>10, <1>11, Zenon

\* Whatever the client calls, SUMO can read its request, but that of EdgeScope::setMaxSpeed.
LEMMA RequestUnderstood ==
    ASSUME NEW c, Legal(c), Writable(Request(c))
    PROVE  Understood(Request(c)) <=> ~IsUntyped(c)
<1>1. Framed(Request(c), c.command, Body(c)) /\ c.object \in Nat
  BY RequestFramed DEF Legal
<1>2. ASSUME Takes(Wanted(Request(c)), Body(c)), c.kind \notin {"get", "set"}
      PROVE  Understood(Request(c)) <=> ~IsUntyped(c)
  BY <1>1, <1>2, UnderstoodIf DEF IsUntyped
<1>3. CASE IsUntyped(c)
  <2>1. c.kind = "set" /\ c.command = 202 /\ c.variable = 65 /\ c.value = <<Doubles(1)>>
    BY <1>3, DomainNumbers DEF IsUntyped, CMD_SET
  <2>2. Request(c) = CreateCommand(202, 65, c.object, <<Doubles(1)>>)
    <3>1. Request(c) = CreateCommand(c.command, c.variable, c.object, c.value)
      BY <2>1, VariableRequest, Zenon
    <3> QED
      BY <2>1, <3>1
  <2> QED
    BY <1>1, <1>3, <2>2, UntypedNotUnderstood
<1>4. CASE ~IsUntyped(c) /\ (IsConversion(c) \/ IsDistance(c) \/ IsUsual(c))
  BY <1>1, <1>4, GetOrSetUnderstood
<1>5. CASE IsSubscription(c)
  <2>1. c.kind = "subscribe" /\ c.command \in NumbersOf(CMD_SUBSCRIBE)
    BY <1>5, SubscribedCommand DEF IsSubscription
  <2>2. Wanted(Request(c)) = SubscribeWants
    BY <1>1, <2>1, WantedOther
  <2>3. Takes(SubscribeWants, <<Doubles(1), Doubles(1), String(c.object), UByte(Len(c.value))>> \o c.value)
    BY <1>1, <1>5, SubscribedValue, TakesSubscription, Zenon
  <2>4. Body(c) = <<Doubles(1), Doubles(1), String(c.object), UByte(Len(c.value))>> \o c.value
    BY <2>1, OtherRequests, Zenon
  <2> QED
    BY <1>2, <2>1, <2>2, <2>3, <2>4
<1>6. CASE IsContext(c)
  <2>1. c.kind = "context" /\ c.command \in NumbersOf(CMD_SUBSCRIBE_CONTEXT)
    BY <1>6, SubscribedCommand DEF IsContext
  <2>2. Wanted(Request(c)) = ContextWants
    BY <1>1, <2>1, WantedOther
  <2>3. Takes(ContextWants,
              <<Doubles(1), Doubles(1), String(c.object), UByte(Domain.VEHICLE), Doubles(1), UByte(Len(c.value))>>
              \o c.value)
    BY <1>1, <1>6, SubscribedValue, TakesContext, Zenon
  <2>4. Body(c) = <<Doubles(1), Doubles(1), String(c.object), UByte(Domain.VEHICLE), Doubles(1), UByte(Len(c.value))>>
                  \o c.value
    BY <2>1, OtherRequests, Zenon
  <2> QED
    BY <1>2, <2>1, <2>2, <2>3, <2>4
<1>7. CASE IsSession(c)
  <2>1. CASE c.kind = "step" /\ c.command = CMD_SIMSTEP
    BY <1>1, <2>1, WantedOther, OtherRequests, TakesDouble, <1>2, Zenon DEF StepWants
  <2>2. CASE c.kind = "order" /\ c.command = CMD_SETORDER
    <3>1. Wanted(Request(c)) = OrderWants /\ Body(c) = <<I32(0)>>
      BY <1>1, <2>2, WantedOther, OtherRequests, Zenon
    <3>2. Takes(OrderWants, <<I32(0)>>)
      <4>1. PICK n \in Int : n = 0
        OBVIOUS
      <4>2. Takes(<<Want("int")>>, <<I32(n)>>)
        BY TakesOne, Zenon
      <4> QED
        BY <4>1, <4>2 DEF OrderWants
    <3> QED
      BY <1>2, <2>2, <3>1, <3>2
  <2>3. CASE c.kind = "load" /\ c.command = CMD_LOAD
    BY <1>1, <2>3, WantedOther, OtherRequests, LoadValue, <1>2, Zenon DEF ValueWants
  <2>4. CASE c.kind \in {"version", "close"} /\ c.command \in {CMD_GETVERSION, CMD_CLOSE}
    BY <1>1, <2>4, WantedOther, OtherRequests, <1>2, TakesNothing, Zenon
  <2> QED
    BY <1>7, <2>1, <2>2, <2>3, <2>4 DEF IsSession
<1> QED
  BY <1>3, <1>4, <1>5, <1>6, <1>7 DEF Legal

-----------------------------------------------------------------------------
(* The calls that are sent.                                                *)

\* A setter of a scope without a command for setting cannot be written.
LEMMA UnsetIsNotWritten ==
    ASSUME NEW c, IsUnset(c), c.object \in Nat
    PROVE  ~Writable(Request(c))
<1>1. c.kind = "set" /\ c.command = -1 /\ c.value \in Seq(Tokens)
  BY DEF IsUnset, Values
<1>2. Request(c) = CreateCommand(c.command, c.variable, c.object, c.value)
  BY <1>1, VariableRequest, Zenon
<1>3. PICK length : length = 1 + 1 + 1 + 4 + c.object + SizeOf(c.value)
  OBVIOUS
<1>4. length \in Int
  BY <1>1, <1>3, SizeFacts
<1>5. PICK head : head = IF length <= 255 THEN <<UByte(length)>> ELSE <<UByte(0), I32(length + 4)>>
  BY Zenon
<1>6. head \in Seq(Tokens)
  BY <1>4, Bytes, Ints, Pairs, <1>5
<1>7. PICK middle : middle = <<UByte(c.command), UByte(c.variable), String(c.object)>>
  BY Zenon
<1>8. middle \in Seq(Tokens)
  BY Bytes, Strings, <1>7, Triples, Zenon
<1>9. Request(c) = (head \o middle) \o c.value
  BY <1>2, <1>3, <1>5, <1>7 DEF CreateCommand
<1>10. ~Writable(middle)
  BY <1>7, <1>1 DEF UByte, Writable
<1>11. head \o middle \in Seq(Tokens)
  BY <1>6, <1>8, ConcatProperties
<1>12. ~Writable(head \o middle)
  BY <1>6, <1>8, <1>10, WritableParts
<1> QED
  BY <1>1, <1>9, <1>11, <1>12, WritableParts, Zenon

\* A call that names an object names one that there is.
LEMMA ObjectsNamed ==
    ASSUME NEW c, c.kind \in {"get", "set", "subscribe", "context"}, NEW id \in IdsFor(c)
    PROVE  id \in Nat
  BY IdsAssumption DEF IdsFor

\* Which adds nothing but its name.
LEMMA AskingFields ==
    ASSUME NEW c, NEW id
    PROVE  /\ Asking(c, id).kind = c.kind
           /\ Asking(c, id).command = c.command
           /\ Asking(c, id).variable = c.variable
           /\ Asking(c, id).value = c.value
           /\ Asking(c, id).expects = c.expects
           /\ Asking(c, id).reads = c.reads
           /\ Asking(c, id).object = id
  BY DEF Asking

\* What is said of a call without its object holds with it.
LEMMA AskingTheSame ==
    ASSUME NEW c, NEW id
    PROVE  /\ IsUnset(c) => IsUnset(Asking(c, id))
           /\ IsUntyped(c) => IsUntyped(Asking(c, id))
           /\ IsConversion(c) => IsConversion(Asking(c, id))
           /\ IsDistance(c) => IsDistance(Asking(c, id))
           /\ IsUsual(c) => IsUsual(Asking(c, id))
           /\ IsSubscription(c) => IsSubscription(Asking(c, id))
           /\ IsContext(c) => IsContext(Asking(c, id))
           /\ IsSession(c) => IsSession(Asking(c, id))
<1>1. PICK a : a = Asking(c, id)
  OBVIOUS
<1>2. /\ a.kind = c.kind
      /\ a.command = c.command
      /\ a.variable = c.variable
      /\ a.value = c.value
      /\ a.expects = c.expects
      /\ a.reads = c.reads
  BY <1>1, AskingFields
<1>3. IsUnset(c) => IsUnset(a)
  BY <1>2 DEF IsUnset
<1>4. IsUntyped(c) => IsUntyped(a)
  BY <1>2 DEF IsUntyped
<1>5. IsConversion(c) => IsConversion(a)
  BY <1>2 DEF IsConversion
<1>6. IsDistance(c) => IsDistance(a)
  BY <1>2 DEF IsDistance
<1>7. ASSUME NEW d, IsQuestion(c, d) PROVE IsQuestion(a, d)
  BY <1>2, <1>7 DEF IsQuestion
<1>8. ASSUME NEW d, IsSetting(c, d) PROVE IsSetting(a, d)
  BY <1>2, <1>8 DEF IsSetting
<1>9. IsUsual(c) => IsUsual(a)
  BY <1>7, <1>8 DEF IsUsual
<1>10. IsSubscription(c) => IsSubscription(a)
  BY <1>2 DEF IsSubscription
<1>11. IsContext(c) => IsContext(a)
  BY <1>2 DEF IsContext
<1>12. IsSession(c) => IsSession(a)
  BY <1>2 DEF IsSession
<1> QED
  BY <1>1, <1>3, <1>4, <1>5, <1>6, <1>9, <1>10, <1>11, <1>12

\* The fields of a session's command.
LEMMA SessionFields ==
    ASSUME NEW kind, NEW command
    PROVE  /\ Session(kind, command).kind = kind
           /\ Session(kind, command).command = command
           /\ Session(kind, command).variable = 0
           /\ Session(kind, command).value = <<>>
           /\ \A value : /\ [Session(kind, command) EXCEPT !.value = value].kind = kind
                         /\ [Session(kind, command) EXCEPT !.value = value].command = command
                         /\ [Session(kind, command) EXCEPT !.value = value].variable = 0
                         /\ [Session(kind, command) EXCEPT !.value = value].value = value
  BY DEF Session

\* What is called is legal, if it can be written.
LEMMA CallsAreLegal ==
    ASSUME NEW c, NEW id, Writable(Request(Asking(c, id))),
           \/ c \in GetsAndSets /\ id \in IdsFor(c)
           \/ c \in SubscribeCalls \cup ContextCalls /\ id \in IdsFor(c)
           \/ c \in SessionCalls \cup {StepCall} /\ id = 0
    PROVE  Legal(Asking(c, id))
<1>1. Asking(c, id).object = id
  BY AskingFields
<1>2. CASE c \in GetsAndSets /\ id \in IdsFor(c)
  BY <1>2, EveryCall, GetOrSetParts, ObjectsNamed, <1>1, UnsetIsNotWritten, AskingTheSame DEF IsUnset, Legal
<1>3. CASE c \in SubscribeCalls /\ id \in IdsFor(c)
  <2>1. PICK d \in SubscribedDomains, variables \in {<<>>} \cup {<<UByte(v)>> : v \in SubscribedVariables} :
          c = [Session("subscribe", CMD_SUBSCRIBE + Domain[d]) EXCEPT !.value = variables]
    BY <1>3 DEF SubscribeCalls
  <2>2. c.kind = "subscribe" /\ c.command = CMD_SUBSCRIBE + Domain[d] /\ c.variable = 0 /\ c.value = variables
    BY <2>1, SessionFields
  <2>3. IsSubscription(c)
    BY <2>2 DEF IsSubscription
  <2>4. id \in Nat
    BY <1>3, <2>2, ObjectsNamed
  <2> QED
    BY <1>1, <2>3, <2>4, AskingTheSame DEF Legal
<1>4. CASE c \in ContextCalls /\ id \in IdsFor(c)
  <2>1. PICK d \in SubscribedDomains, v \in SubscribedVariables :
          c = [Session("context", CMD_SUBSCRIBE_CONTEXT + Domain[d]) EXCEPT !.value = <<UByte(v)>>]
    BY <1>4 DEF ContextCalls
  <2>2. c.kind = "context" /\ c.command = CMD_SUBSCRIBE_CONTEXT + Domain[d] /\ c.variable = 0
        /\ c.value = <<UByte(v)>>
    BY <2>1, SessionFields
  <2>3. IsContext(c)
    BY <2>2 DEF IsContext
  <2>4. id \in Nat
    BY <1>4, <2>2, ObjectsNamed
  <2> QED
    BY <1>1, <2>3, <2>4, AskingTheSame DEF Legal
<1>5. CASE c \in SessionCalls \cup {StepCall} /\ id = 0
  BY <1>5, SessionFields, <1>1, AskingTheSame DEF IsSession, SessionCalls, StepCall, Legal
<1> QED
  BY <1>2, <1>3, <1>4, <1>5

-----------------------------------------------------------------------------
(* Answers that are rows of typed values.                                  *)

\* It is two items.
LEMMA TypedItems ==
    ASSUME NEW kind \in Kinds
    PROVE  TypedItem(kind) \in Seq(Items)
  BY Wants, NumberedItems DEF Kinds, TypedItem

\* A row has what its last value has at the end.
LEMMA TypedFacts ==
    /\ Typed(<<>>) = <<>>
    /\ \A kinds \in Seq(Kinds), kind \in Kinds : Typed(Append(kinds, kind)) = Typed(kinds) \o TypedItem(kind)
<1>1. PICK W : W = Seq(Items)
  OBVIOUS
<1>2. \A kind \in Kinds : TypedItem(kind) \in W
  BY <1>1, TypedItems
<1>3. ASSUME NEW kinds \in Seq(Kinds)
      PROVE  Typed(kinds) = FlattenSeq([i \in 1..Len(kinds) |-> TypedItem(kinds[i])])
  <2>1. DOMAIN kinds = 1..Len(kinds)
    OBVIOUS
  <2> QED
    BY <2>1 DEF Typed, TypedItem
<1>4. ASSUME NEW kinds \in Seq(Kinds)
      PROVE  /\ [i \in 1..Len(kinds) |-> TypedItem(kinds[i])] \in Seq(W)
             /\ Len([i \in 1..Len(kinds) |-> TypedItem(kinds[i])]) = Len(kinds)
  BY <1>2
<1>5. Typed(<<>>) = <<>>
  <2>1. PICK none \in Seq(Kinds) : none = <<>>
    BY EmptySeq, Zenon
  <2>2. PICK c : c = [i \in 1..Len(none) |-> TypedItem(none[i])]
    BY Zenon
  <2>3. c \in Seq(W) /\ Len(c) = 0
    BY <1>4, <2>1, <2>2
  <2>4. c = <<>>
    BY <2>3, EmptySeq
  <2> QED
    BY <1>3, <2>1, <2>2, <2>4, FlattenFacts, Zenon
<1>6. ASSUME NEW kinds \in Seq(Kinds), NEW kind \in Kinds
      PROVE  Typed(Append(kinds, kind)) = Typed(kinds) \o TypedItem(kind)
  <2>1. PICK c : c = [i \in 1..Len(kinds) |-> TypedItem(kinds[i])]
    BY Zenon
  <2>2. PICK longer : longer = Append(kinds, kind)
    BY Zenon
  <2>3. longer \in Seq(Kinds) /\ Len(longer) = Len(kinds) + 1 /\ longer[Len(kinds) + 1] = kind
        /\ \A i \in 1..Len(kinds) : longer[i] = kinds[i]
    BY <2>2, AppendProperties
  <2>4. PICK d : d = [i \in 1..Len(longer) |-> TypedItem(longer[i])]
    BY Zenon
  <2>5. PICK w : w = TypedItem(kind)
    OBVIOUS
  <2>6. c \in Seq(W) /\ d \in Seq(W) /\ Len(c) = Len(kinds) /\ Len(d) = Len(kinds) + 1 /\ w \in W
    BY <1>2, <1>4, <2>1, <2>3, <2>4, <2>5
  <2>7. Append(c, w) \in Seq(W) /\ Len(Append(c, w)) = Len(kinds) + 1
        /\ \A i \in 1..(Len(kinds) + 1) : Append(c, w)[i] = d[i]
    BY <2>1, <2>3, <2>4, <2>5, <2>6
  <2>8. d = Append(c, w)
    BY <2>6, <2>7, SeqEqual
  <2>9. FlattenSeq(d) = FlattenSeq(c) \o w
    BY <1>1, <2>6, <2>8, FlattenFacts
  <2> QED
    BY <1>3, <2>1, <2>2, <2>3, <2>4, <2>5, <2>9, Zenon
<1> QED
  BY <1>5, <1>6

\* At first none of the values are read.
LEMMA UpToNone ==
    ASSUME NEW kinds
    PROVE  UpTo(kinds, 0, <<>>)
<1>1. PICK none \in Seq(Kinds) : none = <<>> /\ Len(none) = 0
  BY EmptySeq, Zenon
<1>2. Takes(Typed(none), <<>>)
  BY <1>1, TypedFacts, TakesNothing
<1>3. \A i \in 1..0 : none[i] = kinds[i]
  OBVIOUS
<1> QED
  BY <1>1, <1>2, <1>3, Zenon DEF UpTo

\* And then one more of the values is.
LEMMA UpToNext ==
    ASSUME NEW kinds \in Seq(Kinds), NEW n \in Nat, NEW m, m = n + 1, m <= Len(kinds),
           NEW s, UpTo(kinds, n, s), NEW t, Takes(TypedItem(kinds[m]), t)
    PROVE  UpTo(kinds, m, s \o t)
<1>1. PICK front \in Seq(Kinds) : /\ Len(front) = n
                                  /\ \A i \in 1..n : front[i] = kinds[i]
                                  /\ Takes(Typed(front), s)
  BY DEF UpTo
<1>2. m \in 1..Len(kinds)
  OBVIOUS
<1>3. PICK kind \in Kinds : kind = kinds[m]
  BY <1>2
<1>4. PICK longer : longer = Append(front, kind)
  BY Zenon
<1>5. longer \in Seq(Kinds) /\ Len(longer) = m /\ longer[m] = kind /\ \A i \in 1..n : longer[i] = front[i]
  BY <1>1, <1>4, AppendProperties
<1>6. \A i \in 1..m : longer[i] = kinds[i]
  BY <1>3, <1>5, <1>1
<1>7. Typed(longer) = Typed(front) \o TypedItem(kind)
  BY <1>4, TypedFacts, Zenon
<1>8. Takes(Typed(longer), s \o t)
  BY <1>1, <1>3, <1>7, TakesConcat
<1> QED
  BY <1>5, <1>6, <1>8, Zenon DEF UpTo

\* At last all of the values are.
LEMMA UpToAll ==
    ASSUME NEW kinds \in Seq(Kinds), NEW n, n = Len(kinds), NEW s, UpTo(kinds, n, s)
    PROVE  Takes(Typed(kinds), s)
  BY SeqEqual DEF UpTo

\* The first value is read by what the first kind wants.
LEMMA UpToFirst ==
    ASSUME NEW kinds \in Seq(Kinds), NEW n, n = 1, n <= Len(kinds), NEW t, Takes(TypedItem(kinds[n]), t)
    PROVE  UpTo(kinds, n, t)
<1>1. UpTo(kinds, 0, <<>>)
  BY UpToNone
<1>2. PICK z \in Nat : z = 0
  OBVIOUS
<1>3. UpTo(kinds, z, <<>>) /\ n = z + 1
  BY <1>1, <1>2
<1>4. UpTo(kinds, n, <<>> \o t)
  BY <1>3, UpToNext, Zenon
<1>5. t \in Seq(Tokens)
  BY DEF Takes
<1> QED
  BY <1>4, <1>5, ConcatEmptySeq

\* Typed values of one token.
LEMMA TypedTokens ==
    /\ Takes(TypedItem("string"), AString)
    /\ Takes(TypedItem("double"), ADouble)
    /\ Takes(TypedItem("int"), AnInt)
    /\ \A n \in Int : Takes(TypedItem("int"), AnIntOf(n))
    /\ \A n : Takes(TypedItem("byte"), AByte(n)) /\ Takes(TypedItem("byte"), AUByte(n))
<1>1. ASSUME NEW item \in Items, NEW token \in Tokens, Takes(<<item>>, <<token>>), NEW type
      PROVE  Takes(<<Want("byte"), item>>, <<UByte(type), token>>)
  <2>1. Takes(<<Want("byte")>>, <<UByte(type)>>)
    BY TakesOne, Zenon
  <2>2. Takes(<<Want("byte")>> \o <<item>>, <<UByte(type)>> \o <<token>>)
    BY <1>1, <2>1, TakesConcat
  <2>3. Want("byte") \in Items /\ UByte(type) \in Tokens
    BY Wants, Bytes DEF Kinds
  <2>4. <<Want("byte")>> \o <<item>> = <<Want("byte"), item>>
    BY <2>3, Pairs
  <2>5. <<UByte(type)>> \o <<token>> = <<UByte(type), token>>
    BY <2>3, Pairs
  <2> QED
    BY <2>2, <2>4, <2>5, Zenon
<1>2. TypedItem("double") = <<Want("byte"), Doubles(1)>>
  BY DEF TypedItem
<1>3. /\ TypedItem("string") = <<Want("byte"), Want("string")>>
      /\ TypedItem("int") = <<Want("byte"), Want("int")>>
      /\ TypedItem("byte") = <<Want("byte"), Want("byte")>>
  BY DEF TypedItem
<1>4. Want("string") \in Items /\ Want("int") \in Items /\ Want("byte") \in Items /\ Doubles(1) \in Items
  BY Wants, NumberedItems DEF Kinds
<1>5. Takes(TypedItem("string"), AString)
  BY Strings, TakesOne, <1>1, <1>3, <1>4, Zenon DEF AString
<1>6. Takes(TypedItem("double"), ADouble)
  BY ManyDoubles, TakesDouble, <1>1, <1>2, <1>4 DEF ADouble
<1>7. ASSUME NEW n \in Int PROVE Takes(TypedItem("int"), AnIntOf(n))
  BY Ints, TakesOne, <1>1, <1>3, <1>4, Zenon DEF AnIntOf
<1>8. Takes(TypedItem("int"), AnInt)
  BY <1>7 DEF AnIntOf, AnInt
<1>9. ASSUME NEW n PROVE Takes(TypedItem("byte"), AByte(n)) /\ Takes(TypedItem("byte"), AUByte(n))
  BY Bytes, TakesOne, <1>1, <1>3, <1>4, Zenon DEF AByte, AUByte
<1> QED
  BY <1>5, <1>6, <1>7, <1>8, <1>9

\* Copies of one sequence, as a sequence of sequences.
LEMMA FlattenCopies ==
    ASSUME NEW S, NEW s \in Seq(S)
    PROVE  \A n \in Nat : FlattenSeq(Copies(n, <<s>>)) = Copies(n, s)
<1>1. PICK W : W = Seq(S)
  OBVIOUS
<1>2. PICK w : w = <<s>>
  BY Zenon
<1>3. w \in Seq(W) /\ s \in W
  BY <1>1, <1>2
<1> DEFINE T == { n \in Nat : FlattenSeq(Copies(n, w)) = Copies(n, s) }
<1>4. 0 \in T
  BY <1>3, CopiesFacts, FlattenFacts
<1>5. ASSUME NEW n \in Nat, n \in T PROVE n + 1 \in T
  <2>1. PICK c \in Seq(W) : c = Copies(n, w)
    BY <1>3, CopiesFacts
  <2>2. Copies(n + 1, w) = c \o w /\ Copies(n + 1, s) = Copies(n, s) \o s
    BY <1>3, <2>1, CopiesFacts, Zenon
  <2>3. c \o <<s>> = Append(c, s)
    BY <1>3, <2>1, AppendIsConcat
  <2>4. FlattenSeq(Append(c, s)) = FlattenSeq(c) \o s
    BY <1>1, <1>3, <2>1, FlattenFacts, Zenon
  <2>5. FlattenSeq(c) = Copies(n, s)
    BY <1>5, <2>1
  <2>6. Copies(n + 1, w) = Append(c, s)
    BY <1>2, <2>2, <2>3, Zenon
  <2>7. FlattenSeq(Copies(n + 1, w)) = Copies(n + 1, s)
    BY <2>2, <2>4, <2>5, <2>6, Zenon
  <2> QED
    BY <2>7
<1>6. Nat \subseteq T
  <2> HIDE DEF T
  <2> QED
    BY <1>4, <1>5, AllNumbers
<1> QED
  BY <1>2, <1>6

\* A number with a type, and that many rows.
LEMMA TypedRows ==
    ASSUME NEW kind \in DOMAIN RowOf, NEW n \in Nat, NEW row, Takes(RowOf[kind], row), NEW type
    PROVE  Takes(TypedItem(kind), <<UByte(type), I32(n)>> \o Copies(n, row))
<1>1. kind \in Kinds /\ kind # "double"
  BY RowNames DEF Kinds
<1>2. TypedItem(kind) = <<Want("byte"), Want(kind)>>
  BY <1>1 DEF TypedItem
<1>3. Want("byte") \in Items /\ Want(kind) \in Items /\ UByte(type) \in Tokens /\ I32(n) \in Tokens
  <2>1. Want("byte") \in Items
    BY Wants DEF Kinds
  <2>2. Want(kind) \in Items
    BY <1>1, Wants
  <2> QED
    BY <2>1, <2>2, Bytes, Ints
<1>4. <<Want("byte")>> \o <<Want(kind)>> = <<Want("byte"), Want(kind)>>
  BY <1>3, Pairs
<1>5. <<UByte(type)>> \o <<I32(n)>> = <<UByte(type), I32(n)>>
  BY <1>3, Pairs
<1>6. row \in Seq(Tokens)
  BY DEF Takes
<1>7. Takes(Copies(n, RowOf[kind]), Copies(n, row))
  BY TakesCopies
<1>8. Takes(<<Want(kind)>>, <<I32(n)>> \o Copies(n, row))
  BY <1>7, TakesRows
<1>9. Takes(<<Want("byte")>>, <<UByte(type)>>)
  BY TakesOne, Zenon
<1>10. Takes(<<Want("byte")>> \o <<Want(kind)>>, <<UByte(type)>> \o (<<I32(n)>> \o Copies(n, row)))
  BY <1>8, <1>9, TakesConcat
<1>11. <<UByte(type)>> \in Seq(Tokens) /\ <<I32(n)>> \in Seq(Tokens) /\ Copies(n, row) \in Seq(Tokens)
  BY <1>3, <1>6, SingleWants, CopiesFacts
<1>12. <<UByte(type)>> \o (<<I32(n)>> \o Copies(n, row)) = (<<UByte(type)>> \o <<I32(n)>>) \o Copies(n, row)
  BY <1>11, ConcatAssociative
<1> QED
  BY <1>2, <1>4, <1>5, <1>10, <1>12, Zenon

\* An int that counts rows, a list of strings, a compound of the same values.
LEMMA TypedCounts ==
    ASSUME NEW n \in Nat
    PROVE  /\ Takes(TypedItem("strings"), AStringList(n))
           /\ \A kind \in DOMAIN RowOf : \A row :
                Takes(RowOf[kind], row) =>
                  /\ Takes(TypedItem(kind), AnIntOf(n) \o Copies(n, row))
                  /\ Takes(TypedItem(kind), ACompound(n, Copies(n, <<row>>)))
<1>1. Takes(TypedItem("strings"), AStringList(n))
  BY RowNames, TakesOne, TypedRows, Zenon DEF RowOf, AStringList
<1>2. ASSUME NEW kind \in DOMAIN RowOf, NEW row, Takes(RowOf[kind], row)
      PROVE  /\ Takes(TypedItem(kind), AnIntOf(n) \o Copies(n, row))
             /\ Takes(TypedItem(kind), ACompound(n, Copies(n, <<row>>)))
  BY <1>2, TypedRows, FlattenCopies DEF Takes, AnIntOf, ACompound
<1> QED
  BY <1>1, <1>2

\* A row of one kind.
LEMMA TypedOne ==
    ASSUME NEW kind \in Kinds, NEW t, Takes(TypedItem(kind), t)
    PROVE  Takes(Typed(<<kind>>), t)
<1>1. PICK kinds : kinds = <<kind>>
  BY Zenon
<1>2. kinds \in Seq(Kinds) /\ Len(kinds) = 1 /\ kinds[1] = kind
  BY <1>1
<1>3. PICK n : n = 1
  OBVIOUS
<1>4. UpTo(kinds, n, t)
  BY <1>2, <1>3, UpToFirst
<1> QED
  BY <1>1, <1>2, <1>3, <1>4, UpToAll, Zenon

\* A compound that counts its rows.
LEMMA RowsTaken ==
    ASSUME NEW kind \in DOMAIN RowOf, NEW n \in Nat, NEW row, Takes(RowOf[kind], row)
    PROVE  Takes(<<Want("int")>> \o Typed(<<kind>>), Rows(n, row))
<1>1. kind \in Kinds
  BY DEF Kinds
<1>2. Takes(TypedItem(kind), AnIntOf(n) \o Copies(n, row))
  BY TypedCounts, Zenon
<1>3. Takes(Typed(<<kind>>), AnIntOf(n) \o Copies(n, row))
  BY <1>1, <1>2, TypedOne
<1>4. PICK m \in Int : m = 1 + n
  OBVIOUS
<1>5. Takes(<<Want("int")>>, <<I32(m)>>)
  BY TakesOne, Zenon
<1>6. Takes(<<Want("int")>> \o Typed(<<kind>>), <<I32(m)>> \o (AnIntOf(n) \o Copies(n, row)))
  BY <1>3, <1>5, TakesConcat
<1>7. <<I32(m)>> \in Seq(Tokens) /\ AnIntOf(n) \in Seq(Tokens) /\ Copies(n, row) \in Seq(Tokens)
  <2>1. I32(m) \in Tokens /\ I32(n) \in Tokens /\ UByte(TYPE_INTEGER) \in Tokens
    BY Ints, Bytes
  <2>2. row \in Seq(Tokens)
    BY DEF Takes
  <2> QED
    BY <2>1, <2>2, SingleWants, Pairs, CopiesFacts DEF AnIntOf
<1>8. <<I32(m)>> \o (AnIntOf(n) \o Copies(n, row)) = <<I32(m)>> \o AnIntOf(n) \o Copies(n, row)
  BY <1>7, ConcatAssociative
<1> QED
  BY <1>4, <1>6, <1>8, Zenon DEF Rows

\* Typed values one after the other are a row.
LEMMA TypedRow ==
    ASSUME NEW kinds \in Seq(Kinds), NEW items \in Seq(Seq(Tokens)), Len(kinds) = Len(items),
           \A i \in 1..Len(kinds) : Takes(TypedItem(kinds[i]), items[i])
    PROVE  Takes(Typed(kinds), FlattenSeq(items))
<1> DEFINE Each(w, t) == Len(w) = Len(t) /\ \A i \in 1..Len(w) : Takes(TypedItem(w[i]), t[i])
           T == { n \in Nat : \A w \in Seq(Kinds), t \in Seq(Seq(Tokens)) :
                                Len(w) = n /\ Each(w, t) => Takes(Typed(w), FlattenSeq(t)) }
<1>1. 0 \in T
  BY EmptySeq, TypedFacts, FlattenFacts, TakesNothing
<1>2. ASSUME NEW n \in Nat, n \in T PROVE n + 1 \in T
  <2>1. ASSUME NEW w \in Seq(Kinds), NEW t \in Seq(Seq(Tokens)), Len(w) = n + 1, Each(w, t)
        PROVE  Takes(Typed(w), FlattenSeq(t))
    <3>1. w # <<>> /\ t # <<>> /\ Len(t) = n + 1
      BY <2>1
    <3>2. PICK v \in Seq(Kinds), a \in Kinds :
             w = Append(v, a) /\ Len(v) = n /\ a = w[n + 1]
      <4>1. PICK v \in Seq(Kinds) : \E a \in Kinds : w = Append(v, a) /\ Len(v) = Len(w) - 1 /\ a = w[Len(w)]
        BY <3>1, LastMember
      <4> QED
        BY <2>1, <4>1
    <3>3. PICK s \in Seq(Seq(Tokens)), b \in Seq(Tokens) :
             t = Append(s, b) /\ Len(s) = n /\ b = t[n + 1]
      <4>1. PICK s \in Seq(Seq(Tokens)) :
              \E b \in Seq(Tokens) : t = Append(s, b) /\ Len(s) = Len(t) - 1 /\ b = t[Len(t)]
        BY <3>1, LastMember, Zenon
      <4> QED
        BY <3>1, <4>1
    <3>4. \A i \in 1..n : v[i] = w[i] /\ s[i] = t[i]
      BY <3>2, <3>3, AppendProperties
    <3>5. Each(v, s)
      BY <2>1, <3>2, <3>3, <3>4
    <3>6. Takes(Typed(v), FlattenSeq(s))
      BY <1>2, <3>2, <3>5, Zenon
    <3>7. Takes(TypedItem(a), b)
      BY <2>1, <3>2, <3>3
    <3>8. Takes(Typed(v) \o TypedItem(a), FlattenSeq(s) \o b)
      BY <3>6, <3>7, TakesConcat
    <3>9. Typed(w) = Typed(v) \o TypedItem(a) /\ FlattenSeq(t) = FlattenSeq(s) \o b
      BY <3>2, <3>3, TypedFacts, FlattenFacts, Zenon
    <3> QED
      BY <3>8, <3>9
  <2> QED
    BY <2>1
<1>3. Nat \subseteq T
  <2> HIDE DEF T
  <2> QED
    BY <1>1, <1>2, AllNumbers
<1>4. Len(kinds) \in T
  BY <1>3
<1> QED
  BY <1>4

\* A sequence ahead of others.
LEMMA FlattenCons ==
    ASSUME NEW S, NEW h \in Seq(S), NEW seqs \in Seq(Seq(S))
    PROVE  FlattenSeq(<<h>> \o seqs) = h \o FlattenSeq(seqs)
<1>1. PICK W : W = Seq(S)
  OBVIOUS
<1>2. PICK w \in Seq(W) : w = <<h>> /\ Len(w) = 1
  <2>1. h \in W
    BY <1>1
  <2>2. <<h>> \in Seq(W) /\ Len(<<h>>) = 1
    BY <2>1
  <2> QED
    BY <2>2, Zenon
<1> DEFINE T == { n \in Nat : \A s \in Seq(W) : Len(s) = n => FlattenSeq(w \o s) = h \o FlattenSeq(s) }
<1>3. 0 \in T
  <2>1. ASSUME NEW s \in Seq(W), Len(s) = 0 PROVE FlattenSeq(w \o s) = h \o FlattenSeq(s)
    <3>1. s = <<>>
      BY <2>1, EmptySeq
    <3>2. w \o s = w /\ FlattenSeq(s) = <<>> /\ h \o <<>> = h
      BY <1>2, <3>1, ConcatEmptySeq, FlattenFacts
    <3>3. FlattenSeq(Append(<<>>, h)) = FlattenSeq(<<>>) \o h
      BY EmptySeq, <1>1, FlattenFacts, Zenon
    <3>4. Append(<<>>, h) = w
      BY <1>1, <1>2, Appends
    <3>5. FlattenSeq(w) = h
      BY <3>3, <3>4, FlattenFacts, ConcatEmptySeq, Zenon
    <3> QED
      BY <3>2, <3>5
  <2> QED
    BY <2>1
<1>4. ASSUME NEW n \in Nat, n \in T PROVE n + 1 \in T
  <2>1. ASSUME NEW s \in Seq(W), Len(s) = n + 1 PROVE FlattenSeq(w \o s) = h \o FlattenSeq(s)
    <3>1. s # <<>>
      BY <2>1
    <3>2. PICK front \in Seq(W) : \E last \in W : s = Append(front, last) /\ Len(front) = Len(s) - 1 /\ last = s[Len(s)]
      BY <3>1, LastMember
    <3>3. PICK last \in W : s = Append(front, last) /\ Len(front) = n
      BY <2>1, <3>2
    <3>4. FlattenSeq(w \o front) = h \o FlattenSeq(front)
      BY <1>4, <3>3
    <3>5. w \o Append(front, last) = Append(w \o front, last)
      BY <3>3, AppendIsConcat, ConcatAssociative, ConcatProperties
    <3>6. w \o front \in Seq(W)
      BY ConcatProperties
    <3>7. FlattenSeq(Append(w \o front, last)) = FlattenSeq(w \o front) \o last
      BY <1>1, <3>6, FlattenFacts, Zenon
    <3>8. FlattenSeq(s) = FlattenSeq(front) \o last /\ FlattenSeq(front) \in Seq(S) /\ last \in Seq(S)
      BY <1>1, <3>3, FlattenFacts, Zenon
    <3>9. (h \o FlattenSeq(front)) \o last = h \o (FlattenSeq(front) \o last)
      BY <3>8, ConcatAssociative
    <3> QED
      BY <3>3, <3>4, <3>5, <3>7, <3>8, <3>9
  <2> QED
    BY <2>1
<1>5. Nat \subseteq T
  <2> HIDE DEF T
  <2> QED
    BY <1>3, <1>4, AllNumbers, Zenon
<1>6. Len(seqs) \in T /\ seqs \in Seq(W)
  BY <1>1, <1>5
<1> QED
  BY <1>2, <1>6, Zenon

\* A compound of typed values is a row that starts with an int.
LEMMA TypedCompound ==
    ASSUME NEW kinds \in Seq(Kinds), NEW items \in Seq(Seq(Tokens)), Len(kinds) = Len(items) + 1,
           kinds[1] = "int", \A i \in 1..Len(items) : \A j : j = i + 1 => Takes(TypedItem(kinds[j]), items[i]),
           NEW n \in Int
    PROVE  Takes(Typed(kinds), ACompound(n, items))
<1>1. PICK h \in Seq(Tokens) : h = <<UByte(TYPE_COMPOUND), I32(n)>>
  BY Bytes, Ints, Pairs, Zenon
<1>2. Takes(TypedItem("int"), h)
  <2>1. Takes(<<Want("byte")>> \o <<Want("int")>>, <<UByte(TYPE_COMPOUND)>> \o <<I32(n)>>)
    BY TakesOne, TakesConcat, Zenon
  <2>2. Want("byte") \in Items /\ Want("int") \in Items /\ UByte(TYPE_COMPOUND) \in Tokens /\ I32(n) \in Tokens
    BY Wants, Bytes, Ints DEF Kinds
  <2>3. <<Want("byte")>> \o <<Want("int")>> = <<Want("byte"), Want("int")>>
    BY <2>2, Pairs
  <2>4. <<UByte(TYPE_COMPOUND)>> \o <<I32(n)>> = h
    BY <1>1, <2>2, Pairs
  <2> QED
    BY <2>1, <2>3, <2>4, Zenon DEF TypedItem
<1>3. PICK W : W = Seq(Tokens)
  OBVIOUS
<1>4. PICK w \in Seq(W) : w = <<h>> /\ Len(w) = 1 /\ w[1] = h
  <2>1. h \in W
    BY <1>3
  <2>2. <<h>> \in Seq(W) /\ Len(<<h>>) = 1 /\ <<h>>[1] = h
    BY <2>1
  <2> QED
    BY <2>2, Zenon
<1>5. PICK all \in Seq(W) : all = w \o items
  BY <1>3, ConcatProperties, Zenon
<1>6. Len(all) = Len(w) + Len(items) /\ \A i \in 1..Len(w) : all[i] = w[i]
  BY <1>3, <1>5, FormerAt
<1>7. Len(all) = Len(kinds)
  BY <1>4, <1>6
<1>8. ASSUME NEW j \in 1..Len(kinds) PROVE Takes(TypedItem(kinds[j]), all[j])
  <2>1. CASE j = 1
    BY <1>2, <1>4, <1>6, <2>1
  <2>2. CASE j # 1
    <3>1. PICK i \in 1..Len(items) : j = i + 1
      BY <1>8, <2>2
    <3>2. j = Len(w) + i
      BY <1>4, <3>1
    <3>3. all[j] = items[i]
      BY <1>3, <1>5, <3>2, LatterAt
    <3> QED
      BY <3>1, <3>3, Zenon
  <2> QED
    BY <2>1, <2>2
<1>9. Takes(Typed(kinds), FlattenSeq(all))
  BY <1>3, <1>8, <1>7, TypedRow, Zenon
<1>10. FlattenSeq(all) = h \o FlattenSeq(items)
  BY <1>4, <1>5, FlattenCons, Zenon
<1> QED
  BY <1>1, <1>9, <1>10 DEF ACompound

\* A row of getVehicleData's answer.
LEMMA VehicleRowTaken ==
    Takes(Typed(<<"string", "double", "double", "double", "string">>), AString \o ADouble \o ADouble \o ADouble \o AString)
<1>1. PICK kinds : kinds = <<"string", "double", "double", "double", "string">>
  BY Zenon
<1>2. kinds \in Seq(Kinds) /\ Len(kinds) = 5
  BY RowNames, <1>1 DEF Kinds
<1>3. UpTo(kinds, 1, AString)
  <2>1. kinds[1] = "string"
    BY <1>1
  <2>2. Takes(TypedItem(kinds[1]), AString)
    BY <2>1, TypedTokens
  <2> QED
    BY <1>2, <2>2, UpToFirst
<1>4. UpTo(kinds, 2, AString \o ADouble)
  <2>1. kinds[2] = "double"
    BY <1>1
  <2>2. Takes(TypedItem(kinds[2]), ADouble)
    BY <2>1, TypedTokens
  <2>3. 1 \in Nat /\ 2 = 1 + 1 /\ 2 <= Len(kinds) /\ kinds \in Seq(Kinds)
    BY <1>2
  <2> QED
    BY <1>3, <2>2, <2>3, UpToNext
<1>5. UpTo(kinds, 3, AString \o ADouble \o ADouble)
  <2>1. kinds[3] = "double"
    BY <1>1
  <2>2. Takes(TypedItem(kinds[3]), ADouble)
    BY <2>1, TypedTokens
  <2>3. 2 \in Nat /\ 3 = 2 + 1 /\ 3 <= Len(kinds) /\ kinds \in Seq(Kinds)
    BY <1>2
  <2> QED
    BY <1>4, <2>2, <2>3, UpToNext
<1>6. UpTo(kinds, 4, AString \o ADouble \o ADouble \o ADouble)
  <2>1. kinds[4] = "double"
    BY <1>1
  <2>2. Takes(TypedItem(kinds[4]), ADouble)
    BY <2>1, TypedTokens
  <2>3. 3 \in Nat /\ 4 = 3 + 1 /\ 4 <= Len(kinds) /\ kinds \in Seq(Kinds)
    BY <1>2
  <2> QED
    BY <1>5, <2>2, <2>3, UpToNext
<1>7. UpTo(kinds, 5, AString \o ADouble \o ADouble \o ADouble \o AString)
  <2>1. kinds[5] = "string"
    BY <1>1
  <2>2. Takes(TypedItem(kinds[5]), AString)
    BY <2>1, TypedTokens
  <2>3. 4 \in Nat /\ 5 = 4 + 1 /\ 5 <= Len(kinds) /\ kinds \in Seq(Kinds)
    BY <1>2
  <2> QED
    BY <1>6, <2>2, <2>3, UpToNext
<1>8. Takes(Typed(kinds), AString \o ADouble \o ADouble \o ADouble \o AString)
  BY <1>2, <1>7, UpToAll, Zenon
<1> QED
  BY <1>1, <1>8

\* A row of getLinks's.
LEMMA LinkRowTaken ==
    Takes(Typed(<<"string", "string", "byte", "byte", "byte", "string", "string", "double">>), AString \o AString \o AUByte(1) \o AUByte(1) \o AUByte(1) \o AString \o AString \o ADouble)
<1>1. PICK kinds : kinds = <<"string", "string", "byte", "byte", "byte", "string", "string", "double">>
  BY Zenon
<1>2. kinds \in Seq(Kinds) /\ Len(kinds) = 8
  BY RowNames, <1>1 DEF Kinds
<1>3. UpTo(kinds, 1, AString)
  <2>1. kinds[1] = "string"
    BY <1>1
  <2>2. Takes(TypedItem(kinds[1]), AString)
    BY <2>1, TypedTokens
  <2> QED
    BY <1>2, <2>2, UpToFirst
<1>4. UpTo(kinds, 2, AString \o AString)
  <2>1. kinds[2] = "string"
    BY <1>1
  <2>2. Takes(TypedItem(kinds[2]), AString)
    BY <2>1, TypedTokens
  <2>3. 1 \in Nat /\ 2 = 1 + 1 /\ 2 <= Len(kinds) /\ kinds \in Seq(Kinds)
    BY <1>2
  <2> QED
    BY <1>3, <2>2, <2>3, UpToNext
<1>5. UpTo(kinds, 3, AString \o AString \o AUByte(1))
  <2>1. kinds[3] = "byte"
    BY <1>1
  <2>2. Takes(TypedItem(kinds[3]), AUByte(1))
    BY <2>1, TypedTokens
  <2>3. 2 \in Nat /\ 3 = 2 + 1 /\ 3 <= Len(kinds) /\ kinds \in Seq(Kinds)
    BY <1>2
  <2> QED
    BY <1>4, <2>2, <2>3, UpToNext
<1>6. UpTo(kinds, 4, AString \o AString \o AUByte(1) \o AUByte(1))
  <2>1. kinds[4] = "byte"
    BY <1>1
  <2>2. Takes(TypedItem(kinds[4]), AUByte(1))
    BY <2>1, TypedTokens
  <2>3. 3 \in Nat /\ 4 = 3 + 1 /\ 4 <= Len(kinds) /\ kinds \in Seq(Kinds)
    BY <1>2
  <2> QED
    BY <1>5, <2>2, <2>3, UpToNext
<1>7. UpTo(kinds, 5, AString \o AString \o AUByte(1) \o AUByte(1) \o AUByte(1))
  <2>1. kinds[5] = "byte"
    BY <1>1
  <2>2. Takes(TypedItem(kinds[5]), AUByte(1))
    BY <2>1, TypedTokens
  <2>3. 4 \in Nat /\ 5 = 4 + 1 /\ 5 <= Len(kinds) /\ kinds \in Seq(Kinds)
    BY <1>2
  <2> QED
    BY <1>6, <2>2, <2>3, UpToNext
<1>8. UpTo(kinds, 6, AString \o AString \o AUByte(1) \o AUByte(1) \o AUByte(1) \o AString)
  <2>1. kinds[6] = "string"
    BY <1>1
  <2>2. Takes(TypedItem(kinds[6]), AString)
    BY <2>1, TypedTokens
  <2>3. 5 \in Nat /\ 6 = 5 + 1 /\ 6 <= Len(kinds) /\ kinds \in Seq(Kinds)
    BY <1>2
  <2> QED
    BY <1>7, <2>2, <2>3, UpToNext
<1>9. UpTo(kinds, 7, AString \o AString \o AUByte(1) \o AUByte(1) \o AUByte(1) \o AString \o AString)
  <2>1. kinds[7] = "string"
    BY <1>1
  <2>2. Takes(TypedItem(kinds[7]), AString)
    BY <2>1, TypedTokens
  <2>3. 6 \in Nat /\ 7 = 6 + 1 /\ 7 <= Len(kinds) /\ kinds \in Seq(Kinds)
    BY <1>2
  <2> QED
    BY <1>8, <2>2, <2>3, UpToNext
<1>10. UpTo(kinds, 8, AString \o AString \o AUByte(1) \o AUByte(1) \o AUByte(1) \o AString \o AString \o ADouble)
  <2>1. kinds[8] = "double"
    BY <1>1
  <2>2. Takes(TypedItem(kinds[8]), ADouble)
    BY <2>1, TypedTokens
  <2>3. 7 \in Nat /\ 8 = 7 + 1 /\ 8 <= Len(kinds) /\ kinds \in Seq(Kinds)
    BY <1>2
  <2> QED
    BY <1>9, <2>2, <2>3, UpToNext
<1>11. Takes(Typed(kinds), AString \o AString \o AUByte(1) \o AUByte(1) \o AUByte(1) \o AString \o AString \o ADouble)
  BY <1>2, <1>10, UpToAll, Zenon
<1> QED
  BY <1>1, <1>11

\* A row of getNextTLS's.
LEMMA TlsRowTaken ==
    Takes(Typed(<<"string", "int", "double", "byte">>), AString \o AnInt \o ADouble \o AByte(0))
<1>1. PICK kinds : kinds = <<"string", "int", "double", "byte">>
  BY Zenon
<1>2. kinds \in Seq(Kinds) /\ Len(kinds) = 4
  BY RowNames, <1>1 DEF Kinds
<1>3. UpTo(kinds, 1, AString)
  <2>1. kinds[1] = "string"
    BY <1>1
  <2>2. Takes(TypedItem(kinds[1]), AString)
    BY <2>1, TypedTokens
  <2> QED
    BY <1>2, <2>2, UpToFirst
<1>4. UpTo(kinds, 2, AString \o AnInt)
  <2>1. kinds[2] = "int"
    BY <1>1
  <2>2. Takes(TypedItem(kinds[2]), AnInt)
    BY <2>1, TypedTokens
  <2>3. 1 \in Nat /\ 2 = 1 + 1 /\ 2 <= Len(kinds) /\ kinds \in Seq(Kinds)
    BY <1>2
  <2> QED
    BY <1>3, <2>2, <2>3, UpToNext
<1>5. UpTo(kinds, 3, AString \o AnInt \o ADouble)
  <2>1. kinds[3] = "double"
    BY <1>1
  <2>2. Takes(TypedItem(kinds[3]), ADouble)
    BY <2>1, TypedTokens
  <2>3. 2 \in Nat /\ 3 = 2 + 1 /\ 3 <= Len(kinds) /\ kinds \in Seq(Kinds)
    BY <1>2
  <2> QED
    BY <1>4, <2>2, <2>3, UpToNext
<1>6. UpTo(kinds, 4, AString \o AnInt \o ADouble \o AByte(0))
  <2>1. kinds[4] = "byte"
    BY <1>1
  <2>2. Takes(TypedItem(kinds[4]), AByte(0))
    BY <2>1, TypedTokens
  <2>3. 3 \in Nat /\ 4 = 3 + 1 /\ 4 <= Len(kinds) /\ kinds \in Seq(Kinds)
    BY <1>2
  <2> QED
    BY <1>5, <2>2, <2>3, UpToNext
<1>7. Takes(Typed(kinds), AString \o AnInt \o ADouble \o AByte(0))
  BY <1>2, <1>6, UpToAll, Zenon
<1> QED
  BY <1>1, <1>7

\* A row of getBestLanes's.
LEMMA LaneRowTaken ==
    ASSUME NEW n \in Nat
    PROVE  Takes(Typed(<<"string", "double", "double", "byte", "byte", "strings">>), AString \o ADouble \o ADouble \o AByte(0) \o AUByte(1) \o AStringList(n))
<1>1. PICK kinds : kinds = <<"string", "double", "double", "byte", "byte", "strings">>
  BY Zenon
<1>2. kinds \in Seq(Kinds) /\ Len(kinds) = 6
  BY RowNames, <1>1 DEF Kinds
<1>3. UpTo(kinds, 1, AString)
  <2>1. kinds[1] = "string"
    BY <1>1
  <2>2. Takes(TypedItem(kinds[1]), AString)
    BY <2>1, TypedTokens
  <2> QED
    BY <1>2, <2>2, UpToFirst
<1>4. UpTo(kinds, 2, AString \o ADouble)
  <2>1. kinds[2] = "double"
    BY <1>1
  <2>2. Takes(TypedItem(kinds[2]), ADouble)
    BY <2>1, TypedTokens
  <2>3. 1 \in Nat /\ 2 = 1 + 1 /\ 2 <= Len(kinds) /\ kinds \in Seq(Kinds)
    BY <1>2
  <2> QED
    BY <1>3, <2>2, <2>3, UpToNext
<1>5. UpTo(kinds, 3, AString \o ADouble \o ADouble)
  <2>1. kinds[3] = "double"
    BY <1>1
  <2>2. Takes(TypedItem(kinds[3]), ADouble)
    BY <2>1, TypedTokens
  <2>3. 2 \in Nat /\ 3 = 2 + 1 /\ 3 <= Len(kinds) /\ kinds \in Seq(Kinds)
    BY <1>2
  <2> QED
    BY <1>4, <2>2, <2>3, UpToNext
<1>6. UpTo(kinds, 4, AString \o ADouble \o ADouble \o AByte(0))
  <2>1. kinds[4] = "byte"
    BY <1>1
  <2>2. Takes(TypedItem(kinds[4]), AByte(0))
    BY <2>1, TypedTokens
  <2>3. 3 \in Nat /\ 4 = 3 + 1 /\ 4 <= Len(kinds) /\ kinds \in Seq(Kinds)
    BY <1>2
  <2> QED
    BY <1>5, <2>2, <2>3, UpToNext
<1>7. UpTo(kinds, 5, AString \o ADouble \o ADouble \o AByte(0) \o AUByte(1))
  <2>1. kinds[5] = "byte"
    BY <1>1
  <2>2. Takes(TypedItem(kinds[5]), AUByte(1))
    BY <2>1, TypedTokens
  <2>3. 4 \in Nat /\ 5 = 4 + 1 /\ 5 <= Len(kinds) /\ kinds \in Seq(Kinds)
    BY <1>2
  <2> QED
    BY <1>6, <2>2, <2>3, UpToNext
<1>8. UpTo(kinds, 6, AString \o ADouble \o ADouble \o AByte(0) \o AUByte(1) \o AStringList(n))
  <2>1. kinds[6] = "strings"
    BY <1>1
  <2>2. Takes(TypedItem(kinds[6]), AStringList(n))
    BY <2>1, TypedCounts, RowNames
  <2>3. 5 \in Nat /\ 6 = 5 + 1 /\ 6 <= Len(kinds) /\ kinds \in Seq(Kinds)
    BY <1>2
  <2> QED
    BY <1>7, <2>2, <2>3, UpToNext
<1>9. Takes(Typed(kinds), AString \o ADouble \o ADouble \o AByte(0) \o AUByte(1) \o AStringList(n))
  BY <1>2, <1>8, UpToAll, Zenon
<1> QED
  BY <1>1, <1>9

\* The two values of getLeader's.
LEMMA LeaderTaken ==
    Takes(Typed(<<"string", "double">>), AString \o ADouble)
<1>1. PICK kinds : kinds = <<"string", "double">>
  BY Zenon
<1>2. kinds \in Seq(Kinds) /\ Len(kinds) = 2
  BY RowNames, <1>1 DEF Kinds
<1>3. UpTo(kinds, 1, AString)
  <2>1. kinds[1] = "string"
    BY <1>1
  <2>2. Takes(TypedItem(kinds[1]), AString)
    BY <2>1, TypedTokens
  <2> QED
    BY <1>2, <2>2, UpToFirst
<1>4. UpTo(kinds, 2, AString \o ADouble)
  <2>1. kinds[2] = "double"
    BY <1>1
  <2>2. Takes(TypedItem(kinds[2]), ADouble)
    BY <2>1, TypedTokens
  <2>3. 1 \in Nat /\ 2 = 1 + 1 /\ 2 <= Len(kinds) /\ kinds \in Seq(Kinds)
    BY <1>2
  <2> QED
    BY <1>3, <2>2, <2>3, UpToNext
<1>5. Takes(Typed(kinds), AString \o ADouble)
  BY <1>2, <1>4, UpToAll, Zenon
<1> QED
  BY <1>1, <1>5

\* The two values of getLaneChangeState's.
LEMMA LaneChangeTaken ==
    Takes(Typed(<<"int", "int">>), AnInt \o AnInt)
<1>1. PICK kinds : kinds = <<"int", "int">>
  BY Zenon
<1>2. kinds \in Seq(Kinds) /\ Len(kinds) = 2
  BY RowNames, <1>1 DEF Kinds
<1>3. UpTo(kinds, 1, AnInt)
  <2>1. kinds[1] = "int"
    BY <1>1
  <2>2. Takes(TypedItem(kinds[1]), AnInt)
    BY <2>1, TypedTokens
  <2> QED
    BY <1>2, <2>2, UpToFirst
<1>4. UpTo(kinds, 2, AnInt \o AnInt)
  <2>1. kinds[2] = "int"
    BY <1>1
  <2>2. Takes(TypedItem(kinds[2]), AnInt)
    BY <2>1, TypedTokens
  <2>3. 1 \in Nat /\ 2 = 1 + 1 /\ 2 <= Len(kinds) /\ kinds \in Seq(Kinds)
    BY <1>2
  <2> QED
    BY <1>3, <2>2, <2>3, UpToNext
<1>5. Takes(Typed(kinds), AnInt \o AnInt)
  BY <1>2, <1>4, UpToAll, Zenon
<1> QED
  BY <1>1, <1>5

\* The parts of the rows are tokens.
LEMMA RowParts ==
    /\ AString \in Seq(Tokens) /\ ADouble \in Seq(Tokens) /\ AnInt \in Seq(Tokens)
    /\ \A n : AByte(n) \in Seq(Tokens) /\ AUByte(n) \in Seq(Tokens)
    /\ \A n \in Nat : AStringList(n) \in Seq(Tokens) /\ AnIntOf(n) \in Seq(Tokens)
<1>1. \A v \in Values : v \in Seq(Tokens)
  BY DEF Values
<1>2. \A n \in Nat : AnIntOf(n) \in Seq(Tokens)
  BY TypedTokens DEF Takes
<1> QED
  BY <1>1, <1>2, Written, Zenon

\* The rows of the compounds that have rows of values.
LEMMA FlatRows ==
    /\ Takes(RowOf["vehicleRows"], AString \o Copies(3, ADouble) \o AString)
    /\ Takes(RowOf["linkRows"], Copies(2, AString) \o Copies(3, AUByte(1)) \o Copies(2, AString) \o ADouble)
    /\ Takes(RowOf["tlsRows"], AString \o AnInt \o ADouble \o AByte(0))
    /\ \A n \in Nat : Takes(RowOf["laneRows"],
                            AString \o ADouble \o ADouble \o AByte(0) \o AUByte(1) \o AStringList(n))
<1>1. Takes(RowOf["vehicleRows"], AString \o Copies(3, ADouble) \o AString)
  <2>1. PICK s \in Seq(Tokens), d \in Seq(Tokens) : s = AString /\ d = ADouble
    BY RowParts
  <2>2. Copies(3, d) = (d \o d) \o d
    BY CopiesFacts, Zenon
  <2>3. d \o d \in Seq(Tokens)
    BY ConcatProperties
  <2>4. s \o ((d \o d) \o d) = (s \o (d \o d)) \o d
    BY <2>3, ConcatAssociative
  <2>5. s \o (d \o d) = (s \o d) \o d
    BY ConcatAssociative
  <2>6. RowOf["vehicleRows"] = Typed(<<"string", "double", "double", "double", "string">>)
    BY DEF RowOf, VehicleRow
  <2>7. Takes(RowOf["vehicleRows"], s \o d \o d \o d \o s)
    BY <2>1, <2>6, VehicleRowTaken
  <2>8. s \o Copies(3, d) \o s = s \o d \o d \o d \o s
    BY <2>2, <2>4, <2>5, Zenon
  <2> QED
    BY <2>1, <2>7, <2>8, Zenon
<1>2. Takes(RowOf["linkRows"], Copies(2, AString) \o Copies(3, AUByte(1)) \o Copies(2, AString) \o ADouble)
  <2>1. PICK s \in Seq(Tokens), u \in Seq(Tokens), d \in Seq(Tokens) : s = AString /\ u = AUByte(1) /\ d = ADouble
    BY RowParts
  <2>2. Copies(2, s) = s \o s /\ Copies(3, u) = (u \o u) \o u
    BY CopiesFacts, Zenon
  <2>3. s \o s \in Seq(Tokens) /\ u \o u \in Seq(Tokens)
    BY ConcatProperties
  <2>4. (s \o s) \o ((u \o u) \o u) = ((s \o s) \o (u \o u)) \o u
    BY <2>3, ConcatAssociative, SMTT(30)
  <2>5. (s \o s) \o (u \o u) = ((s \o s) \o u) \o u
    BY <2>3, ConcatAssociative
  <2>6. PICK front : front = (s \o s) \o ((u \o u) \o u)
    BY Zenon
  <2>7. front \in Seq(Tokens)
    BY <2>3, <2>6, ConcatProperties
  <2>8. front \o (s \o s) = (front \o s) \o s
    BY <2>7, ConcatAssociative
  <2>9. RowOf["linkRows"] = Typed(<<"string", "string", "byte", "byte", "byte", "string", "string", "double">>)
    BY DEF RowOf, LinkRow
  <2>10. Takes(RowOf["linkRows"], s \o s \o u \o u \o u \o s \o s \o d)
    BY <2>1, <2>9, LinkRowTaken
  <2>11. Copies(2, s) \o Copies(3, u) \o Copies(2, s) \o d = s \o s \o u \o u \o u \o s \o s \o d
    BY <2>2, <2>4, <2>5, <2>6, <2>8, Zenon
  <2> QED
    BY <2>1, <2>10, <2>11, Zenon
<1>3. Takes(RowOf["tlsRows"], AString \o AnInt \o ADouble \o AByte(0))
  BY TlsRowTaken DEF RowOf, TlsRow
<1>4. ASSUME NEW n \in Nat
      PROVE  Takes(RowOf["laneRows"], AString \o ADouble \o ADouble \o AByte(0) \o AUByte(1) \o AStringList(n))
  BY LaneRowTaken DEF RowOf, LaneRow
<1> QED
  BY <1>1, <1>2, <1>3, <1>4

\* A signal's row: an int that counts links, each a list of three strings that is read as
\* an int and three strings.
LEMMA SignalRowTaken ==
    ASSUME NEW n \in Nat
    PROVE  Takes(RowOf["signalRows"], AnIntOf(n) \o Copies(n, AStringList(3)))
<1>1. PICK m \in Nat : m = 3
  OBVIOUS
<1>2. AStringList(m) = <<UByte(TYPE_STRINGLIST), I32(m)>> \o Copies(m, <<String(1)>>)
  BY DEF AStringList
<1>3. Takes(Copies(m, <<Want("string")>>), Copies(m, <<String(1)>>))
  BY TakesOne, TakesCopies, Zenon
<1>4. Takes(TypedItem("int"), <<UByte(TYPE_STRINGLIST), I32(m)>>)
  <2>1. Takes(<<Want("byte")>> \o <<Want("int")>>, <<UByte(TYPE_STRINGLIST)>> \o <<I32(m)>>)
    <3>1. \A type : Takes(<<Want("byte")>>, <<UByte(type)>>)
      BY TakesOne, Zenon
    <3>2. Takes(<<Want("int")>>, <<I32(m)>>)
      <4>1. \A i \in Int : Takes(<<Want("int")>>, <<I32(i)>>)
        BY TakesOne, Zenon
      <4>2. m \in Int
        BY <1>1
      <4> QED
        BY <4>1, <4>2
    <3> QED
      BY <3>1, <3>2, TakesConcat
  <2>2. Want("byte") \in Items /\ Want("int") \in Items /\ UByte(TYPE_STRINGLIST) \in Tokens /\ I32(m) \in Tokens
    BY Wants, Bytes, Ints DEF Kinds
  <2>3. <<Want("byte")>> \o <<Want("int")>> = <<Want("byte"), Want("int")>>
    BY <2>2, Pairs
  <2>4. <<UByte(TYPE_STRINGLIST)>> \o <<I32(m)>> = <<UByte(TYPE_STRINGLIST), I32(m)>>
    BY <2>2, Pairs
  <2> QED
    BY <2>1, <2>3, <2>4, Zenon DEF TypedItem
<1>5. Takes(Typed(<<"int">>), <<UByte(TYPE_STRINGLIST), I32(m)>>)
  BY <1>4, TypedOne DEF Kinds
<1>6. Takes(Typed(<<"int">>) \o Copies(m, <<Want("string")>>), AStringList(m))
  BY <1>2, <1>3, <1>5, TakesConcat
<1>7. RowOf["controlledRows"] = Typed(<<"int">>) \o Copies(m, <<Want("string")>>)
  BY <1>1 DEF RowOf, ControlledRow
<1>8. Takes(TypedItem("controlledRows"), AnIntOf(n) \o Copies(n, AStringList(m)))
  BY <1>6, <1>7, TypedCounts, RowNames, Zenon
<1>9. Takes(Typed(<<"controlledRows">>), AnIntOf(n) \o Copies(n, AStringList(m)))
  BY <1>8, TypedOne, RowNames DEF Kinds
<1> QED
  BY <1>1, <1>9 DEF RowOf, SignalRow

\* A phase of a program, and a program: compounds in compounds.
LEMMA PhaseTaken ==
    ASSUME NEW n \in Nat
    PROVE  Takes(RowOf["phaseRows"], APhase(n))
<1>1. PICK next : next = ACompound(n, Copies(n, <<AnInt>>))
  OBVIOUS
<1>2. Takes(TypedItem("nextRows"), next)
  BY TypedTokens, TypedOne, RowNames, <1>1, TypedCounts DEF Kinds, RowOf
<1>3. PICK kinds : kinds = <<"int", "double", "string", "double", "double", "nextRows", "string">>
  BY Zenon
<1>4. kinds \in Seq(Kinds) /\ Len(kinds) = 7
  BY RowNames, <1>3 DEF Kinds
<1>5. PICK items : items = <<ADouble, AString, ADouble, ADouble, next, AString>>
  BY Zenon
<1>6. next \in Seq(Tokens)
  BY <1>2 DEF Takes
<1>7. items \in Seq(Seq(Tokens)) /\ Len(items) = 6
  BY <1>6, RowParts, <1>5
<1>8. ASSUME NEW i \in 1..Len(items), NEW j, j = i + 1 PROVE Takes(TypedItem(kinds[j]), items[i])
  BY <1>7, <1>8, <1>3, <1>5, TypedTokens, <1>2
<1>9. Len(kinds) = Len(items) + 1 /\ kinds[1] = "int"
  BY <1>3, <1>4, <1>7
<1>10. PICK m \in Int : m = 6
  OBVIOUS
<1>11. Takes(Typed(kinds), ACompound(m, items))
  BY <1>8, <1>4, <1>7, <1>9, TypedCompound, Zenon
<1>12. RowOf["phaseRows"] = Typed(<<"int", "double", "string", "double", "double", "nextRows", "string">>)
  BY DEF RowOf, PhaseRow
<1>13. APhase(n) = ACompound(6, <<ADouble, AString, ADouble, ADouble, next, AString>>)
  BY <1>1 DEF APhase
<1> QED
  BY <1>3, <1>5, <1>10, <1>11, <1>12, <1>13

\* It is a row.
LEMMA LogicTaken ==
    ASSUME NEW n \in Nat
    PROVE  Takes(RowOf["logicRows"], ALogic(n))
<1>1. PICK phases : phases = ACompound(n, Copies(n, <<APhase(n)>>))
  OBVIOUS
<1>2. PICK parameters : parameters = ACompound(n, Copies(n, <<AStringList(2)>>))
  OBVIOUS
<1>3. Takes(TypedItem("phaseRows"), phases)
  BY <1>1, PhaseTaken, TypedCounts, RowNames
<1>4. Takes(TypedItem("parameterRows"), parameters)
  BY TypedCounts, TypedOne, RowNames, <1>2 DEF Kinds, RowOf
<1>5. PICK kinds : kinds = <<"int", "string", "int", "int", "phaseRows", "parameterRows">>
  BY Zenon
<1>6. kinds \in Seq(Kinds) /\ Len(kinds) = 6
  BY RowNames, <1>5 DEF Kinds
<1>7. PICK items : items = <<AString, AnInt, AnInt, phases, parameters>>
  BY Zenon
<1>8. phases \in Seq(Tokens) /\ parameters \in Seq(Tokens)
  BY <1>3, <1>4 DEF Takes
<1>9. items \in Seq(Seq(Tokens)) /\ Len(items) = 5
  BY <1>8, RowParts, <1>7
<1>10. ASSUME NEW i \in 1..Len(items), NEW j, j = i + 1 PROVE Takes(TypedItem(kinds[j]), items[i])
  BY <1>9, <1>10, <1>5, <1>7, TypedTokens, <1>3, <1>4
<1>11. Len(kinds) = Len(items) + 1 /\ kinds[1] = "int"
  BY <1>5, <1>6, <1>9
<1>12. PICK m \in Int : m = 5
  OBVIOUS
<1>13. Takes(Typed(kinds), ACompound(m, items))
  BY <1>10, <1>6, <1>9, <1>11, TypedCompound, Zenon
<1>14. RowOf["logicRows"] = Typed(<<"int", "string", "int", "int", "phaseRows", "parameterRows">>)
  BY DEF RowOf, LogicRow
<1>15. ALogic(n) = ACompound(5, <<AString, AnInt, AnInt, phases, parameters>>)
  BY <1>1, <1>2 DEF ALogic
<1> QED
  BY <1>5, <1>7, <1>12, <1>13, <1>14, <1>15

\* Whatever compound a method asks for, it can read.
LEMMA CompoundTaken ==
    ASSUME NEW reads \in CompoundKinds, NEW n \in Nat
    PROVE  Takes(Compound(reads), CompoundSample(reads, n))
<1>1. CASE reads = "vehicleData"
  BY <1>1, FlatRows, RowsTaken, RowNames DEF Compound, CompoundSample
<1>2. CASE reads = "links"
  BY <1>2, FlatRows, RowsTaken, RowNames DEF Compound, CompoundSample
<1>3. CASE reads = "logics"
  BY LogicTaken, TakesCopies, <1>3, TakesRows, RowNames DEF Compound, CompoundSample, ALogic
<1>4. CASE reads = "controlledLinks"
  BY <1>4, SignalRowTaken, RowsTaken, RowNames DEF Compound, CompoundSample
<1>5. CASE reads = "nextTLS"
  BY <1>5, FlatRows, RowsTaken, RowNames DEF Compound, CompoundSample
<1>6. CASE reads = "bestLanes"
  BY FlatRows, <1>6, RowsTaken, RowNames DEF Compound, CompoundSample
<1>7. ASSUME NEW w, NEW s, NEW t, Takes(w, s \o t), s \in Seq(Tokens), t \in Seq(Tokens)
      PROVE  Takes(<<Want("int")>> \o w, <<I32(2)>> \o s \o t)
  <2>1. PICK m \in Int : m = 2
    OBVIOUS
  <2>2. Takes(<<Want("int")>>, <<I32(m)>>)
    BY TakesOne, Zenon
  <2>3. Takes(<<Want("int")>> \o w, <<I32(m)>> \o (s \o t))
    BY <1>7, <2>2, TakesConcat
  <2>4. <<I32(m)>> \in Seq(Tokens)
    BY <2>2 DEF Takes
  <2>5. <<I32(m)>> \o (s \o t) = (<<I32(m)>> \o s) \o t
    BY <1>7, <2>4, ConcatAssociative
  <2> QED
    BY <2>1, <2>3, <2>5, Zenon
<1>8. CASE reads = "leader"
  BY <1>7, <1>8, LeaderTaken, RowParts, Zenon DEF Compound, CompoundSample
<1>9. CASE reads = "laneChangeState"
  BY <1>7, <1>9, LaneChangeTaken, RowParts, Zenon DEF Compound, CompoundSample
<1> QED
  BY <1>1, <1>2, <1>3, <1>4, <1>5, <1>6, <1>8, <1>9 DEF CompoundKinds

-----------------------------------------------------------------------------
(* The answer to every question.                                           *)

\* What is left of a sequence when the first is dropped.
LEMMA TailOf ==
    ASSUME NEW S, NEW a \in S, NEW s \in Seq(S)
    PROVE  Tail(<<a>> \o s) = s
<1>1. PICK h \in Seq(S) : h = <<a>> /\ Len(h) = 1
  <2>1. <<a>> \in Seq(S) /\ Len(<<a>>) = 1
    OBVIOUS
  <2> QED
    BY <2>1, Zenon
<1>2. h \o s \in Seq(S) /\ Len(h \o s) = Len(h) + Len(s)
  BY ConcatProperties
<1>3. h \o s # <<>>
  BY <1>1, <1>2
<1>4. PICK t : t = h \o s
  BY Zenon
<1>5. t \in Seq(S) /\ t # <<>> /\ Len(t) = 1 + Len(s)
  BY <1>1, <1>2, <1>3, <1>4
<1>6. Tail(t) \in Seq(S) /\ Len(Tail(t)) = Len(s) /\ \A i \in 1..Len(s) : Tail(t)[i] = t[i + 1]
  BY <1>5, HeadTailProperties
<1>7. ASSUME NEW i \in 1..Len(s) PROVE t[i + 1] = s[i]
  BY <1>4, LatterAt, <1>1
<1>8. Tail(t) = s
  BY <1>6, <1>7, SeqEqual, Zenon
<1> QED
  BY <1>1, <1>4, <1>8

\* They are bytes, and subscriptions and conversions have no others.
LEMMA AnswerTypesAre ==
    /\ AnswerTypes \subseteq 0..255
    /\ SubscriptionTypes \subseteq AnswerTypes
    /\ PositionTypes \subseteq AnswerTypes
  BY TypesAreBytes DEF AnswerTypes, SubscriptionTypes, PositionTypes, TYPE_INTEGER, TYPE_DOUBLE,
     TYPE_STRING, TYPE_COLOR,
     POSITION_2D, POSITION_LON_LAT, POSITION_3D, POSITION_LON_LAT_ALT, POSITION_ROADMAP, TYPE_POLYGON, TYPE_STRINGLIST

\* The samples of each type.
LEMMA SamplesAre ==
    /\ Samples(TYPE_INTEGER) = {<<I32(0)>>}
    /\ Samples(TYPE_DOUBLE) = {<<Doubles(1)>>}
    /\ Samples(TYPE_STRING) = {<<String(1)>>}
    /\ Samples(TYPE_COLOR) = {Tail(AColor)}
    /\ Samples(POSITION_2D) = {Copies(2, <<Doubles(1)>>)}
    /\ Samples(POSITION_LON_LAT) = {Copies(2, <<Doubles(1)>>)}
    /\ Samples(POSITION_3D) = {Copies(3, <<Doubles(1)>>)}
    /\ Samples(POSITION_LON_LAT_ALT) = {Copies(3, <<Doubles(1)>>)}
    /\ Samples(POSITION_ROADMAP) = {<<String(1), Doubles(1), UByte(0)>>}
    /\ Samples(TYPE_POLYGON) = {Tail(APolygon(n)) : n \in PolygonSizes}
    /\ Samples(TYPE_STRINGLIST) = {Tail(AStringList(n)) : n \in ListSizes}
  BY DEF Samples, TYPE_INTEGER, TYPE_DOUBLE, TYPE_STRING, TYPE_COLOR,
     POSITION_2D, POSITION_LON_LAT, POSITION_3D, POSITION_LON_LAT_ALT, POSITION_ROADMAP, TYPE_POLYGON, TYPE_STRINGLIST

\* A sample of a type is read as a value of it.
LEMMA SampleTaken ==
    ASSUME NEW type \in AnswerTypes, NEW sample \in Samples(type)
    PROVE  Takes(Value(type), sample)
<1>0. \A n \in Nat : n \in Int
  OBVIOUS
<1>1. CASE type = TYPE_INTEGER
  <2>1. PICK n \in Int : n = 0
    OBVIOUS
  <2>2. Takes(Value(TYPE_INTEGER), <<I32(n)>>)
    BY TakesTyped, Zenon
  <2> QED
    BY <1>1, <2>1, <2>2, SamplesAre
<1>2. CASE type = TYPE_DOUBLE
  BY <1>2, SamplesAre, TakesTyped, Zenon
<1>3. CASE type = TYPE_STRING
  <2>1. PICK n \in Nat : n = 1
    OBVIOUS
  <2>2. Takes(Value(TYPE_STRING), <<String(n)>>)
    BY TakesTyped, Zenon
  <2> QED
    BY <1>3, <2>1, <2>2, SamplesAre
<1>4. CASE type = TYPE_COLOR
  <2>1. PICK s \in Seq(Tokens) : s = Copies(4, <<UByte(0)>>)
    BY TakesTyped DEF Takes
  <2>2. UByte(TYPE_COLOR) \in Tokens
    BY Bytes
  <2>3. Tail(<<UByte(TYPE_COLOR)>> \o s) = s
    BY <2>2, TailOf, SMTT(30)
  <2> QED
    BY <1>4, <2>1, <2>3, SamplesAre, TakesTyped, Zenon DEF AColor
<1>5. CASE type = POSITION_2D
  BY <1>5, SamplesAre, TakesTyped, SMTT(30)
<1>6. CASE type = POSITION_LON_LAT
  BY <1>6, SamplesAre, TakesTyped, SMTT(30)
<1>7. CASE type = POSITION_3D
  BY <1>7, SamplesAre, TakesTyped, SMTT(30)
<1>8. CASE type = POSITION_LON_LAT_ALT
  BY <1>8, SamplesAre, TakesTyped
<1>9. CASE type = POSITION_ROADMAP
  <2>1. \A n : Takes(Value(POSITION_ROADMAP), <<String(1), Doubles(1), UByte(n)>>)
    BY TakesTyped, Zenon
  <2> QED
    BY <1>9, <2>1, SamplesAre
<1>10. CASE type = TYPE_POLYGON
  <2>1. PICK n \in PolygonSizes : sample = Tail(APolygon(n))
    BY <1>10, SamplesAre
  <2>2. n \in Nat \ {0} /\ n \in Int
    BY DEF PolygonSizes
  <2>3. PICK d \in Seq(Tokens) : d = <<Doubles(2 * n)>>
    <3>1. 2 * n \in Nat \ {0}
      BY <2>2
    <3>2. Doubles(2 * n) \in Tokens
      BY <3>1, ManyDoubles
    <3>3. <<Doubles(2 * n)>> \in Seq(Tokens)
      BY <3>2
    <3> QED
      BY <3>3, Zenon
  <2>4. UByte(TYPE_POLYGON) \in Tokens /\ UByte(n) \in Tokens /\ UByte(0) \in Tokens /\ I32(n) \in Tokens
    BY <2>2, Bytes, Ints
  <2>5. PICK b \in Seq(Tokens) : b = <<UByte(TYPE_POLYGON)>>
    <3>1. <<UByte(TYPE_POLYGON)>> \in Seq(Tokens)
      BY <2>4
    <3> QED
      BY <3>1, Zenon
  <2>6. CASE n < 256
    <3>1. n \in 1..255
      BY <2>2, <2>6
    <3>2. PICK c \in Seq(Tokens) : c = <<UByte(n)>>
      <4>1. <<UByte(n)>> \in Seq(Tokens)
        BY <2>4
      <4> QED
        BY <4>1, Zenon
    <3>3. Takes(Value(TYPE_POLYGON), c \o d)
      BY <3>1, <3>2, <2>3, TakesTyped, Zenon
    <3>4. APolygon(n) = b \o (c \o d)
      BY ConcatAssociative, <2>3, <2>5, <2>6, <3>2 DEF APolygon
    <3>5. c \o d \in Seq(Tokens)
      BY ConcatProperties
    <3>6. Tail(b \o (c \o d)) = c \o d
      BY <2>4, <2>5, <3>5, TailOf
    <3> QED
      BY <1>10, <2>1, <3>3, <3>4, <3>6, Zenon
  <2>7. CASE ~(n < 256)
    <3>1. Takes(Value(TYPE_POLYGON), <<UByte(0)>> \o (<<I32(n)>> \o <<Doubles(2 * n)>>))
      BY <2>2, TakesTyped, Zenon
    <3>2. PICK c \in Seq(Tokens) : c = <<UByte(0), I32(n)>>
      BY <2>4, Pairs, Zenon
    <3>3. <<UByte(0)>> \o (<<I32(n)>> \o d) = c \o d
      BY <2>4, SingleWants, <3>2, Pairs, ConcatAssociative
    <3>4. APolygon(n) = b \o (c \o d)
      BY ConcatAssociative, <2>3, <2>5, <2>7, <3>2 DEF APolygon
    <3>5. c \o d \in Seq(Tokens)
      BY ConcatProperties
    <3>6. Tail(b \o (c \o d)) = c \o d
      BY <2>4, <2>5, <3>5, TailOf
    <3> QED
      BY <1>10, <2>1, <2>3, <3>1, <3>3, <3>4, <3>6, Zenon
  <2> QED
    BY <2>6, <2>7
<1>11. CASE type = TYPE_STRINGLIST
  <2>1. PICK n \in ListSizes : sample = Tail(AStringList(n))
    BY <1>11, SamplesAre
  <2>2. n \in Nat
    BY SMTT(30) DEF ListSizes
  <2>3. PICK l \in Seq(Tokens) : l = <<I32(n)>> \o Copies(n, <<String(1)>>)
    BY <2>2, TakesTyped, Zenon DEF Takes
  <2>4. AStringList(n) = <<UByte(TYPE_STRINGLIST)>> \o l
    <3>1. UByte(TYPE_STRINGLIST) \in Tokens /\ I32(n) \in Tokens /\ String(1) \in Tokens
      BY <2>2, Bytes, Ints, Strings
    <3>2. <<UByte(TYPE_STRINGLIST)>> \in Seq(Tokens) /\ <<I32(n)>> \in Seq(Tokens) /\ Copies(n, <<String(1)>>) \in Seq(Tokens)
      BY <2>2, <3>1, SingleWants, CopiesOf
    <3>3. <<UByte(TYPE_STRINGLIST)>> \o (<<I32(n)>> \o Copies(n, <<String(1)>>))
            = (<<UByte(TYPE_STRINGLIST)>> \o <<I32(n)>>) \o Copies(n, <<String(1)>>)
      BY <3>2, ConcatAssociative
    <3>4. <<UByte(TYPE_STRINGLIST)>> \o <<I32(n)>> = <<UByte(TYPE_STRINGLIST), I32(n)>>
      BY <3>1, Pairs
    <3> QED
      BY <2>3, <3>3, <3>4, Zenon DEF AStringList
  <2>5. UByte(TYPE_STRINGLIST) \in Tokens
    BY Bytes
  <2>6. Tail(<<UByte(TYPE_STRINGLIST)>> \o l) = l
    BY <2>5, TailOf
  <2> QED
    BY <1>11, <2>1, <2>2, <2>3, <2>4, <2>6, TakesTyped, Zenon
<1> QED
  BY <1>1, <1>2, <1>3, <1>4, <1>5, <1>6, <1>7, <1>8, <1>9, <1>10, <1>11 DEF AnswerTypes

\* Every question has one of these readings.
LEMMA AsksReadings ==
    ASSUME NEW d \in DOMAIN Domain, NEW n, NEW type, NEW reads, <<type, reads>> = Asks(d, n)
    PROVE  IsReading(type, reads)
<1>1. \A t \in AnswerTypes : <<type, reads>> = <<t, "plain">> => IsReading(type, reads)
  BY DEF IsReading
<1>2. \A k \in CompoundKinds : <<type, reads>> = <<TYPE_COMPOUND, k>> => IsReading(type, reads)
  BY DEF IsReading
<1>3. /\ TYPE_INTEGER \in AnswerTypes /\ TYPE_DOUBLE \in AnswerTypes /\ TYPE_STRING \in AnswerTypes
      /\ TYPE_COLOR \in AnswerTypes /\ POSITION_2D \in AnswerTypes /\ POSITION_3D \in AnswerTypes
      /\ TYPE_POLYGON \in AnswerTypes /\ TYPE_STRINGLIST \in AnswerTypes
  BY DEF AnswerTypes
<1>4. CASE d = "EDGE"
  BY <1>4, AsksIs, <1>1, <1>2, <1>3 DEF EdgeAsks, CompoundKinds
<1>5. CASE d = "GUI"
  BY <1>5, AsksIs, <1>1, <1>2, <1>3 DEF GUIAsks, CompoundKinds
<1>6. CASE d = "INDUCTIONLOOP"
  BY <1>6, AsksIs, <1>1, <1>2, <1>3 DEF InductionLoopAsks, CompoundKinds
<1>7. CASE d = "JUNCTION"
  BY <1>7, AsksIs, <1>1, <1>2, <1>3 DEF JunctionAsks, CompoundKinds
<1>8. CASE d = "LANE"
  BY <1>8, AsksIs, <1>1, <1>2, <1>3 DEF LaneAsks, CompoundKinds
<1>9. CASE d = "LANEAREA"
  BY <1>9, AsksIs, <1>1, <1>2, <1>3 DEF LaneAreaAsks, CompoundKinds
<1>10. CASE d = "MULTIENTRYEXIT"
  BY <1>10, AsksIs, <1>1, <1>2, <1>3 DEF MeMeAsks, CompoundKinds
<1>11. CASE d = "POI"
  BY <1>11, AsksIs, <1>1, <1>2, <1>3 DEF POIAsks, CompoundKinds
<1>12. CASE d = "POLYGON"
  BY <1>12, AsksIs, <1>1, <1>2, <1>3 DEF PolygonAsks, CompoundKinds
<1>13. CASE d = "ROUTE"
  BY <1>13, AsksIs, <1>1, <1>2, <1>3 DEF RouteAsks, CompoundKinds
<1>14. CASE d = "SIM"
  BY <1>14, AsksIs, <1>1, <1>2, <1>3 DEF SimulationAsks, CompoundKinds
<1>15. CASE d = "TL"
  BY <1>15, AsksIs, <1>1, <1>2, <1>3 DEF TrafficLightAsks, CompoundKinds
<1>16. CASE d = "VEHICLETYPE"
  BY <1>16, AsksIs, <1>1, <1>2, <1>3 DEF VehicleTypeAsks, CompoundKinds
<1>17. CASE d = "VEHICLE"
  BY <1>17, AsksIs, <1>1, <1>2, <1>3 DEF VehicleAsks, CompoundKinds
<1>18. CASE d = "PERSON"
  BY <1>18, AsksIs, <1>1, <1>2, <1>3 DEF PersonAsks, CompoundKinds
<1> QED
  BY <1>4, <1>5, <1>6, <1>7, <1>8, <1>9, <1>10, <1>11, <1>12, <1>13, <1>14, <1>15, <1>16, <1>17,
     <1>18, DomainNumbers

\* A response has its length, its number and its content.
LEMMA ResponseIs ==
    ASSUME NEW command \in 0..255, NEW content \in Seq(Tokens)
    PROVE  \E front \in Seq(Tokens) : /\ Takes(<<Want("length")>>, front)
                                      /\ Response(command, content) = front \o (<<UByte(command)>> \o content)
<1>1. PICK m \in Seq(Tokens) : m = <<UByte(command)>>
  <2>1. UByte(command) \in Tokens
    BY Bytes
  <2>2. <<UByte(command)>> \in Seq(Tokens)
    BY <2>1
  <2> QED
    BY <2>2, Zenon
<1>2. PICK length \in Nat : length = 1 + 1 + SizeOf(content) /\ length >= 1
  BY SizeFacts
<1>3. PICK front : front = IF length <= 255 THEN <<UByte(length)>> ELSE <<UByte(0), I32(length + 4)>>
  BY Zenon
<1>4. Response(command, content) = (front \o m) \o content
  BY <1>1, <1>2, <1>3 DEF Response
<1>5. Takes(<<Want("length")>>, front)
  <2>1. CASE length <= 255
    <3>0. length \in Nat /\ length >= 1 /\ length <= 255
      BY <1>2, <2>1
    <3>1. length \in 1..255
      BY <3>0
    <3>2. \A n \in 1..255 : Takes(<<Want("length")>>, <<UByte(n)>>)
      BY TakesLength, Zenon
    <3>3. Takes(<<Want("length")>>, <<UByte(length)>>)
      BY <3>1, <3>2, Zenon
    <3>4. front = <<UByte(length)>>
      BY <1>3, <2>1
    <3> QED
      BY <3>3, <3>4
  <2>2. CASE ~(length <= 255)
    <3>1. PICK n \in Int : n = length + 4
      OBVIOUS
    <3>2. Takes(<<Want("length")>>, <<UByte(0)>> \o <<I32(n)>>)
      BY TakesLength, Zenon
    <3>3. UByte(0) \in Tokens /\ I32(n) \in Tokens
      BY Bytes, Ints
    <3>4. <<UByte(0)>> \o <<I32(n)>> = <<UByte(0), I32(n)>>
      BY <3>3, Pairs
    <3> QED
      BY <1>3, <2>2, <3>1, <3>2, <3>4, Zenon
  <2> QED
    BY <2>1, <2>2
<1>6. front \in Seq(Tokens)
  BY <1>5 DEF Takes
<1>7. (front \o m) \o content = front \o (m \o content)
  BY <1>6, ConcatAssociative
<1> QED
  BY <1>1, <1>4, <1>5, <1>6, <1>7, Zenon

\* So a reader that wants that number and then what the content has reads it.
LEMMA ResponseTaken ==
    ASSUME NEW command \in 0..255, NEW want, NEW content, Takes(want, content)
    PROVE  /\ Takes((<<Want("length")>> \o <<This(command)>>) \o want, Response(command, content))
           /\ Response(command, content) \in Seq(Tokens)
<1>1. content \in Seq(Tokens) /\ want \in Seq(Items)
  BY DEF Takes
<1>2. PICK front \in Seq(Tokens) : /\ Takes(<<Want("length")>>, front)
                                   /\ Response(command, content) = front \o (<<UByte(command)>> \o content)
  BY <1>1, ResponseIs, Zenon
<1>3. Takes(<<This(command)>>, <<UByte(command)>>)
  BY TakesOne, Zenon
<1>4. Takes(<<This(command)>> \o want, <<UByte(command)>> \o content)
  BY <1>3, TakesConcat
<1>5. Takes(<<Want("length")>> \o (<<This(command)>> \o want), Response(command, content))
  BY <1>2, <1>4, TakesConcat
<1>6. <<Want("length")>> \in Seq(Items) /\ <<This(command)>> \in Seq(Items)
  BY <1>2, <1>3 DEF Takes
<1>7. <<Want("length")>> \o (<<This(command)>> \o want) = (<<Want("length")>> \o <<This(command)>>) \o want
  BY <1>1, <1>6, ConcatAssociative
<1> QED
  BY <1>5, <1>7, Zenon DEF Takes

\* A reader of a question's answer reads it.
LEMMA AnswerTaken ==
    ASSUME NEW command \in 0..255, NEW varID, NEW objID \in Nat, NEW type, NEW reads, IsReading(type, reads),
           NEW sample, IF reads = "plain" THEN sample \in Samples(type)
                                          ELSE \E n \in ListSizes : sample = CompoundSample(reads, n)
    PROVE  /\ type \in 0..255
           /\ sample \in Seq(Tokens)
           /\ Takes(<<Want("length"), This(command), Want("byte"), Want("string"), This(type)>>
                    \o (IF reads = "plain" THEN Value(type) ELSE Compound(reads)),
                    Response(command, <<UByte(varID), String(objID)>> \o (<<UByte(type)>> \o sample)))
<1>1. type \in 0..255
  <2>1. CASE reads = "plain"
    BY <2>1, AnswerTypesAre, Zenon DEF IsReading, CompoundKinds
  <2>2. CASE reads # "plain"
    BY <2>2, TypesAreBytes DEF IsReading
  <2> QED
    BY <2>1, <2>2
<1>2. PICK v : v = IF reads = "plain" THEN Value(type) ELSE Compound(reads)
  OBVIOUS
<1>3. Takes(v, sample)
  BY <1>2, SampleTaken, CompoundTaken DEF IsReading, CompoundKinds, ListSizes
<1>4. Takes(<<This(type)>>, <<UByte(type)>>)
  BY <1>1, TakesOne, Zenon
<1>5. Takes(<<This(type)>> \o v, <<UByte(type)>> \o sample)
  BY <1>3, <1>4, TakesConcat
<1>6. Takes(ObjectWants, <<UByte(varID), String(objID)>>)
  BY TakesObject
<1>7. Takes(ObjectWants \o (<<This(type)>> \o v), <<UByte(varID), String(objID)>> \o (<<UByte(type)>> \o sample))
  BY <1>5, <1>6, TakesConcat
<1>8. PICK answer : answer = <<UByte(varID), String(objID)>> \o (<<UByte(type)>> \o sample)
  BY Zenon
<1>9. Takes((<<Want("length")>> \o <<This(command)>>) \o (ObjectWants \o (<<This(type)>> \o v)), Response(command, answer))
  BY <1>7, <1>8, ResponseTaken, Zenon
<1>10. PICK l \in Items, c \in Items, b \in Items, s \in Items, t \in Items :
          l = Want("length") /\ c = This(command) /\ b = Want("byte") /\ s = Want("string") /\ t = This(type)
  BY <1>1, Wants, NumberedItems DEF Kinds
<1>11. <<l>> \o <<c>> = <<l, c>> /\ <<l, c>> \in Seq(Items) /\ <<b, s>> \in Seq(Items) /\ <<t>> \in Seq(Items)
  BY Pairs
<1>12. v \in Seq(Items)
  BY <1>3 DEF Takes
<1>13. <<l, c>> \o (<<b, s>> \o (<<t>> \o v)) = <<l, c, b, s, t>> \o v
  <2>1. <<b, s>> \o (<<t>> \o v) = (<<b, s>> \o <<t>>) \o v
    BY <1>11, <1>12, ConcatAssociative
  <2>2. PICK x \in Seq(Items) : x = <<b, s>> \o <<t>>
    BY <1>11, ConcatProperties, Zenon
  <2>3. <<l, c>> \o (x \o v) = (<<l, c>> \o x) \o v
    BY <1>11, <1>12, ConcatAssociative
  <2>4. <<l, c>> \o x = (<<l, c>> \o <<b, s>>) \o <<t>>
    BY <1>11, <2>2, ConcatAssociative
  <2>5. <<l, c>> \o <<b, s>> = <<l, c, b, s>>
    <3>1. <<b>> \o <<s>> = <<b, s>> /\ <<c>> \in Seq(Items) /\ <<l>> \in Seq(Items) /\ <<b>> \in Seq(Items)
      BY Pairs
    <3>2. <<l>> \o (<<c>> \o (<<b>> \o <<s>>)) = <<l, c, b, s>>
      BY Quadruples
    <3>3. (<<l>> \o <<c>>) \o <<b, s>> = <<l>> \o (<<c>> \o <<b, s>>)
      BY <1>11, <3>1, ConcatAssociative
    <3> QED
      BY <1>11, <3>1, <3>2, <3>3, Zenon
  <2>6. <<l, c, b, s>> \o <<t>> = <<l, c, b, s, t>>
    <3>1. Append(<<l, c, b, s>>, t) = <<l, c, b, s, t>> /\ <<l, c, b, s>> \in Seq(Items)
      BY FourAndOne
    <3> QED
      BY <3>1, AppendIsConcat, Zenon
  <2> QED
    BY <2>1, <2>2, <2>3, <2>4, <2>5, <2>6
<1>14. ObjectWants = <<b, s>>
  BY <1>10 DEF ObjectWants
<1>15. Takes(<<l, c, b, s, t>> \o v, Response(command, answer))
  BY <1>9, <1>10, <1>11, <1>13, <1>14, Zenon
<1> QED
  BY <1>1, <1>2, <1>3, <1>8, <1>10, <1>15, Zenon DEF Takes

-----------------------------------------------------------------------------
(* Replies: a status, and what follows it.                                 *)

\* Four members have a size that is the sum of theirs, wherever they stand.
LEMMA StatusIs ==
    ASSUME NEW command \in 0..255, NEW result, result = RTYPE_OK \/ result = RTYPE_ERR
    PROVE  \E a, b, c, d \in Tokens :
             /\ Status(command, result) = <<a, b, c, d>>
             /\ Takes(<<Want("byte")>>, <<a>>) /\ Takes(<<This(command)>>, <<b>>)
             /\ Takes(<<Want("byte")>>, <<c>>) /\ Takes(<<Want("string")>>, <<d>>)
             /\ a.v = ((Size(a) + Size(b)) + Size(c)) + Size(d)
             /\ c.v = result
<1>1. PICK text \in Nat : text = IF result = RTYPE_OK THEN 0 ELSE 1
  OBVIOUS
<1>2. PICK n \in 0..255 : n = 1 + 1 + 1 + 4 + text
  BY <1>1
<1>3. result \in 0..255
  BY DEF RTYPE_OK, RTYPE_ERR
<1>4. UByte(n) \in Tokens /\ UByte(n).v = n /\ Size(UByte(n)) = 1
  BY Bytes
<1>5. UByte(command) \in Tokens /\ Size(UByte(command)) = 1
  BY Bytes
<1>6. UByte(result) \in Tokens /\ UByte(result).v = result /\ Size(UByte(result)) = 1
  BY <1>3, Bytes
<1>7. String(text) \in Tokens /\ Size(String(text)) = 4 + text
  BY Strings
<1>8. /\ Takes(<<Want("byte")>>, <<UByte(n)>>) /\ Takes(<<This(command)>>, <<UByte(command)>>)
      /\ Takes(<<Want("byte")>>, <<UByte(result)>>) /\ Takes(<<Want("string")>>, <<String(text)>>)
  BY TakesOne, Zenon
<1>9. Status(command, result) = <<UByte(n), UByte(command), UByte(result), String(text)>>
  BY <1>1, <1>2 DEF Status
<1>10. n = ((1 + 1) + 1) + (4 + text)
  BY <1>2
<1> QED
  BY <1>4, <1>5, <1>6, <1>7, <1>8, <1>9, <1>10, Zenon

\* The first part of a sequence.
LEMMA FirstPart ==
    ASSUME NEW S, NEW s \in Seq(S), NEW t \in Seq(S)
    PROVE  \A n : n = Len(s) => SubSeq(s \o t, 1, n) = s
  BY ConcatProperties, LenProperties, SeqEqual

\* A status is read as what it says, whatever follows it.
LEMMA StatusRead ==
    ASSUME NEW command \in 0..255, NEW result, result = RTYPE_OK \/ result = RTYPE_ERR,
           NEW content \in Seq(Tokens),
           NEW msg, msg = Status(command, result) \o content
    PROVE  /\ msg \in Seq(Tokens)
           /\ result = RTYPE_OK => ResultState(msg, command) = "ok"
           /\ result = RTYPE_ERR => ResultState(msg, command) = "refused"
           /\ AfterStatus(msg) = content
<1>1. PICK a \in Tokens, b \in Tokens, c \in Tokens, d \in Tokens :
             /\ Status(command, result) = <<a, b, c, d>>
             /\ Takes(<<Want("byte")>>, <<a>>) /\ Takes(<<This(command)>>, <<b>>)
             /\ Takes(<<Want("byte")>>, <<c>>) /\ Takes(<<Want("string")>>, <<d>>)
             /\ a.v = ((Size(a) + Size(b)) + Size(c)) + Size(d)
             /\ c.v = result
  BY StatusIs, Zenon
<1>2. PICK status \in Seq(Tokens) : status = <<a, b, c, d>> /\ Len(status) = 4
  <2>1. <<a, b, c, d>> \in Seq(Tokens)
    BY Quadruples
  <2> QED
    BY <2>1, Zenon
<1>3. status[1].v = SizeOf(status) /\ status[3].v = result
  BY <1>1, <1>2, SizeOfFew
<1>4. PICK x \in Items, y \in Items, z \in Items : x = Want("byte") /\ y = This(command) /\ z = Want("string")
  BY Wants, NumberedItems DEF Kinds
<1>5. Takes(<<x, y, x, z>>, status)
  <2>1. PICK want \in Seq(Items) : want = <<x, y, x, z>> /\ Len(want) = 4
    <3>1. <<x, y, x, z>> \in Seq(Items)
      OBVIOUS
    <3> QED
      BY <3>1, Zenon
  <2>2. \A i \in 1..4 : Takes(<<want[i]>>, <<status[i]>>)
    <3>1. Takes(<<x>>, <<a>>) /\ Takes(<<y>>, <<b>>) /\ Takes(<<x>>, <<c>>) /\ Takes(<<z>>, <<d>>)
      BY <1>1, <1>4
    <3>2. want[1] = x /\ want[2] = y /\ want[3] = x /\ want[4] = z
      BY <2>1
    <3>3. status[1] = a /\ status[2] = b /\ status[3] = c /\ status[4] = d
      BY <1>2
    <3>4. Takes(<<want[1]>>, <<status[1]>>) /\ Takes(<<want[2]>>, <<status[2]>>)
          /\ Takes(<<want[3]>>, <<status[3]>>) /\ Takes(<<want[4]>>, <<status[4]>>)
      BY <3>1, <3>2, <3>3
    <3>5. 1..4 = {1, 2, 3, 4}
      OBVIOUS
    <3> QED
      BY <3>4, <3>5, Zenon
  <2>3. \A i \in 1..Len(want) : Takes(<<want[i]>>, <<status[i]>>)
    BY <2>1, <2>2, Zenon
  <2> QED
    BY <1>2, <2>1, <2>3, TakesEach, Zenon
<1>6. Complete(Reading(status, <<Want("byte"), This(command), Want("byte"), Want("string")>>, 0))
  BY <1>4, <1>5, TakesCompletes
<1>7. msg = status \o content
  BY <1>1, <1>2
<1>8. /\ ResultState(msg, command) = IF result = RTYPE_OK THEN "ok" ELSE "refused"
      /\ SubSeq(msg, 5, Len(msg)) = content
  <2>1. SubSeq(msg, 1, 4) = status
    BY <1>2, <1>7, FirstPart, Zenon
  <2>2. msg[1] = status[1] /\ msg[3] = status[3]
    BY <1>2, <1>7, ConcatProperties
  <2>3. SubSeq(msg, 5, Len(msg)) = content
    BY <1>2, <1>7, SecondPart
  <2>4. ResultState(msg, command) = IF msg[3].v # RTYPE_OK THEN "refused" ELSE IF msg[1].v = SizeOf(status) THEN "ok" ELSE "broken"
    BY <1>6, <2>1, Zenon DEF ResultState
  <2> QED
    BY <1>3, <2>2, <2>3, <2>4
<1>9. msg \in Seq(Tokens)
  BY <1>7, ConcatProperties
<1>10. RTYPE_OK # RTYPE_ERR
  BY DEF RTYPE_OK, RTYPE_ERR
<1> QED
  BY <1>8, <1>9, <1>10 DEF AfterStatus

\* So is one that says all is well.
LEMMA StatusOk ==
    ASSUME NEW command \in 0..255, NEW content \in Seq(Tokens), NEW msg,
           msg = Status(command, RTYPE_OK) \o content
    PROVE  msg \in Seq(Tokens) /\ ResultState(msg, command) = "ok" /\ AfterStatus(msg) = content
  BY StatusRead, Zenon

\* A version is a number and a string.
LEMMA VersionTaken ==
    Takes(<<Want("length"), This(CMD_GETVERSION), Want("int"), Want("string")>>,
          Response(CMD_GETVERSION, <<I32(0), String(1)>>))
<1>1. PICK n \in 0..255 : n = CMD_GETVERSION
  BY DEF CMD_GETVERSION
<1>2. PICK l \in Items, c \in Items, x \in Items, y \in Items :
          l = Want("length") /\ c = This(n) /\ x = Want("int") /\ y = Want("string")
  BY Wants, NumberedItems DEF Kinds
<1>3. PICK a \in Tokens, b \in Tokens : a = I32(0) /\ b = String(1)
  BY Ints, Strings
<1>4. Takes(<<x>> \o <<y>>, <<a>> \o <<b>>)
  <2>1. Takes(<<x>>, <<a>>) /\ Takes(<<y>>, <<b>>)
    <3>1. 0 \in Int /\ 1 \in Nat
      OBVIOUS
    <3>2. \A i \in Int : Takes(<<Want("int")>>, <<I32(i)>>)
      BY TakesOne, Zenon
    <3>3. \A i \in Nat : Takes(<<Want("string")>>, <<String(i)>>)
      BY TakesOne, Zenon
    <3>4. Takes(<<Want("int")>>, <<I32(0)>>) /\ Takes(<<Want("string")>>, <<String(1)>>)
      BY <3>1, <3>2, <3>3
    <3> QED
      BY <1>2, <1>3, <3>4
  <2> QED
    BY <2>1, TakesConcat
<1>5. Takes(<<x>> \o <<y>>, <<a, b>>)
  BY <1>4, Pairs, Zenon
<1>6. Takes((<<l>> \o <<c>>) \o (<<x>> \o <<y>>), Response(n, <<a, b>>))
  BY <1>2, <1>5, ResponseTaken, Zenon
<1>7. (<<l>> \o <<c>>) \o (<<x>> \o <<y>>) = <<l, c, x, y>>
  <2>1. <<l>> \o (<<c>> \o (<<x>> \o <<y>>)) = <<l, c, x, y>>
    BY Quadruples
  <2>2. <<l>> \in Seq(Items) /\ <<c>> \in Seq(Items) /\ <<x, y>> \in Seq(Items) /\ <<x>> \o <<y>> = <<x, y>>
    BY Pairs
  <2>3. PICK u \in Seq(Items), v \in Seq(Items), w \in Seq(Items) : u = <<l>> /\ v = <<c>> /\ w = <<x>> \o <<y>>
    BY <2>2, Zenon
  <2>4. u \o (v \o w) = (u \o v) \o w
    BY ConcatAssociative
  <2> QED
    BY <2>1, <2>3, <2>4, Zenon
<1> QED
  BY <1>1, <1>2, <1>3, <1>6, <1>7, Zenon

-----------------------------------------------------------------------------
(* Reading what subscriptions brought.                                     *)

\* The parts of a place.
LEMMA PlaceIs ==
    ASSUME NEW command, NEW holder, NEW object, NEW variables
    PROVE  \A want, found : At(want, Place(command, holder, object, variables), found)
                              = Reader(want, command, holder, object, variables, found)
  BY DEF At, Place

\* What only takes stays at its place.
LEMMA AdvanceTakes ==
    ASSUME NEW want, NEW tokens, Takes(want, tokens), NEW place
    PROVE  Advances(want, place, tokens, place, {})
  BY DEF Takes, At, Advances

\* Some items and then others.
LEMMA AdvanceConcat ==
    ASSUME NEW v, NEW w, NEW s, NEW t, NEW p, NEW q, NEW r, NEW one, NEW more,
           Advances(v, p, s, q, one), Advances(w, q, t, r, more)
    PROVE  Advances(v \o w, p, s \o t, r, one \cup more)
<1>1. v \in Seq(Items) /\ w \in Seq(Items) /\ s \in Seq(Tokens) /\ t \in Seq(Tokens)
  BY DEF Advances
<1>2. v \o w \in Seq(Items) /\ s \o t \in Seq(Tokens)
  BY <1>1, ConcatProperties
<1>3. ASSUME NEW rest \in Seq(Items), NEW found
      PROVE  Reads(At((v \o w) \o rest, p, found), s \o t, At(rest, r, found \cup (one \cup more)))
  <2>1. w \o rest \in Seq(Items) /\ (v \o w) \o rest = v \o (w \o rest)
    BY <1>1, ConcatProperties, ConcatAssociative
  <2>2. Reads(At(v \o (w \o rest), p, found), s, At(w \o rest, q, found \cup one))
    BY <2>1, Zenon DEF Advances
  <2>3. Reads(At(w \o rest, q, found \cup one), t, At(rest, r, (found \cup one) \cup more))
    BY Zenon DEF Advances
  <2>4. (found \cup one) \cup more = found \cup (one \cup more)
    OBVIOUS
  <2>5. Reads(At(v \o (w \o rest), p, found), s \o t, At(rest, r, (found \cup one) \cup more))
    BY <1>1, <2>2, <2>3, ReadsConcat
  <2> QED
    BY <2>1, <2>4, <2>5, Zenon
<1> QED
  BY <1>2, <1>3 DEF Advances

\* Nothing is wanted.
LEMMA AdvanceNothing ==
    ASSUME NEW place
    PROVE  Advances(<<>>, place, <<>>, place, {})
  BY TakesNothing, AdvanceTakes

\* An item, and the items that its token puts in its place.
LEMMA AdvanceInside ==
    ASSUME NEW item \in Items, NEW token \in Tokens, Accepts(item, token),
           NEW command, NEW holder, NEW object, NEW variables, NEW place, NEW one,
           Leads(item, token, command, holder, object, variables, place, one),
           NEW w,
           \A reader : Head(reader.want) = item /\ reader.command = command /\ reader.variables = variables
                         => After(reader, token) = w,
           NEW t, NEW after, NEW new, Advances(w, place, t, after, new)
    PROVE  Advances(<<item>>, Place(command, holder, object, variables), <<token>> \o t, after, one \cup new)
<1>1. <<item>> \in Seq(Items) /\ <<token>> \in Seq(Tokens) /\ t \in Seq(Tokens) /\ w \in Seq(Items)
  BY DEF Advances
<1>2. <<token>> \o t \in Seq(Tokens)
  BY <1>1, ConcatProperties
<1>3. ASSUME NEW rest \in Seq(Items), NEW found
      PROVE  Reads(At(<<item>> \o rest, Place(command, holder, object, variables), found), <<token>> \o t,
                   At(rest, after, found \cup (one \cup new)))
  <2>1. PICK reader : reader = Reader(<<item>> \o rest, command, holder, object, variables, found)
    OBVIOUS
  <2>2. /\ Head(reader.want) = item
        /\ \A more : more = After(reader, token) =>
               /\ item.as \notin Marks =>
                    ReadToken(reader, token) = Reader(more \o rest, command, holder, object, variables, found)
               /\ item.as = "command" =>
                    ReadToken(reader, token) = Reader(more \o rest, token.v, holder, object, variables, found)
               /\ item.as = "holder" =>
                    ReadToken(reader, token) = Reader(more \o rest, command, token.v, token.v, variables, found)
               /\ item.as = "object" =>
                    ReadToken(reader, token) = Reader(more \o rest, command, holder, token.v, variables, found)
               /\ item.as = "variables" =>
                    ReadToken(reader, token) = Reader(more \o rest, command, holder, object, token.v, found)
               /\ item.as = "variable" =>
                    \A some : some = found \cup {Result(command, holder, object, token.v)} =>
                      ReadToken(reader, token) = Reader(more \o rest, command, holder, object, variables, some)
    BY <2>1, ReadStep
  <2>3. After(reader, token) = w
    BY <2>1, <2>2, Zenon DEF Reader
  <2>4. PICK some : some = found \cup one
    BY Zenon
  <2>5. ReadToken(reader, token) = At(w \o rest, place, some)
    <3>1. item.as \notin Marks => found \cup {} = found
      OBVIOUS
    <3>2. CASE item.as \notin Marks /\ place = Place(command, holder, object, variables) /\ one = {}
      BY <2>2, <2>3, <2>4, <3>2, PlaceIs
    <3>3. CASE item.as = "command" /\ place = Place(token.v, holder, object, variables) /\ one = {}
      BY <2>2, <2>3, <2>4, <3>3, PlaceIs
    <3>4. CASE item.as = "holder" /\ place = Place(command, token.v, token.v, variables) /\ one = {}
      BY <2>2, <2>3, <2>4, <3>4, PlaceIs
    <3>5. CASE item.as = "object" /\ place = Place(command, holder, token.v, variables) /\ one = {}
      BY <2>2, <2>3, <2>4, <3>5, PlaceIs
    <3>6. CASE item.as = "variables" /\ place = Place(command, holder, object, token.v) /\ one = {}
      BY <2>2, <2>3, <2>4, <3>6, PlaceIs
    <3>7. CASE item.as = "variable" /\ place = Place(command, holder, object, variables)
               /\ one = {Result(command, holder, object, token.v)}
      BY <2>2, <2>3, <2>4, <3>7, PlaceIs
    <3> QED
      BY <3>2, <3>3, <3>4, <3>5, <3>6, <3>7 DEF Leads
  <2>6. Reads(reader, <<token>>, At(w \o rest, place, some))
    BY <2>5, ReadsOne
  <2>7. Reads(At(w \o rest, place, some), t, At(rest, after, some \cup new))
    BY DEF Advances
  <2>8. Reads(reader, <<token>> \o t, At(rest, after, some \cup new))
    BY <1>1, <2>6, <2>7, ReadsConcat, Zenon
  <2>9. some \cup new = found \cup (one \cup new)
    BY <2>4
  <2>10. reader = At(<<item>> \o rest, Place(command, holder, object, variables), found)
    BY <2>1, PlaceIs
  <2> QED
    BY <2>8, <2>9, <2>10, Zenon
<1> QED
  BY <1>1, <1>2, <1>3, Zenon DEF Advances

\* What the reading of a result wants.
LEMMA ResultsAre ==
    ASSUME NEW x \in Items, NEW y \in Items, NEW z \in Items,
           x = Want("variable"), y = Want("status"), z = Want("result")
    PROVE  /\ ResultsOf(1) = <<x, y, z>>
           /\ ResultsOf(1) = <<x>> \o (<<y>> \o <<z>>)
           /\ ResultsOf(1) \in Seq(Items)
<1>1. <<x>> \o (<<y>> \o <<z>>) = <<x, y, z>> /\ <<x, y, z>> \in Seq(Items)
  BY Triples
<1>2. PICK w \in Seq(Items) : w = <<x, y, z>>
  BY <1>1, Zenon
<1>3. Copies(1, w) = w
  BY CopiesFacts
<1> QED
  BY <1>1, <1>2, <1>3, Zenon DEF ResultsOf

\* It is stored where the reader is.
LEMMA ResultAdvances ==
    ASSUME NEW command, NEW holder, NEW object, NEW variables,
           NEW variable \in 0..255, NEW type \in SubscriptionTypes, NEW sample \in Samples(type)
    PROVE  /\ Advances(ResultsOf(1), Place(command, holder, object, variables), OneResult(variable, type, sample),
                       Place(command, holder, object, variables), {Result(command, holder, object, variable)})
           /\ OneResult(variable, type, sample) \in Seq(Tokens)
<1>1. PICK x \in Items, y \in Items, z \in Items : x = Want("variable") /\ y = Want("status") /\ z = Want("result")
  BY Wants DEF Kinds
<1>2. PICK a \in Tokens, b \in Tokens, c \in Tokens : a = UByte(variable) /\ b = UByte(RTYPE_OK) /\ c = UByte(type)
  BY Bytes
<1>3. type \in AnswerTypes /\ type \in 0..255
  BY AnswerTypesAre
<1>4. a.v = variable /\ b.v = RTYPE_OK /\ c.v = type /\ a.as = "byte" /\ b.as = "byte" /\ c.as = "byte"
  BY <1>2, <1>3, Bytes DEF RTYPE_OK
<1>5. x.as = "variable" /\ y.as = "status" /\ z.as = "result"
  BY <1>1 DEF Want
<1>6. Takes(Value(type), sample)
  BY <1>3, SampleTaken
<1>7. Takes(<<z>>, <<c>> \o sample)
  BY <1>4, <1>5, RowNames, <1>6, TakesInside DEF Accepts, CarrierOf, After, Marks
<1>8. Takes(<<y>>, <<b>>)
  BY <1>4, <1>5, RowNames, TakesToken DEF Accepts, CarrierOf, Plain
<1>9. Takes(<<y>> \o <<z>>, <<b>> \o (<<c>> \o sample))
  BY <1>7, <1>8, TakesConcat
<1>10. PICK place : place = Place(command, holder, object, variables)
  OBVIOUS
<1>11. Advances(<<y>> \o <<z>>, place, <<b>> \o (<<c>> \o sample), place, {})
  BY <1>9, AdvanceTakes
<1>12. PICK one : one = {Result(command, holder, object, variable)}
  BY Zenon
<1>13. Advances(<<x>>, place, <<a>> \o <<>>, place, one \cup {})
  BY <1>4, <1>5, RowNames, <1>10, <1>12, AdvanceNothing, AdvanceInside, Zenon DEF Accepts,
     CarrierOf, Leads, After
<1>14. <<a>> \o <<>> = <<a>> /\ <<a>> \in Seq(Tokens) /\ one \cup {} = one
  BY ConcatEmptySeq
<1>15. Advances(<<x>>, place, <<a>>, place, one)
  BY <1>13, <1>14
<1>16. Advances(<<x>> \o (<<y>> \o <<z>>), place, <<a>> \o (<<b>> \o (<<c>> \o sample)), place, one \cup {})
  BY <1>11, <1>15, AdvanceConcat
<1>17. <<a>> \o (<<b>> \o (<<c>> \o sample)) = OneResult(variable, type, sample)
  <2>1. PICK u \in Seq(Tokens), v \in Seq(Tokens), w \in Seq(Tokens), s \in Seq(Tokens) :
           u = <<a>> /\ v = <<b>> /\ w = <<c>> /\ s = sample
    <3>1. <<a>> \in Seq(Tokens) /\ <<b>> \in Seq(Tokens) /\ <<c>> \in Seq(Tokens)
      OBVIOUS
    <3>2. sample \in Seq(Tokens)
      BY <1>6 DEF Takes
    <3> QED
      BY <3>1, <3>2, Zenon
  <2>2. v \o (w \o s) = (v \o w) \o s
    BY ConcatAssociative
  <2>3. PICK vw \in Seq(Tokens) : vw = v \o w
    BY ConcatProperties, Zenon
  <2>4. u \o (vw \o s) = (u \o vw) \o s
    BY ConcatAssociative
  <2>5. u \o vw = <<a, b, c>>
    <3>1. <<a>> \o (<<b>> \o <<c>>) = <<a, b, c>>
      BY Triples
    <3> QED
      BY <2>1, <2>3, <3>1, Zenon
  <2> QED
    BY <1>2, <2>1, <2>2, <2>3, <2>4, <2>5 DEF OneResult
<1>18. ResultsOf(1) = <<x>> \o (<<y>> \o <<z>>)
  BY <1>1, ResultsAre
<1>19. Advances(ResultsOf(1), place, OneResult(variable, type, sample), place, one)
  BY <1>16, <1>17, <1>18, Zenon
<1> QED
  BY <1>10, <1>12, <1>19 DEF Advances

\* One item that one token satisfies, and leads on from.
LEMMA AdvanceOne ==
    ASSUME NEW item \in Items, NEW token \in Tokens, Accepts(item, token),
           NEW command, NEW holder, NEW object, NEW variables, NEW place, NEW one,
           Leads(item, token, command, holder, object, variables, place, one),
           \A reader : Head(reader.want) = item /\ reader.command = command /\ reader.variables = variables
                         => After(reader, token) = <<>>
    PROVE  Advances(<<item>>, Place(command, holder, object, variables), <<token>>, place, one)
<1>1. Advances(<<>>, place, <<>>, place, {})
  BY AdvanceNothing
<1>2. PICK before : before = Place(command, holder, object, variables)
  OBVIOUS
<1>3. Advances(<<item>>, before, <<token>> \o <<>>, place, one \cup {})
  BY <1>1, <1>2, AdvanceInside, Zenon
<1>4. <<token>> \in Seq(Tokens) /\ one \cup {} = one
  OBVIOUS
<1>5. <<token>> \o <<>> = <<token>>
  BY <1>4, ConcatEmptySeq
<1> QED
  BY <1>2, <1>3, <1>4, <1>5

\* The object a subscription is about.
LEMMA HolderAdvances ==
    ASSUME NEW n \in Nat, NEW command, NEW holder, NEW object, NEW variables
    PROVE  Advances(<<Want("holder")>>, Place(command, holder, object, variables), <<String(n)>>,
                    Place(command, n, n, variables), {})
  BY Wants, Strings, RowNames, AdvanceOne DEF Kinds, Accepts, CarrierOf, Leads, After

\* An object near it.
LEMMA ObjectAdvances ==
    ASSUME NEW n \in Nat, NEW command, NEW holder, NEW object, NEW variables
    PROVE  Advances(<<Want("object")>>, Place(command, holder, object, variables), <<String(n)>>,
                    Place(command, holder, n, variables), {})
  BY Wants, Strings, RowNames, AdvanceOne DEF Kinds, Accepts, CarrierOf, Leads, After

\* One more of them.
LEMMA NearbyMore ==
    ASSUME NEW row \in Seq(Tokens), NEW n \in Nat, NEW m, m = n + 1, NEW ids, Named(m, ids)
    PROVE  Nearby(m, ids, row) = Nearby(n, ids, row) \o (<<String(ids[m])>> \o row)
<1>1. \A i \in 1..m : <<String(ids[i])>> \o row \in Seq(Tokens)
  <2> TAKE i \in 1..m
  <2>1. PICK k \in Nat : k = ids[i]
    BY DEF Named
  <2>2. String(k) \in Tokens
    BY Strings
  <2>3. <<String(k)>> \in Seq(Tokens)
    BY <2>2
  <2> QED
    BY <2>1, <2>3, ConcatProperties
<1>2. PICK F : F = [i \in 1..m |-> <<String(ids[i])>> \o row]
  BY Zenon
<1>3. \A i \in 1..m : F[i] \in Seq(Tokens)
  BY <1>1, <1>2
<1>4. PICK s : s = [i \in 1..n |-> F[i]]
  BY Zenon
<1>5. 1..n \subseteq 1..m /\ m \in 1..m
  OBVIOUS
<1>6. s \in Seq(Seq(Tokens)) /\ Len(s) = n
  BY <1>3, <1>4, <1>5
<1>7. PICK f \in Seq(Tokens) : f = F[m]
  BY <1>3, <1>5
<1>8. F \in Seq(Seq(Tokens)) /\ Len(F) = m
  BY <1>2, <1>3
<1>9. F = Append(s, f)
  <2>1. PICK a \in Seq(Seq(Tokens)) : a = Append(s, f) /\ Len(a) = Len(s) + 1 /\ a[Len(s) + 1] = f
                                      /\ \A i \in 1..Len(s) : a[i] = s[i]
    <3>1. PICK S : S = Seq(Tokens)
      OBVIOUS
    <3>2. s \in Seq(S) /\ f \in S
      BY <1>6, <3>1
    <3>3. Append(s, f) \in Seq(S) /\ Len(Append(s, f)) = Len(s) + 1 /\ Append(s, f)[Len(s) + 1] = f
          /\ \A i \in 1..Len(s) : Append(s, f)[i] = s[i]
      BY <3>2, AppendProperties
    <3> QED
      BY <3>1, <3>3, Zenon
  <2>2. Len(a) = m /\ a[m] = f /\ \A i \in 1..n : a[i] = s[i]
    BY <1>6, <2>1
  <2>3. \A i \in 1..m : F[i] = a[i]
    <3> TAKE i \in 1..m
    <3>1. CASE i = m
      BY <1>7, <2>2, <3>1
    <3>2. CASE i # m
      BY <3>2, <1>4, <2>2
    <3> QED
      BY <3>1, <3>2
  <2> QED
    BY <1>8, <2>1, <2>2, <2>3, SeqEqual
<1>10. FlattenSeq(F) = FlattenSeq(s) \o f
  BY <1>6, <1>9, FlattenFacts
<1>11. s = [i \in 1..n |-> <<String(ids[i])>> \o row]
  BY <1>2, <1>4, <1>5
<1>12. f = <<String(ids[m])>> \o row
  BY <1>2, <1>5, <1>7
<1> QED
  BY <1>2, <1>10, <1>11, <1>12, Zenon DEF Nearby

\* And one more result.
LEMMA FoundMore ==
    ASSUME NEW n \in Nat, NEW m, m = n + 1, NEW ids, NEW command, NEW holder, NEW variable
    PROVE  Found(m, ids, command, holder, variable)
             = Found(n, ids, command, holder, variable) \cup {Result(command, holder, ids[m], variable)}
  BY DEF Found

\* What is read of one more of them.
LEMMA OneMoreNearby ==
    ASSUME NEW row \in Seq(Tokens), NEW n \in Nat, NEW m, m = n + 1, NEW ids, Named(m, ids),
           NEW command, NEW holder, NEW variable, NEW w, NEW before, NEW at, NEW after,
           Advances(Copies(n, w), before, Nearby(n, ids, row), at, Found(n, ids, command, holder, variable)),
           Advances(w, at, <<String(ids[m])>> \o row, after, {Result(command, holder, ids[m], variable)}),
           w \in Seq(Items)
    PROVE  Advances(Copies(m, w), before, Nearby(m, ids, row), after, Found(m, ids, command, holder, variable))
<1>1. Copies(m, w) = Copies(n, w) \o w
  BY CopiesFacts, Zenon
<1>2. Nearby(m, ids, row) = Nearby(n, ids, row) \o (<<String(ids[m])>> \o row)
  BY NearbyMore
<1>3. Found(m, ids, command, holder, variable)
        = Found(n, ids, command, holder, variable) \cup {Result(command, holder, ids[m], variable)}
  BY FoundMore
<1>4. PICK one, more, piece : /\ one = Found(n, ids, command, holder, variable)
                              /\ more = {Result(command, holder, ids[m], variable)}
                              /\ piece = <<String(ids[m])>> \o row
  BY Zenon
<1>5. Advances(Copies(n, w), before, Nearby(n, ids, row), at, one) /\ Advances(w, at, piece, after, more)
  BY <1>4
<1>6. Advances(Copies(n, w) \o w, before, Nearby(n, ids, row) \o piece, after, one \cup more)
  BY <1>5, AdvanceConcat
<1> QED
  BY <1>1, <1>2, <1>3, <1>4, <1>6, Zenon

\* So the reader finds the result of each of them.
LEMMA ObjectsAdvance ==
    ASSUME NEW command, NEW holder,
           NEW variable \in 0..255, NEW type \in SubscriptionTypes, NEW sample \in Samples(type),
           NEW row, row = OneResult(variable, type, sample),
           NEW ids
    PROVE  \A n \in Nat : Named(n, ids) =>
             \A object : \E last :
               Advances(Copies(n, <<Want("object")>> \o ResultsOf(1)), Place(command, holder, object, 1),
                        Nearby(n, ids, row), Place(command, holder, last, 1),
                        Found(n, ids, command, holder, variable))
<1>2. row \in Seq(Tokens) /\ ResultsOf(1) \in Seq(Items)
  BY ResultAdvances, Zenon DEF Advances
<1>3. PICK w \in Seq(Items) : w = <<Want("object")>> \o ResultsOf(1)
  <2>1. <<Want("object")>> \in Seq(Items)
    BY Wants DEF Kinds
  <2> QED
    BY <1>2, <2>1, ConcatProperties, Zenon
<1> DEFINE P(n) == Named(n, ids) =>
             \A object : \E last :
               Advances(Copies(n, w), Place(command, holder, object, 1),
                        Nearby(n, ids, row), Place(command, holder, last, 1),
                        Found(n, ids, command, holder, variable))
           T == { n \in Nat : P(n) }
<1>4. P(0)
  <2> SUFFICES ASSUME NEW object
               PROVE  Advances(Copies(0, w), Place(command, holder, object, 1),
                        Nearby(0, ids, row), Place(command, holder, object, 1),
                        Found(0, ids, command, holder, variable))
    OBVIOUS
  <2>1. Copies(0, w) = <<>>
    BY CopiesFacts
  <2>2. Found(0, ids, command, holder, variable) = {}
    BY DEF Found
  <2>3. Nearby(0, ids, row) = <<>>
    BY FlattenFacts DEF Nearby
  <2> QED
    BY <2>1, <2>2, <2>3, AdvanceNothing, Zenon
<1>5. ASSUME NEW n \in Nat, P(n) PROVE P(n + 1)
  <2>1. PICK m \in Nat : m = n + 1
    OBVIOUS
  <2> SUFFICES ASSUME Named(m, ids), NEW object
               PROVE  \E last : Advances(Copies(m, w), Place(command, holder, object, 1),
                        Nearby(m, ids, row), Place(command, holder, last, 1),
                        Found(m, ids, command, holder, variable))
    BY <2>1
  <2>2. Named(n, ids)
    BY <2>1 DEF Named
  <2>3. PICK last :
               Advances(Copies(n, w), Place(command, holder, object, 1),
                        Nearby(n, ids, row), Place(command, holder, last, 1),
                        Found(n, ids, command, holder, variable))
    BY <1>5, <2>2
  <2>4. PICK k \in Nat : k = ids[m]
    BY <2>1 DEF Named
  <2>5. Advances(<<Want("object")>>, Place(command, holder, last, 1), <<String(k)>>, Place(command, holder, k, 1), {})
    BY ObjectAdvances
  <2>6. Advances(ResultsOf(1), Place(command, holder, k, 1), row, Place(command, holder, k, 1),
                 {Result(command, holder, k, variable)})
    BY ResultAdvances, Zenon
  <2>7. PICK new : new = {Result(command, holder, k, variable)}
    BY Zenon
  <2>8. Advances(w, Place(command, holder, last, 1), <<String(k)>> \o row, Place(command, holder, k, 1), {} \cup new)
    BY <1>3, <2>5, <2>6, <2>7, AdvanceConcat
  <2>9. {} \cup new = new
    OBVIOUS
  <2>10. Advances(w, Place(command, holder, last, 1), <<String(ids[m])>> \o row, Place(command, holder, k, 1),
                  {Result(command, holder, ids[m], variable)})
    BY <2>4, <2>7, <2>8, <2>9
  <2> QED
    BY <1>2, <2>1, <2>3, <2>10, OneMoreNearby
<1>6. 0 \in T
  BY <1>4
<1>7. ASSUME NEW n \in Nat, n \in T PROVE n + 1 \in T
  <2> HIDE DEF P
  <2>1. P(n) /\ n + 1 \in Nat
    BY <1>7
  <2>2. P(n + 1)
    BY <1>5, <2>1
  <2> QED
    BY <2>1, <2>2
<1>8. Nat \subseteq T
  <2> HIDE DEF T
  <2> QED
    BY <1>6, <1>7, AllNumbers, Zenon
<1> QED
  BY <1>3, <1>8, Zenon

\* The one variable of a subscription to an object, and its result.
LEMMA VariableAdvances ==
    ASSUME NEW command, IsVariable(command), NEW holder, NEW object, NEW variables,
           NEW variable \in 0..255, NEW type \in SubscriptionTypes, NEW sample \in Samples(type),
           NEW row, row = OneResult(variable, type, sample)
    PROVE  Advances(<<Want("variables")>>, Place(command, holder, object, variables), <<UByte(1)>> \o row,
                    Place(command, holder, object, 1), {Result(command, holder, object, variable)})
<1>1. PICK item \in Items : item = Want("variables") /\ item.as = "variables"
  BY Wants DEF Kinds
<1>2. PICK token \in Tokens : token = UByte(1) /\ token.v = 1 /\ token.as = "byte"
  BY Bytes
<1>3. Accepts(item, token)
  BY <1>1, <1>2, RowNames DEF Accepts, CarrierOf
<1>4. PICK place, one : place = Place(command, holder, object, 1) /\ one = {}
  BY Zenon
<1>5. Leads(item, token, command, holder, object, variables, place, one)
  BY <1>1, <1>2, <1>4 DEF Leads
<1>6. PICK w : w = ResultsOf(1)
  OBVIOUS
<1>7. \A reader : Head(reader.want) = item /\ reader.command = command /\ reader.variables = variables
                    => After(reader, token) = w
  BY <1>1, <1>2, <1>6, RowNames DEF After
<1>8. PICK new : new = {Result(command, holder, object, variable)}
  BY Zenon
<1>9. Advances(w, place, row, place, new)
  BY <1>4, <1>6, <1>8, ResultAdvances, Zenon
<1>10. Advances(<<item>>, Place(command, holder, object, variables), <<token>> \o row, place, one \cup new)
  BY <1>3, <1>5, <1>7, <1>9, AdvanceInside
<1>11. one \cup new = new
  BY <1>4
<1> QED
  BY <1>1, <1>2, <1>4, <1>8, <1>10, <1>11

\* So the answer to a subscription to an object is read, and its result found.
LEMMA ObjectBody ==
    ASSUME NEW command, IsVariable(command), NEW n \in Nat, NEW holder, NEW object, NEW variables,
           NEW variable \in 0..255, NEW type \in SubscriptionTypes, NEW sample \in Samples(type),
           NEW row, row = OneResult(variable, type, sample)
    PROVE  Advances(SubscriptionBody(command), Place(command, holder, object, variables),
                    <<String(n)>> \o (<<UByte(1)>> \o row),
                    Place(command, n, n, 1), {Result(command, n, n, variable)})
<1>1. PICK x \in Items, y \in Items : x = Want("holder") /\ y = Want("variables")
  BY Wants DEF Kinds
<1>2. SubscriptionBody(command) = <<x>> \o <<y>>
  BY Pairs, <1>1 DEF SubscriptionBody
<1>3. PICK p, q, r, new : /\ p = Place(command, holder, object, variables) /\ q = Place(command, n, n, variables)
                          /\ r = Place(command, n, n, 1) /\ new = {Result(command, n, n, variable)}
  BY Zenon
<1>4. Advances(<<x>>, p, <<String(n)>>, q, {})
  BY <1>1, <1>3, HolderAdvances
<1>5. Advances(<<y>>, q, <<UByte(1)>> \o row, r, new)
  BY <1>1, <1>3, VariableAdvances, Zenon
<1>6. Advances(<<x>> \o <<y>>, p, <<String(n)>> \o (<<UByte(1)>> \o row), r, {} \cup new)
  BY <1>4, <1>5, AdvanceConcat
<1>7. {} \cup new = new
  OBVIOUS
<1> QED
  BY <1>2, <1>3, <1>6, <1>7, Zenon

\* The number of variables of a subscription to a context is kept.
LEMMA CountAdvances ==
    ASSUME NEW command, ~IsVariable(command), NEW holder, NEW object, NEW variables
    PROVE  Advances(<<Want("variables")>>, Place(command, holder, object, variables), <<UByte(1)>>,
                    Place(command, holder, object, 1), {})
  BY Wants, Bytes, RowNames, AdvanceOne DEF Kinds, Accepts, CarrierOf, Leads, After

\* The number of objects in the context, and the result of each.
LEMMA ContextAdvances ==
    ASSUME NEW command, NEW holder, NEW object,
           NEW variable \in 0..255, NEW type \in SubscriptionTypes, NEW sample \in Samples(type),
           NEW row, row = OneResult(variable, type, sample), NEW n \in Nat, NEW ids, Named(n, ids)
    PROVE  \E last : Advances(<<Want("objects")>>, Place(command, holder, object, 1), <<I32(n)>> \o Nearby(n, ids, row),
                              Place(command, holder, last, 1), Found(n, ids, command, holder, variable))
<1>1. PICK item \in Items : item = Want("objects") /\ item.as = "objects"
  BY Wants DEF Kinds
<1>2. PICK token \in Tokens : token = I32(n) /\ token.v = n /\ token.as = "int"
  BY Ints
<1>3. Accepts(item, token)
  BY <1>1, <1>2, RowNames DEF Accepts, CarrierOf
<1>4. PICK place, one : place = Place(command, holder, object, 1) /\ one = {}
  BY Zenon
<1>5. PICK one1 : one1 = 1
  OBVIOUS
<1>6. Leads(item, token, command, holder, object, one1, place, one)
  BY <1>1, <1>2, <1>4, <1>5 DEF Leads, Marks
<1>7. PICK w : w = Copies(n, <<Want("object")>> \o ResultsOf(1))
  OBVIOUS
<1>8. \A reader : Head(reader.want) = item /\ reader.command = command /\ reader.variables = one1
                    => After(reader, token) = w
  BY <1>1, <1>2, <1>5, <1>7, RowNames DEF After
<1>9. PICK new : new = Found(n, ids, command, holder, variable)
  OBVIOUS
<1>10. PICK last : Advances(w, place, Nearby(n, ids, row), Place(command, holder, last, 1), new)
  BY <1>4, <1>7, <1>9, ObjectsAdvance, Zenon
<1>11. Advances(<<item>>, Place(command, holder, object, one1), <<token>> \o Nearby(n, ids, row),
                Place(command, holder, last, 1), one \cup new)
  BY <1>3, <1>6, <1>8, <1>10, AdvanceInside
<1>12. one \cup new = new
  BY <1>4
<1> QED
  BY <1>1, <1>2, <1>5, <1>9, <1>11, <1>12

\* So the answer to a subscription to a context is read, and its results found.
LEMMA ContextBody ==
    ASSUME NEW command, ~IsVariable(command), NEW n \in Nat, NEW holder, NEW object, NEW variables,
           NEW domain,
           NEW variable \in 0..255, NEW type \in SubscriptionTypes, NEW sample \in Samples(type),
           NEW row, row = OneResult(variable, type, sample), NEW m \in Nat, NEW ids, Named(m, ids)
    PROVE  \E last : Advances(SubscriptionBody(command), Place(command, holder, object, variables),
                              <<String(n)>> \o (<<UByte(domain)>> \o (<<UByte(1)>> \o (<<I32(m)>> \o Nearby(m, ids, row)))),
                              Place(command, n, last, 1), Found(m, ids, command, n, variable))
<1>1. PICK x \in Items, y \in Items, z \in Items, u \in Items :
        x = Want("holder") /\ y = Want("domain") /\ z = Want("variables") /\ u = Want("objects")
  BY Wants DEF Kinds
<1>2. SubscriptionBody(command) = <<x>> \o (<<y>> \o (<<z>> \o <<u>>))
  <2>1. <<x>> \o (<<y>> \o (<<z>> \o <<u>>)) = <<x, y, z, u>>
    BY Quadruples
  <2> QED
    BY <1>1, <2>1 DEF SubscriptionBody
<1>3. PICK p, q, r, new : /\ p = Place(command, holder, object, variables) /\ q = Place(command, n, n, variables)
                          /\ r = Place(command, n, n, 1) /\ new = Found(m, ids, command, n, variable)
  OBVIOUS
<1>4. Advances(<<x>>, p, <<String(n)>>, q, {})
  BY <1>1, <1>3, HolderAdvances
<1>5. Advances(<<y>>, q, <<UByte(domain)>>, q, {})
  BY <1>1, Bytes, RowNames, TakesToken, AdvanceTakes DEF Plain, Want, Accepts, CarrierOf
<1>6. Advances(<<z>>, q, <<UByte(1)>>, r, {})
  BY <1>1, <1>3, CountAdvances
<1>7. PICK last : Advances(<<u>>, r, <<I32(m)>> \o Nearby(m, ids, row), Place(command, n, last, 1), new)
  BY <1>1, <1>3, ContextAdvances, Zenon
<1>8. PICK s : s = Place(command, n, last, 1)
  OBVIOUS
<1>9. Advances(<<z>> \o <<u>>, q, <<UByte(1)>> \o (<<I32(m)>> \o Nearby(m, ids, row)), s, {} \cup new)
  BY <1>6, <1>7, <1>8, AdvanceConcat
<1>10. {} \cup new = new
  OBVIOUS
<1>11. Advances(<<z>> \o <<u>>, q, <<UByte(1)>> \o (<<I32(m)>> \o Nearby(m, ids, row)), s, new)
  BY <1>9, <1>10
<1>12. Advances(<<y>> \o (<<z>> \o <<u>>), q, <<UByte(domain)>> \o (<<UByte(1)>> \o (<<I32(m)>> \o Nearby(m, ids, row))),
                s, {} \cup new)
  BY <1>5, <1>11, AdvanceConcat
<1>13. Advances(<<y>> \o (<<z>> \o <<u>>), q, <<UByte(domain)>> \o (<<UByte(1)>> \o (<<I32(m)>> \o Nearby(m, ids, row))),
                s, new)
  BY <1>10, <1>12
<1>14. Advances(<<x>> \o (<<y>> \o (<<z>> \o <<u>>)), p,
                <<String(n)>> \o (<<UByte(domain)>> \o (<<UByte(1)>> \o (<<I32(m)>> \o Nearby(m, ids, row)))),
                s, {} \cup new)
  BY <1>4, <1>13, AdvanceConcat
<1> QED
  BY <1>2, <1>3, <1>8, <1>10, <1>14, Zenon

-----------------------------------------------------------------------------
(* What SUMO reports of a subscription.                                    *)

\* The number of the response says of which of the two it is, and for a domain the
\* client has a scope of, of which domain.
LEMMA SubscribedNumbers ==
    ASSUME NEW d \in SubscribedDomains
    PROVE  /\ \A n : n = (CMD_SUBSCRIBE + Domain[d]) + RESPONSE =>
                n \in 224..238 /\ IsVariable(n) /\ (d # "INDUCTIONLOOP" => ScopeOf(n) \in MyDomains)
           /\ \A n : n = (CMD_SUBSCRIBE_CONTEXT + Domain[d]) + RESPONSE =>
                n \in 144..158 /\ ~IsVariable(n) /\ (d # "INDUCTIONLOOP" => ScopeOf(n) \in MyDomains)
           /\ CMD_SUBSCRIBE + Domain[d] \in NumbersOf(CMD_SUBSCRIBE)
           /\ CMD_SUBSCRIBE_CONTEXT + Domain[d] \notin NumbersOf(CMD_SUBSCRIBE)
<1>1. d \in DOMAIN Domain
  BY SubscribedAssumption
<1>2. Domain[d] \in 0..14
  BY <1>1, DomainNumbers
<1>3. Domain.INDUCTIONLOOP = 0 /\ Domain.PERSON = 14
  BY DomainNumbers
<1>4. CMD_SUBSCRIBE = 208 /\ CMD_SUBSCRIBE_CONTEXT = 128 /\ RESPONSE = 16
  BY DEF CMD_SUBSCRIBE, CMD_SUBSCRIBE_CONTEXT, RESPONSE
<1>5. PICK k \in 0..14 : k = Domain[d]
  BY <1>2
<1>6. RESPONSE_SUBSCRIBE = 224
  BY <1>4 DEF RESPONSE_SUBSCRIBE
<1>7. d # "INDUCTIONLOOP" => 224 + k \in MyDomains
  BY <1>1, <1>5, <1>6 DEF MyDomains
<1>8. ASSUME NEW n, n = (CMD_SUBSCRIBE + Domain[d]) + RESPONSE
      PROVE  n \in 224..238 /\ IsVariable(n) /\ (d # "INDUCTIONLOOP" => ScopeOf(n) \in MyDomains)
  BY <1>4, <1>5, <1>8, <1>3, <1>6, <1>7 DEF IsVariable, ScopeOf
<1>9. ASSUME NEW n, n = (CMD_SUBSCRIBE_CONTEXT + Domain[d]) + RESPONSE
      PROVE  n \in 144..158 /\ ~IsVariable(n) /\ (d # "INDUCTIONLOOP" => ScopeOf(n) \in MyDomains)
  BY <1>4, <1>5, <1>9, <1>3, <1>6, <1>7 DEF IsVariable, ScopeOf
<1>10. CMD_SUBSCRIBE + Domain[d] \in NumbersOf(CMD_SUBSCRIBE)
  BY <1>1 DEF NumbersOf
<1>11. CMD_SUBSCRIBE_CONTEXT + Domain[d] \notin NumbersOf(CMD_SUBSCRIBE)
  BY <1>4, <1>5, CommandNumbers
<1> QED
  BY <1>8, <1>9, <1>10, <1>11

\* A finite set in a row.
LEMMA InARow ==
    ASSUME NEW S, IsFiniteSet(S)
    PROVE  /\ Cardinality(S) \in Nat
           /\ SetToSeq(S) \in Seq(S)
           /\ Len(SetToSeq(S)) = Cardinality(S)
           /\ DOMAIN SetToSeq(S) = 1 .. Cardinality(S)
           /\ S = {SetToSeq(S)[i] : i \in 1 .. Cardinality(S)}
<1>1. Cardinality(S) \in Nat /\ ExistsBijection(1..Cardinality(S), S)
  BY FS_CardinalityType
<1>2. PICK n \in Nat : n = Cardinality(S)
  BY <1>1
<1>3. PICK f : f \in [1..n -> S] /\ IsInjective(f)
  BY <1>1, <1>2 DEF ExistsBijection, Bijection, Injection
<1>4. PICK g : g = SetToSeq(S)
  OBVIOUS
<1>5. g \in [1..n -> S] /\ IsInjective(g)
  BY <1>2, <1>3, <1>4 DEF SetToSeq
<1>6. g \in Injection(1..n, S)
  BY <1>5 DEF Injection
<1>7. IsFiniteSet(1..n) /\ Cardinality(1..n) = n
  BY FS_Interval
<1>8. g \in Surjection(1..n, S)
  BY <1>2, <1>6, <1>7, FS_Injection
<1>9. S = {g[i] : i \in 1..n}
  BY <1>5, <1>8 DEF Surjection
<1>10. g \in Seq(S) /\ Len(g) = n /\ DOMAIN g = 1..n
  BY <1>5
<1> QED
  BY <1>2, <1>4, <1>9, <1>10, Zenon

\* The result that is reported of each object.
LEMMA ResultTokensAre ==
    ASSUME NEW s, NEW v, s.variables = <<UByte(v)>>, NEW type, NEW sample \in Seq(Tokens)
    PROVE  /\ ResultTokens(s, type, sample) = OneResult(v, type, sample)
           /\ Len(s.variables) = 1
<1>1. PICK a \in Tokens, b \in Tokens, c \in Tokens : a = UByte(v) /\ b = UByte(RTYPE_OK) /\ c = UByte(type)
  BY Bytes
<1>2. PICK row \in Seq(Tokens) : row = <<a, b, c>> \o sample
  <2>1. <<a, b, c>> \in Seq(Tokens)
    OBVIOUS
  <2> QED
    BY <2>1, ConcatProperties, Zenon
<1>3. [i \in DOMAIN s.variables |-> <<s.variables[i], UByte(RTYPE_OK), UByte(type)>> \o sample] = <<row>>
  BY <1>1, <1>2
<1>4. FlattenSeq(<<row>>) = row
  <2>1. Append(<<>>, row) = <<row>>
    BY Appends
  <2>2. <<>> \in Seq(Seq(Tokens))
    OBVIOUS
  <2>3. FlattenSeq(Append(<<>>, row)) = FlattenSeq(<<>>) \o row /\ FlattenSeq(<<>>) = <<>>
    BY <2>2, FlattenFacts, Zenon
  <2>4. <<>> \o row = row
    BY ConcatEmptySeq
  <2> QED
    BY <2>1, <2>3, <2>4, Zenon
<1>5. ResultTokens(s, type, sample) = row
  BY <1>3, <1>4, Zenon DEF ResultTokens
<1> QED
  BY <1>1, <1>2, <1>5 DEF OneResult

\* The same tokens, as they are written.
LEMMA ObjectContent ==
    ASSUME NEW n \in Nat, NEW row \in Seq(Tokens)
    PROVE  <<String(n)>> \o (<<UByte(1)>> \o row) = <<String(n), UByte(1)>> \o row
<1>1. PICK a \in Tokens, b \in Tokens : a = String(n) /\ b = UByte(1)
  BY Bytes, Strings, Zenon
<1>2. PICK x \in Seq(Tokens), y \in Seq(Tokens) : x = <<a>> /\ y = <<b>>
  <2>1. <<a>> \in Seq(Tokens) /\ <<b>> \in Seq(Tokens)
    OBVIOUS
  <2> QED
    BY <2>1, Zenon
<1>3. x \o (y \o row) = (x \o y) \o row
  BY ConcatAssociative
<1>4. x \o y = <<a, b>>
  BY Pairs, <1>2
<1> QED
  BY <1>1, <1>2, <1>3, <1>4

\* What follows the number of the response about a subscription to an object.
LEMMA ObjectNotice ==
    ASSUME NEW s, NEW v \in 0..255, s.variables = <<UByte(v)>>, s.holder \in Nat, s.objects = {s.holder},
           s.command \in NumbersOf(CMD_SUBSCRIBE), NEW command, command = s.command + RESPONSE, IsVariable(command),
           NEW type \in SubscriptionTypes, NEW sample \in Samples(type)
    PROVE  \E content :
             /\ Notice(s, type, sample) = Response(command, content)
             /\ \A holder, object, variables : \E place :
                  Advances(SubscriptionBody(command), Place(command, holder, object, variables), content, place, Reported(s))
<1>1. sample \in Seq(Tokens)
  BY AnswerTypesAre, SampleTaken, Zenon DEF Takes
<1>2. PICK row \in Seq(Tokens) : row = OneResult(v, type, sample)
  BY ResultAdvances, Zenon
<1>3. ResultTokens(s, type, sample) = row /\ Len(s.variables) = 1
  BY <1>1, <1>2, ResultTokensAre, Zenon
<1>4. PICK n \in Nat : n = s.holder
  OBVIOUS
<1>5. PICK content : content = <<String(n), UByte(1)>> \o row /\ content = <<String(n)>> \o (<<UByte(1)>> \o row)
  BY ObjectContent, Zenon
<1>6. Notice(s, type, sample) = Response(command, content)
  BY <1>3, <1>4, <1>5 DEF Notice
<1>8. Reported(s) = {Result(command, n, n, v)}
  <2>1. Reported(s) = {Result(command, n, object, s.variables[i].v) : object \in {n}, i \in DOMAIN s.variables}
    BY <1>4 DEF Reported
  <2>2. DOMAIN s.variables = {1} /\ s.variables[1].v = v
    <3>1. UByte(v).v = v
      BY Bytes, Zenon
    <3> QED
      BY <3>1
  <2> QED
    BY <2>1, <2>2
<1>9. \A holder, object, variables : \E place :
        Advances(SubscriptionBody(command), Place(command, holder, object, variables), content, place, Reported(s))
  <2> SUFFICES ASSUME NEW holder, NEW object, NEW variables
               PROVE  \E place : Advances(SubscriptionBody(command), Place(command, holder, object, variables),
                                          content, place, Reported(s))
    OBVIOUS
  <2>1. Advances(SubscriptionBody(command), Place(command, holder, object, variables), <<String(n)>> \o (<<UByte(1)>> \o row),
                 Place(command, n, n, 1), {Result(command, n, n, v)})
    BY <1>2, ObjectBody, Zenon
  <2> QED
    BY <1>5, <1>8, <2>1, Zenon
<1> QED
  BY <1>6, <1>9, Zenon

\* The same of a context.
LEMMA ContextContent ==
    ASSUME NEW n \in Nat, NEW domain \in Nat, NEW m \in Nat, NEW near \in Seq(Tokens)
    PROVE  <<String(n)>> \o (<<UByte(domain)>> \o (<<UByte(1)>> \o (<<I32(m)>> \o near)))
             = <<String(n), UByte(domain), UByte(1), I32(m)>> \o near
<1>1. PICK a \in Tokens, b \in Tokens, c \in Tokens, d \in Tokens :
        a = String(n) /\ b = UByte(domain) /\ c = UByte(1) /\ d = I32(m)
  BY Bytes, Strings, Ints
<1>2. PICK w \in Seq(Tokens), x \in Seq(Tokens), y \in Seq(Tokens), z \in Seq(Tokens) :
        w = <<a>> /\ x = <<b>> /\ y = <<c>> /\ z = <<d>>
  <2>1. <<a>> \in Seq(Tokens) /\ <<b>> \in Seq(Tokens) /\ <<c>> \in Seq(Tokens) /\ <<d>> \in Seq(Tokens)
    OBVIOUS
  <2> QED
    BY <2>1, Zenon
<1>3. Then(w, Then(x, Then(y, Then(z, near)))) = Then(Then(w, Then(x, Then(y, z))), near)
  BY ThenFacts
<1>4. w \o (x \o (y \o z)) = <<a, b, c, d>>
  <2>1. <<a>> \o (<<b>> \o (<<c>> \o <<d>>)) = <<a, b, c, d>>
    BY Quadruples
  <2> QED
    BY <1>2, <2>1
<1> QED
  BY <1>1, <1>2, <1>3, <1>4 DEF Then

\* What follows the number of the response about a subscription to a context.
LEMMA ContextNotice ==
    ASSUME NEW s, NEW v \in 0..255, s.variables = <<UByte(v)>>, s.holder \in Nat,
           s.objects \in {{}, Vehicles},
           s.command \notin NumbersOf(CMD_SUBSCRIBE), NEW command, command = s.command + RESPONSE, ~IsVariable(command),
           NEW type \in SubscriptionTypes, NEW sample \in Samples(type)
    PROVE  \E content :
             /\ Notice(s, type, sample) = Response(command, content)
             /\ \A holder, object, variables : \E place :
                  Advances(SubscriptionBody(command), Place(command, holder, object, variables), content, place, Reported(s))
<1>1. sample \in Seq(Tokens)
  BY AnswerTypesAre, SampleTaken DEF Takes
<1>2. PICK row \in Seq(Tokens) : row = OneResult(v, type, sample)
  BY ResultAdvances, Zenon
<1>3. ResultTokens(s, type, sample) = row /\ Len(s.variables) = 1
  BY <1>1, <1>2, ResultTokensAre, Zenon
<1>4. PICK n \in Nat : n = s.holder
  OBVIOUS
<1>5. PICK near : near = s.objects
  OBVIOUS
<1>6. IsFiniteSet(near) /\ near \subseteq Nat
  BY <1>5, IdsAssumption, FS_EmptySet, Zenon
<1>7. PICK m, ids : m = Cardinality(near) /\ ids = SetToSeq(near) /\ m \in Nat
  BY <1>6, InARow
<1>8. near = {ids[i] : i \in 1..m}
  BY <1>6, <1>7, InARow
<1>9. Named(m, ids)
  BY <1>6, <1>8 DEF Named
<1>10. PICK d \in Nat : d = Domain.VEHICLE
  BY DomainNumbers, SMTT(30)
<1>11. PICK some \in Seq(Tokens) : some = Nearby(m, ids, row)
  BY <1>2, <1>7, <1>9, ObjectsAdvance, Zenon DEF Advances
<1>12. Notice(s, type, sample) = Response(command, <<String(n), UByte(d), UByte(1), I32(m)>> \o some)
  BY <1>3, <1>4, <1>5, <1>7, <1>10, <1>11 DEF Notice, Nearby
<1>13. \A holder, object, variables : \E last :
         Advances(SubscriptionBody(command), Place(command, holder, object, variables),
                  <<String(n)>> \o (<<UByte(d)>> \o (<<UByte(1)>> \o (<<I32(m)>> \o some))),
                  Place(command, n, last, 1), Found(m, ids, command, n, v))
  BY <1>2, <1>7, <1>9, <1>11, ContextBody, Zenon
<1>14. <<String(n)>> \o (<<UByte(d)>> \o (<<UByte(1)>> \o (<<I32(m)>> \o some)))
          = <<String(n), UByte(d), UByte(1), I32(m)>> \o some
  <2>1. m \in Nat
    BY <1>7
  <2> QED
    BY <2>1, ContextContent, Zenon
<1>15. PICK content : /\ content = <<String(n), UByte(d), UByte(1), I32(m)>> \o some
                      /\ content = <<String(n)>> \o (<<UByte(d)>> \o (<<UByte(1)>> \o (<<I32(m)>> \o some)))
  BY <1>14, Zenon
<1>16. Reported(s) = Found(m, ids, command, n, v)
  <2>1. Reported(s) = {Result(command, n, object, s.variables[i].v) : object \in near, i \in DOMAIN s.variables}
    BY <1>4, <1>5 DEF Reported
  <2>2. DOMAIN s.variables = {1} /\ s.variables[1].v = v
    <3>1. UByte(v).v = v
      BY Bytes, Zenon
    <3> QED
      BY <3>1
  <2>3. Reported(s) = {Result(command, n, object, v) : object \in near}
    BY <2>1, <2>2
  <2> QED
    BY <1>8, <2>3 DEF Found
<1>17. Notice(s, type, sample) = Response(command, content)
  BY <1>12, <1>15
<1>18. \A holder, object, variables : \E last :
         Advances(SubscriptionBody(command), Place(command, holder, object, variables), content,
                  Place(command, n, last, 1), Reported(s))
  BY <1>13, <1>15, <1>16, Zenon
<1> QED
  BY <1>17, <1>18, Zenon

\* So it is with each response.
LEMMA SubscribedNotice ==
    ASSUME NEW s, IsSubscribed(s), NEW type \in SubscribedTypes, NEW sample \in Samples(type)
    PROVE  \E command, content :
             /\ command \in 0..255 /\ command = s.command + RESPONSE
             /\ "INDUCTIONLOOP" \notin SubscribedDomains => ScopeOf(command) \in MyDomains
             /\ Notice(s, type, sample) = Response(command, content)
             /\ \A holder, object, variables : \E place :
                  Advances(SubscriptionBody(command), Place(command, holder, object, variables), content, place, Reported(s))
<1>1. type \in SubscriptionTypes
  BY SubscribedAssumption
<1>2. PICK v \in 0..255 : s.variables = <<UByte(v)>>
  BY SubscribedAssumption DEF IsSubscribed
<1>3. s.holder \in Nat
  BY DEF IsSubscribed
<1>4. PICK d \in SubscribedDomains :
         \/ s.command = CMD_SUBSCRIBE + Domain[d] /\ s.objects = {s.holder}
         \/ s.command = CMD_SUBSCRIBE_CONTEXT + Domain[d] /\ s.objects \in {{}, Vehicles}
  BY DEF IsSubscribed
<1>5. PICK command : command = s.command + RESPONSE
  OBVIOUS
<1>6. CASE s.command = CMD_SUBSCRIBE + Domain[d] /\ s.objects = {s.holder}
  <2>1. /\ command \in 224..238 /\ IsVariable(command)
        /\ d # "INDUCTIONLOOP" => ScopeOf(command) \in MyDomains
        /\ s.command \in NumbersOf(CMD_SUBSCRIBE)
    BY <1>5, <1>6, SubscribedNumbers
  <2>2. PICK content :
             /\ Notice(s, type, sample) = Response(command, content)
             /\ \A holder, object, variables : \E place :
                  Advances(SubscriptionBody(command), Place(command, holder, object, variables), content, place, Reported(s))
    BY <1>1, <1>2, <1>3, <1>5, <1>6, <2>1, ObjectNotice, Zenon
  <2>3. command \in 0..255
    BY <2>1
  <2> QED
    BY <1>4, <1>5, <2>1, <2>2, <2>3
<1>7. CASE s.command = CMD_SUBSCRIBE_CONTEXT + Domain[d] /\ s.objects \in {{}, Vehicles}
  <2>1. /\ command \in 144..158 /\ ~IsVariable(command)
        /\ d # "INDUCTIONLOOP" => ScopeOf(command) \in MyDomains
        /\ s.command \notin NumbersOf(CMD_SUBSCRIBE)
    BY <1>5, <1>7, SubscribedNumbers
  <2>2. PICK content :
             /\ Notice(s, type, sample) = Response(command, content)
             /\ \A holder, object, variables : \E place :
                  Advances(SubscriptionBody(command), Place(command, holder, object, variables), content, place, Reported(s))
    BY <1>1, <1>2, <1>3, <1>5, <1>7, <2>1, ContextNotice, Zenon
  <2>3. command \in 0..255
    BY <2>1
  <2> QED
    BY <1>4, <1>5, <2>1, <2>2, <2>3
<1> QED
  BY <1>4, <1>6, <1>7

\* Wherever a reader is, its place has these parts.
LEMMA AnyPlace ==
    ASSUME NEW want, NEW p, NEW tokens, NEW after, NEW new,
           Advances(want, Place(p.command, p.holder, p.object, p.variables), tokens, after, new)
    PROVE  Advances(want, p, tokens, after, new)
  BY DEF At, Place, Advances

\* A response is read as the answer to the request for the subscription, and with the
\* number of responses of a step if the client has a scope for it.
LEMMA NoticeRead ==
    ASSUME NEW s, IsSubscribed(s), NEW type \in SubscribedTypes, NEW sample \in Samples(type)
    PROVE  /\ Notice(s, type, sample) \in Seq(Tokens)
           /\ \E command \in 0..255 :
                /\ command = s.command + RESPONSE
                /\ \A p : p.command = command =>
                     \E q : Advances(<<Want("length")>> \o (<<This(command)>> \o SubscriptionBody(command)), p,
                                     Notice(s, type, sample), q, Reported(s))
           /\ "INDUCTIONLOOP" \notin SubscribedDomains =>
                \A p : \E q : Advances(<<Want("length")>> \o <<Want("command")>>, p,
                                       Notice(s, type, sample), q, Reported(s))
<1>1. PICK command, content :
             /\ command \in 0..255 /\ command = s.command + RESPONSE
             /\ "INDUCTIONLOOP" \notin SubscribedDomains => ScopeOf(command) \in MyDomains
             /\ Notice(s, type, sample) = Response(command, content)
             /\ \A holder, object, variables : \E place :
                  Advances(SubscriptionBody(command), Place(command, holder, object, variables), content, place, Reported(s))
  BY SubscribedNotice
<1>2. PICK new : new = Reported(s)
  OBVIOUS
<1>3. PICK body : body = SubscriptionBody(command)
  OBVIOUS
<1>4. \A holder, object, variables : \E place :
        Advances(body, Place(command, holder, object, variables), content, place, new)
  BY <1>1, <1>2, <1>3
<1>5. content \in Seq(Tokens) /\ body \in Seq(Items)
  BY <1>4 DEF Advances
<1>6. PICK front \in Seq(Tokens) : /\ Takes(<<Want("length")>>, front)
                                   /\ Response(command, content) = front \o (<<UByte(command)>> \o content)
  BY <1>1, <1>5, ResponseIs, Zenon
<1>7. PICK token \in Tokens : token = UByte(command) /\ token.v = command /\ token.as = "byte"
  BY <1>1, Bytes, Zenon
<1>8. PICK notice : notice = front \o (<<token>> \o content) /\ notice = Notice(s, type, sample)
  BY <1>1, <1>6, <1>7
<1>9. {} \cup new = new
  OBVIOUS
<1>10. ASSUME NEW p, p.command = command
       PROVE  \E q : Advances(<<Want("length")>> \o (<<This(command)>> \o body), p, notice, q, new)
  <2>1. PICK q : Advances(body, Place(p.command, p.holder, p.object, p.variables), content, q, new)
    BY <1>4, <1>10
  <2>2. Advances(body, p, content, q, new)
    BY <2>1, AnyPlace
  <2>3. Takes(<<This(command)>>, <<token>>)
    BY <1>1, <1>7, TakesOne, Zenon
  <2>4. Advances(<<This(command)>>, p, <<token>>, p, {})
    BY <2>3, AdvanceTakes
  <2>5. Advances(<<This(command)>> \o body, p, <<token>> \o content, q, {} \cup new)
    BY <2>2, <2>4, AdvanceConcat
  <2>6. Advances(<<This(command)>> \o body, p, <<token>> \o content, q, new)
    BY <1>9, <2>5
  <2>7. Advances(<<Want("length")>>, p, front, p, {})
    BY <1>6, AdvanceTakes
  <2>8. Advances(<<Want("length")>> \o (<<This(command)>> \o body), p, front \o (<<token>> \o content), q, {} \cup new)
    BY <2>6, <2>7, AdvanceConcat
  <2> QED
    BY <1>8, <1>9, <2>8
<1>11. ASSUME "INDUCTIONLOOP" \notin SubscribedDomains, NEW p
       PROVE  \E q : Advances(<<Want("length")>> \o <<Want("command")>>, p, notice, q, new)
  <2>1. PICK item \in Items : item = Want("command") /\ item.as = "command"
    BY Wants DEF Kinds
  <2>2. Accepts(item, token)
    BY <1>1, <1>7, <1>11, <2>1, RowNames DEF Accepts, CarrierOf
  <2>3. PICK h, o, v : h = p.holder /\ o = p.object /\ v = p.variables
    OBVIOUS
  <2>4. PICK place, none : place = Place(command, h, o, v) /\ none = {}
    OBVIOUS
  <2>5. PICK c : c = p.command
    OBVIOUS
  <2>6. Leads(item, token, c, h, o, v, place, none)
    BY <1>7, <2>1, <2>4 DEF Leads
  <2>7. \A reader : Head(reader.want) = item => After(reader, token) = body
    BY <1>3, <1>7, <2>1, RowNames DEF After
  <2>8. PICK q : Advances(body, place, content, q, new)
    BY <1>4, <2>4
  <2>9. Advances(<<item>>, Place(c, h, o, v), <<token>> \o content, q, none \cup new)
    BY <2>2, <2>6, <2>7, <2>8, AdvanceInside
  <2>10. Advances(<<item>>, Place(p.command, p.holder, p.object, p.variables), <<token>> \o content, q, new)
    BY <1>9, <2>3, <2>4, <2>5, <2>9
  <2>11. Advances(<<item>>, p, <<token>> \o content, q, new)
    BY <2>10, AnyPlace
  <2>12. Advances(<<Want("length")>>, p, front, p, {})
    BY <1>6, AdvanceTakes
  <2>13. Advances(<<Want("length")>> \o <<item>>, p, front \o (<<token>> \o content), q, {} \cup new)
    BY <2>11, <2>12, AdvanceConcat
  <2> QED
    BY <1>8, <1>9, <2>1, <2>13
<1>12. notice \in Seq(Tokens)
  <2>1. PICK p : p.command = command
    <3>1. Place(command, 0, 0, 0).command = command
      BY DEF Place
    <3> QED
      BY <3>1
  <2>2. \E q : Advances(<<Want("length")>> \o (<<This(command)>> \o body), p, notice, q, new)
    BY <1>10, <2>1
  <2> QED
    BY <2>2 DEF Advances
<1> QED
  BY <1>1, <1>2, <1>3, <1>8, <1>10, <1>11, <1>12, Zenon

\* One response more is read from where those before it have led, and adds what it brings.
LEMMA OneMoreRead ==
    ASSUME NEW w \in Seq(Items), NEW front \in Seq(Seq(Tokens)), NEW last \in Seq(Tokens),
           NEW n \in Nat, n = Len(front), NEW m, m = n + 1, NEW news,
           NEW p, NEW q, Advances(Copies(n, w), p, FlattenSeq(front), q, AllOf(n, news)),
           NEW r, Advances(w, q, last, r, news[m])
    PROVE  Advances(Copies(m, w), p, FlattenSeq(Append(front, last)), r, AllOf(m, news))
<1>1. Copies(m, w) = Copies(n, w) \o w
  BY CopiesFacts, Zenon
<1>2. FlattenSeq(Append(front, last)) = FlattenSeq(front) \o last
  BY FlattenFacts
<1>3. AllOf(m, news) = AllOf(n, news) \cup news[m]
  <2>1. \A i : i \in 1..m <=> i \in 1..n \/ i = m
    OBVIOUS
  <2> QED
    BY <2>1, Zenon DEF AllOf
<1>4. PICK one, more : one = AllOf(n, news) /\ more = news[m]
  OBVIOUS
<1>5. Advances(Copies(n, w) \o w, p, FlattenSeq(front) \o last, r, one \cup more)
  BY <1>4, AdvanceConcat
<1> QED
  BY <1>1, <1>2, <1>3, <1>4, <1>5, Zenon

\* What is said of each response in a row holds of all but the last, and of the last.
LEMMA EachReadParts ==
    ASSUME NEW w, NEW news, NEW S, NEW front \in Seq(S), NEW last \in S, NEW n \in Nat,
           n = Len(front), NEW m, m = n + 1,
           EachRead(w, Append(front, last), m, news)
    PROVE  EachRead(w, front, n, news) /\ \A p : \E q : Advances(w, p, last, q, news[m])
<1>1. PICK parts : parts = Append(front, last)
  BY Zenon
<1>2. parts[m] = last /\ \A i \in 1..n : parts[i] = front[i]
  BY <1>1, AppendProperties
<1>3. \A i \in 1..m : \A p : \E q : Advances(w, p, parts[i], q, news[i])
  BY <1>1, Zenon DEF EachRead
<1>4. m \in 1..m /\ \A i \in 1..n : i \in 1..m
  OBVIOUS
<1>5. \A p : \E q : Advances(w, p, last, q, news[m])
  BY <1>2, <1>3, <1>4, Zenon
<1>6. \A i \in 1..n : \A p : \E q : Advances(w, p, front[i], q, news[i])
  BY <1>2, <1>3, <1>4, Zenon
<1> QED
  BY <1>5, <1>6 DEF EachRead

\* If every row of n responses is read, so is every row of one more.
LEMMA RowReadMore ==
    ASSUME NEW w \in Seq(Items), NEW news, NEW n \in Nat, NEW m, m = n + 1,
           NEW front \in Seq(Seq(Tokens)), NEW last \in Seq(Tokens), n = Len(front), EachRead(w, Append(front, last), m, news),
           EachRead(w, front, n, news) =>
             \A p : \E q : Advances(Copies(n, w), p, FlattenSeq(front), q, AllOf(n, news))
    PROVE  \A p : \E q : Advances(Copies(m, w), p, FlattenSeq(Append(front, last)), q, AllOf(m, news))
<1>1. EachRead(w, front, n, news) /\ \A p : \E q : Advances(w, p, last, q, news[m])
  BY EachReadParts, Zenon
<1> TAKE p
<1>2. PICK q : Advances(Copies(n, w), p, FlattenSeq(front), q, AllOf(n, news))
  BY <1>1, Zenon
<1>3. PICK r : Advances(w, q, last, r, news[m])
  BY <1>1, Zenon
<1> QED
  BY <1>2, <1>3, OneMoreRead, Zenon

\* So the responses in a row are all read, and all they bring is found.
LEMMA RowRead ==
    ASSUME NEW w \in Seq(Items), NEW news
    PROVE  \A n \in Nat : \A parts \in Seq(Seq(Tokens)) : n = Len(parts) /\ EachRead(w, parts, n, news) =>
             \A p : \E q : Advances(Copies(n, w), p, FlattenSeq(parts), q, AllOf(n, news))
<1> DEFINE P(n) == \A parts \in Seq(Seq(Tokens)) : n = Len(parts) /\ EachRead(w, parts, n, news) =>
             \A p : \E q : Advances(Copies(n, w), p, FlattenSeq(parts), q, AllOf(n, news))
           T == { n \in Nat : P(n) }
<1>1. P(0)
  <2> SUFFICES ASSUME NEW parts \in Seq(Seq(Tokens)), 0 = Len(parts), NEW p
               PROVE  Advances(Copies(0, w), p, FlattenSeq(parts), p, AllOf(0, news))
    BY Zenon
  <2>1. parts = <<>>
    BY EmptySeq
  <2>2. FlattenSeq(parts) = <<>>
    BY <2>1, FlattenFacts
  <2>3. Copies(0, w) = <<>>
    BY CopiesFacts
  <2>4. AllOf(0, news) = {}
    BY DEF AllOf
  <2> QED
    BY <2>2, <2>3, <2>4, AdvanceNothing, Zenon
<1>2. ASSUME NEW n \in Nat, P(n) PROVE P(n + 1)
  <2>1. PICK m \in Nat : m = n + 1
    OBVIOUS
  <2>2. ASSUME NEW parts \in Seq(Seq(Tokens)), m = Len(parts), EachRead(w, parts, m, news)
        PROVE  \A p : \E q : Advances(Copies(m, w), p, FlattenSeq(parts), q, AllOf(m, news))
    <3>1. parts # <<>>
      BY <2>1, <2>2
    <3>2. PICK front \in Seq(Seq(Tokens)), last \in Seq(Tokens) :
            parts = Append(front, last) /\ Len(front) = Len(parts) - 1
      BY <3>1, LastMember, Zenon
    <3>3. n = Len(front)
      BY <2>1, <2>2, <3>2
    <3>4. EachRead(w, front, n, news) =>
            \A p : \E q : Advances(Copies(n, w), p, FlattenSeq(front), q, AllOf(n, news))
      BY <1>2, <3>3, Zenon
    <3>5. EachRead(w, Append(front, last), m, news)
      BY <2>2, <3>2
    <3>6. \A p : \E q : Advances(Copies(m, w), p, FlattenSeq(Append(front, last)), q, AllOf(m, news))
      BY <2>1, <3>3, <3>4, <3>5, RowReadMore, Zenon
    <3> QED
      BY <3>2, <3>6, Zenon
  <2> QED
    BY <2>1, <2>2, Zenon
<1>3. 0 \in T
  BY <1>1
<1>4. ASSUME NEW n \in Nat, n \in T PROVE n + 1 \in T
  <2> HIDE DEF P
  <2>1. P(n) /\ n + 1 \in Nat
    BY <1>4
  <2>2. P(n + 1)
    BY <1>2, <2>1
  <2> QED
    BY <2>1, <2>2
<1>5. Nat \subseteq T
  <2> HIDE DEF T
  <2> QED
    BY <1>3, <1>4, AllNumbers
<1> QED
  BY <1>5, Zenon

\* What the reader has found then are the results.
LEMMA AdvanceCompletes ==
    ASSUME NEW want, NEW command, NEW p, p = Place(command, 0, 0, 0), NEW tokens, NEW q, NEW new,
           Advances(want, p, tokens, q, new)
    PROVE  /\ Complete(Reading(tokens, want, command))
           /\ Reading(tokens, want, command).results = new
<1>1. want \in Seq(Items) /\ tokens \in Seq(Tokens)
  BY DEF Advances
<1>2. want \o <<>> = want /\ <<>> \in Seq(Items)
  BY <1>1, ConcatEmptySeq
<1>3. Reads(At(want, p, {}), tokens, At(<<>>, q, {} \cup new))
  BY <1>2, Zenon DEF Advances
<1>4. PICK after : after = At(<<>>, q, new)
  OBVIOUS
<1>5. Reads(Reader(want, command, 0, 0, 0, {}), tokens, after)
  BY PlaceIs, <1>3, <1>4
<1>6. Reading(tokens, want, command) = after
  BY <1>1, <1>5, ReadingIs
<1> QED
  BY <1>4, <1>6 DEF Complete, At, Reader

\* That is the answer to a step, which the method reads to its end, finding all that the
\* subscriptions bring.
LEMMA StepRead ==
    ASSUME NEW left, IsFiniteSet(left), \A s \in left : IsSubscribed(s),
           NEW type \in SubscribedTypes, NEW sample \in Samples(type),
           NEW order, order = SetToSeq(left), NEW content, content = Notices(order, type, sample), NEW command,
           NEW asked, asked = <<Want("responses")>>
    PROVE  /\ content \in Seq(Tokens)
           /\ "INDUCTIONLOOP" \notin SubscribedDomains =>
                /\ Complete(Reading(content, asked, command))
                /\ Reading(content, asked, command).results = Brought(left)
<1>0. /\ Cardinality(left) \in Nat
      /\ Len(SetToSeq(left)) = Cardinality(left)
      /\ DOMAIN SetToSeq(left) = 1 .. Cardinality(left)
      /\ left = {SetToSeq(left)[i] : i \in 1 .. Cardinality(left)}
  BY InARow, Zenon
<1>1. PICK n \in Nat : n = Cardinality(left)
  BY <1>0
<1>2. Len(order) = n /\ DOMAIN order = 1..n /\ left = {order[i] : i \in 1..n}
  BY <1>0, <1>1, Zenon
<1>3. PICK parts : parts = [i \in 1..n |-> Notice(order[i], type, sample)]
  BY Zenon
<1>4. \A i \in 1..n : IsSubscribed(order[i])
  BY <1>2, Zenon
<1>5. parts \in Seq(Seq(Tokens)) /\ Len(parts) = n
  <2>1. \A i \in 1..n : Notice(order[i], type, sample) \in Seq(Tokens)
    BY <1>4, NoticeRead, Zenon
  <2> QED
    BY <1>3, <2>1
<1>6. PICK all \in Seq(Tokens) : all = FlattenSeq(parts)
  BY <1>5, FlattenFacts
<1>7. PICK token \in Tokens : token = I32(n) /\ token.v = n /\ token.as = "int"
  BY Ints
<1>8. content = <<token>> \o all
  BY <1>2, <1>3, <1>6, <1>7, Zenon DEF Notices
<1>9. content \in Seq(Tokens)
  BY <1>8, ConcatProperties
<1>10. PICK news : news = [i \in 1..n |-> Reported(order[i])]
  BY Zenon
<1>11. AllOf(n, news) = Brought(left)
  BY <1>2, <1>10 DEF AllOf, Brought
<1>12. ASSUME "INDUCTIONLOOP" \notin SubscribedDomains
       PROVE  /\ Complete(Reading(content, <<Want("responses")>>, command))
              /\ Reading(content, <<Want("responses")>>, command).results = AllOf(n, news)
  <2>1. PICK w : w = <<Want("length"), Want("command")>>
    BY Zenon
  <2>2. w = <<Want("length")>> \o <<Want("command")>> /\ w \in Seq(Items)
    BY Wants, Pairs, <2>1 DEF Kinds
  <2>3. EachRead(w, parts, n, news)
    BY <1>4, <1>12, NoticeRead, <2>2, <1>3, <1>10, Zenon DEF EachRead
  <2>4. PICK place : place = Place(command, 0, 0, 0)
    OBVIOUS
  <2>5. PICK q : Advances(Copies(n, w), place, all, q, AllOf(n, news))
    BY <1>5, <1>6, <2>2, <2>3, RowRead, Zenon
  <2>6. PICK item \in Items : item = Want("responses") /\ item.as = "responses"
    BY Wants DEF Kinds
  <2>7. Accepts(item, token)
    BY <1>7, <2>6, RowNames DEF Accepts, CarrierOf
  <2>8. PICK zero : zero = 0
    OBVIOUS
  <2>9. PICK none : none = {}
    BY Zenon
  <2>10. Leads(item, token, command, zero, zero, zero, place, none)
    BY <2>4, <2>6, <2>8, <2>9 DEF Leads, Marks
  <2>11. PICK some : some = Copies(n, w)
    OBVIOUS
  <2>12. \A reader : Head(reader.want) = item => After(reader, token) = some
    BY <1>7, <2>1, <2>6, <2>11, RowNames DEF After
  <2>13. PICK new : new = AllOf(n, news)
    OBVIOUS
  <2>14. Advances(some, place, all, q, new)
    BY <2>5, <2>11, <2>13
  <2>15. Advances(<<item>>, Place(command, zero, zero, zero), <<token>> \o all, q, none \cup new)
    BY <2>7, <2>10, <2>12, <2>14, AdvanceInside
  <2>16. none \cup new = new
    BY <2>9
  <2>17. Advances(<<item>>, place, content, q, new)
    BY <1>8, <2>4, <2>8, <2>15, <2>16, Zenon
  <2> QED
    BY <2>4, <2>6, <2>13, <2>17, AdvanceCompletes
<1> QED
  BY <1>9, <1>11, <1>12

-----------------------------------------------------------------------------
(* The answer SUMO gives is the one the method reads.                      *)

\* The sorts are told apart by their numbers.
LEMMA AskedSorts ==
    ASSUME NEW c, IsAsked(c)
    PROVE  /\ c.kind = "get"
           /\ c.command \in NumbersOf(CMD_GET)
           /\ c.variable \in 0..255
           /\ IsReading(c.expects, c.reads)
           /\ c.command = 171 /\ c.variable = 130 => IsConversion(c)
           /\ c.command = 171 /\ c.variable = 131 => IsDistance(c)
           /\ ~(c.command = 171 /\ c.variable \in {130, 131}) =>
                \E d \in DOMAIN Domain : c.command = CMD_GET + Domain[d] /\ <<c.expects, c.reads>> = Asks(d, c.variable)
<1>1. CMD_GET = 160 /\ Domain["SIM"] = 11 /\ "SIM" \in DOMAIN Domain
  BY DomainNumbers DEF CMD_GET
<1>2. \A d \in DOMAIN Domain : CMD_GET + Domain[d] \in NumbersOf(CMD_GET)
  BY DEF NumbersOf
<1>3. CASE IsConversion(c)
  <2>1. c.kind = "get" /\ c.command = 171 /\ c.variable = 130 /\ c.reads = "plain" /\ c.expects \in PositionTypes
    BY <1>1, <1>3 DEF IsConversion
  <2>2. c.command \in NumbersOf(CMD_GET)
    BY <1>2, <1>3, <1>1 DEF IsConversion
  <2>3. IsReading(c.expects, c.reads)
    <3>0. PositionTypes \subseteq AnswerTypes
      BY AnswerTypesAre
    <3>1. c.expects \in AnswerTypes
      BY <2>1, <3>0, Zenon
    <3> QED
      BY <2>1, <3>1 DEF IsReading
  <2> QED
    BY <1>3, <2>1, <2>2, <2>3
<1>4. CASE IsDistance(c)
  BY <1>1, <1>4, <1>2 DEF IsDistance, IsReading, AnswerTypes
<1>5. CASE \E d \in DOMAIN Domain : IsQuestion(c, d)
  <2>1. PICK d \in DOMAIN Domain : IsQuestion(c, d)
    BY <1>5
  <2>2. /\ c.kind = "get" /\ c.command = CMD_GET + Domain[d] /\ c.variable \in 0..255
        /\ d = "SIM" => c.variable \notin {130, 131}
        /\ <<c.expects, c.reads>> = Asks(d, c.variable)
    BY <2>1 DEF IsQuestion
  <2>3. IsReading(c.expects, c.reads)
    BY <2>2, AsksReadings
  <2>4. c.command = 171 => d = "SIM"
    BY DomainNumbers, <1>1, <2>2, DomainIsOne
  <2> QED
    BY <1>2, <2>2, <2>3, <2>4
<1> QED
  BY <1>3, <1>4, <1>5 DEF IsAsked

\* Two questions with the same numbers are answered in the same type and read in the
\* same way; of conversions, if their values are the same.
LEMMA SameReading ==
    ASSUME NEW b, IsAsked(b), NEW c, IsAsked(c), b.command = c.command, b.variable = c.variable,
           c.variable = 130 => b.value = c.value
    PROVE  b.expects = c.expects /\ b.reads = c.reads
<1>1. CASE c.command = 171 /\ c.variable = 130
  BY <1>1, AskedSorts DEF IsConversion
<1>2. CASE c.command = 171 /\ c.variable = 131
  BY <1>2, AskedSorts DEF IsDistance
<1>3. CASE ~(c.command = 171 /\ c.variable \in {130, 131})
  BY <1>3, AskedSorts, DomainNumbers, DomainIsOne DEF CMD_GET
<1> QED
  BY <1>1, <1>2, <1>3

\* The questions among the calls.
LEMMA QuestionsAreAsked ==
    ASSUME NEW c \in Questions
    PROVE  IsAsked(c)
  BY EveryCall DEF Questions, IsUnset, IsUntyped, IsSetting, IsAsked, IsUsual

\* What SUMO answers to a question has the type and the reading of the question.
LEMMA AnswersAre ==
    ASSUME NEW c, IsAsked(c), NEW q \in Questions, q.command = c.command, q.variable = c.variable,
           NEW answer \in AnswersTo(c.command, c.variable, c.value)
    PROVE  \E sample :
             /\ answer = <<UByte(c.expects)>> \o sample
             /\ IF c.reads = "plain" THEN sample \in Samples(c.expects)
                                     ELSE \E n \in ListSizes : sample = CompoundSample(c.reads, n)
<1>1. PICK key : key = <<c.command, c.variable>>
  BY Zenon
<1>2. key \in {<<b.command, b.variable>> : b \in Questions}
  BY <1>1
<1>3. Readings[key] = {b \in Questions : <<b.command, b.variable>> = key}
  BY <1>2 DEF Readings
<1>4. Var.POSITION_CONVERSION = 130
  BY NumbersOfEmissionAndSimulationVariables
<1>5. PICK b \in Readings[key] :
        /\ c.variable = 130 => b.value = c.value
        /\ \E sample \in IF b.reads = "plain" THEN Samples(b.expects)
                                              ELSE {CompoundSample(b.reads, n) : n \in ListSizes} :
             answer = <<UByte(b.expects)>> \o sample
  <2>1. PICK asked : asked = {b \in Readings[key] : c.variable = Var.POSITION_CONVERSION => b.value = c.value}
    BY Zenon
  <2>2. answer \in UNION {{<<UByte(b.expects)>> \o sample :
               sample \in IF b.reads = "plain" THEN Samples(b.expects)
                                               ELSE {CompoundSample(b.reads, n) : n \in ListSizes}} : b \in asked}
    BY <1>1, <2>1, Zenon DEF AnswersTo
  <2>3. PICK b \in asked : answer \in {<<UByte(b.expects)>> \o sample :
               sample \in IF b.reads = "plain" THEN Samples(b.expects)
                                               ELSE {CompoundSample(b.reads, n) : n \in ListSizes}}
    BY <2>2, Zenon
  <2>4. b \in Readings[key] /\ (c.variable = 130 => b.value = c.value)
    BY <1>4, <2>1, <2>3
  <2> QED
    BY <2>3, <2>4, Zenon
<1>6. b \in Questions /\ b.command = c.command /\ b.variable = c.variable
  BY <1>1, <1>3
<1>7. b.expects = c.expects /\ b.reads = c.reads
  BY <1>5, <1>6, QuestionsAreAsked, SameReading
<1>8. PICK sample : /\ sample \in IF c.reads = "plain" THEN Samples(c.expects)
                                                       ELSE {CompoundSample(c.reads, n) : n \in ListSizes}
                    /\ answer = <<UByte(c.expects)>> \o sample
  BY <1>5, <1>7
<1>9. IF c.reads = "plain" THEN sample \in Samples(c.expects) ELSE \E n \in ListSizes : sample = CompoundSample(c.reads, n)
  BY <1>8
<1> QED
  BY <1>8, <1>9

\* The number of a command tells what sort of a call it is.
LEMMA CallKinds ==
    ASSUME NEW c, Legal(c)
    PROVE  /\ c.command \in NumbersOf(CMD_GET) => IsAsked(c)
           /\ c.command \in NumbersOf(CMD_SUBSCRIBE) \/ c.command \in NumbersOf(CMD_SUBSCRIBE_CONTEXT) =>
                IsSubscription(c) \/ IsContext(c)
           /\ c.command = CMD_SIMSTEP => c.kind = "step"
           /\ c.command = CMD_GETVERSION => c.kind = "version"
           /\ c.command \in NumbersOf(CMD_SET) \/ c.command \in {CMD_SETORDER, CMD_LOAD, CMD_CLOSE} =>
                c.kind \in {"set", "order", "load", "close"}
<1>1. CMD_GETVERSION = 0 /\ CMD_LOAD = 1 /\ CMD_SIMSTEP = 2 /\ CMD_SETORDER = 3 /\ CMD_CLOSE = 127
  BY DEF CMD_GETVERSION, CMD_LOAD, CMD_SIMSTEP, CMD_SETORDER, CMD_CLOSE
<1>2. CASE IsUntyped(c) \/ IsConversion(c) \/ IsDistance(c) \/ IsUsual(c)
  <2>1. /\ c.kind = "get" \/ c.kind = "set"
        /\ c.kind = "get" => c.command \in NumbersOf(CMD_GET)
        /\ c.kind = "set" => c.command \in NumbersOf(CMD_SET)
    BY <1>2, GetOrSetParts
  <2>2. "get" # "set"
    OBVIOUS
  <2>3. c.kind = "get" => IsAsked(c)
    BY <1>2, <2>2 DEF IsUntyped, IsUsual, IsSetting, IsAsked
  <2>4. CASE c.kind = "get"
    BY <1>1, <2>1, <2>3, <2>4, CommandNumbers
  <2>5. CASE c.kind = "set"
    BY <1>1, <2>1, <2>5, CommandNumbers
  <2> QED
    BY <2>1, <2>4, <2>5
<1>3. CASE IsSubscription(c)
  BY <1>3, SubscribedCommand, <1>1, CommandNumbers
<1>4. CASE IsContext(c)
  BY <1>4, SubscribedCommand, <1>1, CommandNumbers
<1>5. CASE IsSession(c)
  <2>1. c.command \in {0, 1, 2, 3, 127}
    BY <1>1, <1>5 DEF IsSession
  <2>2. /\ c.command \notin NumbersOf(CMD_GET) /\ c.command \notin NumbersOf(CMD_SET)
        /\ c.command \notin NumbersOf(CMD_SUBSCRIBE) /\ c.command \notin NumbersOf(CMD_SUBSCRIBE_CONTEXT)
    BY <2>1, CommandNumbers
  <2> QED
    BY <1>1, <1>5, <2>2 DEF IsSession
<1> QED
  BY <1>2, <1>3, <1>4, <1>5 DEF Legal

\* What the method wants after the status, sort by sort.
LEMMA AnswerIs ==
    ASSUME NEW c
    PROVE  /\ c.kind = "get" =>
                Answer(c) = <<Want("length"), This(c.command + RESPONSE), Want("byte"), Want("string"), This(c.expects)>>
                            \o (IF c.reads = "plain" THEN Value(c.expects) ELSE Compound(c.reads))
           /\ (c.kind = "subscribe" /\ c.value # <<>>) \/ c.kind = "context" =>
                Answer(c) = <<Want("length"), This(c.command + RESPONSE)>> \o SubscriptionBody(c.command + RESPONSE)
           /\ c.kind = "step" => Answer(c) = <<Want("responses")>>
           /\ c.kind = "version" =>
                Answer(c) = <<Want("length"), This(CMD_GETVERSION), Want("int"), Want("string")>>
           /\ c.kind \in {"set", "order", "load", "close"} \/ (c.kind = "subscribe" /\ c.value = <<>>) =>
                Answer(c) = <<>>
  BY DEF Answer

\* A question is answered with what its method reads.
LEMMA QuestionAnswered ==
    ASSUME NEW c, IsAsked(c), c.object \in Nat,
           \E q \in Questions : q.command = c.command /\ q.variable = c.variable,
           NEW answer \in AnswersTo(c.command, c.variable, c.value)
    PROVE  \A content : content = Response(c.command + RESPONSE, <<UByte(c.variable), String(c.object)>> \o answer) =>
             /\ content \in Seq(Tokens)
             /\ Complete(Reading(content, Answer(c), c.command + RESPONSE))
<1>1. c.kind = "get" /\ c.command \in NumbersOf(CMD_GET) /\ IsReading(c.expects, c.reads)
  BY AskedSorts
<1>2. PICK m \in 0..255 : m = c.command + RESPONSE
  BY <1>1, CommandNumbers DEF RESPONSE
<1>3. PICK sample : /\ answer = <<UByte(c.expects)>> \o sample
                    /\ IF c.reads = "plain" THEN sample \in Samples(c.expects)
                                            ELSE \E n \in ListSizes : sample = CompoundSample(c.reads, n)
  BY AnswersAre
<1>4. PICK want : want = <<Want("length"), This(m), Want("byte"), Want("string"), This(c.expects)>>
                         \o (IF c.reads = "plain" THEN Value(c.expects) ELSE Compound(c.reads))
  BY Zenon
<1>5. PICK content : content = Response(m, <<UByte(c.variable), String(c.object)>> \o (<<UByte(c.expects)>> \o sample))
  OBVIOUS
<1>6. Takes(want, content)
  BY <1>1, <1>3, <1>4, <1>5, AnswerTaken, Zenon
<1>7. Answer(c) = want
  BY <1>1, <1>2, <1>4, AnswerIs, Zenon
<1>8. content = Response(c.command + RESPONSE, <<UByte(c.variable), String(c.object)>> \o answer)
  BY <1>2, <1>3, <1>5, Zenon
<1>9. Complete(Reading(content, want, m)) /\ content \in Seq(Tokens)
  BY <1>6, TakesCompletes DEF Takes
<1> QED
  BY <1>2, <1>7, <1>8, <1>9, Zenon

\* What SUMO makes of a request for a subscription.
LEMMA AskedFor ==
    ASSUME NEW c, (IsSubscription(c) /\ c.value # <<>>) \/ IsContext(c), c.object \in Nat, NEW s \in Asked(c)
    PROVE  IsSubscribed(s) /\ IsRecord(s) /\ s.command = c.command
  BY DEF Asked, IsRecord, IsSubscription, IsContext, IsSubscribed

\* What the reading of a response about a subscription wants are items.
LEMMA BodyIs ==
    ASSUME NEW command
    PROVE  SubscriptionBody(command) \in Seq(Items)
  BY Wants, Pairs, Quadruples DEF Kinds, SubscriptionBody

\* A request for a subscription is answered with what its method reads.
LEMMA SubscriptionAnswered ==
    ASSUME NEW c, (IsSubscription(c) /\ c.value # <<>>) \/ IsContext(c), c.object \in Nat, NEW s \in Asked(c),
           NEW type \in SubscribedTypes, NEW sample \in Samples(type)
    PROVE  /\ Notice(s, type, sample) \in Seq(Tokens)
           /\ Complete(Reading(Notice(s, type, sample), Answer(c), c.command + RESPONSE))
<1>1. IsSubscribed(s) /\ s.command = c.command
  BY AskedFor
<1>2. PICK content : content = Notice(s, type, sample)
  OBVIOUS
<1>3. PICK new : new = Reported(s)
  OBVIOUS
<1>4. content \in Seq(Tokens)
  BY <1>1, <1>2, NoticeRead, Zenon
<1>5. PICK m \in 0..255 :
        /\ m = c.command + RESPONSE
        /\ \A p : p.command = m =>
             \E q : Advances(<<Want("length")>> \o (<<This(m)>> \o SubscriptionBody(m)), p, content, q, new)
  BY <1>1, <1>2, <1>3, NoticeRead, Zenon
<1>6. PICK want : want = <<Want("length")>> \o (<<This(m)>> \o SubscriptionBody(m))
  BY Zenon
<1>7. Answer(c) = want
  <2>1. (c.kind = "subscribe" /\ c.value # <<>>) \/ c.kind = "context"
    BY DEF IsSubscription, IsContext
  <2>2. Answer(c) = <<Want("length"), This(m)>> \o SubscriptionBody(m)
    BY <1>5, <2>1, AnswerIs, Zenon
  <2>3. PICK a \in Items, b \in Items, body \in Seq(Items) : a = Want("length") /\ b = This(m) /\ body = SubscriptionBody(m)
    <3>1. Want("length") \in Items /\ This(m) \in Items
      BY Wants, NumberedItems DEF Kinds
    <3> QED
      BY <3>1, BodyIs
  <2>4. <<a, b>> \o body = <<a>> \o (<<b>> \o body)
    <3>0. <<a>> \in Seq(Items) /\ <<b>> \in Seq(Items)
      OBVIOUS
    <3>1. PICK p \in Seq(Items), q \in Seq(Items) : p = <<a>> /\ q = <<b>>
      BY <3>0, Zenon
    <3>2. p \o q = <<a, b>>
      BY <3>1, Pairs
    <3>3. (p \o q) \o body = p \o (q \o body)
      BY ConcatAssociative
    <3> QED
      BY <3>1, <3>2, <3>3, Zenon
  <2> QED
    BY <1>6, <2>2, <2>3, <2>4, Zenon
<1>8. PICK p : p = Place(m, 0, 0, 0)
  OBVIOUS
<1>9. p.command = m
  BY <1>8 DEF Place
<1>10. PICK q : Advances(want, p, content, q, new)
  BY <1>5, <1>6, <1>9, Zenon
<1>11. Complete(Reading(content, want, m))
  BY <1>8, <1>10, AdvanceCompletes
<1> QED
  BY <1>2, <1>4, <1>5, <1>7, <1>11, Zenon

\* What wants nothing is complete without an answer.
LEMMA NothingAnswered ==
    ASSUME NEW c, c.kind \in {"set", "order", "load", "close"} \/ (c.kind = "subscribe" /\ c.value = <<>>)
    PROVE  <<>> \in Seq(Tokens) /\ Complete(Reading(<<>>, Answer(c), c.command + RESPONSE))
<1>1. Answer(c) = <<>>
  BY AnswerIs, Zenon
<1>2. Complete(Reading(<<>>, <<>>, c.command + RESPONSE))
  BY TakesNothing, TakesCompletes
<1> QED
  BY <1>1, <1>2

\* The version is what its method reads.
LEMMA VersionAnswered ==
    ASSUME NEW c, c.kind = "version", NEW content, content = Response(CMD_GETVERSION, <<I32(0), String(1)>>)
    PROVE  content \in Seq(Tokens) /\ Complete(Reading(content, Answer(c), c.command + RESPONSE))
  BY AnswerIs, VersionTaken, TakesCompletes, Zenon DEF Takes

-----------------------------------------------------------------------------
(* The stream between the two, from the call to its return.                *)

\* A packet begins with its length, and holds what it was made of.
LEMMA PacketIs ==
    ASSUME NEW tokens \in Seq(Tokens)
    PROVE  /\ Packet(tokens) \in Seq(Tokens)
           /\ Packet(tokens) # <<>>
           /\ Packet(tokens)[1].v = SizeOf(Packet(tokens))
           /\ Tail(Packet(tokens)) = tokens
<1>1. PICK n \in Nat : n = SizeOf(tokens)
  BY SizeFacts
<1>2. 4 + n \in Int
  OBVIOUS
<1>3. PICK a \in Tokens : a = I32(4 + n) /\ a.v = 4 + n /\ Size(a) = 4
  BY <1>2, Ints
<1>4. PICK h \in Seq(Tokens) : h = <<a>> /\ Len(h) = 1 /\ h[1] = a
  <2>1. <<a>> \in Seq(Tokens)
    OBVIOUS
  <2> QED
    BY <2>1, Zenon
<1>5. Packet(tokens) = h \o tokens
  BY <1>1, <1>3, <1>4 DEF Packet
<1>6. SizeOf(h \o tokens) = 4 + n
  <2>1. SizeOf(h) = 4
    BY <1>3, <1>4, SizeFacts
  <2> QED
    BY <1>1, <2>1, SizeFacts
<1>7. h \o tokens \in Seq(Tokens) /\ (h \o tokens)[1] = a /\ Len(h \o tokens) = 1 + Len(tokens)
  BY <1>4, ConcatProperties
<1>8. h \o tokens # <<>>
  BY <1>7
<1>9. Tail(h \o tokens) = tokens
  BY <1>4, TailOf
<1> QED
  BY <1>3, <1>5, <1>6, <1>7, <1>8, <1>9

\* What has been received of one is not taken for all of it.
LEMMA WholeOnly ==
    ASSUME NEW s \in Seq(Tokens), NEW t \in Seq(Tokens), NEW tokens \in Seq(Tokens), s \o t = Packet(tokens),
           Received(s)
    PROVE  t = <<>> /\ s = Packet(tokens)
<1>1. s # <<>> /\ s[1].v = SizeOf(s)
  BY DEF Received
<1>2. 1 \in 1..Len(s)
  BY <1>1
<1>3. (s \o t)[1] = s[1]
  BY <1>2, FormerAt
<1>4. SizeOf(s) = SizeOf(s \o t)
  BY <1>1, <1>3, PacketIs, Zenon
<1>5. SizeOf(t) = 0
  <2>1. PICK i \in Nat, j \in Nat : i = SizeOf(s) /\ j = SizeOf(t)
    BY SizeFacts, Zenon
  <2>2. SizeOf(s \o t) = i + j
    BY <2>1, SizeFacts, Zenon
  <2>3. i = i + j
    BY <1>4, <2>1, <2>2, Zenon
  <2>4. j = 0
    BY <2>3
  <2> QED
    BY <2>1, <2>4, Zenon
<1>6. t = <<>>
  BY <1>5, SizeFacts
<1> QED
  BY <1>6, ConcatEmptySeq

\* A sequence cut in two.
LEMMA CutInTwo ==
    ASSUME NEW s \in Seq(Tokens), NEW n \in DOMAIN s
    PROVE  /\ SubSeq(s, 1, n) \in Seq(Tokens)
           /\ SubSeq(s, n + 1, Len(s)) \in Seq(Tokens)
           /\ SubSeq(s, 1, n) \o SubSeq(s, n + 1, Len(s)) = s
           /\ SubSeq(s, n + 1, Len(s)) = <<>> <=> n = Len(s)
<1>1. PICK l \in Nat : l = Len(s)
  OBVIOUS
<1>2. n \in 1..l
  BY <1>1
<1>3. SubSeq(s, 1, n) \in Seq(Tokens) /\ Len(SubSeq(s, 1, n)) = n /\ \A i \in 1..n : SubSeq(s, 1, n)[i] = s[i]
  BY <1>1, <1>2, SubSeqProperties
<1>4. /\ SubSeq(s, n + 1, l) \in Seq(Tokens) /\ Len(SubSeq(s, n + 1, l)) = l - n
      /\ \A i \in 1..(l - n) : SubSeq(s, n + 1, l)[i] = s[n + i]
  <2>1. PICK m \in Int : m = n + 1
    BY <1>2
  <2>2. \A i \in m..l : s[i] \in Tokens
    BY <1>1, <1>2, <2>1
  <2>3. /\ SubSeq(s, m, l) \in Seq(Tokens)
        /\ Len(SubSeq(s, m, l)) = IF m <= l THEN l - m + 1 ELSE 0
        /\ \A i \in 1..(l - m + 1) : SubSeq(s, m, l)[i] = s[m + i - 1]
    BY <2>2, SubSeqProperties
  <2>4. l - m + 1 = l - n
    BY <1>2, <2>1
  <2>5. Len(SubSeq(s, m, l)) = l - n
    BY <1>2, <2>1, <2>3
  <2>6. ASSUME NEW i \in 1..(l - n) PROVE SubSeq(s, m, l)[i] = s[n + i]
    <3>1. m + i - 1 = n + i
      BY <1>2, <2>1
    <3>2. SubSeq(s, m, l)[i] = s[m + i - 1]
      BY <2>3, <2>4
    <3> QED
      BY <3>1, <3>2
  <2> QED
    BY <2>1, <2>3, <2>5, <2>6, Zenon
<1>5. PICK a \in Seq(Tokens), b \in Seq(Tokens) : a = SubSeq(s, 1, n) /\ b = SubSeq(s, n + 1, Len(s))
  BY <1>1, <1>3, <1>4, Zenon
<1>6. Len(a) = n /\ Len(b) = l - n /\ (\A i \in 1..n : a[i] = s[i]) /\ \A i \in 1..(l - n) : b[i] = s[n + i]
  BY <1>1, <1>3, <1>4, <1>5, Zenon
<1>7. a \o b = s
  <2>1. a \o b \in Seq(Tokens) /\ Len(a \o b) = l
    <3>1. a \o b \in Seq(Tokens) /\ Len(a \o b) = Len(a) + Len(b)
      BY ConcatProperties
    <3>2. n + (l - n) = l
      BY <1>2
    <3> QED
      BY <1>6, <3>1, <3>2
  <2>2. ASSUME NEW i \in 1..l PROVE (a \o b)[i] = s[i]
    <3>1. CASE i <= n
      BY <1>2, <1>6, <3>1, FormerAt
    <3>2. CASE i > n
      BY <1>2, <3>2, <1>6, LatterAt
    <3>3. i <= n \/ i > n
      BY <1>2
    <3> QED
      BY <3>1, <3>2, <3>3, Zenon
  <2> QED
    BY <1>1, <2>1, <2>2, SeqEqual, Zenon
<1>8. b = <<>> <=> n = Len(s)
  BY <1>1, <1>2, <1>6, NoLength
<1> QED
  BY <1>5, <1>7, <1>8, Zenon

\* A call that is sent is one the client makes.
LEMMA CalledIsSent ==
    ASSUME NEW c, NEW id, Writable(Request(Asking(c, id))),
           \/ c \in GetsAndSets /\ id \in IdsFor(c)
           \/ c \in SubscribeCalls \cup ContextCalls /\ id \in IdsFor(c)
           \/ c \in SessionCalls \cup {StepCall} /\ id = 0
    PROVE  Sent(Asking(c, id))
<1>1. Legal(Asking(c, id))
  BY CallsAreLegal
<1>2. ASSUME Asking(c, id).kind = "get"
      PROVE  \E q \in Questions : q.command = Asking(c, id).command /\ q.variable = Asking(c, id).variable
  <2>1. c.kind = "get"
    BY <1>2, AskingFields
  <2>2. c \notin SubscribeCalls \cup ContextCalls
    <3>1. ASSUME NEW b \in SubscribeCalls PROVE b.kind = "subscribe"
      <4>1. PICK d \in SubscribedDomains, variables \in {<<>>} \cup {<<UByte(v)>> : v \in SubscribedVariables} :
              b = [Session("subscribe", CMD_SUBSCRIBE + Domain[d]) EXCEPT !.value = variables]
        BY <3>1 DEF SubscribeCalls
      <4> QED
        BY <4>1, SessionFields
    <3>2. ASSUME NEW b \in ContextCalls PROVE b.kind = "context"
      <4>1. PICK d \in SubscribedDomains, v \in SubscribedVariables :
              b = [Session("context", CMD_SUBSCRIBE_CONTEXT + Domain[d]) EXCEPT !.value = <<UByte(v)>>]
        BY <3>2 DEF ContextCalls
      <4> QED
        BY <4>1, SessionFields
    <3> QED
      BY <2>1, <3>1, <3>2
  <2>3. c \notin SessionCalls \cup {StepCall}
    BY <2>1, SessionFields DEF SessionCalls, StepCall
  <2>4. c \in Questions
    BY <2>1, <2>2, <2>3 DEF Questions
  <2> QED
    BY <2>4, AskingFields
<1> QED
  BY <1>1, <1>2 DEF Sent

\* Nothing is under way at first.
LEMMA StreamsStart == Init => StreamInvariant
<1> SUFFICES ASSUME Init PROVE StreamInvariant
  OBVIOUS
<1>1. SubscriptionsKnown
  BY FS_EmptySet DEF Init, SubscriptionsKnown
<1>2. stage \in {"idle", "ended"} /\ Quiet
  BY DEF Init, Quiet
<1> QED
  BY <1>1, <1>2 DEF StreamInvariant

\* What each stage knows.
LEMMA StageKnows ==
    ASSUME StreamInvariant
    PROVE  /\ SubscriptionsKnown
           /\ stage = "idle" => Quiet
           /\ stage = "sending" => BeingSent
           /\ stage = "waiting" => Delivered \/ BeingAnswered
BY DEF StreamInvariant

\* A call that is written leaves its packet to be sent; one that is rejected leaves nothing.
LEMMA StreamsInvoke ==
    ASSUME StreamInvariant, stage = "idle", NEW c, NEW id, Invoke(c, id),
           \/ c \in GetsAndSets /\ id \in IdsFor(c)
           \/ c \in SubscribeCalls \cup ContextCalls /\ id \in IdsFor(c)
           \/ c \in SessionCalls \cup {StepCall} /\ id = 0
    PROVE  StreamInvariant'
<1>1. SubscriptionsKnown' /\ Quiet
  BY StageKnows DEF Invoke, SubscriptionsKnown
<1>2. PICK asked, tokens : asked = Asking(c, id) /\ tokens = Request(asked)
  OBVIOUS
<1>3. CASE mySocket = "open" /\ Writable(tokens)
  <2>1. /\ stage' = "sending" /\ call' = asked /\ outgoing' = Packet(tokens) /\ verdict' = "none"
        /\ toServer' = toServer /\ toClient' = toClient /\ inMsg' = inMsg /\ alive' = alive
    BY <1>2, <1>3 DEF Invoke
  <2>2. Sent(asked)
    BY <1>2, <1>3, CalledIsSent
  <2>3. tokens \in Seq(Tokens)
    BY <1>2, <2>2, RequestFramed DEF Sent, Framed
  <2>4. outgoing' \in Seq(Tokens) /\ outgoing' # <<>> /\ <<>> \o outgoing' = outgoing'
    BY <2>1, <2>3, PacketIs, ConcatEmptySeq
  <2>5. BeingSent'
    BY <1>1, <1>2, <2>1, <2>2, <2>4 DEF BeingSent, Quiet
  <2> QED
    BY <1>1, <2>1, <2>5 DEF StreamInvariant
<1>4. CASE ~(mySocket = "open" /\ Writable(tokens))
  BY <1>2, <1>4, <1>1 DEF Invoke, StreamInvariant, Quiet
<1> QED
  BY <1>3, <1>4

\* A piece of the packet that is sent leaves a rest that completes it.
LEMMA StreamsSend ==
    ASSUME StreamInvariant, NEW n, Send(n)
    PROVE  StreamInvariant'
<1>1. /\ stage = "sending" /\ alive /\ n \in DOMAIN outgoing
      /\ toServer' = toServer \o SubSeq(outgoing, 1, n)
      /\ outgoing' = SubSeq(outgoing, n + 1, Len(outgoing))
      /\ stage' = IF n = Len(outgoing) THEN "waiting" ELSE "sending"
      /\ call' = call /\ inMsg' = inMsg /\ alive' = alive /\ verdict' = verdict
      /\ subscriptions' = subscriptions /\ toClient' = toClient
  BY DEF Send, sumoVars
<1>2. SubscriptionsKnown' /\ BeingSent
  BY <1>1, StageKnows DEF SubscriptionsKnown
<1>p. PICK s, o, a, b : s = toServer /\ o = outgoing /\ a = SubSeq(o, 1, n) /\ b = SubSeq(o, n + 1, Len(o))
  BY Zenon
<1>3. /\ s \in Seq(Tokens) /\ o \in Seq(Tokens) /\ a \in Seq(Tokens) /\ b \in Seq(Tokens)
      /\ a \o b = o
      /\ b = <<>> <=> n = Len(o)
  BY <1>1, <1>2, <1>p, CutInTwo, Zenon DEF BeingSent
<1>4. (s \o a) \o b = s \o o
  <2>1. Then(a, b) = o
    BY <1>p, <1>3, Zenon DEF Then
  <2>2. Then(Then(s, a), b) = Then(s, Then(a, b))
    BY <1>3, ThenFacts
  <2>3. Then(Then(s, a), b) = Then(s, o)
    BY <2>1, <2>2
  <2> QED
    BY <2>3, Zenon DEF Then
<1>5. (s \o a) \o b = Packet(Request(call)) /\ s \o a \in Seq(Tokens)
  BY <1>1, <1>2, <1>p, <1>3, <1>4, ConcatProperties, Zenon DEF BeingSent
<1>6. toServer' = s \o a /\ outgoing' = b
  BY <1>1, <1>p, <1>3
<1>7. CASE n = Len(outgoing)
  BY <1>p, <1>3, <1>5, <1>7, ConcatEmptySeq, <1>1, <1>2, <1>6 DEF BeingSent, Delivered, StreamInvariant
<1>8. CASE n # Len(outgoing)
  BY <1>1, <1>2, <1>p, <1>3, <1>5, <1>6, <1>8, Zenon DEF BeingSent, StreamInvariant
<1> QED
  BY <1>7, <1>8

\* What is sent to nobody is gone, and so may the client be.
LEMMA StreamsSendToNobody ==
    ASSUME StreamInvariant, SendToNobody
    PROVE  StreamInvariant'
  BY StageKnows DEF SendToNobody, sumoVars, SubscriptionsKnown, BeingSent, Delivered, Quiet, StreamInvariant

\* A piece of the reply that is received leaves a rest that completes it.
LEMMA StreamsReceive ==
    ASSUME StreamInvariant, NEW n, Receive(n)
    PROVE  StreamInvariant'
<1>1. /\ stage = "waiting" /\ n \in DOMAIN toClient
      /\ inMsg' = inMsg \o SubSeq(toClient, 1, n)
      /\ toClient' = SubSeq(toClient, n + 1, Len(toClient))
      /\ stage' = stage /\ call' = call /\ outgoing' = outgoing /\ alive' = alive /\ verdict' = verdict
      /\ subscriptions' = subscriptions /\ toServer' = toServer
  BY DEF Receive, sumoVars
<1>2. toClient # <<>>
  BY <1>1
<1>3. SubscriptionsKnown' /\ BeingAnswered
  BY <1>1, <1>2, StageKnows DEF SubscriptionsKnown, Delivered
<1>4. PICK reply \in Seq(Tokens), rest \in Seq(Tokens) :
         /\ ReplyTo(call, verdict, reply, subscriptions)
         /\ inMsg \o rest = Packet(reply)
         /\ toClient = rest
  BY <1>2, <1>3, Zenon DEF BeingAnswered
<1>5. PICK a \in Seq(Tokens), b \in Seq(Tokens), s \in Seq(Tokens) :
        s = inMsg /\ a = SubSeq(rest, 1, n) /\ b = SubSeq(rest, n + 1, Len(rest)) /\ a \o b = rest
  <2>1. inMsg \in Seq(Tokens)
    BY <1>3 DEF BeingAnswered
  <2>2. n \in DOMAIN rest
    BY <1>1, <1>4
  <2>3. SubSeq(rest, 1, n) \in Seq(Tokens) /\ SubSeq(rest, n + 1, Len(rest)) \in Seq(Tokens)
    BY <2>2, CutInTwo
  <2>4. SubSeq(rest, 1, n) \o SubSeq(rest, n + 1, Len(rest)) = rest
    BY <2>2, CutInTwo, Zenon
  <2> QED
    BY <2>1, <2>3, <2>4, Zenon
<1>6. (s \o a) \o b = s \o rest
  <2>1. Then(a, b) = rest
    BY <1>5, Zenon DEF Then
  <2>2. Then(Then(s, a), b) = Then(s, Then(a, b))
    BY ThenFacts
  <2>3. Then(Then(s, a), b) = Then(s, rest)
    BY <2>1, <2>2
  <2> QED
    BY <2>3, Zenon DEF Then
<1>7. (s \o a) \o b = Packet(reply) /\ s \o a \in Seq(Tokens)
  BY <1>4, <1>5, <1>6, ConcatProperties, Zenon
<1>8. inMsg' = s \o a /\ toClient' = b
  BY <1>1, <1>4, <1>5
<1>9. BeingAnswered'
  BY <1>1, <1>3, <1>4, <1>7, <1>8, Zenon DEF BeingAnswered
<1> QED
  BY <1>1, <1>3, <1>9 DEF StreamInvariant

\* Nobody is there to receive from.
LEMMA StreamsReceiveFromNobody ==
    ASSUME StreamInvariant, ReceiveFromNobody
    PROVE  StreamInvariant'
  BY StageKnows
     DEF ReceiveFromNobody, sumoVars, SubscriptionsKnown, Delivered, BeingAnswered, StreamInvariant,
       Quiet

\* A reply is read when all of it is there, so that nothing is left in the stream.
LEMMA WholeReply ==
    ASSUME StreamInvariant, stage = "waiting", Received(inMsg)
    PROVE  /\ BeingAnswered
           /\ toClient = <<>>
           /\ \E reply \in Seq(Tokens) : ReplyTo(call, verdict, reply, subscriptions) /\ Tail(inMsg) = reply
<1>1. inMsg # <<>>
  BY DEF Received
<1>2. BeingAnswered
  BY <1>1, StageKnows DEF Delivered
<1>3. PICK reply \in Seq(Tokens), rest \in Seq(Tokens) :
         /\ ReplyTo(call, verdict, reply, subscriptions)
         /\ inMsg \o rest = Packet(reply)
         /\ toClient = rest \/ (~alive /\ toClient = <<>>)
  BY <1>2 DEF BeingAnswered
<1>4. rest = <<>> /\ inMsg = Packet(reply)
  BY <1>2, <1>3, WholeOnly, Zenon DEF BeingAnswered
<1>5. Tail(inMsg) = reply
  BY <1>4, PacketIs
<1> QED
  BY <1>2, <1>3, <1>4, <1>5

\* The reply that is read leaves nothing behind.
LEMMA StreamsFinish ==
    ASSUME StreamInvariant, Finish
    PROVE  StreamInvariant'
  BY StageKnows, WholeReply, Zenon DEF Finish, sumoVars, SubscriptionsKnown, BeingAnswered,
     StreamInvariant, Quiet

\* The end of SUMO leaves the stream as it is.
LEMMA StreamsDie ==
    ASSUME StreamInvariant, Die
    PROVE  StreamInvariant'
<1>1. /\ alive' = FALSE /\ toServer' = <<>> /\ toClient' \in {toClient, <<>>}
      /\ stage' = stage /\ call' = call /\ outgoing' = outgoing /\ inMsg' = inMsg /\ verdict' = verdict
      /\ subscriptions' = subscriptions /\ alive
  BY DEF Die, clientVars
<1>2. SubscriptionsKnown'
  BY <1>1, StageKnows DEF SubscriptionsKnown
<1>3. Quiet => Quiet'
  BY <1>1 DEF Quiet
<1>4. BeingSent => BeingSent'
  BY <1>1 DEF BeingSent
<1>5. Delivered => Delivered'
  BY <1>1 DEF Delivered
<1>6. BeingAnswered => BeingAnswered'
  BY <1>1, Zenon DEF BeingAnswered
<1> QED
  BY <1>1, <1>2, <1>3, <1>4, <1>5, <1>6 DEF StreamInvariant

\* The end of a sequence, member by member.
LEMMA EndOf ==
    ASSUME NEW S, NEW s \in Seq(S), NEW t \in Seq(S), NEW k \in Nat, Len(s) = k + Len(t),
           \A i \in 1..Len(t) : s[k + i] = t[i]
    PROVE  \A n : n = k + 1 => SubSeq(s, n, Len(s)) = t
<1> SUFFICES ASSUME NEW n, n = k + 1 PROVE SubSeq(s, n, Len(s)) = t
  OBVIOUS
<1>1. PICK l \in Nat, m \in Nat : l = Len(s) /\ m = Len(t) /\ l = k + m
  OBVIOUS
<1>2. n \in Int /\ \A i \in n..l : s[i] \in S
  BY <1>1
<1>3. /\ SubSeq(s, n, l) \in Seq(S)
      /\ Len(SubSeq(s, n, l)) = IF n <= l THEN l - n + 1 ELSE 0
      /\ \A i \in 1..(l - n + 1) : SubSeq(s, n, l)[i] = s[n + i - 1]
  BY <1>2, SubSeqProperties
<1>4. l - n + 1 = m
  BY <1>1
<1>5. Len(SubSeq(s, n, l)) = m
  BY <1>1, <1>3
<1>6. ASSUME NEW i \in 1..m PROVE SubSeq(s, n, l)[i] = t[i]
  <2>1. n + i - 1 = k + i
    BY <1>1
  <2>2. SubSeq(s, n, l)[i] = s[n + i - 1]
    BY <1>3, <1>4
  <2>3. s[k + i] = t[i]
    BY <1>1
  <2> QED
    BY <2>1, <2>2, <2>3, Zenon
<1> QED
  BY <1>1, <1>3, <1>5, <1>6, SeqEqual, Zenon

\* SUMO finds the number of a command where it is, and so the variable, the object and the
\* value of a question.
LEMMA PartsOfRequest ==
    ASSUME NEW c, Legal(c)
    PROVE  \A tokens, k : tokens = Request(c) /\ k = CommandAt(tokens) =>
             /\ tokens \in Seq(Tokens)
             /\ tokens[k].v = c.command
             /\ IsAsked(c) => /\ tokens[k + 1] = UByte(c.variable)
                              /\ tokens[k + 1].v = c.variable
                              /\ tokens[k + 2] = String(c.object)
                              /\ SubSeq(tokens, k + 3, Len(tokens)) = c.value
<1> SUFFICES ASSUME NEW tokens, NEW k, tokens = Request(c), k = CommandAt(tokens)
             PROVE  /\ tokens \in Seq(Tokens)
                    /\ tokens[k].v = c.command
                    /\ IsAsked(c) => /\ tokens[k + 1] = UByte(c.variable)
                                     /\ tokens[k + 1].v = c.variable
                                     /\ tokens[k + 2] = String(c.object)
                                     /\ SubSeq(tokens, k + 3, Len(tokens)) = c.value
  OBVIOUS
<1>1. PICK body : body = Body(c)
  OBVIOUS
<1>2. Framed(tokens, c.command, body)
  BY <1>1, RequestFramed
<1>3. /\ tokens \in Seq(Tokens) /\ body \in Seq(Tokens) /\ k \in {2, 3}
      /\ Len(tokens) = k + Len(body) /\ tokens[k].v = c.command
      /\ \A i \in 1..Len(body) : tokens[k + i] = body[i]
  BY <1>2 DEF Framed
<1>4. ASSUME IsAsked(c)
      PROVE  /\ tokens[k + 1] = UByte(c.variable)
             /\ tokens[k + 1].v = c.variable
             /\ tokens[k + 2] = String(c.object)
             /\ SubSeq(tokens, k + 3, Len(tokens)) = c.value
  <2>1. c.kind = "get" /\ c.variable \in 0..255 /\ c.object \in Nat
    BY <1>4, AskedSorts DEF Legal
  <2>2. c.value \in Seq(Tokens)
    BY <1>4, GetOrSetParts DEF IsAsked, IsUsual
  <2>3. PICK a \in Tokens, b \in Tokens : a = UByte(c.variable) /\ b = String(c.object) /\ a.v = c.variable
    BY <2>1, Bytes, Strings, Zenon
  <2>4. <<a, b>> \in Seq(Tokens) /\ Len(<<a, b>>) = 2 /\ <<a, b>>[1] = a /\ <<a, b>>[2] = b
    OBVIOUS
  <2>5. PICK h \in Seq(Tokens) : h = <<a, b>> /\ Len(h) = 2 /\ h[1] = a /\ h[2] = b
    BY <2>4, Zenon
  <2>6. PICK value \in Seq(Tokens) : value = c.value
    BY <2>2
  <2>7. body = h \o value
    BY <1>1, <2>1, <2>3, <2>5, <2>6, VariableRequest, Zenon
  <2>8. Len(body) = 2 + Len(value) /\ body[1] = a /\ body[2] = b
    BY <2>5, <2>7, ObjectAndValue
  <2>9. tokens[k + 1] = a /\ tokens[k + 2] = b
    BY <2>8, <1>3
  <2>10. PICK j \in Nat : j = k + 2
    BY <1>3
  <2>11. ASSUME NEW i \in 1..Len(value) PROVE tokens[j + i] = value[i]
    <3>1. PICK m \in Int : m = 2 + i
      OBVIOUS
    <3>2. body[m] = value[i]
      BY <2>5, <2>7, <3>1, LatterAt
    <3>3. m \in 1..Len(body) /\ k + m = j + i
      BY <1>3, <2>8, <2>10, <3>1
    <3> QED
      BY <1>3, <3>2, <3>3, Zenon
  <2>12. Len(tokens) = j + Len(value)
    BY <1>3, <2>8, <2>10
  <2>13. k + 3 = j + 1
    BY <1>3, <2>10
  <2>14. SubSeq(tokens, k + 3, Len(tokens)) = value
    BY <1>3, <2>11, <2>12, <2>13, EndOf, Zenon
  <2> QED
    BY <2>3, <2>6, <2>9, <2>14
<1> QED
  BY <1>3, <1>4

\* SUMO reads a command when all of it is there.
LEMMA WholeRequest ==
    ASSUME StreamInvariant, Received(toServer)
    PROVE  /\ stage = "waiting"
           /\ alive
           /\ Delivered
           /\ Tail(toServer) = Request(call)
<1>1. toServer # <<>>
  BY DEF Received
<1>2. (stage = "sending" /\ BeingSent) \/ (stage = "waiting" /\ Delivered)
  BY <1>1 DEF Quiet, BeingAnswered, StreamInvariant
<1>3. Sent(call) /\ alive
  BY <1>1, <1>2 DEF BeingSent, Delivered
<1>4. Request(call) \in Seq(Tokens)
  BY <1>3, RequestFramed DEF Sent, Framed
<1>5. ~(stage = "sending" /\ BeingSent)
  <2> SUFFICES ASSUME BeingSent PROVE FALSE
    OBVIOUS
  <2>1. toServer \in Seq(Tokens) /\ outgoing \in Seq(Tokens) /\ outgoing # <<>>
        /\ toServer \o outgoing = Packet(Request(call))
    BY <1>3 DEF BeingSent
  <2> QED
    BY <1>4, <2>1, WholeOnly, Zenon
<1>6. toServer = Packet(Request(call))
  BY <1>2, <1>3, <1>5 DEF Delivered
<1> QED
  BY <1>2, <1>3, <1>4, <1>5, <1>6, PacketIs

\* The reply of SUMO to a call it has read answers that call.
LEMMA StreamsReply ==
    ASSUME stage = "waiting", Delivered, stage' = stage, call' = call, outgoing' = outgoing, inMsg' = inMsg,
           toServer' = <<>>, verdict' \in {"ok", "refused"}, NEW reply \in Seq(Tokens),
           toClient' = toClient \o Packet(reply), ReplyTo(call, verdict', reply, subscriptions'), SubscriptionsKnown'
    PROVE  StreamInvariant'
  BY PacketIs, ConcatEmptySeq DEF Delivered, BeingAnswered, StreamInvariant

\* A status is a sequence of tokens.
LEMMA StatusTokens ==
    ASSUME NEW command \in 0..255
    PROVE  Status(command, RTYPE_ERR) \in Seq(Tokens)
<1>1. PICK result : result = RTYPE_ERR
  OBVIOUS
<1>2. PICK a \in Tokens, b \in Tokens, c \in Tokens, d \in Tokens :
             /\ Status(command, result) = <<a, b, c, d>>
             /\ Takes(<<Want("byte")>>, <<a>>) /\ Takes(<<This(command)>>, <<b>>)
             /\ Takes(<<Want("byte")>>, <<c>>) /\ Takes(<<Want("string")>>, <<d>>)
             /\ a.v = ((Size(a) + Size(b)) + Size(c)) + Size(d)
             /\ c.v = result
  <2>1. result = RTYPE_OK \/ result = RTYPE_ERR
    BY <1>1
  <2> QED
    BY <2>1, StatusIs, Zenon
<1>3. <<a, b, c, d>> \in Seq(Tokens)
  OBVIOUS
<1> QED
  BY <1>1, <1>2, <1>3

\* SUMO refuses a call with a reply to that call.
LEMMA StreamsRefuse ==
    ASSUME StreamInvariant, Refuse
    PROVE  StreamInvariant'
<1>1. PICK tokens, k : tokens = Tail(toServer) /\ k = CommandAt(tokens)
  BY Zenon
<1>2. /\ Received(toServer) /\ toServer' = <<>> /\ verdict' = "refused"
      /\ toClient' = toClient \o Packet(Status(tokens[k].v, RTYPE_ERR))
      /\ stage' = stage /\ call' = call /\ outgoing' = outgoing /\ inMsg' = inMsg
      /\ subscriptions' = subscriptions
  BY <1>1 DEF Refuse, clientVars
<1>3. stage = "waiting" /\ Delivered /\ tokens = Request(call)
  BY <1>1, <1>2, WholeRequest
<1>4. Legal(call)
  BY <1>3 DEF Delivered, Sent
<1>5. tokens[k].v = call.command
  BY <1>1, <1>3, <1>4, PartsOfRequest, Zenon
<1>6. PICK reply \in Seq(Tokens) : reply = Status(call.command, RTYPE_ERR)
  BY <1>4, RequestFramed, StatusTokens, Zenon
<1>7. ReplyTo(call, verdict', reply, subscriptions')
  BY <1>2, <1>6 DEF ReplyTo
<1>8. SubscriptionsKnown'
  BY <1>2, StageKnows DEF SubscriptionsKnown
<1>9. toClient' = toClient \o Packet(reply)
  BY <1>2, <1>5, <1>6
<1> QED
  BY <1>2, <1>3, <1>7, <1>8, <1>9, StreamsReply, Zenon

\* It does so with the command it has read.
LEMMA CarryOutIs ==
    ASSUME CarryOut, NEW tokens, NEW k, NEW command, tokens = Tail(toServer),
           k = CommandAt(tokens), command = tokens[k].v
    PROVE  /\ Received(toServer) /\ toServer' = <<>> /\ verdict' = "ok"
           /\ stage' = stage /\ call' = call /\ outgoing' = outgoing /\ inMsg' = inMsg
           /\ DoneWith(tokens, k, command)
<1>1. /\ Received(toServer) /\ toServer' = <<>> /\ verdict' = "ok"
      /\ stage' = stage /\ call' = call /\ outgoing' = outgoing /\ inMsg' = inMsg
  BY Zenon DEF CarryOut, clientVars
<1> QED
  BY <1>1, Zenon DEF CarryOut, DoneWith, Stepped, Notices

\* An answer that is read to the end.
LEMMA AnsweredIf ==
    ASSUME NEW c, NEW content, content \in Seq(Tokens),
           Complete(Reading(content, Answer(c), c.command + RESPONSE)),
           c.kind # "step", NEW subs
    PROVE  Answered(c, content, subs)
BY DEF Answered

\* SUMO carries out a call with a reply to that call, if its content is what the method reads.
LEMMA StreamsAnswer ==
    ASSUME stage = "waiting", Delivered, stage' = stage, call' = call, outgoing' = outgoing, inMsg' = inMsg,
           toServer' = <<>>, verdict' = "ok", NEW content, Answered(call, content, subscriptions'),
           toClient' = toClient \o Packet(Status(call.command, RTYPE_OK) \o content), SubscriptionsKnown'
    PROVE  StreamInvariant'
  BY RequestFramed, StatusOk, StreamsReply, Zenon DEF Delivered, Sent, Answered, ReplyTo

\* Subscriptions that end.
LEMMA FewerKnown ==
    ASSUME SubscriptionsKnown, NEW others, others \subseteq subscriptions
    PROVE  IsFiniteSet(others) /\ \A s \in others : IsSubscribed(s) /\ IsRecord(s)
  BY FS_Subset DEF SubscriptionsKnown

\* And one that starts.
LEMMA OneMoreKnown ==
    ASSUME SubscriptionsKnown, NEW others, others \subseteq subscriptions, NEW s, IsSubscribed(s), IsRecord(s)
    PROVE  IsFiniteSet(others \cup {s}) /\ \A t \in others \cup {s} : IsSubscribed(t) /\ IsRecord(t)
  BY FewerKnown, FS_AddElement, Zenon

\* A subscription stays one that was asked for.
LEMMA SteppedIs ==
    ASSUME NEW s, IsSubscribed(s), IsRecord(s), NEW objects \in {{}, Vehicles}
    PROVE  IsSubscribed(Stepped(s, objects)) /\ IsRecord(Stepped(s, objects))
  BY SubscribedNumbers DEF Stepped, IsRecord, IsSubscribed

\* So SUMO knows all its subscriptions after a step.
LEMMA SteppedKnown ==
    ASSUME SubscriptionsKnown, NEW left, left \subseteq subscriptions, NEW near \in [left -> {{}, Vehicles}]
    PROVE  /\ IsFiniteSet({Stepped(s, near[s]) : s \in left})
           /\ \A t \in {Stepped(s, near[s]) : s \in left} : IsSubscribed(t) /\ IsRecord(t)
<1>1. IsFiniteSet(left) /\ \A s \in left : IsSubscribed(s) /\ IsRecord(s)
  BY FewerKnown
<1>2. IsFiniteSet({Stepped(s, near[s]) : s \in left})
  <2>1. PICK f : f = [s \in left |-> Stepped(s, near[s])]
    BY Zenon
  <2>2. PICK T : T = {Stepped(s, near[s]) : s \in left}
    BY Zenon
  <2>3. f \in Surjection(left, T)
    BY <2>1, <2>2 DEF Surjection
  <2>4. IsFiniteSet(T)
    BY <1>1, <2>3, FS_Surjection
  <2> QED
    BY <2>2, <2>4
<1>3. ASSUME NEW t \in {Stepped(s, near[s]) : s \in left} PROVE IsSubscribed(t) /\ IsRecord(t)
  BY <1>3, <1>1, SteppedIs
<1> QED
  BY <1>2, <1>3

\* SUMO answers while its subscriptions stay.
LEMMA AnswerStays ==
    ASSUME Answering, subscriptions' = subscriptions, call.kind # "step",
           NEW content, content \in Seq(Tokens), Complete(Reading(content, Answer(call), call.command + RESPONSE)),
           toClient' = toClient \o Packet(Status(call.command, RTYPE_OK) \o content)
    PROVE  StreamInvariant'
  BY AnsweredIf, StreamsAnswer, Zenon DEF Answering, SubscriptionsKnown

\* The answer to a question is a reply to it.
LEMMA StreamsGet ==
    ASSUME Answering, NEW tokens, NEW k, tokens = Request(call), k = CommandAt(tokens),
           call.command \in NumbersOf(CMD_GET), subscriptions' = subscriptions,
           NEW answer \in AnswersTo(call.command, tokens[k + 1].v, SubSeq(tokens, k + 3, Len(tokens))),
           toClient' = toClient \o Packet(Status(call.command, RTYPE_OK)
                                    \o Response(call.command + RESPONSE, <<tokens[k + 1], tokens[k + 2]>> \o answer))
    PROVE  StreamInvariant'
<1>1. Sent(call)
  BY DEF Answering, Delivered
<1>2. Legal(call)
  BY <1>1 DEF Sent
<1>3. IsAsked(call)
  BY <1>2, CallKinds
<1>4. call.kind = "get" /\ call.object \in Nat
  BY <1>2, <1>3, AskedSorts DEF Legal
<1>5. \E q \in Questions : q.command = call.command /\ q.variable = call.variable
  BY <1>1, <1>4 DEF Sent
<1>6. /\ tokens[k + 1] = UByte(call.variable)
      /\ tokens[k + 1].v = call.variable
      /\ tokens[k + 2] = String(call.object)
      /\ SubSeq(tokens, k + 3, Len(tokens)) = call.value
  BY <1>2, <1>3, PartsOfRequest
<1>7. answer \in AnswersTo(call.command, call.variable, call.value)
  BY <1>6, Zenon
<1>8. PICK content : content = Response(call.command + RESPONSE, <<UByte(call.variable), String(call.object)>> \o answer)
  OBVIOUS
<1>9. content \in Seq(Tokens) /\ Complete(Reading(content, Answer(call), call.command + RESPONSE))
  BY <1>3, <1>4, <1>5, <1>7, <1>8, QuestionAnswered
<1>10. toClient' = toClient \o Packet(Status(call.command, RTYPE_OK) \o content)
  BY <1>6, <1>8
<1>11. call.kind # "step"
  BY <1>4
<1> QED
  BY <1>9, <1>10, <1>11, AnswerStays, Zenon

\* The reply to what wants no answer is a reply to it.
LEMMA StreamsSet ==
    ASSUME Answering, call.command \in NumbersOf(CMD_SET) \/ call.command \in {CMD_SETORDER, CMD_LOAD, CMD_CLOSE},
           toClient' = toClient \o Packet(Status(call.command, RTYPE_OK) \o <<>>), subscriptions' = subscriptions
    PROVE  StreamInvariant'
  BY CallKinds, NothingAnswered, AnswerStays, Zenon DEF Answering, Delivered, Sent

\* The version is a reply to the question about it.
LEMMA StreamsVersion ==
    ASSUME Answering, call.command = CMD_GETVERSION, subscriptions' = subscriptions,
           toClient' = toClient \o Packet(Status(call.command, RTYPE_OK) \o Response(CMD_GETVERSION, <<I32(0), String(1)>>))
    PROVE  StreamInvariant'
  BY CallKinds, VersionAnswered, AnswerStays DEF Answering, Delivered, Sent

\* The reply that ends a subscription is one to the request that does.
LEMMA StreamsUnsubscribe ==
    ASSUME Answering, call.command \in NumbersOf(CMD_SUBSCRIBE) \/ call.command \in NumbersOf(CMD_SUBSCRIBE_CONTEXT),
           call.value = <<>>,
           subscriptions' = {s \in subscriptions : s.command # call.command \/ s.holder # call.object},
           toClient' = toClient \o Packet(Status(call.command, RTYPE_OK) \o <<>>)
    PROVE  StreamInvariant'
<1>1. Legal(call)
  BY DEF Answering, Delivered, Sent
<1>2. IsSubscription(call) \/ IsContext(call)
  BY <1>1, CallKinds
<1>3. call.kind = "subscribe"
  BY <1>2 DEF IsSubscription, IsContext
<1>4. PICK content : content = <<>>
  OBVIOUS
<1>5. content \in Seq(Tokens) /\ Complete(Reading(content, Answer(call), call.command + RESPONSE))
  BY <1>3, <1>4, NothingAnswered
<1>6. call.kind # "step"
  BY <1>3
<1>7. Answered(call, content, subscriptions')
  BY <1>5, <1>6, AnsweredIf
<1>8. toClient' = toClient \o Packet(Status(call.command, RTYPE_OK) \o content)
  BY <1>4
<1>9. PICK others : others = {s \in subscriptions : s.command # call.command \/ s.holder # call.object}
  BY Zenon
<1>10. IsFiniteSet(others) /\ \A s \in others : IsSubscribed(s) /\ IsRecord(s)
  BY <1>9, FewerKnown, Zenon DEF Answering
<1>11. SubscriptionsKnown'
  BY <1>9, <1>10 DEF SubscriptionsKnown
<1> QED
  BY <1>7, <1>8, <1>11, StreamsAnswer, Zenon DEF Answering

\* The reply that starts a subscription is one to the request that does.
LEMMA StreamsSubscribe ==
    ASSUME Answering, call.command \in NumbersOf(CMD_SUBSCRIBE) \/ call.command \in NumbersOf(CMD_SUBSCRIBE_CONTEXT),
           call.value # <<>>, NEW s \in Asked(call), NEW type \in SubscribedTypes, NEW sample \in Samples(type),
           subscriptions' = {t \in subscriptions : t.command # call.command \/ t.holder # call.object} \cup {s},
           toClient' = toClient \o Packet(Status(call.command, RTYPE_OK) \o Notice(s, type, sample))
    PROVE  StreamInvariant'
  BY CallKinds, SubscriptionAnswered, AnsweredIf, AskedFor, OneMoreKnown, StreamsAnswer, Zenon
     DEF Answering, Delivered, Sent, IsSubscription, IsContext, Legal, SubscriptionsKnown

\* What SUMO answers to a step is what the method reads.
LEMMA StepContent ==
    ASSUME NEW subs, IsFiniteSet(subs), \A s \in subs : IsSubscribed(s) /\ IsRecord(s),
           NEW type \in SubscribedTypes, NEW sample \in Samples(type), NEW order, order = SetToSeq(subs), NEW content,
           content = Notices(order, type, sample),
           NEW c, Answer(c) = <<Want("responses")>>
    PROVE  Answered(c, content, subs)
<1>1. PICK number : number = c.command + RESPONSE
  OBVIOUS
<1>2. PICK asked : asked = <<Want("responses")>>
  OBVIOUS
<1>4. \A s \in subs : IsSubscribed(s)
  OBVIOUS
<1>3. /\ content \in Seq(Tokens)
      /\ "INDUCTIONLOOP" \notin SubscribedDomains =>
           /\ Complete(Reading(content, asked, number))
           /\ Reading(content, asked, number).results = Brought(subs)
  <2>1. content \in Seq(Tokens)
    BY <1>2, <1>4, StepRead
  <2>2. "INDUCTIONLOOP" \notin SubscribedDomains => Complete(Reading(content, asked, number))
    BY <1>2, <1>4, StepRead
  <2>3. "INDUCTIONLOOP" \notin SubscribedDomains => Reading(content, asked, number).results = Brought(subs)
    BY <1>2, <1>4, StepRead
  <2> QED
    BY <2>1, <2>2, <2>3
<1> QED
  BY <1>1, <1>2, <1>3, Zenon DEF Answered

\* The reply to a step, with all that its subscriptions bring, is one to it.
LEMMA StreamsStep ==
    ASSUME Answering, call.command = CMD_SIMSTEP, NEW left \in SUBSET subscriptions,
           NEW type \in SubscribedTypes, NEW sample \in Samples(type), NEW near \in [left -> {{}, Vehicles}],
           subscriptions' = {Stepped(s, near[s]) : s \in left},
           NEW order, order = SetToSeq(subscriptions'),
           toClient' = toClient \o Packet(Status(call.command, RTYPE_OK)
                         \o Notices(order, type, sample))
    PROVE  StreamInvariant'
  BY CallKinds, SteppedKnown, AnswerIs, StepContent, StreamsAnswer, Zenon
     DEF Answering, Delivered, Sent, SubscriptionsKnown

\* So what SUMO replies is a reply to the call, whatever that is.
LEMMA StreamsCarryOut ==
    ASSUME StreamInvariant, CarryOut
    PROVE  StreamInvariant'
<1>1. Received(toServer)
  BY Zenon DEF CarryOut
<1>2. stage = "waiting" /\ Delivered /\ Tail(toServer) = Request(call)
  BY <1>1, WholeRequest
<1>3. Legal(call)
  BY <1>2 DEF Delivered, Sent
<1>4. PICK tokens, k : tokens = Request(call) /\ k = CommandAt(tokens)
  OBVIOUS
<1>5. tokens[k].v = call.command
  BY <1>3, <1>4, PartsOfRequest
<1>6. PICK command : command = call.command
  OBVIOUS
<1>7. tokens = Tail(toServer) /\ command = tokens[k].v
  BY <1>2, <1>4, <1>5, <1>6
<1>8. SubscriptionsKnown
  BY StageKnows
<1>9. Answering
  BY <1>4, <1>7, CarryOutIs, <1>2, <1>8 DEF Answering
<1>10. DoneWith(tokens, k, command)
  BY <1>4, <1>7, CarryOutIs, Zenon
<1>11. ASSUME command \in NumbersOf(CMD_GET), subscriptions' = subscriptions,
              NEW answer \in AnswersTo(command, tokens[k + 1].v, SubSeq(tokens, k + 3, Len(tokens))),
              toClient' = toClient \o Packet(Status(command, RTYPE_OK)
                            \o Response(command + RESPONSE, <<tokens[k + 1], tokens[k + 2]>> \o answer))
       PROVE  StreamInvariant'
  BY <1>4, <1>6, <1>9, <1>11, StreamsGet, Zenon
<1>12. (/\ command \in NumbersOf(CMD_SET) \cup {CMD_SETORDER, CMD_LOAD, CMD_CLOSE}
        /\ toClient' = toClient \o Packet(Status(command, RTYPE_OK) \o <<>>)
        /\ subscriptions' = subscriptions) => StreamInvariant'
  BY <1>6, <1>9, StreamsSet
<1>13. (/\ command = CMD_GETVERSION
        /\ toClient' = toClient \o Packet(Status(command, RTYPE_OK) \o Response(CMD_GETVERSION, <<I32(0), String(1)>>))
        /\ subscriptions' = subscriptions) => StreamInvariant'
  BY <1>6, <1>9, StreamsVersion
<1>14. (/\ command \in NumbersOf(CMD_SUBSCRIBE) \cup NumbersOf(CMD_SUBSCRIBE_CONTEXT)
        /\ call.value = <<>>
        /\ subscriptions' = {s \in subscriptions : s.command # command \/ s.holder # call.object}
        /\ toClient' = toClient \o Packet(Status(command, RTYPE_OK) \o <<>>)) => StreamInvariant'
  BY <1>6, <1>9, StreamsUnsubscribe
<1>15. ASSUME command \in NumbersOf(CMD_SUBSCRIBE) \cup NumbersOf(CMD_SUBSCRIBE_CONTEXT), call.value # <<>>,
              NEW s \in Asked(call), NEW type \in SubscribedTypes, NEW sample \in Samples(type),
              subscriptions' = {t \in subscriptions : t.command # command \/ t.holder # call.object} \cup {s},
              toClient' = toClient \o Packet(Status(command, RTYPE_OK) \o Notice(s, type, sample))
       PROVE  StreamInvariant'
  BY <1>6, <1>9, <1>15, StreamsSubscribe
<1>16. ASSUME command = CMD_SIMSTEP, NEW left \in SUBSET subscriptions,
              NEW type \in SubscribedTypes, NEW sample \in Samples(type), NEW near \in [left -> {{}, Vehicles}],
              subscriptions' = {Stepped(s, near[s]) : s \in left},
              toClient' = toClient \o Packet(Status(command, RTYPE_OK)
                            \o Notices(SetToSeq(subscriptions'), type, sample))
       PROVE  StreamInvariant'
  BY <1>6, <1>9, <1>16, StreamsStep, Zenon
<1> QED
  BY <1>10, <1>11, <1>12, <1>13, <1>14, <1>15, <1>16, Zenon DEF DoneWith

\* Neither a connection nor a stutter moves what is in the stream.
LEMMA StreamsConnect ==
    ASSUME StreamInvariant, Connect \/ UNCHANGED vars
    PROVE  StreamInvariant'
<1>1. /\ stage' = stage /\ call' = call /\ outgoing' = outgoing /\ inMsg' = inMsg /\ toServer' = toServer
      /\ toClient' = toClient /\ alive' = alive /\ verdict' = verdict /\ subscriptions' = subscriptions
  BY DEF Connect, vars, clientVars, sumoVars
<1>2. SubscriptionsKnown' = SubscriptionsKnown /\ Quiet' = Quiet /\ BeingSent' = BeingSent /\ Delivered' = Delivered
  BY <1>1 DEF SubscriptionsKnown, Quiet, BeingSent, Delivered
<1>3. BeingAnswered' = BeingAnswered
  BY <1>1 DEF BeingAnswered
<1> QED
  BY <1>1, <1>2, <1>3 DEF StreamInvariant

\* Every step keeps the stream.
LEMMA StreamsStay ==
    ASSUME StreamInvariant, [Next]_vars
    PROVE  StreamInvariant'
  BY StreamsInvoke, StreamsSend, StreamsReceive, StreamsConnect, StreamsSendToNobody,
     StreamsReceiveFromNobody, StreamsFinish, StreamsCarryOut, StreamsRefuse, StreamsDie
     DEF GetOrSet, Subscribe, RunSession, Next

\* The stream holds one packet at a time, whole or in pieces: that of the call under way or
\* that of the reply to it.
THEOREM StreamsHold == Spec => []StreamInvariant
<1>1. StreamInvariant /\ [Next]_vars => StreamInvariant'
  BY StreamsStay
<1> QED
  BY <1>1, StreamsStart, PTL DEF Spec

\* What SUMO receives is the request of a legal call that could be written.
LEMMA RequestsAreUnderstood == StreamInvariant => RequestsParse
<1> SUFFICES ASSUME StreamInvariant, Received(toServer)
             PROVE  Understood(Tail(toServer)) <=> <<call.command, call.variable>>
                      # <<UntypedSetMaxSpeed.command, UntypedSetMaxSpeed.variable>>
  BY DEF RequestsParse
<1>1. Tail(toServer) = Request(call) /\ Legal(call) /\ Writable(Request(call))
  BY WholeRequest DEF Delivered, Sent
<1>2. Understood(Request(call)) <=> ~IsUntyped(call)
  BY <1>1, RequestUnderstood
<1>3. <<call.command, call.variable>> = <<UntypedSetMaxSpeed.command, UntypedSetMaxSpeed.variable>> <=> IsUntyped(call)
  BY <1>1, UntypedIsOne
<1> QED
  BY <1>1, <1>2, <1>3, Zenon

\* RequestsParse: SUMO can read every command to its end, but for the one that
\* EdgeScope::setMaxSpeed writes without a type, whatever the ids, variables and types.
THEOREM RequestsAlwaysParse == Spec => []RequestsParse
BY StreamsHold, RequestsAreUnderstood, PTL

\* What the client makes of a reply is what SUMO decided.
LEMMA ReplyRead ==
    ASSUME "INDUCTIONLOOP" \notin SubscribedDomains, NEW c, Legal(c), NEW result, NEW reply, NEW subs,
           ReplyTo(c, result, reply, subs), NEW reader,
           reader = Reading(AfterStatus(reply), Answer(c), c.command + RESPONSE)
    PROVE  /\ ResultState(reply, c.command) = result
           /\ result = "ok" => Complete(reader)
           /\ result = "ok" /\ c.kind = "step" => reader.results = Brought(subs)
<1>1. c.command \in 0..255
  BY RequestFramed
<1>2. RTYPE_OK # RTYPE_ERR
  BY SMTT(30) DEF RTYPE_OK, RTYPE_ERR
<1>3. CASE result = "refused" /\ reply = Status(c.command, RTYPE_ERR)
  BY EmptySeq, <1>1, StatusTokens, <1>3, ConcatEmptySeq, StatusRead, Zenon
<1>4. CASE result = "ok" /\ \E content : Answered(c, content, subs) /\ reply = Status(c.command, RTYPE_OK) \o content
  BY <1>4, <1>1, StatusOk, Zenon DEF Answered
<1> QED
  BY <1>3, <1>4 DEF ReplyTo

\* So a call returns what SUMO decided, and a step brings what SUMO reported.
LEMMA FinishReturns ==
    ASSUME "INDUCTIONLOOP" \notin SubscribedDomains, StreamInvariant, Finish
    PROVE  /\ verdict \in {"ok", "refused"}
           /\ outcome' = verdict
           /\ call.kind = "step" /\ verdict = "ok" => results' = Brought(subscriptions)
<1>1. stage = "waiting" /\ Received(inMsg)
  BY DEF Finish
<1>2. PICK reply \in Seq(Tokens) : ReplyTo(call, verdict, reply, subscriptions) /\ Tail(inMsg) = reply
  BY <1>1, WholeReply
<1>3. BeingAnswered
  BY <1>1, WholeReply
<1>4. verdict \in {"ok", "refused"} /\ Legal(call)
  BY <1>3 DEF BeingAnswered, Sent
<1>5. PICK reader : reader = Reading(AfterStatus(reply), Answer(call), call.command + RESPONSE)
  OBVIOUS
<1>6. /\ ResultState(reply, call.command) = verdict
      /\ verdict = "ok" => Complete(reader)
      /\ verdict = "ok" /\ call.kind = "step" => reader.results = Brought(subscriptions)
  BY <1>2, <1>4, <1>5, ReplyRead
<1>7. /\ outcome' = IF verdict = "ok" /\ ~Complete(reader) THEN "broken" ELSE verdict
      /\ results' = Kept(call, verdict) \cup (IF verdict = "ok" THEN reader.results ELSE {})
  BY <1>2, <1>5, <1>6, Zenon DEF Finish, AfterStatus
<1>8. outcome' = verdict
  BY <1>6, <1>7
<1>9. ASSUME call.kind = "step", verdict = "ok" PROVE results' = Brought(subscriptions)
  BY <1>9, <1>6, <1>7 DEF Kept
<1> QED
  BY <1>4, <1>8, <1>9

\* Only a return could give the outcome "broken".
LEMMA OthersDoNotThrow ==
    ASSUME outcome # "broken", [Next]_vars, ~Finish
    PROVE  outcome' # "broken"
<1>1. ASSUME NEW c, NEW id, Invoke(c, id) PROVE outcome' # "broken"
  BY <1>1 DEF Invoke
<1>2. CASE Connect \/ GetOrSet \/ Subscribe \/ RunSession
  BY <1>1, <1>2 DEF Connect, GetOrSet, Subscribe, RunSession
<1>3. CASE \/ \E n \in DOMAIN outgoing : Send(n)
           \/ SendToNobody
           \/ \E n \in DOMAIN toClient : Receive(n)
           \/ ReceiveFromNobody
  BY <1>3 DEF Send, SendToNobody, Receive, ReceiveFromNobody
<1>4. CASE CarryOut \/ Refuse \/ Die \/ UNCHANGED vars
  BY <1>4, Zenon DEF CarryOut, Refuse, Die, vars, clientVars
<1> QED
  BY <1>2, <1>3, <1>4 DEF Next

\* OnlyRefusalsThrow: no answer SUMO gives is misread, mistaken for that to another call or
\* taken to have another type, whatever the ids, variables and types. The scope of
\* induction loops is not among those into which results of a subscription are put.
THEOREM OnlyRefusalsEverThrow ==
    ASSUME "INDUCTIONLOOP" \notin SubscribedDomains
    PROVE  Spec => []OnlyRefusalsThrow
<1>1. Init => OnlyRefusalsThrow
  BY DEF Init, OnlyRefusalsThrow
<1>2. StreamInvariant /\ OnlyRefusalsThrow /\ [Next]_vars => OnlyRefusalsThrow'
  <2> SUFFICES ASSUME StreamInvariant, OnlyRefusalsThrow, [Next]_vars
               PROVE  outcome' # "broken"
    BY DEF OnlyRefusalsThrow
  <2>1. CASE Finish
    BY <2>1, FinishReturns
  <2>2. CASE ~Finish
    BY <2>2, OthersDoNotThrow DEF OnlyRefusalsThrow
  <2> QED
    BY <2>1, <2>2
<1> QED
  BY <1>1, <1>2, StreamsHold, PTL DEF Spec

-----------------------------------------------------------------------------
(* The client makes remote calls.                                          *)

\* A call begins, or is rejected.
LEMMA RemoteInvoke ==
    ASSUME stage = "idle", NEW c, NEW id, Invoke(c, id)
    PROVE  Remote!RCNext
  BY DEF Invoke, Remote!Call, Remote!RCNext, Remote!Reject

\* Neither the pieces of a packet nor a connection matter to it.
LEMMA RemoteStays ==
    ASSUME Connect \/ (\E n \in DOMAIN outgoing : Send(n)) \/ (\E n \in DOMAIN toClient : Receive(n)) \/ Die
             \/ UNCHANGED vars
    PROVE  UNCHANGED Remote!rcVars
<1>1. verdict' = verdict /\ outcome' = outcome
  BY DEF Connect, Send, Receive, Die, vars, clientVars, sumoVars
<1>2. \/ stage' = stage
      \/ stage = "sending" /\ stage' \in {"sending", "waiting"}
  BY DEF Connect, Send, Receive, Die, vars, clientVars, sumoVars
<1> QED
  BY <1>1, <1>2 DEF Remote!rcVars

\* SUMO decides on a call once, and before it returns.
LEMMA RemoteCarryOut ==
    ASSUME StreamInvariant, CarryOut \/ Refuse
    PROVE  Remote!RCNext
  BY WholeRequest, Zenon DEF CarryOut, Refuse, Delivered, clientVars, Remote!CarryOut,
     Remote!Verdicts, Remote!RCNext

\* A call may be lost.
LEMMA RemoteLose ==
    ASSUME StreamInvariant, SendToNobody \/ ReceiveFromNobody
    PROVE  Remote!RCNext \/ UNCHANGED Remote!rcVars
  BY StageKnows
     DEF SendToNobody, ReceiveFromNobody, sumoVars, BeingSent, Remote!Lose, Remote!rcVars,
       Remote!RCNext

\* It returns what SUMO decided.
LEMMA RemoteReturn ==
    ASSUME "INDUCTIONLOOP" \notin SubscribedDomains, StreamInvariant, Finish
    PROVE  Remote!RCNext
  BY FinishReturns DEF Finish, sumoVars, Remote!Return, Remote!RCNext

\* Every step of the client and of SUMO is one of a remote call, or none.
LEMMA RemoteSteps ==
    ASSUME "INDUCTIONLOOP" \notin SubscribedDomains, StreamInvariant, [Next]_vars
    PROVE  [Remote!RCNext]_(Remote!rcVars)
  BY RemoteInvoke, RemoteStays, RemoteCarryOut, RemoteLose, RemoteReturn
     DEF GetOrSet, Subscribe, RunSession, Next

\* IsRemoteCall: the client and SUMO, with their packets in pieces, implement RemoteCall.
\* A call is carried out once, between its invocation and its return, and returns what SUMO
\* made of it, unless SUMO is gone.
THEOREM ClientMakesRemoteCalls ==
    ASSUME "INDUCTIONLOOP" \notin SubscribedDomains
    PROVE  Spec => IsRemoteCall
<1>1. Init => Remote!RCInit
  BY DEF Init, Remote!RCInit
<1>2. StreamInvariant /\ [Next]_vars => [Remote!RCNext]_(Remote!rcVars)
  BY RemoteSteps
<1> QED
  BY <1>1, <1>2, StreamsHold, PTL DEF Spec, IsRemoteCall, Remote!RCSpec

\* StepBringsResults: once a step returns, the scopes hold what SUMO reported in it: every
\* result of every subscription, and none of an older step, whatever the subscriptions, the
\* objects near them and the types.
THEOREM StepsBringTheirResults ==
    ASSUME "INDUCTIONLOOP" \notin SubscribedDomains
    PROVE  Spec => StepBringsResults
<1>1. ASSUME StreamInvariant, [Next]_vars, stage = "waiting", call.kind = "step", stage' = "idle",
      outcome' = "ok"
      PROVE  results' = UNION {Reported(s) : s \in subscriptions}
  <2>1. Finish
    <3>1. ASSUME NEW n PROVE ~Send(n)
      BY <1>1 DEF Send
    <3>2. ASSUME NEW n PROVE ~Receive(n)
      BY <1>1 DEF Receive
    <3>3. ~CarryOut /\ ~Refuse /\ ~Die /\ ~UNCHANGED vars
      BY <1>1 DEF CarryOut, Refuse, Die, vars, clientVars
    <3>4. ~Connect /\ ~GetOrSet /\ ~Subscribe /\ ~RunSession /\ ~SendToNobody /\ ~ReceiveFromNobody
      BY <1>1 DEF Connect, GetOrSet, Subscribe, RunSession, SendToNobody, ReceiveFromNobody
    <3> QED
      BY <1>1, <3>1, <3>2, <3>3, <3>4 DEF Next
  <2>2. verdict = "ok"
    BY <1>1, <2>1, FinishReturns
  <2> QED
    BY <1>1, <2>1, <2>2, FinishReturns DEF Brought
<1> QED
  BY <1>1, StreamsHold, PTL DEF Spec, StepBringsResults

=============================================================================
