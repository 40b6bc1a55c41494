---------------------------- MODULE SequenceLemmas ----------------------------
(***************************************************************************)
(* What the proofs about sequences share: induction over the naturals,     *)
(* functions defined by recursion along a sequence, FlattenSeq, and a few  *)
(* facts about parts of a sequence.                                        *)
(*                                                                         *)
(* NatSetInduction derives induction, for sets of naturals, from the       *)
(* library's theorem that the subsets of a finite set are well-founded.    *)
(***************************************************************************)
EXTENDS Naturals, Sequences, SequencesExt, FiniteSetTheorems, WellFoundedInduction,
        SequenceTheorems, TLAPS

-----------------------------------------------------------------------------
(* Induction, and functions defined by recursion. *)

\* A set of naturals with 0 and every successor holds all of them: the initial
\* segments that end outside of it would have a least one.
LEMMA NatSetInduction ==
    ASSUME NEW S, 0 \in S, \A n \in Nat : n \in S => n + 1 \in S
    PROVE  Nat \subseteq S
<1> SUFFICES ASSUME NEW n \in Nat, n \notin S PROVE FALSE
    OBVIOUS
<1> DEFINE T == {0..m : m \in {i \in 0..n : i \notin S}}
           R == StrictSubsetOrdering(0..n)
<1>1. IsWellFoundedOn(R, SUBSET (0..n))
    <2>1. IsFiniteSet(0..n)
        BY FS_Interval
    <2> QED
        BY <2>1, FS_StrictSubsetOrderingWellFounded, FS_FiniteSubsetsOfFinite
<1>2. T \subseteq SUBSET (0..n) /\ T # {}
    <2>1. 0..n \in T
        OBVIOUS
    <2> QED
        BY <2>1
<1>3. PICK x \in T : \A y \in T : ~(<<y, x>> \in R)
    <2> HIDE DEF T, R
    <2> QED
        BY <1>1, <1>2, WFMin
<1>4. PICK m \in 0..n : m \notin S /\ x = 0..m
    BY <1>3
<1>5. m - 1 \in 0..n /\ m - 1 \notin S
    BY <1>4
<1>6. 0..(m - 1) \in T
    BY <1>5
<1>7. /\ 0..(m - 1) \subseteq 0..m /\ 0..(m - 1) # 0..m
      /\ 0..m \subseteq 0..n
    BY <1>4
<1>8. <<0..(m - 1), 0..m>> \in R
    BY <1>2, <1>4, <1>6, <1>7 DEF StrictSubsetOrdering
<1> QED
    BY <1>3, <1>4, <1>6, <1>8

\* f starts from v and goes on by G.
Iterates(f, n, v, G) == f[0] = v /\ \A i \in 1..n : f[i] = G[i][f[i - 1]]

\* A value for 0 and a function for each step determine a function.
LEMMA Iterated ==
    ASSUME NEW V, NEW n \in Nat, NEW v \in V, NEW G \in [1..n -> [V -> V]]
    PROVE  \E f \in [0..n -> V] : Iterates(f, n, v, G)
<1> DEFINE P(m) == \E f \in [0..m -> V] : f[0] = v /\ \A i \in 1..m : f[i] = G[i][f[i - 1]]
           S == {m \in Nat : m <= n => P(m)}
<1>1. 0 \in S
    <2> DEFINE f == [i \in 0..0 |-> v]
    <2>1. f \in [0..0 -> V] /\ f[0] = v
        OBVIOUS
    <2> HIDE DEF f
    <2> QED
        BY <2>1
<1>2. ASSUME NEW m \in Nat, m \in S PROVE m + 1 \in S
    <2> SUFFICES ASSUME m + 1 <= n PROVE P(m + 1)
        OBVIOUS
    <2>1. PICK f \in [0..m -> V] : f[0] = v /\ \A i \in 1..m : f[i] = G[i][f[i - 1]]
        BY <1>2
    <2> DEFINE next == G[m + 1][f[m]]
               g == [i \in 0..(m + 1) |-> IF i = m + 1 THEN next ELSE f[i]]
    <2>2. next \in V
        <3>1. f[m] \in V /\ G[m + 1] \in [V -> V]
            BY <2>1
        <3> QED
            BY <3>1
    <2>3. g \in [0..(m + 1) -> V]
        BY <2>1, <2>2
    <2>4. g[m + 1] = next /\ \A i \in 0..m : g[i] = f[i]
        BY <2>1
    <2> HIDE DEF g
    <2>5. g[0] = v
        BY <2>1, <2>4
    <2>6. ASSUME NEW i \in 1..(m + 1) PROVE g[i] = G[i][g[i - 1]]
        <3>1. i - 1 \in 0..m /\ (i = m + 1 => i - 1 = m)
            OBVIOUS
        <3>2. CASE i = m + 1
            BY <2>4, <3>1, <3>2
        <3>3. CASE i \in 1..m
            BY <2>1, <2>4, <3>1, <3>3
        <3> QED
            BY <3>2, <3>3
    <2> QED
        BY <2>3, <2>5, <2>6
<1> HIDE DEF P
<1>3. n \in S
    <2> HIDE DEF S
    <2> QED
        BY <1>1, <1>2, NatSetInduction
<1> QED
    BY <1>3 DEF P, Iterates

\* f is defined by recursion, from v on and by G.
Recurs(f, n, v, G) == f = [i \in 0..n |-> IF i = 0 THEN v ELSE G[i][f[i - 1]]]

LEMMA RecursionExists ==
    ASSUME NEW V, NEW n \in Nat, NEW v \in V, NEW G \in [1..n -> [V -> V]]
    PROVE  \E f : Recurs(f, n, v, G)
<1>1. PICK f \in [0..n -> V] : Iterates(f, n, v, G)
    BY Iterated
<1>2. f = [i \in 0..n |-> f[i]]
    OBVIOUS
<1>3. ASSUME NEW i \in 0..n
      PROVE  f[i] = IF i = 0 THEN v ELSE G[i][f[i - 1]]
    <2>1. i # 0 => i \in 1..n
        OBVIOUS
    <2> QED
        BY <1>1, <2>1 DEF Iterates
<1>4. Recurs(f, n, v, G)
    BY <1>2, <1>3 DEF Recurs
<1> QED
    BY <1>4

LEMMA RecursionIterates ==
    ASSUME NEW V, NEW n \in Nat, NEW v \in V, NEW G \in [1..n -> [V -> V]],
           NEW f, Recurs(f, n, v, G)
    PROVE  f \in [0..n -> V] /\ Iterates(f, n, v, G)
<1>1. f[0] = v /\ \A i \in 1..n : f[i] = G[i][f[i - 1]]
    <2>1. 0 \in 0..n /\ \A i \in 1..n : i \in 0..n /\ i # 0
        OBVIOUS
    <2>2. \A i \in 0..n : f[i] = IF i = 0 THEN v ELSE G[i][f[i - 1]]
        BY DEF Recurs
    <2> QED
        BY <2>1, <2>2
<1> DEFINE S == {i \in Nat : i <= n => f[i] \in V}
<1>2. 0 \in S
    BY <1>1
<1>3. ASSUME NEW i \in Nat, i \in S PROVE i + 1 \in S
    <2> SUFFICES ASSUME i + 1 <= n PROVE f[i + 1] \in V
        OBVIOUS
    <2>1. i + 1 \in 1..n /\ (i + 1) - 1 = i /\ f[i] \in V
        BY <1>3
    <2>2. G[i + 1] \in [V -> V]
        BY <2>1
    <2> QED
        BY <1>1, <2>1, <2>2
<1> HIDE DEF S
<1>4. Nat \subseteq S
    BY <1>2, <1>3, NatSetInduction
<1>5. \A i \in 0..n : f[i] \in V
    BY <1>4 DEF S
<1>6. f = [i \in 0..n |-> f[i]]
    BY DEF Recurs
<1> QED
    BY <1>1, <1>5, <1>6 DEF Iterates

\* Two functions that start alike and go on alike are alike.
LEMMA RecursionsAgree ==
    ASSUME NEW n \in Nat, NEW f, NEW g, f[0] = g[0],
           \A i \in 1..n : f[i - 1] = g[i - 1] => f[i] = g[i]
    PROVE  f[n] = g[n]
<1> DEFINE S == {i \in Nat : i <= n => f[i] = g[i]}
<1>1. 0 \in S
    OBVIOUS
<1>2. ASSUME NEW i \in Nat, i \in S PROVE i + 1 \in S
    <2>1. i + 1 <= n => i + 1 \in 1..n /\ (i + 1) - 1 = i /\ f[i] = g[i]
        BY <1>2
    <2> QED
        BY <2>1
<1> HIDE DEF S
<1>3. n \in S
    BY <1>1, <1>2, NatSetInduction
<1> QED
    BY <1>3 DEF S

\* A set with the empty sequence that is closed under Append has all sequences.
LEMMA SeqSetInduction ==
    ASSUME NEW A, NEW S, <<>> \in S,
           \A s \in Seq(A) : \A a \in A : s \in S => Append(s, a) \in S
    PROVE  Seq(A) \subseteq S
<1> DEFINE N == {n \in Nat : \A s \in Seq(A) : Len(s) = n => s \in S}
<1>1. 0 \in N
    <2>1. \A s \in Seq(A) : Len(s) = 0 => s = <<>>
        OBVIOUS
    <2> QED
        BY <2>1
<1>2. ASSUME NEW n \in Nat, n \in N PROVE n + 1 \in N
    <2> SUFFICES ASSUME NEW s \in Seq(A), Len(s) = n + 1 PROVE s \in S
        OBVIOUS
    <2> DEFINE f == SubSeq(s, 1, n)
    <2>1. n + 1 \in 1..Len(s) /\ \A i \in 1..n : i \in 1..Len(s)
        OBVIOUS
    <2>2. f \in Seq(A) /\ Len(f) = n /\ \A i \in 1..n : f[i] = s[i]
        BY <2>1
    <2>3. s[n + 1] \in A
        BY <2>1
    <2> HIDE DEF f
    <2>4. Append(f, s[n + 1]) = s
        <3> DEFINE w == Append(f, s[n + 1])
        <3>1. w \in Seq(A) /\ Len(w) = n + 1
            BY <2>2, <2>3
        <3>2. \A i \in 1..(n + 1) : w[i] = s[i]
            BY <2>2
        <3> HIDE DEF w
        <3> QED
            BY <3>1, <3>2, SeqEqual DEF w
    <2>5. f \in S
        BY <1>2, <2>2
    <2> QED
        BY <2>2, <2>3, <2>4, <2>5
<1> HIDE DEF N
<1>3. Nat \subseteq N
    BY <1>1, <1>2, NatSetInduction
<1>4. \A s \in Seq(A) : Len(s) \in Nat
    OBVIOUS
<1> QED
    BY <1>3, <1>4 DEF N

-----------------------------------------------------------------------------
(* FlattenSeq. *)

\* f joins the first n parts of ss one after the other.
Joins(f, ss, n) == f[0] = <<>> /\ \A i \in 1..n : f[i] = f[i - 1] \o ss[i]

LEMMA JoinsExists ==
    ASSUME NEW A, NEW ss \in Seq(Seq(A))
    PROVE  \E f \in [0..Len(ss) -> Seq(A)] : Joins(f, ss, Len(ss))
<1> DEFINE n == Len(ss)
           G == [i \in 1..n |-> [x \in Seq(A) |-> x \o ss[i]]]
<1>1. n \in Nat /\ <<>> \in Seq(A) /\ \A i \in 1..n : ss[i] \in Seq(A)
    OBVIOUS
<1>2. G \in [1..n -> [Seq(A) -> Seq(A)]]
    BY <1>1
<1>3. \A i \in 1..n : \A x \in Seq(A) : G[i][x] = x \o ss[i]
    OBVIOUS
<1> HIDE DEF G, n
<1>4. PICK f \in [0..n -> Seq(A)] : f[0] = <<>> /\ \A i \in 1..n : f[i] = G[i][f[i - 1]]
    <2> DEFINE V == Seq(A)
               v == <<>>
    <2>1. n \in Nat /\ v \in V /\ G \in [1..n -> [V -> V]]
        BY <1>1, <1>2
    <2> HIDE DEF V, v
    <2>2. \E f \in [0..n -> V] : Iterates(f, n, v, G)
        BY <2>1, Iterated
    <2> QED
        BY <2>2 DEF Iterates, V, v
<1>5. ASSUME NEW i \in 1..n PROVE f[i] = f[i - 1] \o ss[i]
    <2>1. i - 1 \in 0..n
        BY <1>1
    <2>2. f[i - 1] \in Seq(A)
        BY <2>1
    <2>3. G[i][f[i - 1]] = f[i - 1] \o ss[i]
        BY <1>3, <2>2
    <2> QED
        BY <1>4, <2>3
<1> QED
    BY <1>4, <1>5 DEF Joins, n

LEMMA JoinsUnique ==
    ASSUME NEW ss, NEW n \in Nat, NEW f, NEW g, Joins(f, ss, n), Joins(g, ss, n)
    PROVE  f[n] = g[n]
<1> DEFINE S == {m \in Nat : m <= n => f[m] = g[m]}
<1>1. 0 \in S
    BY DEF Joins
<1>2. ASSUME NEW m \in Nat, m \in S PROVE m + 1 \in S
    <2> SUFFICES ASSUME m + 1 <= n PROVE f[m + 1] = g[m + 1]
        OBVIOUS
    <2>1. m + 1 \in 1..n /\ (m + 1) - 1 = m /\ f[m] = g[m]
        BY <1>2
    <2> QED
        BY <2>1 DEF Joins
<1> HIDE DEF S
<1>3. n \in S
    BY <1>1, <1>2, NatSetInduction
<1> QED
    BY <1>3 DEF S

\* The function inside FlattenSeq, which starts at 1, joins as well.
FlattensBy(h, ss) ==
    h = [i \in 1..Len(ss) |-> IF i = 1 THEN ss[i] ELSE h[i - 1] \o ss[i]]

LEMMA FlattensByJoins ==
    ASSUME NEW A, NEW ss \in Seq(Seq(A)), Len(ss) # 0
    PROVE  LET h == CHOOSE x : FlattensBy(x, ss)
           IN  \A f : Joins(f, ss, Len(ss)) => h[Len(ss)] = f[Len(ss)]
<1> DEFINE n == Len(ss)
           h == CHOOSE x : FlattensBy(x, ss)
<1>1. n \in Nat /\ n # 0 /\ \A i \in 1..n : ss[i] \in Seq(A)
    OBVIOUS
<1>2. PICK e \in [0..n -> Seq(A)] : Joins(e, ss, n)
    BY JoinsExists
<1> DEFINE g == [i \in 1..n |-> e[i]]
<1>3. \A i \in 1..n : g[i] = e[i]
    OBVIOUS
<1>4. g = [i \in 1..n |-> g[i]]
    OBVIOUS
<1> HIDE DEF g
<1>5. FlattensBy(g, ss)
    <2> SUFFICES ASSUME NEW i \in 1..n
                 PROVE  g[i] = IF i = 1 THEN ss[i] ELSE g[i - 1] \o ss[i]
        BY <1>4 DEF FlattensBy
    <2>1. e[i] = e[i - 1] \o ss[i] /\ e[0] = <<>> /\ ss[i] \in Seq(A)
        BY <1>1, <1>2 DEF Joins
    <2>2. CASE i = 1
        <3>1. e[i - 1] = <<>>
            BY <2>1, <2>2
        <3>2. <<>> \o ss[i] = ss[i]
            BY <2>1
        <3>3. g[i] = ss[i]
            BY <1>3, <2>1, <3>1, <3>2
        <3> QED
            BY <2>2, <3>3
    <2>3. CASE i # 1
        <3>1. i - 1 \in 1..n
            BY <1>1, <2>3
        <3> QED
            BY <1>3, <2>1, <2>3, <3>1
    <2> QED
        BY <2>2, <2>3
<1>6. FlattensBy(h, ss)
    BY <1>5
<1> HIDE DEF h, n
<1>7. \A i \in 1..n : h[i] = IF i = 1 THEN ss[i] ELSE h[i - 1] \o ss[i]
    BY <1>6 DEF FlattensBy, n
<1> DEFINE k == [i \in 0..n |-> IF i = 0 THEN <<>> ELSE h[i]]
<1>8. k[0] = <<>> /\ \A i \in 1..n : k[i] = h[i]
    BY <1>1
<1> HIDE DEF k
<1>9. Joins(k, ss, n)
    <2> SUFFICES ASSUME NEW i \in 1..n PROVE k[i] = k[i - 1] \o ss[i]
        BY <1>8 DEF Joins
    <2>1. CASE i = 1
        <3>1. k[i] = ss[i] /\ k[i - 1] = <<>>
            BY <1>7, <1>8, <2>1
        <3>2. <<>> \o ss[i] = ss[i]
            BY <1>1
        <3> QED
            BY <3>1, <3>2
    <2>2. CASE i # 1
        <3>1. i - 1 \in 1..n
            BY <1>1, <2>2
        <3> QED
            BY <1>7, <1>8, <2>2, <3>1
    <2> QED
        BY <2>1, <2>2
<1>10. ASSUME NEW f, Joins(f, ss, n) PROVE h[n] = f[n]
    <2>1. k[n] = f[n]
        BY <1>1, <1>9, <1>10, JoinsUnique
    <2>2. n \in 1..n
        BY <1>1
    <2> QED
        BY <1>8, <2>1, <2>2
<1> QED
    BY <1>10 DEF h, n

\* Whatever joins all of ss ends with what FlattenSeq returns.
LEMMA FlattenJoins ==
    ASSUME NEW A, NEW ss \in Seq(Seq(A)), NEW f, Joins(f, ss, Len(ss))
    PROVE  FlattenSeq(ss) = f[Len(ss)] /\ FlattenSeq(ss) \in Seq(A)
<1>1. CASE Len(ss) = 0
    <2>1. FlattenSeq(ss) = ss /\ ss = <<>> /\ <<>> \in Seq(A)
        BY <1>1 DEF FlattenSeq
    <2> QED
        BY <1>1, <2>1 DEF Joins
<1>2. CASE Len(ss) # 0
    <2> DEFINE h == CHOOSE x : FlattensBy(x, ss)
    <2>1. FlattenSeq(ss) = h[Len(ss)]
        BY <1>2 DEF FlattenSeq, FlattensBy
    <2> HIDE DEF h
    <2>2. \A e : Joins(e, ss, Len(ss)) => h[Len(ss)] = e[Len(ss)]
        BY <1>2, FlattensByJoins DEF h
    <2>3. PICK e \in [0..Len(ss) -> Seq(A)] : Joins(e, ss, Len(ss))
        BY JoinsExists
    <2>4. e[Len(ss)] \in Seq(A)
        <3>1. Len(ss) \in 0..Len(ss)
            OBVIOUS
        <3> QED
            BY <2>3, <3>1
    <2> QED
        BY <2>1, <2>2, <2>3, <2>4
<1> QED
    BY <1>1, <1>2

LEMMA FlattenAppend ==
    ASSUME NEW A, NEW ss \in Seq(Seq(A)), NEW s \in Seq(A)
    PROVE  /\ FlattenSeq(Append(ss, s)) = FlattenSeq(ss) \o s
           /\ FlattenSeq(ss) \in Seq(A) /\ FlattenSeq(Append(ss, s)) \in Seq(A)
<1> DEFINE n == Len(ss)
           tt == Append(ss, s)
<1>1. /\ n \in Nat /\ tt \in Seq(Seq(A)) /\ Len(tt) = n + 1
      /\ tt[n + 1] = s /\ \A i \in 1..n : tt[i] = ss[i]
    OBVIOUS
<1> HIDE DEF tt, n
<1>2. PICK f \in [0..(n + 1) -> Seq(A)] : Joins(f, tt, n + 1)
    BY <1>1, JoinsExists, ZenonT(60)
<1>3. Joins(f, ss, n)
    <2>1. \A i \in 1..n : i \in 1..(n + 1)
        BY <1>1
    <2> QED
        BY <1>1, <1>2, <2>1 DEF Joins
<1>4. f[n + 1] = f[n] \o s
    <2>1. n \in Nat
        BY <1>1
    <2>2. n + 1 \in 1..(n + 1) /\ (n + 1) - 1 = n
        BY <2>1
    <2> QED
        BY <1>1, <1>2, <2>2 DEF Joins
<1>5. FlattenSeq(ss) = f[n] /\ FlattenSeq(ss) \in Seq(A)
    BY <1>3, FlattenJoins DEF n
<1>6. FlattenSeq(tt) = f[n + 1] /\ FlattenSeq(tt) \in Seq(A)
    BY <1>1, <1>2, FlattenJoins
<1> QED
    BY <1>4, <1>5, <1>6 DEF tt

-----------------------------------------------------------------------------
(* Parts of a sequence. *)

LEMMA FrontAndLast ==
    ASSUME NEW A, NEW s \in Seq(A), s # <<>>
    PROVE  /\ Front(s) \in Seq(A) /\ Len(Front(s)) = Len(s) - 1
           /\ \A i \in 1..(Len(s) - 1) : Front(s)[i] = s[i]
           /\ Len(s) \in 1..Len(s) /\ Last(s) = s[Len(s)] /\ Last(s) \in A
           /\ Append(Front(s), Last(s)) = s
<1> DEFINE n == Len(s) - 1
           f == Front(s)
<1>1. n \in Nat /\ Len(s) = n + 1 /\ n + 1 \in 1..Len(s)
    OBVIOUS
<1>2. f = SubSeq(s, 1, n)
    BY DEF Front
<1> HIDE DEF f, n
<1>3. \A i \in 1..n : i \in 1..Len(s)
    BY <1>1
<1>4. f \in Seq(A)
    BY <1>1, <1>2, <1>3
<1>5. Len(f) = n
    BY <1>1, <1>2
<1>6. \A i \in 1..n : f[i] = s[i]
    BY <1>1, <1>2, <1>3
<1>7. Last(s) = s[n + 1] /\ s[n + 1] \in A
    BY <1>1 DEF Last
<1> DEFINE w == Append(f, s[n + 1])
<1>8. w \in Seq(A) /\ Len(w) = n + 1
    BY <1>4, <1>5, <1>7
<1>9. \A i \in 1..(n + 1) : w[i] = s[i]
    BY <1>1, <1>4, <1>5, <1>6
<1> HIDE DEF w
<1>10. w = s
    BY <1>1, <1>8, <1>9, SeqEqual
<1> QED
    BY <1>1, <1>4, <1>5, <1>6, <1>7, <1>10 DEF f, n, w

LEMMA FrontOfAppend ==
    ASSUME NEW A, NEW s \in Seq(A), NEW a \in A
    PROVE  Front(Append(s, a)) = s /\ Last(Append(s, a)) = a
<1> DEFINE w == Append(s, a)
           n == Len(s)
<1>1. n \in Nat /\ w \in Seq(A) /\ Len(w) = n + 1 /\ w[n + 1] = a
    OBVIOUS
<1>2. \A i \in 1..n : w[i] = s[i]
    OBVIOUS
<1> HIDE DEF w
<1>3. w # <<>>
    BY <1>1
<1>4. Front(w) \in Seq(A) /\ Len(Front(w)) = n /\ \A i \in 1..n : Front(w)[i] = w[i]
    <2>1. Len(w) - 1 = n
        BY <1>1
    <2> HIDE DEF n
    <2> QED
        BY <1>1, <1>3, <2>1, FrontAndLast
<1>5. Front(w) = s
    BY <1>2, <1>4, SeqEqual
<1> QED
    BY <1>1, <1>5 DEF w, Last

LEMMA AppendToOne == ASSUME NEW a, NEW b PROVE Append(<<a>>, b) = <<a, b>>
<1>1. <<a>> \in Seq({a, b}) /\ <<a, b>> \in Seq({a, b}) /\ Append(<<a>>, b) \in Seq({a, b})
    OBVIOUS
<1>2. Len(Append(<<a>>, b)) = 2 /\ Len(<<a, b>>) = 2
    OBVIOUS
<1>3. \A i \in 1..2 : Append(<<a>>, b)[i] = <<a, b>>[i]
    OBVIOUS
<1> QED
    BY <1>1, <1>2, <1>3, SeqEqual

LEMMA AppendToTwo ==
    ASSUME NEW a, NEW b, NEW c
    PROVE  Append(<<a, b>>, c) = <<a, b, c>>
<1> DEFINE S == {a, b, c}
           s == <<a, b>>
           t == Append(s, c)
           u == <<a, b, c>>
<1>1. s \in Seq(S) /\ Len(s) = 2 /\ s[1] = a /\ s[2] = b /\ c \in S
    OBVIOUS
<1>2. u \in Seq(S) /\ Len(u) = 3 /\ u[1] = a /\ u[2] = b /\ u[3] = c
    OBVIOUS
<1> HIDE DEF S, s, u
<1>3. t \in Seq(S) /\ Len(t) = 3 /\ t[1] = a /\ t[2] = b /\ t[3] = c
    <2>1. /\ t \in Seq(S) /\ Len(t) = Len(s) + 1 /\ t[Len(s) + 1] = c
          /\ \A i \in 1..Len(s) : t[i] = s[i]
        BY SMTT(60), <1>1
    <2> HIDE DEF t
    <2> QED
        BY <1>1, <2>1
<1> HIDE DEF t
<1>4. \A i \in 1..3 : t[i] = u[i]
    BY <1>2, <1>3
<1>5. t = u
    BY <1>2, <1>3, <1>4, SeqEqual
<1> QED
    BY <1>5 DEF s, t, u

LEMMA AppendToThree ==
    ASSUME NEW a, NEW b, NEW c, NEW e
    PROVE  Append(<<a, b, c>>, e) = <<a, b, c, e>>
<1> DEFINE S == {a, b, c, e}
           s == <<a, b, c>>
           t == Append(s, e)
           u == <<a, b, c, e>>
<1>1. s \in Seq(S) /\ Len(s) = 3 /\ s[1] = a /\ s[2] = b /\ s[3] = c /\ e \in S
    OBVIOUS
<1>2. u \in Seq(S) /\ Len(u) = 4 /\ u[1] = a /\ u[2] = b /\ u[3] = c /\ u[4] = e
    OBVIOUS
<1> HIDE DEF S, s, u
<1>3. /\ t \in Seq(S) /\ Len(t) = Len(s) + 1 /\ t[Len(s) + 1] = e
      /\ \A i \in 1..Len(s) : t[i] = s[i]
    <2>1. s \in Seq(S) /\ e \in S
        BY <1>1
    <2>2. t \in Seq(S) /\ Len(t) = Len(s) + 1
        BY <2>1, AppendProperties
    <2>3. t[Len(s) + 1] = e
        BY <2>1, AppendProperties
    <2>4. \A i \in 1..Len(s) : t[i] = s[i]
        BY <2>1, AppendProperties
    <2> QED
        BY <2>2, <2>3, <2>4
<1> HIDE DEF t
<1>4. Len(t) = 4 /\ t[4] = e /\ \A i \in 1..3 : t[i] = s[i]
    BY <1>1, <1>3
<1>5. \A i \in 1..4 : t[i] = u[i]
    BY <1>1, <1>2, <1>4
<1>6. t = u
    BY <1>2, <1>3, <1>4, <1>5, SeqEqual
<1> QED
    BY <1>6 DEF s, t, u

LEMMA ConcatAppend ==
    ASSUME NEW A, NEW s \in Seq(A), NEW t \in Seq(A), NEW a \in A
    PROVE  s \o Append(t, a) = Append(s \o t, a)
<1>1. <<a>> \in Seq(A)
    OBVIOUS
<1>2. Append(t, a) = t \o <<a>>
    BY AppendIsConcat
<1>3. s \o t \in Seq(A)
    BY ConcatProperties
<1>4. Append(s \o t, a) = (s \o t) \o <<a>>
    BY <1>3, AppendIsConcat
<1>5. (s \o t) \o <<a>> = s \o (t \o <<a>>)
    BY <1>1, ConcatAssociative
<1> QED
    BY <1>2, <1>4, <1>5

LEMMA SplitAt ==
    ASSUME NEW A, NEW s \in Seq(A), NEW n \in 0..Len(s)
    PROVE  /\ SubSeq(s, 1, n) \in Seq(A) /\ SubSeq(s, n + 1, Len(s)) \in Seq(A)
           /\ SubSeq(s, 1, n) \o SubSeq(s, n + 1, Len(s)) = s
<1> DEFINE a == SubSeq(s, 1, n)
           b == SubSeq(s, n + 1, Len(s))
<1>1. Len(s) \in Nat /\ n \in Nat /\ n <= Len(s)
    OBVIOUS
<1>2. a \in Seq(A) /\ Len(a) = n /\ \A i \in 1..n : a[i] = s[i]
    <2>1. \A i \in 1..n : i \in 1..Len(s)
        BY <1>1
    <2>2. a \in Seq(A)
        BY <1>1, <2>1
    <2>3. Len(a) = n
        BY <1>1
    <2> QED
        BY <1>1, <2>2, <2>3
<1>3. /\ b \in Seq(A) /\ Len(b) = Len(s) - n
      /\ \A i \in 1..(Len(s) - n) : b[i] = s[i + n]
    <2>1. \A i \in (n + 1)..Len(s) : i \in 1..Len(s)
        BY <1>1
    <2>2. b \in Seq(A)
        BY <1>1, <2>1
    <2>3. Len(b) = Len(s) - n
        BY <1>1
    <2> QED
        BY <1>1, <2>2, <2>3
<1> HIDE DEF a, b
<1>4. a \o b = s
    <2>1. a \o b \in Seq(A) /\ Len(a \o b) = Len(s)
        <3>1. a \o b \in Seq(A) /\ Len(a \o b) = Len(a) + Len(b)
            BY <1>2, <1>3, ConcatProperties
        <3> QED
            BY <1>1, <1>2, <1>3, <3>1
    <2>2. ASSUME NEW i \in 1..Len(s) PROVE (a \o b)[i] = s[i]
        <3>1. CASE i <= n
            BY <1>1, <1>2, <1>3, <3>1
        <3>2. CASE ~(i <= n)
            <4>1. i - n \in 1..(Len(s) - n) /\ (i - n) + n = i
                BY <1>1, <3>2
            <4>2. (a \o b)[i] = b[i - n]
                BY <1>1, <1>2, <1>3, <3>2
            <4> QED
                BY <1>3, <4>1, <4>2
        <3> QED
            BY <3>1, <3>2
    <2> QED
        BY <1>1, <2>1, <2>2, SeqEqual
<1> QED
    BY <1>2, <1>3, <1>4 DEF a, b
================================================================================
