------------------------------ MODULE CsvProofs ------------------------------
(***************************************************************************)
(* Proofs about CsvCodec, for cells and lists of any length: what was      *)
(* exported is read back. They need induction over numbers, which the      *)
(* first section has as lemmas about sets of numbers; the proofs about the *)
(* other modules of the browser use them too.                              *)
(***************************************************************************)
EXTENDS CsvCodec, SequenceTheorems, FiniteSetTheorems, WellFoundedInduction, TLAPS

(* A finite set of numbers has a greatest.                                 *)
LEMMA MaxIsGreatest ==
    ASSUME NEW n \in Nat, NEW S \in SUBSET (0..n), S # {}
    PROVE  Max(S) \in S /\ \A y \in S : Max(S) >= y
<1> DEFINE Above(x) == {y \in S : y > x}
           Rest == {Above(x) : x \in S}
<1>1. IsFiniteSet(S)
  <2>1. IsFiniteSet(0..n)
    BY FS_Interval
  <2> QED
    BY <2>1, FS_Subset
<1>2. IsWellFoundedOn(StrictSubsetOrdering(S), FiniteSubsetsOf(S))
  BY FS_StrictSubsetOrderingWellFounded
<1>3. Rest \subseteq FiniteSubsetsOf(S) /\ Rest # {}
  <2>1. \A x \in S : Above(x) \in SUBSET S /\ IsFiniteSet(Above(x))
    BY <1>1, FS_Subset
  <2> QED
    BY <2>1 DEF FiniteSubsetsOf
<1>4. PICK least \in Rest : \A y \in Rest : <<y, least>> \notin StrictSubsetOrdering(S)
  <2> HIDE DEF Rest
  <2> QED
    BY <1>2, <1>3, WFMin
<1>5. PICK x \in S : least = Above(x)
  BY <1>4
<1>6. \A y \in S : ~(y > x)
  <2> SUFFICES ASSUME NEW y \in S, y > x PROVE FALSE
    OBVIOUS
  <2>1. Above(y) \subseteq Above(x) /\ y \in Above(x) /\ y \notin Above(y)
    <3>1. S \subseteq Int
      OBVIOUS
    <3>2. ASSUME NEW z \in Above(y) PROVE z \in S /\ z > x
      <4>1. z \in Int /\ x \in Int /\ y \in Int
        BY <3>1
      <4> QED
        BY <4>1
    <3>3. ~(y > y)
      BY <3>1
    <3> QED
      BY <3>2, <3>3
  <2>2. <<Above(y), Above(x)>> \in StrictSubsetOrdering(S)
    BY <2>1 DEF StrictSubsetOrdering
  <2> QED
    BY <1>4, <1>5, <2>2
<1>7. \A y \in S : x >= y
  BY <1>6
<1> QED
  BY <1>7 DEF Max

(* What holds at 0 and passes on to the next number holds up to n.         *)
LEMMA Upward ==
    ASSUME NEW n \in Nat, NEW Q, 0 \in Q,
           \A i \in 0..(n - 1) : i \in Q => i + 1 \in Q
    PROVE  0..n \subseteq Q
<1> SUFFICES ASSUME NEW x \in 0..n, x \notin Q PROVE FALSE
  OBVIOUS
<1> DEFINE Below == {n - i : i \in (0..n) \ Q}
<1>1. Below \in SUBSET (0..n) /\ Below # {}
  OBVIOUS
<1>2. Max(Below) \in Below /\ \A y \in Below : Max(Below) >= y
  <2> HIDE DEF Below
  <2> QED
    BY <1>1, MaxIsGreatest
<1>3. PICK i \in (0..n) \ Q : Max(Below) = n - i
  BY <1>2
<1>4. i # 0 /\ i - 1 \in 0..(n - 1)
  BY <1>3
<1>5. i - 1 \notin Q
  BY <1>4
<1>6. n - (i - 1) \in Below
  BY <1>4, <1>5
<1>7. n - i >= n - (i - 1)
  BY <1>2, <1>3, <1>6
<1> QED
  BY <1>4, <1>7

-----------------------------------------------------------------------------
(* The CSV files of a profile. Where each symbol of a cell is in the file  *)
(* follows from where the parts of a flattened sequence are; the parser is *)
(* then followed from one symbol of the cell to the next.                  *)

(* A function may be defined by what it is at 0 and by each step from one  *)
(* number to the next.                                                     *)
Stepwise(step, N, S) == \A n \in 1..N : step[n] \in [S -> S]

StepsFrom(f, a, step, N, S) ==
    f \in [0..N -> S] /\ f[0] = a /\ \A n \in 1..N : f[n] = step[n][f[n - 1]]

LEMMA StepsMakeOne ==
    ASSUME NEW S, NEW a \in S, NEW N \in Nat, NEW step, Stepwise(step, N, S)
    PROVE  \E f : StepsFrom(f, a, step, N, S)
<1> USE DEF Stepwise, StepsFrom
<1> DEFINE Solves(f, k) == /\ f \in [0..k -> S] /\ f[0] = a
                           /\ \A n \in 1..k : f[n] = step[n][f[n - 1]]
           Q == {k \in 0..N : \E f : Solves(f, k)}
<1>1. 0 \in Q
  <2> DEFINE f == [n \in 0..0 |-> a]
  <2>1. f \in [0..0 -> S] /\ f[0] = a /\ 1..0 = {}
    OBVIOUS
  <2>2. Solves(f, 0)
    <3> HIDE DEF f
    <3> QED
      BY <2>1
  <2> HIDE DEF f, Solves
  <2> QED
    BY <2>2
<1>2. ASSUME NEW k \in 0..(N - 1), k \in Q PROVE k + 1 \in Q
  <2>1. PICK f : Solves(f, k)
    BY <1>2
  <2>2. /\ k \in 0..k /\ k + 1 \in 1..N /\ k + 1 \in 0..N
        /\ 0..(k + 1) = (0..k) \cup {k + 1} /\ 1..(k + 1) = (1..k) \cup {k + 1}
        /\ k + 1 \notin 0..k /\ (k + 1) - 1 = k
        /\ \A n \in 1..k : n \in 0..k /\ n - 1 \in 0..k
    OBVIOUS
  <2> DEFINE new == step[k + 1][f[k]]
             g == [n \in 0..(k + 1) |-> IF n \in 0..k THEN f[n] ELSE new]
  <2>3. new \in S
    BY <2>1, <2>2
  <2> HIDE DEF new
  <2>4. /\ g \in [0..(k + 1) -> S]
        /\ \A n \in 0..k : g[n] = f[n]
        /\ g[k + 1] = new
    BY <2>1, <2>2, <2>3
  <2> HIDE DEF g
  <2>5. g[0] = a
    BY <2>1, <2>4
  <2>6. \A n \in 1..(k + 1) : g[n] = step[n][g[n - 1]]
    <3> TAKE n \in 1..(k + 1)
    <3>1. CASE n \in 1..k
      BY <2>1, <2>2, <2>4, <3>1
    <3>2. CASE n = k + 1
      BY <2>2, <2>4, <3>2 DEF new
    <3> QED
      BY <2>2, <3>1, <3>2
  <2>7. Solves(g, k + 1)
    BY <2>4, <2>5, <2>6
  <2> HIDE DEF Solves
  <2> QED
    BY <2>2, <2>7
<1>3. N \in Q
  <2> HIDE DEF Q
  <2>1. 0..N \subseteq Q
    BY <1>1, <1>2, Upward
  <2> QED
    BY <2>1
<1> QED
  BY <1>3

Pieces(seqs, S) ==
    seqs = [i \in 1..Len(seqs) |-> seqs[i]] /\ Len(seqs) \in Nat
    /\ \A i \in 1..Len(seqs) : seqs[i] \in Seq(S)

LEMMA FlattenIs ==
    ASSUME NEW S, NEW seqs, Pieces(seqs, S)
    PROVE  \E f \in [0..Len(seqs) -> Seq(S)] :
             /\ f[0] = <<>>
             /\ \A i \in 1..Len(seqs) : f[i] = f[i - 1] \o seqs[i]
             /\ FlattenSeq(seqs) = f[Len(seqs)]
<1> DEFINE N == Len(seqs)
           step == [n \in 1..N |-> [x \in Seq(S) |-> x \o seqs[n]]]
<1>1. N \in Nat /\ \A i \in 1..N : seqs[i] \in Seq(S)
  BY DEF Pieces
<1>2. \A n \in 1..N : /\ step[n] \in [Seq(S) -> Seq(S)]
                     /\ \A x \in Seq(S) : step[n][x] = x \o seqs[n]
  <2> TAKE n \in 1..N
  <2>1. step[n] = [x \in Seq(S) |-> x \o seqs[n]]
    OBVIOUS
  <2>2. \A x \in Seq(S) : x \o seqs[n] \in Seq(S)
    BY <1>1
  <2> HIDE DEF step
  <2> QED
    BY <2>1, <2>2
<1> HIDE DEF step
<1>3. PICK f \in [0..N -> Seq(S)] : /\ f[0] = <<>>
                                    /\ \A n \in 1..N : f[n] = step[n][f[n - 1]]
  <2>1. Stepwise(step, N, Seq(S))
    BY <1>2 DEF Stepwise
  <2>2. <<>> \in Seq(S)
    OBVIOUS
  <2>3. \E f : StepsFrom(f, <<>>, step, N, Seq(S))
    BY <1>1, <2>1, <2>2, StepsMakeOne
  <2> QED
    BY <2>3 DEF StepsFrom
<1>4. \A i \in 1..N : f[i] = f[i - 1] \o seqs[i]
  <2> TAKE i \in 1..N
  <2>1. i - 1 \in 0..N
    BY <1>1
  <2>2. f[i - 1] \in Seq(S)
    BY <2>1
  <2>3. step[i][f[i - 1]] = f[i - 1] \o seqs[i]
    BY <1>2, <2>2
  <2> QED
    BY <1>3, <2>3
<1>5. CASE N = 0
  <2>1. seqs = <<>> /\ FlattenSeq(seqs) = seqs
    BY <1>5 DEF FlattenSeq, Pieces
  <2> QED
    BY <1>1, <1>3, <1>4, <1>5, <2>1
<1>6. CASE N # 0
  <2> DEFINE Solves(h) == h = [i \in 1..N |-> IF i = 1 THEN seqs[i] ELSE h[i - 1] \o seqs[i]]
             g == [i \in 1..N |-> f[i]]
             h == CHOOSE h : Solves(h)
  <2>1. \A i \in 1..N : g[i] = IF i = 1 THEN seqs[i] ELSE g[i - 1] \o seqs[i]
    <3> TAKE i \in 1..N
    <3>1. CASE i = 1
      <4>1. g[i] = f[i - 1] \o seqs[i] /\ i - 1 = 0 /\ seqs[i] \in Seq(S)
        <5>1. g[i] = f[i]
          OBVIOUS
        <5> HIDE DEF g
        <5>2. f[i] = f[i - 1] \o seqs[i]
          BY <1>4
        <5>3. i - 1 = 0 /\ seqs[i] \in Seq(S)
          BY <1>1, <3>1
        <5> QED
          BY <5>1, <5>2, <5>3
      <4>2. f[i - 1] \o seqs[i] = seqs[i]
        BY <1>3, <4>1, ConcatEmptySeq
      <4> QED
        BY <3>1, <4>1, <4>2
    <3>2. CASE i # 1
      <4>1. i - 1 \in 1..N
        BY <1>1, <3>2
      <4>2. g[i] = f[i - 1] \o seqs[i] /\ g[i - 1] = f[i - 1]
        BY <1>4, <4>1
      <4> QED
        BY <3>2, <4>2
    <3> QED
      BY <3>1, <3>2
  <2>2. Solves(g)
    <3>1. g = [i \in 1..N |-> g[i]]
      OBVIOUS
    <3> HIDE DEF g
    <3> QED
      BY <2>1, <3>1
  <2>3. Solves(h)
    <3> HIDE DEF Solves, g
    <3> QED
      BY <2>2
  <2>4. FlattenSeq(seqs) = h[N]
    BY <1>6 DEF FlattenSeq
  <2> HIDE DEF h, g
  <2>5. \A i \in 1..N : h[i] = IF i = 1 THEN seqs[i] ELSE h[i - 1] \o seqs[i]
    BY <2>3
  <2> HIDE DEF Solves
  <2> DEFINE Q == {i \in 0..N : i # 0 => h[i] = f[i]}
  <2>6. 0 \in Q
    BY <1>1
  <2>7. ASSUME NEW i \in 0..(N - 1), i \in Q PROVE i + 1 \in Q
    <3>1. i + 1 \in 1..N /\ i + 1 \in 0..N /\ (i + 1) - 1 = i
      BY <1>1
    <3>2. CASE i = 0
      <4>1. h[1] = seqs[1] /\ seqs[1] \in Seq(S)
        BY <1>1, <2>5, <3>1, <3>2
      <4>2. f[1] = f[0] \o seqs[1]
        <5>1. 1 \in 1..N /\ 1 - 1 = 0
          BY <3>1, <3>2
        <5> QED
          BY <1>4, <5>1
      <4>3. h[1] = f[1]
        BY <1>3, <4>1, <4>2
      <4> QED
        BY <3>1, <3>2, <4>3
    <3>3. CASE i # 0
      <4>1. h[i + 1] = h[i] \o seqs[i + 1]
        <5>1. i + 1 # 1
          BY <1>1, <3>3
        <5> QED
          BY <2>5, <3>1, <5>1
      <4>2. f[i + 1] = f[i] \o seqs[i + 1]
        BY <1>4, <3>1
      <4>3. h[i] = f[i]
        BY <2>7, <3>3
      <4> QED
        BY <3>1, <4>1, <4>2, <4>3
    <3> QED
      BY <3>2, <3>3
  <2>8. N \in Q
    <3> HIDE DEF Q
    <3>1. 0..N \subseteq Q
      BY <1>1, <2>6, <2>7, Upward
    <3> QED
      BY <1>1, <3>1
  <2> QED
    BY <1>3, <1>4, <1>6, <2>4, <2>8
<1> QED
  BY <1>5, <1>6

(* Where each part of a concatenation is.                                  *)
PiecesAt(at, seqs) ==
    /\ at \in [0..Len(seqs) -> Nat]
    /\ at[0] = 0 /\ at[Len(seqs)] = Len(FlattenSeq(seqs))
    /\ \A i \in 1..Len(seqs) :
         /\ at[i] = at[i - 1] + Len(seqs[i]) /\ at[i] <= at[Len(seqs)]
         /\ \A k \in 1..Len(seqs[i]) : FlattenSeq(seqs)[at[i - 1] + k] = seqs[i][k]

LEMMA FlattenPlaces ==
    ASSUME NEW S, NEW seqs, Pieces(seqs, S)
    PROVE  FlattenSeq(seqs) \in Seq(S) /\ \E at : PiecesAt(at, seqs)
<1> DEFINE N == Len(seqs)
           all == FlattenSeq(seqs)
<1>1. N \in Nat /\ \A i \in 1..N : seqs[i] \in Seq(S) /\ Len(seqs[i]) \in Nat
  BY DEF Pieces
<1>2. PICK f \in [0..N -> Seq(S)] : /\ f[0] = <<>> /\ all = f[N]
                                    /\ \A i \in 1..N : f[i] = f[i - 1] \o seqs[i]
  BY FlattenIs
<1> HIDE DEF N, all
<1> DEFINE at == [i \in 0..N |-> Len(f[i])]
<1>3. \A i \in 0..N : f[i] \in Seq(S) /\ at[i] = Len(f[i]) /\ at[i] \in Nat
  BY <1>2
<1>4. at \in [0..N -> Nat]
  BY <1>3
<1> HIDE DEF at
<1>5. all \in Seq(S) /\ at[0] = 0 /\ at[N] = Len(all)
  BY <1>1, <1>2, <1>3
<1>6. \A i \in 1..N : /\ at[i] = at[i - 1] + Len(seqs[i])
                      /\ \A k \in 1..at[i - 1] : f[i][k] = f[i - 1][k]
                      /\ \A k \in 1..Len(seqs[i]) : f[i][at[i - 1] + k] = seqs[i][k]
  <2> TAKE i \in 1..N
  <2>1. i \in 0..N /\ i - 1 \in 0..N
    BY <1>1
  <2>2. /\ f[i] = f[i - 1] \o seqs[i] /\ f[i - 1] \in Seq(S) /\ seqs[i] \in Seq(S)
        /\ at[i] = Len(f[i]) /\ at[i - 1] = Len(f[i - 1])
    BY <1>1, <1>2, <1>3, <2>1
  <2>3. \A a, b \in Seq(S) :
          /\ Len(a \o b) = Len(a) + Len(b)
          /\ \A k \in 1..Len(a) : (a \o b)[k] = a[k]
          /\ \A k \in 1..Len(b) : (a \o b)[Len(a) + k] = b[k]
    OBVIOUS
  <2> DEFINE a == f[i - 1]
             b == seqs[i]
             c == f[i]
  <2>4. c = a \o b /\ a \in Seq(S) /\ b \in Seq(S) /\ at[i] = Len(c) /\ at[i - 1] = Len(a)
    BY <2>2
  <2> HIDE DEF a, b, c
  <2>5. /\ at[i] = at[i - 1] + Len(b)
        /\ \A k \in 1..at[i - 1] : c[k] = a[k]
        /\ \A k \in 1..Len(b) : c[at[i - 1] + k] = b[k]
    BY <2>3, <2>4
  <2> QED
    BY <2>5 DEF a, b, c
<1> DEFINE Begins(n) == \A i \in 0..n : at[i] <= at[n]
                                        /\ \A k \in 1..at[i] : f[n][k] = f[i][k]
           Q == {n \in 0..N : Begins(n)}
<1>7. 0 \in Q
  BY <1>1, <1>3
<1>8. ASSUME NEW n \in 0..(N - 1), n \in Q PROVE n + 1 \in Q
  <2>1. n + 1 \in 1..N /\ n + 1 \in 0..N /\ (n + 1) - 1 = n /\ n \in 0..N
    BY <1>1
  <2>2. /\ at[n + 1] = at[n] + Len(seqs[n + 1]) /\ Len(seqs[n + 1]) \in Nat
        /\ \A k \in 1..at[n] : f[n + 1][k] = f[n][k]
    BY <1>1, <1>6, <2>1
  <2>3. ASSUME NEW i \in 0..(n + 1)
        PROVE  at[i] <= at[n + 1] /\ \A k \in 1..at[i] : f[n + 1][k] = f[i][k]
    <3>1. CASE i = n + 1
      BY <1>3, <2>1, <3>1
    <3>2. CASE i # n + 1
      <4>1. i \in 0..n /\ i \in 0..N
        <5>1. i \in Int /\ 0 <= i /\ i <= n
          BY <3>2
        <5> QED
          BY <1>1, <2>1, <5>1
      <4>2. at[i] <= at[n] /\ \A k \in 1..at[i] : f[n][k] = f[i][k]
        BY <1>8, <4>1
      <4>3. at[i] \in Nat /\ at[n] \in Nat
        BY <1>3, <2>1, <4>1
      <4> QED
        BY <2>2, <4>2, <4>3
    <3> QED
      BY <3>1, <3>2
  <2> QED
    BY <2>1, <2>3
<1>9. Begins(N)
  <2>1. 0..N \subseteq Q
    <3> HIDE DEF Q
    <3> QED
      BY <1>1, <1>7, <1>8, Upward
  <2> QED
    BY <1>1, <2>1
<1>10. \A i \in 1..N : /\ at[i] = at[i - 1] + Len(seqs[i]) /\ at[i] <= at[N]
                       /\ \A k \in 1..Len(seqs[i]) : all[at[i - 1] + k] = seqs[i][k]
  <2> TAKE i \in 1..N
  <2>1. i \in 0..N /\ i - 1 \in 0..N
    BY <1>1
  <2>2. at[i] <= at[N] /\ \A k \in 1..at[i] : all[k] = f[i][k]
    BY <1>2, <1>9, <2>1
  <2>3. /\ at[i] = at[i - 1] + Len(seqs[i]) /\ Len(seqs[i]) \in Nat /\ at[i - 1] \in Nat
        /\ \A k \in 1..Len(seqs[i]) : f[i][at[i - 1] + k] = seqs[i][k]
    BY <1>1, <1>3, <1>6, <2>1
  <2> QED
    BY <2>2, <2>3
<1>11. PiecesAt(at, seqs)
  BY <1>4, <1>5, <1>10 DEF PiecesAt, N, all
<1> QED
  BY <1>5, <1>11 DEF all

Symbol == {"a", "quote", "comma", "cr", "lf", "semi", "true", "false", "n"}

(* Where each symbol of w is in its doubled form: up to D[j] it stands for *)
(* the first j of them.                                                    *)
Offsets(w, D) ==
    /\ D \in [0..Len(w) -> Nat] /\ D[0] = 0 /\ D[Len(w)] = Len(Doubled(w))
    /\ \A j \in 1..Len(w) :
          /\ D[j] = D[j - 1] + (IF w[j] = "quote" THEN 2 ELSE 1)
          /\ D[j] <= D[Len(w)]
          /\ Doubled(w)[D[j - 1] + 1] = w[j]
          /\ w[j] = "quote" => Doubled(w)[D[j - 1] + 2] = "quote"

OffsetOf(w) == CHOOSE D : Offsets(w, D)

LEMMA DoubledIs ==
    ASSUME NEW w \in Seq(Symbol)
    PROVE  Doubled(w) \in Seq(Symbol) /\ Offsets(w, OffsetOf(w))
<1> DEFINE seqs == [i \in DOMAIN w |-> IF w[i] = "quote" THEN <<"quote", "quote">> ELSE <<w[i]>>]
<1>1. Len(w) \in Nat /\ DOMAIN w = 1..Len(w) /\ \A i \in 1..Len(w) : w[i] \in Symbol
  OBVIOUS
<1>2. seqs = [i \in 1..Len(w) |-> seqs[i]] /\ Len(seqs) = Len(w)
  BY <1>1
<1>3. \A i \in 1..Len(w) :
        /\ seqs[i] \in Seq(Symbol)
        /\ Len(seqs[i]) = IF w[i] = "quote" THEN 2 ELSE 1
        /\ seqs[i][1] = w[i]
        /\ w[i] = "quote" => seqs[i][2] = "quote"
  <2> TAKE i \in 1..Len(w)
  <2>1. w[i] \in Symbol
    BY <1>1
  <2>2. CASE w[i] = "quote"
    <3>1. seqs[i] = <<"quote", "quote">>
      BY <1>1, <2>2
    <3>2. "quote" \in Symbol
      BY DEF Symbol
    <3> HIDE DEF seqs
    <3> QED
      BY <2>2, <3>1, <3>2
  <2>3. CASE w[i] # "quote"
    <3>1. seqs[i] = <<w[i]>>
      BY <1>1, <2>3
    <3> HIDE DEF seqs
    <3> QED
      BY <2>1, <2>3, <3>1
  <2> QED
    BY <2>2, <2>3
<1>4. Doubled(w) = FlattenSeq(seqs)
  BY DEF Doubled
<1> HIDE DEF seqs
<1>5. Pieces(seqs, Symbol)
  BY <1>1, <1>2, <1>3 DEF Pieces
<1>6. FlattenSeq(seqs) \in Seq(Symbol)
  BY <1>5, FlattenPlaces
<1>7. PICK at : PiecesAt(at, seqs)
  BY <1>5, FlattenPlaces
<1> DEFINE n == Len(w)
           e == Doubled(w)
<1>9. /\ at \in [0..n -> Nat] /\ at[0] = 0 /\ at[n] = Len(e)
      /\ \A i \in 1..n : /\ at[i] = at[i - 1] + Len(seqs[i]) /\ at[i] <= at[n]
                         /\ \A k \in 1..Len(seqs[i]) : e[at[i - 1] + k] = seqs[i][k]
  <2>1. Len(seqs) = n /\ FlattenSeq(seqs) = e
    BY <1>2, <1>4
  <2> HIDE DEF n, e
  <2> QED
    BY <1>7, <2>1 DEF PiecesAt
<1>8. Offsets(w, at)
  <2>1. ASSUME NEW j \in 1..Len(w)
        PROVE  /\ at[j] = at[j - 1] + (IF w[j] = "quote" THEN 2 ELSE 1)
               /\ at[j] <= at[Len(w)]
               /\ Doubled(w)[at[j - 1] + 1] = w[j]
               /\ w[j] = "quote" => Doubled(w)[at[j - 1] + 2] = "quote"
    <3>1. 1 \in 1..Len(seqs[j]) /\ (w[j] = "quote" => 2 \in 1..Len(seqs[j]))
      BY <1>3
    <3> QED
      BY <1>3, <1>9, <3>1
  <2> QED
    BY <1>9, <2>1 DEF Offsets
<1> QED
  BY <1>4, <1>6, <1>8 DEF OffsetOf

MustQuote(w) == Range(w) \cap Special # {}

(* A cell of the file as the parser meets it.                              *)
LEMMA QuoteIs ==
    ASSUME NEW w \in Seq(Symbol)
    PROVE  /\ Quote(w) \in Seq(Symbol)
           /\ ~MustQuote(w) => Quote(w) = w /\ \A k \in 1..Len(w) : w[k] \notin Special
           /\ MustQuote(w) =>
                LET D == OffsetOf(w) IN
                /\ D[Len(w)] \in Nat
                /\ Len(Quote(w)) = D[Len(w)] + 2
                /\ Quote(w)[1] = "quote" /\ Quote(w)[D[Len(w)] + 2] = "quote"
                /\ \A j \in 1..Len(w) :
                     /\ Quote(w)[D[j - 1] + 2] = w[j]
                     /\ w[j] = "quote" => Quote(w)[D[j - 1] + 3] = "quote"
<1>1. Doubled(w) \in Seq(Symbol) /\ Offsets(w, OffsetOf(w))
  BY DoubledIs
<1>2. CASE ~MustQuote(w)
  <2>1. Quote(w) = w
    BY <1>2 DEF Quote, MustQuote
  <2>2. \A k \in 1..Len(w) : w[k] \notin Special
    BY <1>2 DEF MustQuote, Range
  <2> QED
    BY <1>2, <2>1, <2>2
<1>3. CASE MustQuote(w)
  <2> DEFINE D == OffsetOf(w)
             e == Doubled(w)
             c == Quote(w)
             n == Len(w)
  <2>1. c = <<"quote">> \o e \o <<"quote">>
    BY <1>3 DEF Quote, MustQuote
  <2>2. /\ D[n] = Len(e) /\ n \in Nat
        /\ \A j \in 1..n : /\ D[j - 1] \in Nat
                           /\ e[D[j - 1] + 1] = w[j] /\ D[j - 1] + 1 \in 1..Len(e)
                           /\ w[j] = "quote" => /\ e[D[j - 1] + 2] = "quote"
                                                /\ D[j - 1] + 2 \in 1..Len(e)
    <3>1. /\ D[n] = Len(e) /\ n \in Nat /\ D \in [0..n -> Nat]
          /\ \A j \in 1..n : /\ D[j] = D[j - 1] + (IF w[j] = "quote" THEN 2 ELSE 1)
                             /\ D[j] <= D[n]
                             /\ e[D[j - 1] + 1] = w[j]
                             /\ w[j] = "quote" => e[D[j - 1] + 2] = "quote"
      BY <1>1 DEF Offsets
    <3> HIDE DEF D, e, n
    <3>2. ASSUME NEW j \in 1..n
          PROVE  D[j - 1] \in Nat /\ D[j] \in Nat
      <4>1. j - 1 \in 0..n /\ j \in 0..n
        BY <3>1
      <4> QED
        BY <3>1, <4>1
    <3>3. Len(e) \in Nat
      BY <1>1 DEF e
    <3> QED
      BY <3>1, <3>2, <3>3
  <2>3. e \in Seq(Symbol) /\ "quote" \in Symbol
    BY <1>1 DEF Symbol
  <2> HIDE DEF D, e, c, n
  <2>4. /\ c \in Seq(Symbol) /\ Len(e) \in Nat /\ Len(c) = Len(e) + 2
        /\ c[1] = "quote" /\ c[Len(e) + 2] = "quote"
        /\ \A k \in 1..Len(e) : c[k + 1] = e[k]
    BY <2>1, <2>3
  <2>5. \A j \in 1..n : /\ c[D[j - 1] + 2] = w[j]
                       /\ w[j] = "quote" => c[D[j - 1] + 3] = "quote"
    <3> TAKE j \in 1..n
    <3>1. /\ D[j - 1] \in Nat
          /\ c[(D[j - 1] + 1) + 1] = w[j]
          /\ w[j] = "quote" => c[(D[j - 1] + 2) + 1] = "quote"
      BY <2>2, <2>4
    <3>2. (D[j - 1] + 1) + 1 = D[j - 1] + 2 /\ (D[j - 1] + 2) + 1 = D[j - 1] + 3
      BY <3>1
    <3> QED
      BY <3>1, <3>2
  <2> QED
    BY <1>3, <2>2, <2>4, <2>5 DEF D, c, n, e
<1> QED
  BY <1>2, <1>3

(* t has the cell of w behind its first s symbols, up to its end or to the *)
(* comma of the next cell.                                                 *)
CellIn(t, s, w) ==
    /\ s + Len(Quote(w)) <= Len(t)
    /\ \A k \in 1..Len(Quote(w)) : t[s + k] = Quote(w)[k]
    /\ s + Len(Quote(w)) = Len(t) \/ t[s + Len(Quote(w)) + 1] = "comma"

(* How far the parser is in that cell: at p, with q for quoted and f for   *)
(* its field.                                                              *)
InPlain(s, w, p, q, f) ==
    q = FALSE /\ \E j \in 0..Len(w) : p = s + 1 + j /\ f = SubSeq(w, 1, j)

InQuotes(s, w, p, q, f) ==
    \/ q = FALSE /\ p = s + 1 /\ f = <<>>
    \/ q = TRUE /\ \E j \in 0..Len(w) : p = s + 2 + OffsetOf(w)[j] /\ f = SubSeq(w, 1, j)
    \/ q = FALSE /\ p = s + Len(Quote(w)) + 1 /\ f = w

InCell(s, w, p, q, f) ==
    IF MustQuote(w) THEN InQuotes(s, w, p, q, f) ELSE InPlain(s, w, p, q, f)

LEMMA OneMore ==
    ASSUME NEW S, NEW w \in Seq(S), NEW j \in 0..(Len(w) - 1)
    PROVE  Append(SubSeq(w, 1, j), w[j + 1]) = SubSeq(w, 1, j + 1)
<1>1. Len(w) \in Nat /\ j \in Nat /\ j + 1 \in Nat /\ j + 1 <= Len(w)
  OBVIOUS
<1>2. w = [k \in 1..Len(w) |-> w[k]] /\ \A k \in 1..Len(w) : w[k] \in S
  OBVIOUS
<1>3. /\ SubSeq(w, 1, j) \in Seq(S) /\ Len(SubSeq(w, 1, j)) = j
      /\ \A k \in 1..j : SubSeq(w, 1, j)[k] = w[k]
  BY <1>1, <1>2
<1>4. /\ SubSeq(w, 1, j + 1) \in Seq(S) /\ Len(SubSeq(w, 1, j + 1)) = j + 1
      /\ \A k \in 1..(j + 1) : SubSeq(w, 1, j + 1)[k] = w[k]
  BY <1>1, <1>2
<1> DEFINE a == SubSeq(w, 1, j)
           b == SubSeq(w, 1, j + 1)
           c == Append(a, w[j + 1])
<1> HIDE DEF a, b
<1>5. /\ c \in Seq(S) /\ Len(c) = j + 1 /\ c[j + 1] = w[j + 1]
      /\ \A k \in 1..j : c[k] = w[k]
  BY <1>1, <1>2, <1>3 DEF a
<1> HIDE DEF c
<1>6. \A k \in 1..(j + 1) : c[k] = b[k]
  BY <1>1, <1>4, <1>5 DEF b
<1>7. c = [k \in 1..(j + 1) |-> c[k]] /\ b = [k \in 1..(j + 1) |-> b[k]]
  BY <1>4, <1>5 DEF b
<1>8. c = b
  BY <1>6, <1>7
<1> QED
  BY <1>8 DEF a, b, c

(* A step inside a cell.                                                   *)
LEMMA CellStep ==
    ASSUME NEW s \in Nat, NEW w \in Seq(Symbol), text \in Seq(Symbol),
           CellIn(text, s, w), InCell(s, w, pos, quoted, field),
           pos <= s + Len(Quote(w)), ReadQuoted \/ ReadPlain
    PROVE  /\ InCell(s, w, pos', quoted', field')
           /\ UNCHANGED <<types, row, text, fields, lines, done>>
<1> DEFINE c == Quote(w)
           D == OffsetOf(w)
           n == Len(w)
<1>1. /\ c \in Seq(Symbol) /\ n \in Nat /\ Len(c) \in Nat /\ Len(text) \in Nat
      /\ \A k \in 1..n : w[k] \in Symbol
  BY QuoteIs
<1>2. /\ s + Len(c) <= Len(text) /\ \A k \in 1..Len(c) : text[s + k] = c[k]
      /\ s + Len(c) = Len(text) \/ text[s + Len(c) + 1] = "comma"
  BY DEF CellIn
<1>3. CASE ~MustQuote(w)
  <2>1. c = w /\ \A k \in 1..n : w[k] \notin Special
    BY <1>3, QuoteIs
  <2>2. quoted = FALSE
    BY <1>3 DEF InCell, InPlain
  <2>3. PICK j \in 0..n : pos = s + 1 + j /\ field = SubSeq(w, 1, j)
    BY <1>3 DEF InCell, InPlain
  <2>4. /\ j \in 0..(n - 1) /\ j + 1 \in 1..n /\ j + 1 \in 0..n /\ pos = s + (j + 1)
        /\ pos + 1 = s + 1 + (j + 1) /\ Len(c) = n
    BY <1>1, <2>1, <2>3
  <2>5. text[pos] = w[j + 1] /\ w[j + 1] \notin Special
    BY <1>2, <2>1, <2>4
  <2>6. text[pos] # "quote" /\ text[pos] # "comma" /\ text[pos] # "lf"
    BY <2>5 DEF Special
  <2>7. /\ quoted' = FALSE /\ pos' = pos + 1 /\ field' = Append(field, text[pos])
        /\ UNCHANGED <<types, row, text, fields, lines, done>>
    BY <2>2, <2>6 DEF ReadQuoted, ReadPlain, Reading, Here
  <2>8. field' = SubSeq(w, 1, j + 1)
    BY <2>3, <2>4, <2>5, <2>7, OneMore
  <2>9. InPlain(s, w, pos', quoted', field')
    BY <2>4, <2>7, <2>8 DEF InPlain
  <2> QED
    BY <1>3, <2>7, <2>9 DEF InCell
<1>4. CASE MustQuote(w)
  <2>1. /\ D[n] \in Nat /\ Len(c) = D[n] + 2
        /\ c[1] = "quote" /\ c[D[n] + 2] = "quote"
        /\ \A j \in 1..n : /\ c[D[j - 1] + 2] = w[j]
                           /\ w[j] = "quote" => c[D[j - 1] + 3] = "quote"
    BY <1>4, QuoteIs
  <2>2. /\ D \in [0..n -> Nat] /\ D[0] = 0
        /\ \A j \in 1..n : /\ D[j] = D[j - 1] + (IF w[j] = "quote" THEN 2 ELSE 1)
                           /\ D[j] <= D[n]
    BY DoubledIs DEF Offsets
  <2> HIDE DEF c, D, n
  <2>3. CASE quoted = FALSE /\ pos = s + 1 /\ field = <<>>
    <3>1. 1 \in 1..Len(c)
      BY <2>1
    <3>2. text[pos] = "quote"
      BY <1>2, <2>1, <2>3, <3>1
    <3>3. /\ quoted' = TRUE /\ pos' = s + 1 + 1 /\ field' = <<>>
          /\ UNCHANGED <<types, row, text, fields, lines, done>>
      BY <2>3, <3>2 DEF ReadQuoted, ReadPlain, Reading, Here
    <3>4. 0 \in 0..n /\ SubSeq(w, 1, 0) = <<>> /\ s + 1 + 1 = s + 2 + D[0]
      BY <1>1, <2>2
    <3>5. InQuotes(s, w, pos', quoted', field')
      BY <3>3, <3>4 DEF InQuotes, n, D
    <3> QED
      BY <1>4, <3>3, <3>5 DEF InCell
  <2>4. ASSUME quoted = TRUE, NEW j \in 0..n, pos = s + 2 + D[j], field = SubSeq(w, 1, j), j # n
        PROVE  /\ InCell(s, w, pos', quoted', field')
               /\ UNCHANGED <<types, row, text, fields, lines, done>>
    <3>1. /\ j \in 0..(n - 1) /\ j + 1 \in 1..n /\ j + 1 \in 0..n /\ (j + 1) - 1 = j
          /\ D[j] \in Nat /\ D[j + 1] \in Nat
      BY <1>1, <2>2, <2>4
    <3>2. /\ c[D[j] + 2] = w[j + 1] /\ (w[j + 1] = "quote" => c[D[j] + 3] = "quote")
          /\ D[j + 1] = D[j] + (IF w[j + 1] = "quote" THEN 2 ELSE 1) /\ D[j + 1] <= D[n]
      BY <2>1, <2>2, <3>1
    <3>3. /\ pos = s + (D[j] + 2) /\ D[j] + 2 \in 1..Len(c) /\ D[j] + 3 \in 1..Len(c)
          /\ pos + 1 = s + (D[j] + 3) /\ pos < Len(text)
      <4>1. pos = s + 2 + D[j]
        BY <2>4
      <4> DEFINE a == D[j]
                 b == D[j + 1]
                 z == D[n]
                 m == Len(c)
                 l == Len(text)
      <4>2. a \in Nat /\ b \in Nat /\ z \in Nat /\ m = z + 2 /\ b <= z /\ s + m <= l /\ l \in Nat
        BY <1>1, <1>2, <2>1, <3>1, <3>2
      <4>3. b = a + 1 \/ b = a + 2
        BY <3>2
      <4> HIDE DEF a, b, z, m, l
      <4>4. a + 2 \in 1..m /\ a + 3 \in 1..m /\ s + 2 + a = s + (a + 2)
            /\ s + 2 + a + 1 = s + (a + 3) /\ s + 2 + a < l
        BY <4>2, <4>3
      <4> QED
        BY <4>1, <4>4 DEF a, m, l
    <3>4. text[pos] = w[j + 1] /\ (w[j + 1] = "quote" => text[pos + 1] = "quote")
      BY <1>2, <3>2, <3>3
    <3>5. field' = Append(field, text[pos]) /\ quoted' = TRUE
      BY <2>4, <3>3, <3>4 DEF ReadQuoted, ReadPlain, Reading, Here, Next2
    <3>6. pos' = pos + (IF w[j + 1] = "quote" THEN 2 ELSE 1)
      BY <2>4, <3>3, <3>4 DEF ReadQuoted, ReadPlain, Reading, Here, Next2
    <3>7. UNCHANGED <<types, row, text, fields, lines, done>>
      BY <2>4 DEF ReadQuoted, ReadPlain, Reading
    <3>8. pos' = s + 2 + D[j + 1]
      BY <2>4, <3>1, <3>2, <3>6
    <3>9. field' = SubSeq(w, 1, j + 1)
      BY <2>4, <3>1, <3>4, <3>5, OneMore DEF n
    <3>10. InQuotes(s, w, pos', quoted', field')
      BY <3>1, <3>5, <3>8, <3>9 DEF InQuotes, n, D
    <3> QED
      BY <1>4, <3>7, <3>10 DEF InCell
  <2>5. CASE quoted = TRUE /\ pos = s + 2 + D[n] /\ field = SubSeq(w, 1, n)
    <3>1. Len(c) \in 1..Len(c) /\ pos = s + Len(c)
      <4>1. pos = s + 2 + D[n] /\ D[n] \in Nat /\ Len(c) = D[n] + 2
        BY <2>1, <2>5
      <4> QED
        BY <4>1
    <3>2. text[pos] = "quote"
      BY <1>2, <2>1, <3>1
    <3>3. pos < Len(text) => text[pos + 1] # "quote"
      BY <1>2, <3>1
    <3>4. /\ quoted' = FALSE /\ pos' = pos + 1 /\ field' = field
          /\ UNCHANGED <<types, row, text, fields, lines, done>>
      BY <2>5, <3>2, <3>3 DEF ReadQuoted, ReadPlain, Reading, Here, Next2
    <3>5. SubSeq(w, 1, n) = w
      BY DEF n
    <3>6. InQuotes(s, w, pos', quoted', field')
      BY <2>5, <3>1, <3>4, <3>5 DEF InQuotes, c
    <3> QED
      BY <1>4, <3>4, <3>6 DEF InCell
  <2>6. pos # s + Len(c) + 1
    BY <1>1 DEF c
  <2>7. InQuotes(s, w, pos, quoted, field)
    BY <1>4 DEF InCell
  <2> QED
    BY <2>3, <2>4, <2>5, <2>6, <2>7 DEF InQuotes, c, n, D
<1> QED
  BY <1>3, <1>4

(* What the parser has behind a cell.                                      *)
LEMMA CellEnd ==
    ASSUME NEW s \in Nat, NEW w \in Seq(Symbol), InCell(s, w, pos, quoted, field),
           pos > s + Len(Quote(w))
    PROVE  pos = s + Len(Quote(w)) + 1 /\ quoted = FALSE /\ field = w
<1>1. Len(w) \in Nat /\ SubSeq(w, 1, Len(w)) = w
  OBVIOUS
<1>2. CASE ~MustQuote(w)
  <2>1. Quote(w) = w
    BY <1>2, QuoteIs
  <2>2. InPlain(s, w, pos, quoted, field)
    BY <1>2 DEF InCell
  <2>3. PICK j \in 0..Len(w) : pos = s + 1 + j /\ field = SubSeq(w, 1, j)
    BY <2>2 DEF InPlain
  <2>4. s + 1 + j > s + Len(w) /\ j \in 0..Len(w)
    BY <2>1, <2>3
  <2>5. j = Len(w)
    <3>1. \A m \in Nat : \A k \in 0..m : s + 1 + k > s + m => k = m
      OBVIOUS
    <3> QED
      BY <1>1, <2>4, <3>1
  <2>6. pos = s + Len(w) + 1
    <3>1. \A m \in Nat : s + 1 + m = s + m + 1
      OBVIOUS
    <3> QED
      BY <1>1, <2>3, <2>5, <3>1
  <2>7. field = w
    BY <1>1, <2>3, <2>5
  <2> QED
    BY <2>1, <2>2, <2>6, <2>7 DEF InPlain
<1>3. CASE MustQuote(w)
  <2> DEFINE D == OffsetOf(w)
             n == Len(w)
             c == Quote(w)
  <2>1. Len(c) = D[n] + 2
    BY <1>3, QuoteIs
  <2>2. /\ D \in [0..n -> Nat] /\ D[0] = 0 /\ \A j \in 1..n : D[j] <= D[n]
    BY DoubledIs DEF Offsets
  <2>3. InQuotes(s, w, pos, quoted, field)
    BY <1>3 DEF InCell
  <2>4. \A j \in 0..n : D[j] \in Nat /\ D[j] <= D[n]
    <3> HIDE DEF D, n
    <3> TAKE j \in 0..n
    <3>1. j = 0 \/ j \in 1..n
      BY <1>1 DEF n
    <3>2. D[n] \in Nat
      BY <1>1, <2>2 DEF n
    <3> QED
      BY <2>2, <3>1, <3>2
  <2>5. ~\E j \in 0..n : pos = s + 2 + D[j]
    <3> HIDE DEF D, n
    <3>1. n \in 0..n
      BY <1>1 DEF n
    <3>2. pos > s + (D[n] + 2) /\ D[n] \in Nat
      BY <2>1, <2>4, <3>1 DEF c
    <3> QED
      BY <2>4, <3>2
  <2>6. pos # s + 1
    <3> HIDE DEF D
    <3>1. D[n] \in Nat
      BY <1>1, <2>4
    <3> QED
      BY <2>1, <3>1
  <2> QED
    BY <2>3, <2>5, <2>6 DEF InQuotes
<1> QED
  BY <1>2, <1>3

(* A list as it is written: an item, a semicolon, an item and so on.       *)
LEMMA ListPlaces ==
    ASSUME NEW m \in Nat, NEW v \in [1..m -> Item]
    PROVE  /\ Joined(v, "semi") \in Seq(Symbol)
           /\ m = 0 => Joined(v, "semi") = <<>>
           /\ m # 0 => Len(Joined(v, "semi")) = 2 * m - 1
           /\ \A i \in 1..m : Joined(v, "semi")[2 * i - 1] = v[i][1]
           /\ \A i \in 1..(m - 1) : Joined(v, "semi")[2 * i] = "semi"
<1> DEFINE seqs == [i \in DOMAIN v |-> IF i = 1 THEN v[i] ELSE <<"semi">> \o v[i]]
           t == Joined(v, "semi")
<1>1. t = FlattenSeq(seqs)
  BY DEF Joined
<1>2. \A i \in 1..m : v[i] \in Seq(Symbol) /\ Len(v[i]) = 1 /\ v[i] \in Item
  <2> TAKE i \in 1..m
  <2>1. v[i] \in Item
    OBVIOUS
  <2>2. \A x \in Item : x \in Seq(Symbol) /\ Len(x) = 1
    <3>1. {"a", "comma", "semi"} \subseteq Symbol
      BY DEF Symbol
    <3>2. \A c \in Symbol : <<c>> \in Seq(Symbol) /\ Len(<<c>>) = 1
      OBVIOUS
    <3> QED
      BY <3>1, <3>2 DEF Item
  <2> QED
    BY <2>1, <2>2
<1>3. seqs = [i \in 1..m |-> seqs[i]] /\ Len(seqs) = m
  OBVIOUS
<1>4. \A i \in 1..m :
        /\ seqs[i] \in Seq(Symbol) /\ Len(seqs[i]) = (IF i = 1 THEN 1 ELSE 2)
        /\ seqs[i][Len(seqs[i])] = v[i][1]
        /\ i # 1 => seqs[i][1] = "semi"
  <2> TAKE i \in 1..m
  <2>1. v[i] \in Seq(Symbol) /\ Len(v[i]) = 1 /\ "semi" \in Symbol
    BY <1>2 DEF Symbol
  <2>2. seqs[i] = IF i = 1 THEN v[i] ELSE <<"semi">> \o v[i]
    OBVIOUS
  <2> HIDE DEF seqs
  <2>3. CASE i = 1
    BY <2>1, <2>2, <2>3
  <2>4. CASE i # 1
    <3> DEFINE x == v[i]
               y == seqs[i]
    <3>1. y = <<"semi">> \o x /\ x \in Seq(Symbol) /\ Len(x) = 1
      BY <2>1, <2>2, <2>4
    <3> DEFINE z == <<"semi">>
    <3>2. y = z \o x /\ z \in Seq(Symbol) /\ Len(z) = 1 /\ z[1] = "semi"
      BY <2>1, <3>1
    <3> HIDE DEF x, y, z
    <3>3. \A a, b \in Seq(Symbol) :
            /\ a \o b \in Seq(Symbol) /\ Len(a \o b) = Len(a) + Len(b)
            /\ \A k \in 1..Len(a) : (a \o b)[k] = a[k]
            /\ \A k \in 1..Len(b) : (a \o b)[Len(a) + k] = b[k]
      OBVIOUS
    <3>4. y \in Seq(Symbol) /\ Len(y) = 2 /\ y[1] = "semi" /\ y[1 + 1] = x[1]
      BY <3>1, <3>2, <3>3
    <3> QED
      BY <2>4, <3>4 DEF x, y
  <2> QED
    BY <2>3, <2>4
<1> HIDE DEF seqs, t
<1>5. Pieces(seqs, Symbol)
  BY <1>3, <1>4 DEF Pieces
<1>6. t \in Seq(Symbol)
  BY <1>1, <1>5, FlattenPlaces
<1>7. PICK at : PiecesAt(at, seqs)
  BY <1>5, FlattenPlaces
<1>8. /\ at \in [0..m -> Nat] /\ at[0] = 0 /\ at[m] = Len(t)
      /\ \A i \in 1..m : /\ at[i] = at[i - 1] + Len(seqs[i])
                         /\ \A k \in 1..Len(seqs[i]) : t[at[i - 1] + k] = seqs[i][k]
  BY <1>1, <1>3, <1>7 DEF PiecesAt
<1>9. CASE m = 0
  <2>1. Len(t) = 0
    BY <1>8, <1>9
  <2>2. t = <<>>
    BY <1>6, <2>1
  <2> QED
    BY <1>6, <1>9, <2>2 DEF t
<1>10. CASE m # 0
  <2> DEFINE Q == {i \in 0..m : i # 0 => at[i] = 2 * i - 1}
  <2>1. 0 \in Q
    OBVIOUS
  <2>2. ASSUME NEW i \in 0..(m - 1), i \in Q PROVE i + 1 \in Q
    <3>1. i + 1 \in 1..m /\ i + 1 \in 0..m /\ (i + 1) - 1 = i /\ i \in Nat
      OBVIOUS
    <3>2. at[i + 1] = at[i] + (IF i + 1 = 1 THEN 1 ELSE 2)
      BY <1>4, <1>8, <3>1
    <3>3. CASE i = 0
      BY <1>8, <3>1, <3>2, <3>3
    <3>4. CASE i # 0
      <4>1. at[i] = 2 * i - 1 /\ at[i + 1] = at[i] + 2
        BY <2>2, <3>1, <3>2, <3>4
      <4> QED
        BY <3>1, <4>1
    <3> QED
      BY <3>3, <3>4
  <2>3. \A i \in 1..m : at[i] = 2 * i - 1
    <3> HIDE DEF Q
    <3>1. 0..m \subseteq Q
      BY <2>1, <2>2, Upward
    <3> QED
      BY <3>1 DEF Q
  <2>4. Len(t) = 2 * m - 1
    BY <1>8, <1>10, <2>3
  <2>5. \A i \in 1..m : t[2 * i - 1] = v[i][1]
    <3> TAKE i \in 1..m
    <3>1. /\ at[i] = at[i - 1] + Len(seqs[i]) /\ Len(seqs[i]) \in 1..Len(seqs[i])
          /\ seqs[i][Len(seqs[i])] = v[i][1]
      <4>1. Len(seqs[i]) = 1 \/ Len(seqs[i]) = 2
        BY <1>4
      <4>2. seqs[i][Len(seqs[i])] = v[i][1] /\ at[i] = at[i - 1] + Len(seqs[i])
        BY <1>4, <1>8
      <4>3. Len(seqs[i]) \in 1..Len(seqs[i])
        BY <4>1
      <4> QED
        BY <4>2, <4>3
    <3>2. t[at[i]] = v[i][1]
      BY <1>8, <3>1
    <3> QED
      BY <2>3, <3>2
  <2>6. \A i \in 1..(m - 1) : t[2 * i] = "semi"
    <3> TAKE i \in 1..(m - 1)
    <3>1. i + 1 \in 1..m /\ i \in 1..m /\ i + 1 # 1 /\ (i + 1) - 1 = i
      OBVIOUS
    <3>2. Len(seqs[i + 1]) = 2 /\ 1 \in 1..2 /\ seqs[i + 1][1] = "semi"
      <4>1. Len(seqs[i + 1]) = (IF i + 1 = 1 THEN 1 ELSE 2) /\ seqs[i + 1][1] = "semi"
        BY <1>4, <3>1
      <4> QED
        BY <3>1, <4>1
    <3>3. t[at[i] + 1] = "semi"
      BY <1>8, <3>1, <3>2
    <3>4. at[i] + 1 = 2 * i
      BY <2>3, <3>1
    <3> QED
      BY <3>3, <3>4
  <2> QED
    BY <1>6, <1>10, <2>4, <2>5, <2>6 DEF t
<1> QED
  BY <1>9, <1>10

(* Cut at its semicolons, what was written is the list again.              *)
LEMMA ListIs ==
    ASSUME NEW m \in Nat, NEW v \in [1..m -> Item],
           \A i \in 1..m : v[i] # <<"semi">>
    PROVE  ListValue(Joined(v, "semi")) = v
<1> DEFINE t == Joined(v, "semi")
           n == Len(t)
           PartTexts == Seq(Symbol)
           ItemLists == Seq(PartTexts)
           T == [items : ItemLists, item : PartTexts]
           start == [items |-> <<>>, item |-> <<>>]
           step == [k \in 1..n |-> [x \in T |-> NextCut(x, t[k])]]
           Solves(h) == h = [k \in 0..n |-> IF k = 0 THEN start ELSE NextCut(h[k - 1], t[k])]
           h == CHOOSE h : Solves(h)
<1>1. /\ t \in PartTexts /\ n \in Nat /\ \A k \in 1..n : t[k] \in Symbol
      /\ m = 0 => t = <<>> /\ n = 0
      /\ m # 0 => n = 2 * m - 1
      /\ \A i \in 1..m : t[2 * i - 1] = v[i][1]
      /\ \A i \in 1..(m - 1) : t[2 * i] = "semi"
  <2>1. /\ t \in PartTexts
        /\ m = 0 => t = <<>>
        /\ m # 0 => n = 2 * m - 1
        /\ \A i \in 1..m : t[2 * i - 1] = v[i][1]
        /\ \A i \in 1..(m - 1) : t[2 * i] = "semi"
    BY ListPlaces
  <2> HIDE DEF t
  <2> QED
    BY <2>1
<1>2. ListValue(t) = WithItem(h[n])
  BY DEF ListValue
<1> HIDE DEF t, n
<1>3. start \in T /\ \A x \in T, k \in 1..n : NextCut(x, t[k]) \in T
  <2>1. \A b \in PartTexts, c \in Symbol : Append(b, c) \in PartTexts
    OBVIOUS
  <2>2. <<>> \in PartTexts
    OBVIOUS
  <2> HIDE DEF PartTexts
  <2>3. <<>> \in ItemLists /\ \A a \in ItemLists, b \in PartTexts : Append(a, b) \in ItemLists
    OBVIOUS
  <2> HIDE DEF ItemLists
  <2>4. start \in T
    BY <2>2, <2>3
  <2>5. ASSUME NEW x \in T, NEW c \in Symbol
        PROVE  NextCut(x, c) \in T
    <3>1. x.items \in ItemLists /\ x.item \in PartTexts
      OBVIOUS
    <3>2. WithItem(x) \in ItemLists
      BY <2>3, <3>1 DEF WithItem
    <3>3. Append(x.item, c) \in PartTexts
      BY <2>1, <3>1
    <3> QED
      BY <2>2, <3>1, <3>2, <3>3 DEF NextCut
  <2> HIDE DEF T
  <2> QED
    BY <1>1, <2>4, <2>5
<1> HIDE DEF T, ItemLists, PartTexts
<1>4. \E f : Solves(f)
  <2>1. \A k \in 1..n : step[k] \in [T -> T] /\ \A x \in T : step[k][x] = NextCut(x, t[k])
    BY <1>3
  <2> HIDE DEF step
  <2>2. Stepwise(step, n, T)
    BY <2>1 DEF Stepwise
  <2> HIDE DEF start
  <2>3. PICK f : StepsFrom(f, start, step, n, T)
    BY <1>1, <1>3, <2>2, StepsMakeOne
  <2>4. /\ f = [k \in 0..n |-> f[k]] /\ f[0] = start
        /\ \A k \in 1..n : f[k] = NextCut(f[k - 1], t[k])
    <3>1. f \in [0..n -> T] /\ f[0] = start /\ \A k \in 1..n : f[k] = step[k][f[k - 1]]
      BY <2>3 DEF StepsFrom
    <3>2. \A k \in 1..n : k - 1 \in 0..n
      BY <1>1
    <3> QED
      BY <2>1, <3>1, <3>2
  <2>5. \A k \in 0..n : f[k] = IF k = 0 THEN start ELSE NextCut(f[k - 1], t[k])
    <3>1. \A k \in 0..n : k = 0 \/ k \in 1..n
      BY <1>1
    <3>2. \A k \in 1..n : k # 0
      BY <1>1
    <3> QED
      BY <2>4, <3>1, <3>2
  <2> QED
    BY <2>4, <2>5
<1>5. Solves(h)
  <2> HIDE DEF Solves
  <2> QED
    BY <1>4
<1> HIDE DEF h
<1>6. h[0] = start /\ \A k \in 1..n : h[k] = NextCut(h[k - 1], t[k])
  <2>1. \A k \in 0..n : h[k] = IF k = 0 THEN start ELSE NextCut(h[k - 1], t[k])
    BY <1>5
  <2>2. 0 \in 0..n /\ \A k \in 1..n : k \in 0..n /\ k # 0
    BY <1>1
  <2> HIDE DEF start
  <2> QED
    BY <2>1, <2>2
<1> HIDE DEF Solves
<1>7. \A i \in 1..m : v[i] = <<v[i][1]>> /\ v[i][1] # "semi" /\ v[i] # <<>>
  <2> TAKE i \in 1..m
  <2>1. v[i] = <<"a">> \/ v[i] = <<"comma">>
    BY DEF Item
  <2> QED
    BY <2>1
<1>8. CASE m = 0
  <2>1. v = <<>> /\ WithItem(start) = <<>>
    BY <1>8 DEF WithItem
  <2> QED
    BY <1>1, <1>2, <1>6, <1>8, <2>1 DEF t
<1>9. CASE m # 0
  <2> DEFINE Reads(i) == h[2 * i + 1] = [items |-> SubSeq(v, 1, i), item |-> v[i + 1]]
             Q == {i \in 0..(m - 1) : Reads(i)}
  <2>1. 0 \in Q
    <3>1. /\ 1 \in 1..m /\ 1 \in 1..n /\ 1 - 1 = 0 /\ 2 * 1 - 1 = 1 /\ 2 * 0 + 1 = 1
          /\ 0 + 1 = 1 /\ 0 \in 0..(m - 1)
      BY <1>1, <1>9
    <3>2. h[1] = NextCut(start, t[1]) /\ t[1] = v[1][1]
      BY <1>1, <1>6, <3>1
    <3>3. v[1] = <<t[1]>> /\ t[1] # "semi"
      BY <1>7, <3>1, <3>2
    <3>4. NextCut(start, t[1]) = [items |-> <<>>, item |-> <<t[1]>>]
      BY <3>3 DEF NextCut
    <3>5. SubSeq(v, 1, 0) = <<>>
      OBVIOUS
    <3> QED
      BY <3>1, <3>2, <3>3, <3>4, <3>5
  <2>2. ASSUME NEW i \in 0..(m - 1 - 1), i \in Q PROVE i + 1 \in Q
    <3>1. /\ i + 1 \in 1..m /\ i + 2 \in 1..m /\ i + 1 \in 1..(m - 1) /\ i + 1 \in 0..(m - 1)
          /\ i \in 0..(m - 1) /\ 2 * (i + 1) = 2 * i + 2 /\ 2 * (i + 2) - 1 = 2 * i + 3
          /\ 2 * i + 2 \in 1..n /\ 2 * i + 3 \in 1..n
          /\ (2 * i + 2) - 1 = 2 * i + 1 /\ (2 * i + 3) - 1 = 2 * i + 2
          /\ 2 * (i + 1) + 1 = 2 * i + 3 /\ (i + 1) + 1 = i + 2
      <4>1. n = 2 * m - 1 /\ i \in Nat /\ i + 2 <= m
        BY <1>1, <1>9
      <4> QED
        BY <4>1
    <3>2. h[2 * i + 1] = [items |-> SubSeq(v, 1, i), item |-> v[i + 1]]
      BY <2>2
    <3>3. t[2 * i + 2] = "semi" /\ t[2 * i + 3] = v[i + 2][1]
      BY <1>1, <3>1
    <3>4. h[2 * i + 2] = NextCut(h[2 * i + 1], "semi")
      BY <1>6, <3>1, <3>3
    <3>5. h[2 * i + 3] = NextCut(h[2 * i + 2], v[i + 2][1])
      BY <1>6, <3>1, <3>3
    <3>6. v[i + 1] # <<>>
      BY <1>7, <3>1
    <3>7. Append(SubSeq(v, 1, i), v[i + 1]) = SubSeq(v, 1, i + 1)
      BY OneMore, <3>1
    <3>8. h[2 * i + 2] = [items |-> SubSeq(v, 1, i + 1), item |-> <<>>]
      <4> DEFINE a == SubSeq(v, 1, i)
                 b == v[i + 1]
      <4>1. h[2 * i + 2] = NextCut([items |-> a, item |-> b], "semi") /\ b # <<>>
        BY <3>2, <3>4, <3>6
      <4> HIDE DEF a, b
      <4>2. h[2 * i + 2] = [items |-> Append(a, b), item |-> <<>>]
        BY <4>1 DEF NextCut, WithItem
      <4> QED
        BY <3>7, <4>2 DEF a, b
    <3>9. v[i + 2] = <<v[i + 2][1]>> /\ v[i + 2][1] # "semi"
      BY <1>7, <3>1
    <3>10. h[2 * i + 3] = [items |-> SubSeq(v, 1, i + 1), item |-> v[i + 2]]
      <4> DEFINE a == SubSeq(v, 1, i + 1)
                 c == v[i + 2][1]
      <4>1. h[2 * i + 3] = NextCut([items |-> a, item |-> <<>>], c)
        BY <3>5, <3>8
      <4>2. c # "semi" /\ v[i + 2] = <<c>>
        BY <3>9
      <4> HIDE DEF a, c
      <4>3. h[2 * i + 3] = [items |-> a, item |-> <<c>>]
        BY <4>1, <4>2 DEF NextCut
      <4> QED
        BY <4>2, <4>3 DEF a
    <3> QED
      BY <3>1, <3>10
  <2>3. m - 1 \in Q
    <3> HIDE DEF Q
    <3>1. m - 1 \in Nat
      BY <1>9
    <3>2. 0..(m - 1) \subseteq Q
      BY <2>1, <2>2, <3>1, Upward
    <3> QED
      BY <3>1, <3>2
  <2>4. /\ 2 * (m - 1) + 1 = n /\ (m - 1) + 1 = m /\ m \in 1..m
        /\ m - 1 \in 0..(m - 1)
    BY <1>1, <1>9
  <2>5. h[n] = [items |-> SubSeq(v, 1, m - 1), item |-> v[m]]
    BY <2>3, <2>4
  <2>6. WithItem(h[n]) = Append(SubSeq(v, 1, m - 1), v[m])
    BY <1>7, <2>4, <2>5 DEF WithItem
  <2>7. v \in Seq(Item) /\ Len(v) = m
    OBVIOUS
  <2>8. Append(SubSeq(v, 1, m - 1), v[m]) = SubSeq(v, 1, m)
    BY <2>4, <2>7, OneMore
  <2>9. SubSeq(v, 1, m) = v
    BY <2>7
  <2> QED
    BY <1>2, <2>6, <2>8, <2>9 DEF t
<1> QED
  BY <1>8, <1>9

ColumnTypes == {"text", "list", "flag", "number"}

LEMMA ColumnsAre ==
    ASSUME NEW kind \in Kinds, NEW i \in 1..(Len(kind) - 1)
    PROVE  /\ Len(SubSeq(kind, i, i + 1)) = 2
           /\ SubSeq(kind, i, i + 1) \in [1..2 -> ColumnTypes]
<1>1. kind \in Seq(ColumnTypes)
  <2>1. \A a, b, c, d, e, f, g, h, k \in ColumnTypes :
          /\ <<a, b>> \in Seq(ColumnTypes) /\ <<a, b, c>> \in Seq(ColumnTypes)
          /\ <<a, b, c, d, e, f>> \in Seq(ColumnTypes)
          /\ <<a, b, c, d, e, f, g, h>> \in Seq(ColumnTypes)
          /\ <<a, b, c, d, e, f, g, h, k>> \in Seq(ColumnTypes)
    OBVIOUS
  <2>2. "text" \in ColumnTypes /\ "list" \in ColumnTypes /\ "flag" \in ColumnTypes
        /\ "number" \in ColumnTypes
    BY DEF ColumnTypes
  <2>3. /\ CaptureScopeColumns \in Seq(ColumnTypes) /\ AssetColumns \in Seq(ColumnTypes)
        /\ SegmentColumns \in Seq(ColumnTypes) /\ InfrastructureColumns \in Seq(ColumnTypes)
    BY <2>1, <2>2 DEF CaptureScopeColumns, AssetColumns, SegmentColumns, InfrastructureColumns
  <2>4. /\ CommunicationColumns \in Seq(ColumnTypes) /\ SegmentPairColumns \in Seq(ColumnTypes)
        /\ ControlActionColumns \in Seq(ColumnTypes) /\ PolicyColumns \in Seq(ColumnTypes)
    BY <2>1, <2>2 DEF CommunicationColumns, SegmentPairColumns, ControlActionColumns, PolicyColumns
  <2> QED
    BY <2>3, <2>4 DEF Kinds
<1>2. Len(kind) \in Nat /\ i \in 1..Len(kind) /\ i + 1 \in 1..Len(kind)
  BY <1>1
<1>3. SubSeq(kind, i, i + 1) = [k \in 1..2 |-> kind[i + k - 1]]
  <2>1. \A a, b \in Nat : a + 1 = b => 1..(1 + b - a) = 1..2
    OBVIOUS
  <2>2. SubSeq(kind, i, i + 1) = [k \in 1..(1 + (i + 1) - i) |-> kind[i + k - 1]]
    BY <1>1, <1>2
  <2> QED
    BY <1>2, <2>1, <2>2
<1>4. \A k \in 1..2 : kind[i + k - 1] \in ColumnTypes
  <2> TAKE k \in 1..2
  <2>1. i + k - 1 \in 1..Len(kind)
    BY <1>2
  <2> QED
    BY <1>1, <2>1
<1> DEFINE p == [k \in 1..2 |-> kind[i + k - 1]]
<1>5. p \in [1..2 -> ColumnTypes]
  BY <1>4
<1>6. Len(p) = 2
  OBVIOUS
<1> QED
  BY <1>3, <1>5, <1>6

(* What is written of a value is read back, but for the end of a line and  *)
(* a semicolon in an item.                                                 *)
LEMMA CellIsRead ==
    ASSUME NEW type \in ColumnTypes, NEW value \in Values(type)
    PROVE  /\ Written(type, value) \in Seq(Symbol)
           /\ \/ ReadCell(type, Written(type, value)) = value
              \/ type = "list" /\ \E n \in DOMAIN value : "semi" \in Range(value[n])
           /\ \/ Stripped(Written(type, value)) = Written(type, value)
              \/ type = "text" /\ value # <<>> /\ Last(value) = "cr"
<1> DEFINE t == Written(type, value)
<1>1. CASE type = "text"
  <2>1. t = value
    BY <1>1 DEF Written
  <2>2. value \in Seq(Symbol)
    <3> DEFINE Chars == {"a", "quote", "comma", "cr", "lf", "semi"}
    <3>1. PICK k \in 0..MaxText : value \in [1..k -> Chars]
      BY <1>1 DEF Values, CellText, BoundedSeq, SeqOf
    <3>2. Chars \subseteq Symbol
      BY DEF Symbol
    <3> HIDE DEF Chars
    <3> QED
      BY <3>1, <3>2
  <2>3. ReadCell(type, t) = value
    BY <1>1, <2>1 DEF ReadCell
  <2>4. Stripped(t) = t \/ (value # <<>> /\ Last(value) = "cr")
    <3> HIDE DEF t
    <3> QED
      BY <2>1 DEF Stripped
  <2> QED
    BY <1>1, <2>1, <2>2, <2>3, <2>4
<1>2. CASE type = "list"
  <2>1. PICK m \in 0..MaxText : value \in [1..m -> Item]
    BY <1>2 DEF Values, BoundedSeq, SeqOf
  <2>2. t = Joined(value, "semi") /\ m \in Nat
    BY <1>2 DEF Written
  <2>3. /\ t \in Seq(Symbol)
        /\ m = 0 => t = <<>>
        /\ m # 0 => Len(t) = 2 * m - 1
        /\ \A i \in 1..m : t[2 * i - 1] = value[i][1]
    BY <2>1, <2>2, ListPlaces
  <2>4. t # <<>> => Last(t) # "cr"
    <3>1. CASE m = 0
      BY <2>3, <3>1
    <3>2. CASE m # 0
      <4>1. m \in 1..m /\ value[m] \in Item
        BY <2>1, <2>2, <3>2
      <4>2. Last(t) = value[m][1]
        BY <2>3, <3>2, <4>1 DEF Last
      <4>3. \A x \in Item : x[1] # "cr"
        BY DEF Item
      <4> QED
        BY <4>1, <4>2, <4>3
    <3> QED
      BY <3>1, <3>2
  <2>5. Stripped(t) = t
    BY <2>4 DEF Stripped
  <2>6. CASE \A i \in 1..m : value[i] # <<"semi">>
    <3>1. ListValue(t) = value
      BY <2>1, <2>2, <2>6, ListIs
    <3>2. ReadCell(type, t) = value
      BY <1>2, <3>1 DEF ReadCell
    <3> QED
      BY <2>3, <2>5, <3>2
  <2>7. CASE \E i \in 1..m : value[i] = <<"semi">>
    <3>1. PICK i \in 1..m : value[i] = <<"semi">>
      BY <2>7
    <3>2. DOMAIN value = 1..m
      BY <2>1
    <3>3. "semi" \in Range(value[i])
      <4>1. <<"semi">>[1] = "semi" /\ 1 \in DOMAIN <<"semi">>
        OBVIOUS
      <4> QED
        BY <3>1, <4>1 DEF Range
    <3> QED
      BY <1>2, <2>3, <2>5, <3>2, <3>3
  <2> QED
    BY <2>6, <2>7
<1>3. CASE type \in {"flag", "number"}
  <2>1. value \in {"true", "false", "n", "undefined"}
    BY <1>3 DEF Values
  <2>2. t = IF value = "undefined" THEN <<>> ELSE <<value>>
    BY <1>3 DEF Written
  <2>3. ReadCell(type, t) = IF t = <<>> THEN "undefined" ELSE t[1]
    BY <1>3 DEF ReadCell
  <2> HIDE DEF t
  <2>4. CASE value = "undefined"
    <3>1. t = <<>> /\ t \in Seq(Symbol)
      BY <2>2, <2>4
    <3>2. ReadCell(type, t) = value /\ Stripped(t) = t
      BY <2>3, <2>4, <3>1 DEF Stripped
    <3> QED
      BY <3>1, <3>2 DEF t
  <2>5. CASE value # "undefined"
    <3>1. t = <<value>> /\ value \in Symbol /\ value # "cr"
      BY <2>1, <2>2, <2>5 DEF Symbol
    <3>2. t \in Seq(Symbol) /\ t # <<>> /\ t[1] = value /\ Len(t) = 1
      BY <3>1
    <3>3. Stripped(t) = t
      BY <3>1, <3>2 DEF Stripped, Last
    <3>4. ReadCell(type, t) = value
      BY <2>3, <3>2
    <3> QED
      BY <3>2, <3>3, <3>4 DEF t
  <2> QED
    BY <2>4, <2>5
<1> QED
  BY <1>1, <1>2, <1>3 DEF ColumnTypes

(* The file of two columns: one cell, a comma, the other cell.             *)
LEMMA FileIs ==
    ASSUME NEW columns \in [1..2 -> ColumnTypes], NEW values,
           NEW v, NEW w, v = Written(columns[1], values[1]), w = Written(columns[2], values[2]),
           v \in Seq(Symbol), w \in Seq(Symbol)
    PROVE  LET t == ToCsv(columns, values)
               s == Len(Quote(v)) + 1
           IN /\ t \in Seq(Symbol) /\ s \in Nat /\ s <= Len(t) /\ t[s] = "comma"
              /\ CellIn(t, 0, v) /\ CellIn(t, s, w) /\ s + Len(Quote(w)) = Len(t)
<1> DEFINE cells == [i \in DOMAIN columns |-> Quote(Written(columns[i], values[i]))]
           seqs == [i \in DOMAIN cells |-> IF i = 1 THEN cells[i] ELSE <<"comma">> \o cells[i]]
           t == ToCsv(columns, values)
           x == Quote(v)
           y == Quote(w)
           z == <<"comma">> \o y
           n == Len(x)
           k == Len(y)
<1>1. t = FlattenSeq(seqs)
  BY DEF ToCsv, Joined
<1>2. x \in Seq(Symbol) /\ y \in Seq(Symbol) /\ n \in Nat /\ k \in Nat
  <2>1. x \in Seq(Symbol) /\ y \in Seq(Symbol)
    BY QuoteIs
  <2> HIDE DEF x, y
  <2> QED
    BY <2>1
<1>3. cells = [i \in 1..2 |-> cells[i]] /\ cells[1] = x /\ cells[2] = y
  OBVIOUS
<1> HIDE DEF cells, t, x, y
<1>4. /\ z \in Seq(Symbol) /\ Len(z) = k + 1 /\ z[1] = "comma"
      /\ \A j \in 1..k : z[1 + j] = y[j]
  <2> DEFINE c == <<"comma">>
  <2>1. c \in Seq(Symbol) /\ Len(c) = 1 /\ c[1] = "comma"
    <3>1. "comma" \in Symbol
      BY DEF Symbol
    <3> QED
      BY <3>1
  <2>2. z = c \o y
    OBVIOUS
  <2> HIDE DEF c, z
  <2>3. \A a, b \in Seq(Symbol) :
          /\ a \o b \in Seq(Symbol) /\ Len(a \o b) = Len(a) + Len(b)
          /\ \A j \in 1..Len(a) : (a \o b)[j] = a[j]
          /\ \A j \in 1..Len(b) : (a \o b)[Len(a) + j] = b[j]
    OBVIOUS
  <2>4. /\ z \in Seq(Symbol) /\ Len(z) = Len(c) + Len(y)
        /\ \A j \in 1..Len(c) : z[j] = c[j]
        /\ \A j \in 1..Len(y) : z[Len(c) + j] = y[j]
    BY <1>2, <2>1, <2>2, <2>3
  <2> HIDE DEF k
  <2>5. Len(z) = k + 1 /\ z[1] = "comma"
    <3>1. 1 \in 1..1 /\ 1 + k = k + 1
      BY <1>2
    <3> QED
      BY <2>1, <2>4, <3>1 DEF k
  <2> QED
    BY <2>1, <2>4, <2>5 DEF k
<1>5. seqs = [i \in 1..2 |-> seqs[i]] /\ Len(seqs) = 2 /\ seqs[1] = x /\ seqs[2] = z
  BY <1>3
<1> HIDE DEF seqs, z
<1>6. Pieces(seqs, Symbol)
  <2>1. \A i \in 1..2 : i = 1 \/ i = 2
    OBVIOUS
  <2> QED
    BY <1>2, <1>4, <1>5, <2>1 DEF Pieces
<1>7. t \in Seq(Symbol) /\ \E at : PiecesAt(at, seqs)
  BY <1>1, <1>6, FlattenPlaces
<1>8. PICK at : PiecesAt(at, seqs)
  BY <1>7
<1>9. /\ at[0] = 0 /\ at[2] = Len(t)
      /\ \A i \in 1..2 : /\ at[i] = at[i - 1] + Len(seqs[i])
                         /\ \A j \in 1..Len(seqs[i]) : t[at[i - 1] + j] = seqs[i][j]
  BY <1>1, <1>5, <1>8 DEF PiecesAt
<1>10. /\ at[1] = at[0] + n /\ at[2] = at[1] + (k + 1)
       /\ \A j \in 1..n : t[at[0] + j] = x[j]
       /\ \A j \in 1..(k + 1) : t[at[1] + j] = z[j]
  <2>1. 1 \in 1..2 /\ 2 \in 1..2 /\ 1 - 1 = 0 /\ 2 - 1 = 1
    OBVIOUS
  <2>2. at[1] = at[0] + Len(seqs[1]) /\ \A j \in 1..Len(seqs[1]) : t[at[0] + j] = seqs[1][j]
    BY <1>9, <2>1
  <2>3. at[2] = at[1] + Len(seqs[2]) /\ \A j \in 1..Len(seqs[2]) : t[at[1] + j] = seqs[2][j]
    BY <1>9, <2>1
  <2> QED
    BY <1>4, <1>5, <2>2, <2>3
<1> HIDE DEF n, k
<1>11. at[1] = n /\ Len(t) = n + (k + 1)
  BY <1>2, <1>9, <1>10
<1>12. \A j \in 1..n : t[0 + j] = x[j]
  BY <1>9, <1>10
<1>13. t[n + 1] = "comma"
  <2>1. 1 \in 1..(k + 1)
    BY <1>2
  <2> QED
    BY <1>4, <1>10, <1>11, <2>1
<1>14. \A j \in 1..k : t[(n + 1) + j] = y[j]
  <2> TAKE j \in 1..k
  <2>1. 1 + j \in 1..(k + 1) /\ n + (1 + j) = (n + 1) + j
    BY <1>2
  <2> QED
    BY <1>4, <1>10, <1>11, <2>1
<1>15. CellIn(t, 0, v)
  <2>1. 0 + n <= Len(t) /\ 0 + n + 1 = n + 1
    BY <1>2, <1>11
  <2> QED
    BY <1>12, <1>13, <2>1 DEF CellIn, x, n
<1>16. CellIn(t, n + 1, w) /\ (n + 1) + k = Len(t) /\ n + 1 <= Len(t)
  <2>1. (n + 1) + k = Len(t) /\ Len(t) <= Len(t) /\ n + 1 <= Len(t)
    BY <1>2, <1>11
  <2> QED
    BY <1>14, <2>1 DEF CellIn, y, k
<1>17. n + 1 \in Nat
  BY <1>2
<1> QED
  BY <1>7, <1>13, <1>15, <1>16, <1>17 DEF t, n, k, x, y

(* The inductive invariant of an import: the file holds the two cells, and *)
(* the parser is in one of them or behind the last.                        *)
CsvStatic(v, w) ==
    LET s == Len(Quote(v)) + 1 IN
    /\ types \in [1..2 -> ColumnTypes] /\ v \in Seq(Symbol) /\ w \in Seq(Symbol)
    /\ text \in Seq(Symbol) /\ s \in Nat /\ s <= Len(text) /\ text[s] = "comma"
    /\ CellIn(text, 0, v) /\ CellIn(text, s, w) /\ s + Len(Quote(w)) = Len(text)

CsvAt(v, w) ==
    \/ /\ done = FALSE /\ lines = <<>> /\ fields = <<>>
       /\ InCell(0, v, pos, quoted, field)
    \/ /\ done = FALSE /\ lines = <<>> /\ fields = <<v>>
       /\ InCell(Len(Quote(v)) + 1, w, pos, quoted, field)
    \/ /\ done = TRUE /\ quoted = FALSE /\ pos = Len(text) + 1
       /\ lines = <<<<v, Stripped(w)>>>>

CsvParts(v, w) ==
    /\ v = Written(types[1], row[1]) /\ w = Written(types[2], row[2])
    /\ row[1] \in Values(types[1]) /\ row[2] \in Values(types[2])
    /\ CsvStatic(v, w) /\ CsvAt(v, w)

CsvIInv == \E v, w : CsvParts(v, w)

LEMMA CellAtNumber ==
    ASSUME NEW s \in Nat, NEW w \in Seq(Symbol), NEW p, NEW q, NEW f, InCell(s, w, p, q, f)
    PROVE  p \in Nat
<1>1. Len(w) \in Nat /\ Len(Quote(w)) \in Nat
  BY QuoteIs
<1>2. CASE ~MustQuote(w)
  BY <1>1, <1>2 DEF InCell, InPlain
<1>3. CASE MustQuote(w)
  <2>1. \A j \in 0..Len(w) : OffsetOf(w)[j] \in Nat
    BY DoubledIs DEF Offsets
  <2> QED
    BY <1>1, <1>3, <2>1 DEF InCell, InQuotes
<1> QED
  BY <1>2, <1>3

LEMMA CellBegins ==
    ASSUME NEW s \in Nat, NEW w \in Seq(Symbol)
    PROVE  InCell(s, w, s + 1, FALSE, <<>>)
<1>1. 0 \in 0..Len(w) /\ SubSeq(w, 1, 0) = <<>> /\ s + 1 + 0 = s + 1
  OBVIOUS
<1>2. InPlain(s, w, s + 1, FALSE, <<>>)
  BY <1>1 DEF InPlain
<1>3. InQuotes(s, w, s + 1, FALSE, <<>>)
  BY DEF InQuotes
<1> QED
  BY <1>2, <1>3 DEF InCell

LEMMA TwoFields ==
    ASSUME NEW T, NEW a \in T, NEW b \in T
    PROVE  Append(<<a>>, b) = <<a, b>>
<1>1. <<a>> \in Seq(T) /\ Len(<<a>>) = 1 /\ <<a>>[1] = a
  OBVIOUS
<1> DEFINE c == <<a>>
<1> HIDE DEF c
<1>2. /\ Append(c, b) \in Seq(T) /\ Len(Append(c, b)) = 2
      /\ Append(c, b)[1] = a /\ Append(c, b)[2] = b
  BY <1>1 DEF c
<1> DEFINE d == Append(c, b)
<1> HIDE DEF d
<1>3. d \in Seq(T) /\ Len(d) = 2 /\ d[1] = a /\ d[2] = b
  BY <1>2 DEF d
<1>4. d = <<a, b>>
  BY <1>3
<1> QED
  BY <1>4 DEF c, d

LEMMA CsvInitially == CsvInit => CsvIInv
<1> SUFFICES ASSUME CsvInit PROVE CsvIInv
  OBVIOUS
<1>1. types \in [1..2 -> ColumnTypes]
  <2>1. PICK kind \in Kinds : \E i \in 1..(Len(kind) - 1) : types = SubSeq(kind, i, i + 1)
    BY SMTT(60) DEF CsvInit
  <2>2. PICK i \in 1..(Len(kind) - 1) : types = SubSeq(kind, i, i + 1)
    BY <2>1
  <2> QED
    BY <2>2, ColumnsAre
<1> DEFINE v == Written(types[1], row[1])
           w == Written(types[2], row[2])
<1>2. row[1] \in Values(types[1]) /\ row[2] \in Values(types[2])
  BY DEF CsvInit
<1>3. types[1] \in ColumnTypes /\ types[2] \in ColumnTypes
  BY <1>1
<1>4. v \in Seq(Symbol) /\ w \in Seq(Symbol)
  BY <1>2, <1>3, CellIsRead
<1>5. text = ToCsv(types, row)
  BY DEF CsvInit
<1>6. CsvStatic(v, w)
  <2>1. v = Written(types[1], row[1]) /\ w = Written(types[2], row[2])
    OBVIOUS
  <2> HIDE DEF v, w
  <2> QED
    BY <1>1, <1>4, <1>5, <2>1, FileIs DEF CsvStatic
<1>7. CsvAt(v, w)
  <2> HIDE DEF v, w
  <2>1. /\ pos = 0 + 1 /\ field = <<>> /\ quoted = FALSE /\ fields = <<>> /\ lines = <<>>
        /\ done = FALSE
    BY DEF CsvInit
  <2>2. InCell(0, v, pos, quoted, field)
    BY <1>4, <2>1, CellBegins
  <2> QED
    BY <2>1, <2>2 DEF CsvAt
<1> QED
  BY <1>2, <1>6, <1>7 DEF CsvIInv, CsvParts

LEMMA CsvSteps == CsvIInv /\ [CsvNext]_csvVars => CsvIInv'
<1> SUFFICES ASSUME CsvIInv, [CsvNext]_csvVars PROVE CsvIInv'
  OBVIOUS
<1>1. PICK v, w : CsvParts(v, w)
  BY DEF CsvIInv
<1> DEFINE s == Len(Quote(v)) + 1
<1>2. /\ types \in [1..2 -> ColumnTypes] /\ v \in Seq(Symbol) /\ w \in Seq(Symbol)
      /\ text \in Seq(Symbol) /\ s \in Nat /\ s <= Len(text) /\ text[s] = "comma"
      /\ CellIn(text, 0, v) /\ CellIn(text, s, w) /\ s + Len(Quote(w)) = Len(text)
  BY <1>1 DEF CsvParts, CsvStatic
<1>3. Len(Quote(v)) \in Nat /\ Len(Quote(w)) \in Nat /\ Len(text) \in Nat
  BY <1>2, QuoteIs
<1> DEFINE l == Len(Quote(v))
           k == Len(Quote(w))
           e == Len(text)
<1>10. /\ l \in Nat /\ k \in Nat /\ e \in Nat /\ s = l + 1 /\ s \in Nat /\ s <= e /\ s + k = e
       /\ 0 \in Nat
  BY <1>2, <1>3
<1>4. ASSUME UNCHANGED <<types, row, text>>, CsvAt(v, w)' PROVE CsvIInv'
  <2>1. CsvStatic(v, w)'
    BY <1>2, <1>4 DEF CsvStatic
  <2>2. /\ v = Written(types'[1], row'[1]) /\ w = Written(types'[2], row'[2])
        /\ row'[1] \in Values(types'[1]) /\ row'[2] \in Values(types'[2])
    BY <1>1, <1>4 DEF CsvParts
  <2>3. CsvParts(v, w)'
    BY <1>4, <2>1, <2>2 DEF CsvParts
  <2> QED
    BY <2>3 DEF CsvIInv
<1>5. CASE UNCHANGED csvVars
  <2>1. CsvAt(v, w)'
    BY <1>1, <1>5 DEF CsvParts, CsvAt, csvVars
  <2> QED
    BY <1>4, <1>5, <2>1 DEF csvVars
<1>6. CASE CsvNext
  <2>1. UNCHANGED <<types, row, text>>
    BY <1>6 DEF CsvNext, ReadQuoted, ReadPlain, ReadEnd, Reading
  <2>2. CASE done = FALSE /\ lines = <<>> /\ fields = <<>> /\ InCell(0, v, pos, quoted, field)
    <3> HIDE DEF l, k, e, s
    <3>6. pos \in Nat
      BY <1>2, <1>10, <2>2, CellAtNumber
    <3>7. ASSUME pos > 0 + l PROVE pos = s /\ quoted = FALSE /\ field = v
      <4>1. pos = 0 + l + 1 /\ quoted = FALSE /\ field = v
        BY <1>2, <1>10, <2>2, <3>7, CellEnd DEF l
      <4> QED
        BY <1>10, <4>1
    <3>1. pos <= e
      <4>1. pos <= 0 + l \/ pos = s
        <5>1. pos > 0 + l => pos = s
          BY <3>7
        <5> QED
          BY <1>10, <3>6, <5>1
      <4> QED
        BY <1>10, <3>6, <4>1
    <3>2. ReadQuoted \/ ReadPlain
      <4>1. ~(pos > e)
        BY <1>10, <3>1, <3>6
      <4> QED
        BY <1>6, <4>1 DEF CsvNext, ReadEnd, e
    <3>3. CASE pos <= 0 + l
      <4>1. /\ InCell(0, v, pos', quoted', field')
            /\ UNCHANGED <<types, row, text, fields, lines, done>>
        BY <1>2, <1>10, <2>2, <3>2, <3>3, CellStep DEF l
      <4> QED
        BY <1>4, <2>2, <4>1 DEF CsvAt
    <3>4. CASE pos > 0 + l
      <4>1. pos = s /\ quoted = FALSE /\ field = v
        BY <3>4, <3>7
      <4>2. text[pos] = "comma"
        BY <1>2, <4>1
      <4>3. /\ pos' = s + 1 /\ quoted' = FALSE /\ field' = <<>> /\ fields' = Append(fields, field)
            /\ UNCHANGED <<lines, done>>
        BY <3>2, <4>1, <4>2 DEF ReadQuoted, ReadPlain, Reading, Here
      <4>4. fields' = <<v>>
        BY <2>2, <4>1, <4>3
      <4>5. InCell(s, w, pos', quoted', field')
        BY <1>2, <4>3, CellBegins
      <4> QED
        BY <1>4, <2>1, <2>2, <4>3, <4>4, <4>5 DEF CsvAt, s
    <3>5. pos <= 0 + l \/ pos > 0 + l
      BY <1>10, <3>6
    <3> QED
      BY <3>3, <3>4, <3>5
  <2>3. CASE done = FALSE /\ lines = <<>> /\ fields = <<v>> /\ InCell(s, w, pos, quoted, field)
    <3> HIDE DEF l, k, e, s
    <3>4. pos \in Nat
      BY <1>2, <1>10, <2>3, CellAtNumber
    <3>1. CASE pos <= s + k
      <4>1. ReadQuoted \/ ReadPlain
        <5>1. ~(pos > e)
          BY <1>10, <3>1, <3>4
        <5> QED
          BY <1>6, <5>1 DEF CsvNext, ReadEnd, e
      <4>2. /\ InCell(s, w, pos', quoted', field')
            /\ UNCHANGED <<types, row, text, fields, lines, done>>
        BY <1>2, <1>10, <2>3, <3>1, <4>1, CellStep DEF k
      <4> QED
        BY <1>4, <2>3, <4>2 DEF CsvAt, s
    <3>2. CASE pos > s + k
      <4>1. pos = e + 1 /\ quoted = FALSE /\ field = w
        <5>1. pos = s + k + 1 /\ quoted = FALSE /\ field = w
          BY <1>2, <1>10, <2>3, <3>2, CellEnd DEF k
        <5> QED
          BY <1>10, <5>1
      <4>2. ReadEnd
        <5>1. ~(pos <= e)
          BY <1>10, <4>1
        <5> QED
          BY <1>6, <5>1 DEF CsvNext, ReadQuoted, ReadPlain, Reading, e
      <4>3. lines' = <<<<v, Stripped(w)>>>> /\ done' = TRUE /\ pos' = pos /\ quoted' = quoted
        <5> DEFINE last == Append(fields, Stripped(field))
        <5>1. last = <<v, Stripped(w)>>
          <6> DEFINE T == {v, Stripped(w)}
          <6>1. v \in T /\ Stripped(w) \in T
            OBVIOUS
          <6> HIDE DEF T
          <6>2. Append(<<v>>, Stripped(w)) = <<v, Stripped(w)>>
            BY <6>1, TwoFields
          <6> QED
            BY <2>3, <4>1, <6>2
        <5>2. lines' = Append(lines, last)
          BY <2>3, <4>2 DEF ReadEnd
        <5> QED
          BY <2>3, <4>2, <5>1, <5>2 DEF ReadEnd
      <4> QED
        BY <1>4, <2>1, <4>1, <4>3 DEF CsvAt, e
    <3>3. pos <= s + k \/ pos > s + k
      BY <1>10, <3>4
    <3> QED
      BY <3>1, <3>2, <3>3
  <2>4. CASE done = TRUE /\ pos = Len(text) + 1
    <3> HIDE DEF e
    <3>1. ~(pos <= e)
      BY <1>10, <2>4 DEF e
    <3> QED
      BY <1>6, <2>4, <3>1 DEF CsvNext, ReadQuoted, ReadPlain, ReadEnd, Reading, e
  <2> QED
    BY <1>1, <2>2, <2>3, <2>4 DEF CsvParts, CsvAt
<1> QED
  BY <1>5, <1>6

LEMMA CsvHolds == CsvIInv => CsvInv
<1> SUFFICES ASSUME CsvIInv, done PROVE CsvInv
  BY DEF CsvInv, OneLineRead, RoundTrip
<1>1. PICK v, w : CsvParts(v, w)
  BY DEF CsvIInv
<1>2. /\ types[1] \in ColumnTypes /\ types[2] \in ColumnTypes
      /\ row[1] \in Values(types[1]) /\ row[2] \in Values(types[2])
      /\ v = Written(types[1], row[1]) /\ w = Written(types[2], row[2])
  BY <1>1 DEF CsvParts, CsvStatic
<1>3. quoted = FALSE /\ lines = <<<<v, Stripped(w)>>>>
  BY <1>1 DEF CsvParts, CsvAt
<1>4. Len(lines) = 1 /\ lines[1][1] = v /\ lines[1][2] = Stripped(w) /\ Len(lines[1]) = 2
  BY <1>3
<1>5. Imported[1] = ReadCell(types[1], v) /\ Imported[2] = ReadCell(types[2], Stripped(w))
  BY <1>4 DEF Imported
<1>6. \/ ReadCell(types[1], v) = row[1]
      \/ types[1] = "list" /\ \E n \in DOMAIN row[1] : "semi" \in Range(row[1][n])
  BY <1>2, CellIsRead
<1>7. /\ \/ ReadCell(types[2], w) = row[2]
         \/ types[2] = "list" /\ \E n \in DOMAIN row[2] : "semi" \in Range(row[2][n])
      /\ \/ Stripped(w) = w
         \/ types[2] = "text" /\ row[2] # <<>> /\ Last(row[2]) = "cr"
  BY <1>2, CellIsRead
<1>8. OneLineRead
  BY <1>3, <1>4 DEF OneLineRead
<1>9. RoundTrip
  <2>1. \A i \in 1..2 : i = 1 \/ i = 2
    OBVIOUS
  <2> HIDE DEF Imported
  <2>2. Imported[2] = row[2] \/ (types[2] = "text" /\ row[2] # <<>> /\ Last(row[2]) = "cr")
        \/ (types[2] = "list" /\ \E n \in DOMAIN row[2] : "semi" \in Range(row[2][n]))
    BY <1>5, <1>7
  <2>3. Imported[1] = row[1]
        \/ (types[1] = "list" /\ \E n \in DOMAIN row[1] : "semi" \in Range(row[1][n]))
    BY <1>5, <1>6
  <2> QED
    BY <2>1, <2>2, <2>3 DEF RoundTrip
<1> QED
  BY <1>8, <1>9 DEF CsvInv

(* A file that was exported is read back as the same values, for cells and *)
(* lists of any length.                                                    *)
THEOREM CsvInvariant == CsvSpec => []CsvInv
<1> QED
  BY CsvInitially, CsvSteps, CsvHolds, PTL DEF CsvSpec
==============================================================================
