--------------------------- MODULE RecursionFacts ---------------------------
(***************************************************************************)
(* Facts about the natural numbers, functions and sequences that the proofs *)
(* about recursive definitions rest on.  Induction is stated for sets and   *)
(* recursion for functions, not for operators: the provers instantiate a    *)
(* set or a function.                                                       *)
(***************************************************************************)
EXTENDS SequencesExt, Integers, WellFoundedInduction, TLAPS

-----------------------------------------------------------------------------
(* Every set of natural numbers has a least element.                        *)
LEMMA LeastNumber ==
  ASSUME NEW T \in SUBSET Nat, T # {}
  PROVE  \E m \in T : \A n \in T : m <= n
<1> DEFINE R == {pair \in Nat \X Nat : pair[1] < pair[2]}
<1>1. R = OpToRel(<, Nat)
  BY Zenon DEF OpToRel
<1>2. IsWellFoundedOn(R, Nat)
  BY <1>1, NatLessThanWellFounded, Zenon
<1>3. PICK m \in T : \A n \in T : ~(<<n, m>> \in R)
  BY <1>2, WFMin
<1>4. \A n \in T : n \in Nat
  OBVIOUS
<1>5. ASSUME NEW n \in T
      PROVE  ~(n < m)
  <2>1. SUFFICES ASSUME n < m
                 PROVE  <<n, m>> \in R
    BY <1>3
  <2>2. <<n, m>> \in Nat \X Nat
    BY <1>4
  <2>3. <<n, m>>[1] < <<n, m>>[2]
    BY <2>1
  <2> QED
    BY <2>2, <2>3, Zenon
<1> QED
  BY <1>4, <1>5

(* Course-of-values induction.                                              *)
LEMMA StrongInduction ==
  ASSUME NEW T,
         \A n \in Nat : (\A m \in Nat : m < n => m \in T) => n \in T
  PROVE  \A n \in Nat : n \in T
<1> DEFINE Out == {n \in Nat : n \notin T}
<1> SUFFICES ASSUME Out # {} PROVE FALSE
  OBVIOUS
<1>1. PICK n \in Out : \A m \in Out : n <= m
  BY LeastNumber
<1>2. \A m \in Nat : m < n => m \in T
  BY <1>1
<1> QED
  BY <1>2

LEMMA Induction ==
  ASSUME NEW T, 0 \in T,
         \A n \in Nat : n \in T => n + 1 \in T
  PROVE  \A n \in Nat : n \in T
<1>1. ASSUME NEW n \in Nat, \A m \in Nat : m < n => m \in T
      PROVE  n \in T
  <2>1. CASE n = 0
    BY <2>1
  <2>2. CASE n # 0
    <3>1. n - 1 \in Nat /\ n - 1 < n /\ (n - 1) + 1 = n
      BY <2>2
    <3>2. n - 1 \in T
      BY <1>1, <3>1
    <3> QED
      BY <3>1, <3>2
  <2> QED
    BY <2>1, <2>2
<1> QED
  BY <1>1, StrongInduction, Zenon

(* Induction up to a bound, as for the positions of a sequence.             *)
LEMMA BoundedInduction ==
  ASSUME NEW N \in Nat, NEW T, 0 \in T,
         \A n \in 1..N : n - 1 \in T => n \in T
  PROVE  \A n \in 0..N : n \in T
<1> DEFINE U == {n \in Nat : n \in 0..N => n \in T}
<1>1. 0 \in U
  OBVIOUS
<1>2. ASSUME NEW n \in Nat, n \in U
      PROVE  n + 1 \in U
  <2> SUFFICES ASSUME n + 1 \in 0..N
               PROVE  n + 1 \in T
    OBVIOUS
  <2>1. n \in 0..N /\ n + 1 \in 1..N /\ (n + 1) - 1 = n
    OBVIOUS
  <2> QED
    BY <1>2, <2>1
<1>3. \A n \in Nat : n \in U
  <2> HIDE DEF U
  <2> QED
    BY <1>1, <1>2, Induction
<1> QED
  BY <1>3

(* Induction from the end of a sequence towards its beginning.              *)
LEMMA DownwardInduction ==
  ASSUME NEW N \in Nat, NEW T,
         \A i \in 1..N : (\A j \in 1..N : j > i => j \in T) => i \in T
  PROVE  \A i \in 1..N : i \in T
<1> DEFINE U == {n \in Nat : n \in 0..(N - 1) => N - n \in T}
<1>1. ASSUME NEW n \in Nat, \A m \in Nat : m < n => m \in U
      PROVE  n \in U
  <2> SUFFICES ASSUME n \in 0..(N - 1)
               PROVE  N - n \in T
    OBVIOUS
  <2>1. ASSUME NEW j \in 1..N, j > N - n
        PROVE  j \in T
    <3>1. N - j \in Nat /\ N - j < n /\ N - j \in 0..(N - 1) /\ N - (N - j) = j
      BY <2>1
    <3>2. N - j \in U
      BY <1>1, <3>1
    <3> QED
      BY <3>1, <3>2
  <2>2. N - n \in 1..N
    OBVIOUS
  <2> QED
    BY <2>1, <2>2
<1>2. \A n \in Nat : n \in U
  <2> HIDE DEF U
  <2> QED
    BY <1>1, StrongInduction, Zenon
<1>3. ASSUME NEW i \in 1..N
      PROVE  i \in T
  <2>1. N - i \in Nat /\ N - i \in 0..(N - 1) /\ N - (N - i) = i
    OBVIOUS
  <2> QED
    BY <1>2, <2>1
<1> QED
  BY <1>3

(* A function on the naturals may be defined by recursion: if the value of  *)
(* step[f] at n depends on f below n only, step has a fixed point.          *)
LEMMA Recursion ==
  ASSUME NEW X, X # {}, NEW step \in [[Nat -> X] -> [Nat -> X]],
         \A f, g \in [Nat -> X], n \in Nat :
           (\A m \in Nat : m < n => f[m] = g[m]) => step[f][n] = step[g][n]
  PROVE  \E f \in [Nat -> X] : f = step[f]
<1> DEFINE UpTo(n) == {f \in [Nat -> X] : \A m \in Nat : m < n => f[m] = step[f][m]}
<1>1. \A n \in Nat : UpTo(n) # {}
  <2> DEFINE T == {n \in Nat : UpTo(n) # {}}
  <2>1. 0 \in T
    <3>1. PICK x \in X : TRUE
      OBVIOUS
    <3>2. [m \in Nat |-> x] \in [Nat -> X]
      OBVIOUS
    <3>3. [m \in Nat |-> x] \in UpTo(0)
      BY <3>2
    <3> QED
      BY <3>3
  <2>2. ASSUME NEW n \in Nat, n \in T
        PROVE  n + 1 \in T
    <3>1. PICK f \in [Nat -> X] : \A m \in Nat : m < n => f[m] = step[f][m]
      BY <2>2
    <3>2. step[f] \in [Nat -> X]
      OBVIOUS
    <3> DEFINE g == [f EXCEPT ![n] = step[f][n]]
    <3>3. g \in [Nat -> X] /\ g[n] = step[f][n] /\ \A m \in Nat : m # n => g[m] = f[m]
      BY <3>2
    <3> HIDE DEF g
    <3>4. ASSUME NEW m \in Nat, m < n + 1
          PROVE  g[m] = step[g][m]
      <4>1. \A k \in Nat : k < m => f[k] = g[k]
        BY <3>3, <3>4
      <4>2. step[f][m] = step[g][m]
        BY <3>3, <4>1
      <4>3. CASE m = n
        BY <3>3, <4>2, <4>3
      <4>4. CASE m # n
        BY <3>1, <3>3, <3>4, <4>2, <4>4
      <4> QED
        BY <4>3, <4>4
    <3>5. g \in UpTo(n + 1)
      BY <3>3, <3>4
    <3> QED
      BY <3>5
  <2> HIDE DEF UpTo
  <2>3. \A n \in Nat : n \in T
    BY <2>1, <2>2, Induction, Zenon
  <2> QED
    BY <2>3
<1>2. ASSUME NEW n \in Nat, NEW k \in Nat, NEW f \in UpTo(n), NEW g \in UpTo(k)
      PROVE  \A m \in Nat : m < n /\ m < k => f[m] = g[m]
  <2> DEFINE T == {m \in Nat : m < n /\ m < k => f[m] = g[m]}
  <2>1. ASSUME NEW m \in Nat, \A l \in Nat : l < m => l \in T
        PROVE  m \in T
    <3> SUFFICES ASSUME m < n, m < k PROVE f[m] = g[m]
      OBVIOUS
    <3>1. \A l \in Nat : l < m => f[l] = g[l]
      BY <2>1
    <3>2. step[f][m] = step[g][m]
      BY <3>1
    <3> QED
      BY <3>2
  <2> HIDE DEF T
  <2>2. \A m \in Nat : m \in T
    BY <2>1, StrongInduction, Zenon
  <2> QED
    BY <2>2 DEF T
<1> DEFINE F(n) == CHOOSE f : f \in UpTo(n)
           h == [n \in Nat |-> F(n + 1)[n]]
<1>3. \A n \in Nat : F(n) \in UpTo(n) /\ F(n) \in [Nat -> X]
  <2>1. \A n \in Nat : F(n) \in UpTo(n)
    <3> HIDE DEF UpTo
    <3> QED
      BY <1>1
  <2> HIDE DEF F
  <2> QED
    BY <2>1
<1> HIDE DEF F
<1>4. h \in [Nat -> X]
  <2>1. \A n \in Nat : n + 1 \in Nat
    OBVIOUS
  <2>2. \A n \in Nat : F(n + 1) \in [Nat -> X]
    BY <1>3, <2>1
  <2> QED
    BY <2>2
<1>5. ASSUME NEW n \in Nat, NEW m \in Nat, m < n
      PROVE  h[m] = F(n)[m]
  <2>1. m + 1 \in Nat /\ m < m + 1
    OBVIOUS
  <2> HIDE DEF UpTo
  <2>2. F(m + 1)[m] = F(n)[m]
    BY <2>1, <1>2, <1>3, <1>5
  <2> QED
    BY <2>2
<1>6. ASSUME NEW n \in Nat
      PROVE  h[n] = step[h][n]
  <2>1. n + 1 \in Nat /\ F(n + 1) \in UpTo(n + 1) /\ F(n + 1) \in [Nat -> X]
    <3>1. n + 1 \in Nat
      OBVIOUS
    <3> HIDE DEF UpTo
    <3> QED
      BY <3>1, <1>3
  <2>2. h[n] = step[F(n + 1)][n]
    <3>1. n < n + 1
      OBVIOUS
    <3>2. F(n + 1)[n] = step[F(n + 1)][n]
      BY <2>1, <3>1
    <3> QED
      BY <3>2
  <2>3. \A m \in Nat : m < n => h[m] = F(n + 1)[m]
    <3>1. \A m \in Nat : m < n => m < n + 1
      OBVIOUS
    <3> HIDE DEF h
    <3> QED
      BY <1>5, <2>1, <3>1
  <2> HIDE DEF h
  <2> QED
    BY <1>4, <2>1, <2>2, <2>3
<1>7. step[h] \in [Nat -> X]
  BY <1>4
<1> HIDE DEF h
<1>8. h = step[h]
  BY <1>4, <1>6, <1>7
<1> QED
  BY <1>4, <1>8

(* The usual case: the value at n + 1 is made from the value at n.          *)
Iterates(f, base, turn) == f[0] = base /\ \A n \in Nat : f[n + 1] = turn[f[n]][n]

LEMMA Iteration ==
  ASSUME NEW X, NEW base \in X, NEW turn \in [X -> [Nat -> X]]
  PROVE  \E f \in [Nat -> X] : Iterates(f, base, turn)
<1> DEFINE step == [f \in [Nat -> X] |->
                      [n \in Nat |-> IF n = 0 THEN base ELSE turn[f[n - 1]][n - 1]]]
<1>1. ASSUME NEW f \in [Nat -> X], NEW n \in Nat
      PROVE  (IF n = 0 THEN base ELSE turn[f[n - 1]][n - 1]) \in X
  <2>1. CASE n = 0
    BY <2>1
  <2>2. CASE n # 0
    <3>1. n - 1 \in Nat
      BY <2>2
    <3>2. f[n - 1] \in X
      BY <3>1
    <3>3. turn[f[n - 1]] \in [Nat -> X]
      BY <3>2
    <3> QED
      BY <2>2, <3>1, <3>3
  <2> QED
    BY <2>1, <2>2
<1>2. step \in [[Nat -> X] -> [Nat -> X]]
  BY <1>1
<1>3. ASSUME NEW f \in [Nat -> X], NEW g \in [Nat -> X], NEW n \in Nat,
             \A m \in Nat : m < n => f[m] = g[m]
      PROVE  step[f][n] = step[g][n]
  <2>1. n # 0 => f[n - 1] = g[n - 1]
    BY <1>3
  <2> QED
    BY <2>1
<1>4. PICK f \in [Nat -> X] : f = step[f]
  <2> HIDE DEF step
  <2> QED
    BY <1>2, <1>3, Recursion
<1>5. \A n \in Nat : f[n] = IF n = 0 THEN base ELSE turn[f[n - 1]][n - 1]
  BY <1>4
<1>6. \A n \in Nat : n + 1 \in Nat /\ n + 1 # 0 /\ (n + 1) - 1 = n
  OBVIOUS
<1>7. Iterates(f, base, turn)
  BY <1>5, <1>6 DEF Iterates
<1> QED
  BY <1>7

(* The same for a function of the positions of a sequence, as a recursive   *)
(* definition f[n \in 0..N] == ... has it.                                  *)
Turns(f, N, base, turn) ==
  f = [n \in 0..N |-> IF n = 0 THEN base ELSE turn[f[n - 1]][n]]

LEMMA BoundedIteration ==
  ASSUME NEW X, NEW base \in X, NEW N \in Nat, NEW turn \in [X -> [Nat -> X]]
  PROVE  \E f \in [0..N -> X] : Turns(f, N, base, turn)
<1> DEFINE next == [x \in X |-> [n \in Nat |-> turn[x][n + 1]]]
<1>1. next \in [X -> [Nat -> X]]
  OBVIOUS
<1>2. PICK g \in [Nat -> X] : Iterates(g, base, next)
  <2> HIDE DEF next
  <2> QED
    BY <1>1, Iteration
<1> DEFINE f == [n \in 0..N |-> g[n]]
<1>3. f \in [0..N -> X]
  OBVIOUS
<1>4. ASSUME NEW n \in 0..N
      PROVE  f[n] = IF n = 0 THEN base ELSE turn[f[n - 1]][n]
  <2>1. CASE n = 0
    BY <2>1, <1>2 DEF Iterates
  <2>2. CASE n # 0
    <3>1. n - 1 \in Nat /\ n - 1 \in 0..N /\ (n - 1) + 1 = n
      BY <2>2
    <3>2. g[n - 1] \in X /\ f[n - 1] = g[n - 1] /\ f[n] = g[n]
      BY <3>1
    <3>3. g[n] = next[g[n - 1]][n - 1]
      BY <1>2, <3>1 DEF Iterates
    <3>4. next[g[n - 1]][n - 1] = turn[g[n - 1]][n]
      BY <3>1, <3>2
    <3> QED
      BY <2>2, <3>2, <3>3, <3>4
  <2> QED
    BY <2>1, <2>2
<1> HIDE DEF f
<1>5. Turns(f, N, base, turn)
  BY <1>3, <1>4 DEF Turns
<1> QED
  BY <1>3, <1>5

-----------------------------------------------------------------------------

(* s followed by t, by position.                                            *)
Concatenates(whole, s, t) ==
  /\ Len(whole) = Len(s) + Len(t)
  /\ \A i \in 1..Len(s) : whole[i] = s[i]
  /\ \A i \in 1..Len(t) : whole[Len(s) + i] = t[i]

LEMMA Concatenated ==
  ASSUME NEW S, NEW s \in Seq(S), NEW t \in Seq(S)
  PROVE  Concatenates(s \o t, s, t)
<1>1. Len(s) \in Nat /\ Len(t) \in Nat
  OBVIOUS
<1>2. Len(s \o t) = Len(s) + Len(t)
  OBVIOUS
<1>3. ASSUME NEW i \in 1..Len(s)
      PROVE  (s \o t)[i] = s[i]
  OBVIOUS
<1>4. ASSUME NEW i \in 1..Len(t)
      PROVE  (s \o t)[Len(s) + i] = t[i]
  OBVIOUS
<1> QED
  BY <1>2, <1>3, <1>4 DEF Concatenates

(* part stands in whole, after p characters.                                *)
StandsAt(part, whole, p) ==
  /\ p + Len(part) <= Len(whole)
  /\ \A i \in 1..Len(part) : whole[p + i] = part[i]

LEMMA StandsInConcatenation ==
  ASSUME NEW S, NEW s \in Seq(S), NEW t \in Seq(S), NEW part \in Seq(S), NEW p \in Nat,
         StandsAt(part, s \o t, p)
  PROVE  \/ StandsAt(part, s, p)
         \/ p >= Len(s) /\ StandsAt(part, t, p - Len(s))
         \/ /\ p < Len(s) /\ p + Len(part) > Len(s)
            /\ part[Len(s) - p] = s[Len(s)]
            /\ part[Len(s) - p + 1] = t[1]
<1>0. Len(s) \in Nat /\ Len(t) \in Nat /\ Len(part) \in Nat
  OBVIOUS
<1> DEFINE whole == s \o t
<1>1. /\ Len(whole) = Len(s) + Len(t)
      /\ \A i \in 1..Len(s) : whole[i] = s[i]
      /\ \A i \in 1..Len(t) : whole[Len(s) + i] = t[i]
  <2>1. Concatenates(whole, s, t)
    BY Concatenated
  <2> QED
    BY <2>1 DEF Concatenates
<1> HIDE DEF whole
<1>2. p + Len(part) <= Len(whole) /\ \A i \in 1..Len(part) : whole[p + i] = part[i]
  BY DEF StandsAt, whole
<1>3. CASE p + Len(part) <= Len(s)
  <2>1. ASSUME NEW i \in 1..Len(part)
        PROVE  s[p + i] = part[i]
    <3>1. p + i \in 1..Len(s)
      BY <1>0, <1>3
    <3> QED
      BY <1>1, <1>2, <3>1
  <2> QED
    BY <1>3, <2>1 DEF StandsAt
<1>4. CASE p >= Len(s)
  <2>1. ASSUME NEW i \in 1..Len(part)
        PROVE  t[(p - Len(s)) + i] = part[i]
    <3>1. (p - Len(s)) + i \in 1..Len(t) /\ Len(s) + ((p - Len(s)) + i) = p + i
      BY <1>0, <1>1, <1>2, <1>4
    <3> QED
      BY <1>1, <1>2, <3>1
  <2>2. (p - Len(s)) + Len(part) <= Len(t)
    BY <1>0, <1>1, <1>2
  <2> QED
    BY <1>4, <2>1, <2>2 DEF StandsAt
<1>5. CASE p < Len(s) /\ p + Len(part) > Len(s)
  <2> DEFINE j == Len(s) - p
             k == Len(s) - p + 1
  <2>1. j \in 1..Len(part) /\ p + j = Len(s) /\ Len(s) \in 1..Len(s)
    BY <1>0, <1>5
  <2>2. k \in 1..Len(part) /\ p + k = Len(s) + 1
    BY <1>0, <1>5
  <2>3. 1 \in 1..Len(t)
    BY <1>0, <1>1, <1>2, <1>5
  <2> HIDE DEF j, k
  <2>4. part[j] = s[Len(s)]
    BY <1>1, <1>2, <2>1
  <2>5. part[k] = t[1]
    BY <1>1, <1>2, <2>2, <2>3
  <2> QED
    BY <1>5, <2>4, <2>5 DEF j, k
<1> QED
  BY <1>0, <1>3, <1>4, <1>5

LEMMA ConcatenatedSet ==
  ASSUME NEW S, NEW s \in Seq(S), NEW t \in Seq(S)
  PROVE  ToSet(s \o t) = ToSet(s) \union ToSet(t)
<1>0. Len(s) \in Nat /\ Len(t) \in Nat
  OBVIOUS
<1> DEFINE whole == s \o t
<1>1. /\ Len(whole) = Len(s) + Len(t)
      /\ \A i \in 1..Len(s) : whole[i] = s[i]
      /\ \A i \in 1..Len(t) : whole[Len(s) + i] = t[i]
  <2>1. Concatenates(whole, s, t)
    BY Concatenated
  <2> QED
    BY <2>1 DEF Concatenates
<1>2. DOMAIN whole = 1..Len(whole) /\ DOMAIN s = 1..Len(s) /\ DOMAIN t = 1..Len(t)
  OBVIOUS
<1> HIDE DEF whole
<1>3. ASSUME NEW i \in 1..Len(whole)
      PROVE  whole[i] \in ToSet(s) \union ToSet(t)
  <2>1. CASE i <= Len(s)
    <3>1. i \in 1..Len(s) /\ whole[i] = s[i]
      BY <1>0, <1>1, <2>1
    <3> QED
      BY <1>2, <3>1 DEF ToSet
  <2>2. CASE i > Len(s)
    <3>1. i - Len(s) \in 1..Len(t) /\ Len(s) + (i - Len(s)) = i
      BY <1>0, <1>1, <2>2
    <3>2. whole[i] = t[i - Len(s)]
      BY <1>1, <3>1
    <3> QED
      BY <1>2, <3>1, <3>2 DEF ToSet
  <2> QED
    BY <1>0, <2>1, <2>2
<1>4. ASSUME NEW i \in 1..Len(s)
      PROVE  s[i] \in ToSet(whole)
  <2>1. i \in 1..Len(whole) /\ whole[i] = s[i]
    BY <1>0, <1>1
  <2> QED
    BY <1>2, <2>1 DEF ToSet
<1>5. ASSUME NEW i \in 1..Len(t)
      PROVE  t[i] \in ToSet(whole)
  <2>1. Len(s) + i \in 1..Len(whole) /\ whole[Len(s) + i] = t[i]
    BY <1>0, <1>1
  <2> QED
    BY <1>2, <2>1 DEF ToSet
<1>6. ToSet(whole) \subseteq ToSet(s) \union ToSet(t)
  BY <1>2, <1>3 DEF ToSet
<1>7. ToSet(s) \subseteq ToSet(whole) /\ ToSet(t) \subseteq ToSet(whole)
  BY <1>2, <1>4, <1>5 DEF ToSet
<1> QED
  BY <1>6, <1>7 DEF whole

(* FlattenSeq joins the sequences one after the other.                      *)
Flattens(f, seqs) ==
  /\ f[0] = <<>>
  /\ \A i \in 1..Len(seqs) : f[i] = f[i - 1] \o seqs[i]
  /\ FlattenSeq(seqs) = f[Len(seqs)]

LEMMA Flattening ==
  ASSUME NEW S, NEW seqs \in Seq(Seq(S))
  PROVE  \E f \in [0..Len(seqs) -> Seq(S)] : Flattens(f, seqs)
<1> DEFINE N == Len(seqs)
           Eq(f) == f = [i \in 1..N |-> IF i = 1 THEN seqs[i] ELSE f[i - 1] \o seqs[i]]
<1>1. CASE N = 0
  <2>1. seqs = <<>> /\ FlattenSeq(seqs) = seqs
    BY <1>1 DEF FlattenSeq
  <2> DEFINE f == [i \in 0..N |-> <<>>]
  <2>2. f \in [0..N -> Seq(S)] /\ f[0] = <<>> /\ f[N] = <<>> /\ 1..N = {}
    BY <1>1
  <2> HIDE DEF f
  <2> QED
    BY <2>1, <2>2 DEF Flattens
<1>2. CASE N # 0
  <2>0. N \in Nat
    OBVIOUS
  <2>1. \E f : Eq(f)
    <3> DEFINE turn == [x \in Seq(S) |-> [n \in Nat |->
                          IF n + 1 \in 1..N THEN (IF n = 0 THEN seqs[1] ELSE x \o seqs[n + 1]) ELSE x]]
    <3>1. turn \in [Seq(S) -> [Nat -> Seq(S)]]
      <4>1. ASSUME NEW x \in Seq(S), NEW n \in Nat, n + 1 \in 1..N
            PROVE  x \o seqs[n + 1] \in Seq(S) /\ seqs[1] \in Seq(S)
        BY <4>1, <1>2
      <4> QED
        BY <4>1
    <3>2. PICK g \in [Nat -> Seq(S)] : Iterates(g, <<>>, turn)
      <4>1. <<>> \in Seq(S)
        OBVIOUS
      <4> HIDE DEF turn
      <4> QED
        BY <3>1, <4>1, Iteration
    <3> DEFINE f == [i \in 1..N |-> g[i]]
    <3>3. ASSUME NEW i \in 1..N
          PROVE  g[i] = IF i = 1 THEN seqs[i] ELSE f[i - 1] \o seqs[i]
      <4>1. i - 1 \in Nat /\ (i - 1) + 1 = i
        BY <2>0
      <4>2. g[i] = turn[g[i - 1]][i - 1]
        BY <3>2, <4>1 DEF Iterates
      <4>3. g[i - 1] \in Seq(S)
        BY <4>1
      <4>4. g[i] = IF i = 1 THEN seqs[i] ELSE g[i - 1] \o seqs[i]
        BY <4>1, <4>2, <4>3
      <4>5. i # 1 => f[i - 1] = g[i - 1]
        BY <2>0
      <4> QED
        BY <4>4, <4>5
    <3>4. Eq(f)
      BY <3>3
    <3> QED
      BY <3>4
  <2>2. PICK f : Eq(f) /\ FlattenSeq(seqs) = f[N]
    <3> DEFINE f == CHOOSE f : Eq(f)
    <3>1. Eq(f)
      BY <2>1
    <3>2. FlattenSeq(seqs) = f[N]
      BY <1>2 DEF FlattenSeq
    <3> QED
      BY <3>1, <3>2
  <2>3. \A i \in 1..N : f[i] = IF i = 1 THEN seqs[i] ELSE f[i - 1] \o seqs[i]
    BY <2>2
  <2>4. \A i \in 1..N : f[i] \in Seq(S)
    <3> DEFINE T == {i \in Nat : i + 1 \in 1..N => f[i + 1] \in Seq(S)}
    <3>1. 0 \in T
      BY <2>0, <2>3, <1>2
    <3>2. ASSUME NEW i \in Nat, i \in T
          PROVE  i + 1 \in T
      <4> SUFFICES ASSUME (i + 1) + 1 \in 1..N
                   PROVE  f[(i + 1) + 1] \in Seq(S)
        OBVIOUS
      <4>1. i + 1 \in 1..N /\ ((i + 1) + 1) - 1 = i + 1 /\ (i + 1) + 1 # 1
        BY <2>0
      <4>2. f[i + 1] \in Seq(S)
        BY <3>2, <4>1
      <4>3. f[(i + 1) + 1] = f[i + 1] \o seqs[(i + 1) + 1]
        BY <2>3, <4>1
      <4> QED
        BY <4>2, <4>3
    <3>3. \A i \in Nat : i \in T
      <4> HIDE DEF T
      <4> QED
        BY <3>1, <3>2, Induction
    <3> QED
      <4>1. \A i \in 1..N : i - 1 \in Nat /\ (i - 1) + 1 = i
        BY <2>0
      <4> QED
        BY <3>3, <4>1
  <2> DEFINE g == [i \in 0..N |-> IF i = 0 THEN <<>> ELSE f[i]]
  <2>5. g \in [0..N -> Seq(S)]
    BY <2>0, <2>4
  <2>6. ASSUME NEW i \in 1..N
        PROVE  g[i] = g[i - 1] \o seqs[i]
    <3>1. seqs[i] \in Seq(S)
      BY <2>0
    <3>2. CASE i = 1
      BY <3>1, <3>2, <2>0, <2>3
    <3>3. CASE i # 1
      <4>1. i - 1 \in 0..N /\ i - 1 # 0 /\ i \in 0..N /\ i # 0
        BY <3>3, <2>0
      <4>2. g[i - 1] = f[i - 1] /\ g[i] = f[i]
        BY <4>1
      <4> QED
        BY <3>3, <4>2, <2>3
    <3> QED
      BY <3>2, <3>3
  <2>7. g[0] = <<>> /\ FlattenSeq(seqs) = g[N]
    BY <1>2, <2>0, <2>2
  <2> HIDE DEF g
  <2> QED
    BY <2>5, <2>6, <2>7 DEF Flattens
<1> QED
  BY <1>1, <1>2

(* Its elements are those of the sequences it joins.                        *)
LEMMA FlattenedSet ==
  ASSUME NEW S, NEW seqs \in Seq(Seq(S))
  PROVE  /\ FlattenSeq(seqs) \in Seq(S)
         /\ ToSet(FlattenSeq(seqs)) = UNION {ToSet(seqs[i]) : i \in 1..Len(seqs)}
<1> DEFINE N == Len(seqs)
           Upto(n) == UNION {ToSet(seqs[i]) : i \in 1..n}
<1>0. N \in Nat /\ \A i \in 1..N : seqs[i] \in Seq(S)
  OBVIOUS
<1>1. PICK f \in [0..N -> Seq(S)] : Flattens(f, seqs)
  BY Flattening
<1> DEFINE T == {n \in 0..N : ToSet(f[n]) = Upto(n)}
<1>2. 0 \in T
  <2>1. ToSet(f[0]) = {} /\ Upto(0) = {}
    BY <1>1 DEF Flattens, ToSet
  <2> QED
    BY <1>0, <2>1
<1>3. ASSUME NEW n \in 1..N, n - 1 \in T
      PROVE  n \in T
  <2>0. n \in 0..N /\ n - 1 \in 0..N
    BY <1>0
  <2>1. n \in 0..N /\ n - 1 \in 0..N /\ f[n] = f[n - 1] \o seqs[n]
    BY <1>1, <2>0 DEF Flattens
  <2>2. f[n - 1] \in Seq(S) /\ seqs[n] \in Seq(S)
    BY <1>0, <2>1
  <2>3. ToSet(f[n - 1] \o seqs[n]) = ToSet(f[n - 1]) \union ToSet(seqs[n])
    BY <2>2, ConcatenatedSet
  <2>4. ToSet(f[n - 1]) = Upto(n - 1)
    BY <1>3
  <2>5. Upto(n) = Upto(n - 1) \union ToSet(seqs[n])
    <3>1. \A i \in 1..n : i \in 1..(n - 1) \/ i = n
      BY <1>0
    <3>2. \A i \in 1..(n - 1) : i \in 1..n
      BY <1>0
    <3>3. n \in 1..n
      BY <1>0
    <3> QED
      BY <3>1, <3>2, <3>3
  <2> HIDE DEF Upto
  <2> QED
    BY <2>1, <2>3, <2>4, <2>5
<1>4. N \in T
  <2>1. \A n \in 0..N : n \in T
    <3> HIDE DEF T, N
    <3> QED
      BY <1>0, <1>2, <1>3, BoundedInduction
  <2> QED
    BY <1>0, <2>1
<1>5. FlattenSeq(seqs) = f[N] /\ f[N] \in Seq(S)
  <2>1. N \in 0..N
    BY <1>0
  <2> QED
    BY <1>1, <2>1 DEF Flattens
<1> QED
  BY <1>4, <1>5
=============================================================================
