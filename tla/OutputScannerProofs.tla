------------------------- MODULE OutputScannerProofs -------------------------
(***************************************************************************)
(* What a scan leaves of a text, for any secrets, texts and order of        *)
(* registrations.                                                           *)
(***************************************************************************)
EXTENDS OutputScanner, RecursionFacts

-----------------------------------------------------------------------------
(* Occurrences, by position.                                                *)
LEMMA OccursAtPosition ==
  ASSUME NEW rep \in Seq(Characters), NEW text \in Seq(Characters), NEW i \in Nat \ {0}
  PROVE  OccursAt(rep, text, i) <=> StandsAt(rep, text, i - 1)
<1>0. Len(rep) \in Nat /\ Len(text) \in Nat
  OBVIOUS
<1>1. CASE i + Len(rep) - 1 <= Len(text)
  <2> DEFINE m == i + Len(rep) - 1
             part == SubSeq(text, i, m)
  <2>1. part \in Seq(Characters) /\ Len(part) = Len(rep)
    <3>1. i \in 1..(Len(text) + 1) /\ m \in 0..Len(text) /\ (IF i <= m + 1 THEN m - i + 1 ELSE 0) = Len(rep)
      BY <1>0, <1>1
    <3>2. \A k \in i..m : text[k] \in Characters
      BY <1>0, <3>1
    <3> HIDE DEF m
    <3> QED
      BY <1>0, <3>1, <3>2
  <2>2. ASSUME NEW k \in 1..Len(rep)
        PROVE  part[k] = text[(i - 1) + k]
    <3>1. i \in Int /\ m \in Int /\ k \in 1..(m - i + 1) /\ i + k - 1 = (i - 1) + k
      BY <1>0
    <3> HIDE DEF m
    <3>2. part[k] = text[i + k - 1]
      BY <3>1
    <3> QED
      BY <3>1, <3>2
  <2> HIDE DEF part
  <2>3. part = rep <=> \A k \in 1..Len(rep) : text[(i - 1) + k] = rep[k]
    <3>1. ASSUME \A k \in 1..Len(rep) : text[(i - 1) + k] = rep[k]
          PROVE  part = rep
      <4>1. \A k \in 1..Len(rep) : part[k] = rep[k]
        BY <2>2, <3>1
      <4> QED
        BY <2>1, <4>1
    <3>2. ASSUME part = rep, NEW k \in 1..Len(rep)
          PROVE  text[(i - 1) + k] = rep[k]
      BY <2>2, <3>2
    <3> QED
      BY <3>1, <3>2
  <2>4. OccursAt(rep, text, i) <=> part = rep
    BY <1>1 DEF OccursAt, part
  <2>5. (i - 1) + Len(rep) <= Len(text)
    BY <1>0, <1>1
  <2> QED
    BY <2>3, <2>4, <2>5 DEF StandsAt
<1>2. CASE ~(i + Len(rep) - 1 <= Len(text))
  <2>1. ~((i - 1) + Len(rep) <= Len(text))
    BY <1>0, <1>2
  <2> QED
    BY <1>2, <2>1 DEF OccursAt, StandsAt
<1> QED
  BY <1>1, <1>2

LEMMA OccursSomewhere ==
  ASSUME NEW rep \in Seq(Characters) \ {<<>>}, NEW text \in Seq(Characters)
  PROVE  Occurs(rep, text) <=> \E p \in Nat : StandsAt(rep, text, p)
<1>0. Len(rep) \in Nat \ {0} /\ Len(text) \in Nat /\ DOMAIN text = 1..Len(text)
  OBVIOUS
<1>1. ASSUME Occurs(rep, text)
      PROVE  \E p \in Nat : StandsAt(rep, text, p)
  <2>1. PICK i \in 1..Len(text) : OccursAt(rep, text, i)
    BY <1>0, <1>1 DEF Occurs
  <2>2. i - 1 \in Nat /\ i \in Nat \ {0}
    OBVIOUS
  <2>3. StandsAt(rep, text, i - 1)
    BY <2>1, <2>2, OccursAtPosition
  <2> QED
    BY <2>2, <2>3
<1>2. ASSUME NEW p \in Nat, StandsAt(rep, text, p)
      PROVE  Occurs(rep, text)
  <2>1. p + Len(rep) <= Len(text)
    BY <1>2 DEF StandsAt
  <2>2. p + 1 \in 1..Len(text) /\ p + 1 \in Nat \ {0} /\ (p + 1) - 1 = p
    BY <1>0, <2>1
  <2>3. OccursAt(rep, text, p + 1)
    BY <1>2, <2>2, OccursAtPosition
  <2> QED
    BY <1>0, <2>2, <2>3 DEF Occurs
<1> QED
  BY <1>1, <1>2

-----------------------------------------------------------------------------
(* from holds, for each position of text, what str.replace makes of the     *)
(* rest of text from there.                                                 *)
Replaces(from, text, rep) ==
  /\ \A i \in 1..Len(text) :
       from[i] = IF OccursAt(rep, text, i) THEN Marker \o from[i + Len(rep)]
                                           ELSE <<text[i]>> \o from[i + 1]
  /\ from[Len(text) + 1] = <<>>
  /\ Replaced(text, rep) = from[1]

LEMMA Replacing ==
  ASSUME NEW text \in Seq(Characters), NEW rep \in Seq(Characters) \ {<<>>}
  PROVE  \E from \in [1..(Len(text) + 1) -> Seq(Characters)] : Replaces(from, text, rep)
<1> DEFINE N == Len(text)
           L == Len(rep)
           K == N + L
           X == Seq(Characters)
           At(i) == OccursAt(rep, text, i)
           Eq(f) == f = [i \in 1..K |-> IF i > N THEN <<>>
                                         ELSE IF At(i) THEN Marker \o f[i + L]
                                         ELSE <<text[i]>> \o f[i + 1]]
           step == [f \in [Nat -> X] |-> [n \in Nat |->
                      IF n < L THEN <<>>
                      ELSE IF n >= K THEN <<>>
                      ELSE IF At(K - n) THEN Marker \o f[n - L]
                      ELSE <<text[K - n]>> \o f[n - 1]]]
<1>0. N \in Nat /\ L \in Nat \ {0} /\ <<>> \in X /\ Marker \in X
  BY ScannerAssumption
<1>1. \A i \in 1..N : <<text[i]>> \in X
  <2>1. \A i \in 1..N : text[i] \in Characters
    OBVIOUS
  <2> QED
    BY <2>1
<1>2. \A x, y \in X : x \o y \in X
  OBVIOUS
<1> HIDE DEF At, N, L, X
<1>3. step \in [[Nat -> X] -> [Nat -> X]]
  <2>1. ASSUME NEW f \in [Nat -> X], NEW n \in Nat, n >= L, n < K
        PROVE  Marker \o f[n - L] \in X /\ <<text[K - n]>> \o f[n - 1] \in X
    <3>1. n - L \in Nat /\ n - 1 \in Nat /\ K - n \in 1..N
      BY <1>0, <2>1
    <3>2. f[n - L] \in X /\ f[n - 1] \in X
      BY <3>1
    <3> QED
      BY <1>0, <1>1, <1>2, <3>1, <3>2
  <2>2. ASSUME NEW f \in [Nat -> X], NEW n \in Nat
        PROVE  (IF n < L THEN <<>>
                ELSE IF n >= K THEN <<>>
                ELSE IF At(K - n) THEN Marker \o f[n - L]
                ELSE <<text[K - n]>> \o f[n - 1]) \in X
    <3>1. CASE n < L \/ n >= K
      BY <1>0, <3>1
    <3>2. CASE n >= L /\ n < K
      <4>1. ~(n < L) /\ ~(n >= K)
        BY <1>0, <3>2
      <4> HIDE DEF K
      <4> QED
        BY <2>1, <3>2, <4>1
    <3> QED
      BY <1>0, <3>1, <3>2
  <2> QED
    BY <2>2
<1>4. \E h \in [Nat -> X] : h = step[h]
  <2>1. X # {}
    BY <1>0
  <2>2. ASSUME NEW f \in [Nat -> X], NEW g \in [Nat -> X], NEW n \in Nat,
               \A m \in Nat : m < n => f[m] = g[m]
        PROVE  step[f][n] = step[g][n]
    <3>1. CASE n >= L
      <4>1. n - L \in Nat /\ n - L < n /\ n - 1 \in Nat /\ n - 1 < n
        BY <1>0, <3>1
      <4>2. f[n - L] = g[n - L] /\ f[n - 1] = g[n - 1]
        BY <2>2, <4>1
      <4> QED
        BY <4>2
    <3>2. CASE n < L
      BY <3>2
    <3> QED
      BY <1>0, <3>1, <3>2
  <2> HIDE DEF step
  <2> QED
    BY <1>3, <2>1, <2>2, Recursion
<1>5. \E f : Eq(f)
  <2>1. PICK h \in [Nat -> X] : h = step[h]
    BY <1>4
  <2> DEFINE f == [i \in 1..K |-> h[K - i]]
  <2>2. ASSUME NEW i \in 1..K
        PROVE  h[K - i] = IF i > N THEN <<>>
                          ELSE IF At(i) THEN Marker \o f[i + L]
                          ELSE <<text[i]>> \o f[i + 1]
    <3>1. K - i \in Nat /\ K - (K - i) = i /\ K - i < K /\ (K - i < L <=> i > N)
      BY <1>0
    <3>2. h[K - i] = step[h][K - i]
      BY <2>1
    <3>3. step[h][K - i] = IF i > N THEN <<>>
                           ELSE IF At(i) THEN Marker \o h[(K - i) - L]
                           ELSE <<text[i]>> \o h[(K - i) - 1]
      BY <1>0, <3>1
    <3>4. ASSUME ~(i > N)
          PROVE  f[i + L] = h[(K - i) - L] /\ f[i + 1] = h[(K - i) - 1]
      <4>1. i + L \in 1..K /\ K - (i + L) = (K - i) - L /\ i + 1 \in 1..K /\ K - (i + 1) = (K - i) - 1
        BY <1>0, <3>4
      <4> HIDE DEF K
      <4> QED
        BY <4>1
    <3> HIDE DEF f, step
    <3> QED
      BY <3>2, <3>3, <3>4
  <2>3. Eq(f)
    BY <2>2
  <2> QED
    BY <2>3
<1>6. PICK f : Eq(f) /\ Replaced(text, rep) = f[1]
  <2> DEFINE f == CHOOSE f : Eq(f)
  <2>1. Eq(f)
    BY <1>5
  <2>2. Replaced(text, rep) = f[1]
    BY DEF Replaced, At, N, L
  <2> QED
    BY <2>1, <2>2
<1>7. ASSUME NEW i \in 1..N
      PROVE  /\ f[i] = IF At(i) THEN Marker \o f[i + L] ELSE <<text[i]>> \o f[i + 1]
             /\ i + 1 \in 1..(N + 1)
             /\ At(i) => i + L \in 1..(N + 1)
  <2>1. i \in 1..K /\ ~(i > N) /\ i + 1 \in 1..(N + 1)
    BY <1>0
  <2>2. At(i) => i + L \in 1..(N + 1)
    <3>1. At(i) => i + L - 1 <= N
      BY DEF At, OccursAt, N, L
    <3> QED
      BY <1>0, <3>1
  <2> HIDE DEF K
  <2> QED
    BY <1>6, <2>1, <2>2
<1>8. f[N + 1] = <<>>
  <2>1. N + 1 \in 1..K /\ N + 1 > N
    BY <1>0
  <2> HIDE DEF K
  <2> QED
    BY <1>6, <2>1
<1>9. \A i \in 1..(N + 1) : f[i] \in X
  <2> DEFINE T == {i \in 1..(N + 1) : f[i] \in X}
  <2>1. ASSUME NEW i \in 1..(N + 1), \A j \in 1..(N + 1) : j > i => j \in T
        PROVE  i \in T
    <3>1. CASE i = N + 1
      BY <1>0, <1>8, <3>1
    <3>2. CASE i # N + 1
      <4>1. i \in 1..N
        BY <1>0, <3>2
      <4>2. f[i + 1] \in X
        BY <1>0, <1>7, <2>1, <4>1
      <4>3. At(i) => f[i + L] \in X
        <5>1. i + L > i
          BY <1>0
        <5> QED
          BY <1>7, <2>1, <4>1, <5>1
      <4>4. f[i] \in X
        BY <1>0, <1>1, <1>2, <1>7, <4>1, <4>2, <4>3
      <4> QED
        BY <4>4
    <3> QED
      BY <3>1, <3>2
  <2>2. N + 1 \in Nat
    BY <1>0
  <2> HIDE DEF T
  <2>3. \A i \in 1..(N + 1) : i \in T
    BY <2>1, <2>2, DownwardInduction
  <2> QED
    BY <2>3 DEF T
<1> DEFINE from == [i \in 1..(N + 1) |-> f[i]]
<1>10. from \in [1..(N + 1) -> X]
  BY <1>9
<1>11. Replaces(from, text, rep)
  <2>1. ASSUME NEW i \in 1..N
        PROVE  from[i] = IF At(i) THEN Marker \o from[i + L] ELSE <<text[i]>> \o from[i + 1]
    <3>1. i \in 1..(N + 1)
      BY <1>0
    <3> QED
      BY <1>7, <3>1
  <2>2. from[N + 1] = <<>> /\ Replaced(text, rep) = from[1]
    <3>1. N + 1 \in 1..(N + 1) /\ 1 \in 1..(N + 1)
      BY <1>0
    <3> QED
      BY <1>6, <1>8, <3>1
  <2> HIDE DEF from
  <2> QED
    BY <2>1, <2>2 DEF Replaces, At, N, L
<1> HIDE DEF from
<1> QED
  BY <1>10, <1>11 DEF N, X

-----------------------------------------------------------------------------
(* What the assumption says of a representation.                            *)
Redactable ==
  {rep \in Seq(Characters) \ {<<>>} :
     /\ \A k \in 1..Len(rep) :
          rep[k] # Marker[1] /\ rep[k] # Marker[Len(Marker)] /\ rep[k] # Separator
     /\ ~Occurs(rep, Marker)}

LEMMA PromisedRedactable ==
  ASSUME NEW value \in Values
  PROVE  Promised(value) \subseteq Redactable
<1> SUFFICES ASSUME NEW rep \in Promised(value)
             PROVE  rep \in Redactable
  OBVIOUS
<1>1. /\ rep \in Seq(Characters) \ {<<>>}
      /\ {Separator, Head(Marker), Last(Marker)} \intersect ToSet(rep) = {}
      /\ ~Occurs(rep, Marker)
  BY ScannerAssumption
<1>2. Head(Marker) = Marker[1] /\ Last(Marker) = Marker[Len(Marker)]
  BY ScannerAssumption DEF Last
<1>3. \A k \in 1..Len(rep) : rep[k] \in ToSet(rep)
  BY <1>1 DEF ToSet
<1> QED
  BY <1>1, <1>2, <1>3 DEF Redactable

LEMMA MarkerTyped == Marker \in Seq(Characters) /\ Len(Marker) \in Nat \ {0}
<1>1. Marker \in Seq(Characters) /\ Marker # <<>>
  BY ScannerAssumption
<1> QED
  BY <1>1

(* What begins a text after a replacement, without a character of the       *)
(* marker's, began it before.                                               *)
LEMMA BeginningKept ==
  ASSUME NEW text \in Seq(Characters), NEW rep \in Seq(Characters) \ {<<>>},
         NEW from \in [1..(Len(text) + 1) -> Seq(Characters)], Replaces(from, text, rep),
         NEW i \in 1..(Len(text) + 1), NEW part \in Seq(Characters),
         \A k \in 1..Len(part) : part[k] # Marker[1],
         StandsAt(part, from[i], 0)
  PROVE  StandsAt(part, text, i - 1)
<1> DEFINE N == Len(text)
           T == {n \in 1..(N + 1) :
                   \A p \in Seq(Characters) :
                     (\A k \in 1..Len(p) : p[k] # Marker[1]) /\ StandsAt(p, from[n], 0)
                       => StandsAt(p, text, n - 1)}
<1>0. N \in Nat
  OBVIOUS
<1>1. ASSUME NEW n \in 1..(N + 1), \A m \in 1..(N + 1) : m > n => m \in T
      PROVE  n \in T
  <2> SUFFICES ASSUME NEW p \in Seq(Characters),
                      \A k \in 1..Len(p) : p[k] # Marker[1], StandsAt(p, from[n], 0)
               PROVE  StandsAt(p, text, n - 1)
    OBVIOUS
  <2>0. Len(p) \in Nat /\ n - 1 \in Nat
    OBVIOUS
  <2>1. CASE Len(p) = 0
    BY <1>0, <2>1 DEF StandsAt
  <2>2. CASE Len(p) # 0 /\ n = N + 1
    <3>1. from[n] = <<>>
      BY <2>2 DEF Replaces
    <3>2. Len(p) <= 0
      BY <3>1, <2>0 DEF StandsAt
    <3> QED
      BY <2>0, <2>2, <3>2
  <2>3. CASE Len(p) # 0 /\ n \in 1..N /\ OccursAt(rep, text, n)
    <3>1. from[n] = Marker \o from[n + Len(rep)]
      BY <2>3 DEF Replaces
    <3>2. n + Len(rep) \in 1..(N + 1)
      <4>1. n + Len(rep) - 1 <= N
        BY <2>3 DEF OccursAt
      <4>2. Len(rep) \in Nat
        OBVIOUS
      <4> QED
        BY <1>0, <4>1, <4>2
    <3> DEFINE rest == from[n + Len(rep)]
    <3>3. rest \in Seq(Characters)
      BY <3>2
    <3> HIDE DEF rest
    <3>4. Concatenates(Marker \o rest, Marker, rest)
      BY <3>3, MarkerTyped, Concatenated
    <3>5. (Marker \o rest)[1] = Marker[1]
      BY <3>4, MarkerTyped DEF Concatenates
    <3>6. 1 \in 1..Len(p) /\ 0 + 1 = 1
      BY <2>0, <2>3
    <3>7. from[n][1] = p[1]
      BY <3>6 DEF StandsAt
    <3> QED
      BY <3>1, <3>5, <3>6, <3>7 DEF rest
  <2>4. CASE Len(p) # 0 /\ n \in 1..N /\ ~OccursAt(rep, text, n)
    <3>1. from[n] = <<text[n]>> \o from[n + 1]
      BY <2>4 DEF Replaces
    <3> DEFINE rest == from[n + 1]
               one == <<text[n]>>
    <3>2. n + 1 \in 1..(N + 1) /\ n + 1 > n
      BY <1>0, <2>4
    <3>3. rest \in Seq(Characters) /\ one \in Seq(Characters) /\ Len(one) = 1 /\ one[1] = text[n]
      <4>1. text[n] \in Characters
        BY <2>4
      <4> QED
        BY <3>2, <4>1
    <3> HIDE DEF rest, one
    <3>4. /\ Len(one \o rest) = 1 + Len(rest)
          /\ (one \o rest)[1] = text[n]
          /\ \A k \in 1..Len(rest) : (one \o rest)[1 + k] = rest[k]
      <4>1. Concatenates(one \o rest, one, rest)
        BY <3>3, Concatenated
      <4> QED
        BY <3>3, <4>1 DEF Concatenates
    <3>5. 0 + Len(p) <= Len(one \o rest) /\ \A k \in 1..Len(p) : (one \o rest)[0 + k] = p[k]
      BY <3>1 DEF StandsAt, rest, one
    <3> DEFINE others == Tail(p)
    <3>6. /\ others \in Seq(Characters) /\ Len(others) = Len(p) - 1
          /\ \A k \in 1..Len(others) : others[k] = p[k + 1]
      BY <2>0, <2>4
    <3> HIDE DEF others
    <3>7. \A k \in 1..Len(others) : others[k] # Marker[1]
      <4>1. \A k \in 1..Len(others) : k + 1 \in 1..Len(p)
        BY <2>0, <3>6
      <4> QED
        BY <3>6, <4>1
    <3>8. StandsAt(others, rest, 0)
      <4>1. Len(rest) \in Nat
        BY <3>3
      <4>2. 0 + Len(others) <= Len(rest)
        BY <2>0, <3>4, <3>5, <3>6, <4>1
      <4>3. ASSUME NEW k \in 1..Len(others)
            PROVE  rest[0 + k] = others[k]
        <5>1. k + 1 \in 1..Len(p) /\ k \in 1..Len(rest)
          BY <2>0, <3>6, <4>1, <4>2
        <5>2. 0 + (k + 1) = 1 + k /\ 0 + k = k
          OBVIOUS
        <5>3. (one \o rest)[1 + k] = p[k + 1]
          BY <3>5, <5>1, <5>2
        <5>4. (one \o rest)[1 + k] = rest[k]
          BY <3>4, <5>1
        <5> QED
          BY <3>6, <5>2, <5>3, <5>4
      <4> QED
        BY <4>2, <4>3 DEF StandsAt
    <3>9. StandsAt(others, text, (n + 1) - 1)
      <4>1. n + 1 \in T
        BY <1>1, <3>2
      <4> QED
        BY <3>6, <3>7, <3>8, <4>1 DEF rest
    <3>10. p[1] = text[n]
      <4>1. 1 \in 1..Len(p) /\ 0 + 1 = 1
        BY <2>0, <2>4
      <4> QED
        BY <3>4, <3>5, <4>1
    <3>11. (n - 1) + Len(p) <= N
      BY <1>0, <2>0, <3>6, <3>9 DEF StandsAt
    <3>12. ASSUME NEW k \in 1..Len(p)
           PROVE  text[(n - 1) + k] = p[k]
      <4>1. CASE k = 1
        <5>1. (n - 1) + 1 = n
          OBVIOUS
        <5> QED
          BY <3>10, <4>1, <5>1
      <4>2. CASE k # 1
        <5>1. k - 1 \in 1..Len(others) /\ ((n + 1) - 1) + (k - 1) = (n - 1) + k /\ (k - 1) + 1 = k
          BY <2>0, <3>6, <4>2
        <5>2. text[((n + 1) - 1) + (k - 1)] = others[k - 1]
          BY <3>9, <5>1 DEF StandsAt
        <5> QED
          BY <3>6, <5>1, <5>2
      <4> QED
        BY <4>1, <4>2
    <3> QED
      BY <3>11, <3>12 DEF StandsAt
  <2> QED
    BY <1>0, <2>1, <2>2, <2>3, <2>4
<1>2. \A n \in 1..(N + 1) : n \in T
  <2>1. N + 1 \in Nat
    BY <1>0
  <2> HIDE DEF T
  <2> QED
    BY <1>1, <2>1, DownwardInduction
<1> QED
  BY <1>2

(* What occurs after a replacement, and may be redacted, occurred before    *)
(* and not as what was replaced: neither the marker nor its edges make it.  *)
StandsElsewhere(s, text, rep) ==
  \E j \in 1..Len(text) : StandsAt(s, text, j - 1) /\ ~OccursAt(rep, text, j)

LEMMA NothingUncovered ==
  ASSUME NEW text \in Seq(Characters), NEW rep \in Seq(Characters) \ {<<>>},
         NEW from \in [1..(Len(text) + 1) -> Seq(Characters)], Replaces(from, text, rep),
         NEW s \in Redactable, NEW q \in Nat,
         StandsAt(s, from[1], q)
  PROVE  StandsElsewhere(s, text, rep)
<1> DEFINE N == Len(text)
           T == {n \in 1..(N + 1) :
                   \A p \in Nat : StandsAt(s, from[n], p) => StandsElsewhere(s, text, rep)}
<1>0. N \in Nat
  OBVIOUS
<1>1. /\ s \in Seq(Characters) /\ Len(s) \in Nat \ {0} /\ s # <<>>
      /\ \A k \in 1..Len(s) : s[k] # Marker[1] /\ s[k] # Marker[Len(Marker)]
      /\ ~Occurs(s, Marker)
  BY DEF Redactable
<1>2. ASSUME NEW n \in 1..(N + 1), \A m \in 1..(N + 1) : m > n => m \in T
      PROVE  n \in T
  <2> SUFFICES ASSUME NEW p \in Nat, StandsAt(s, from[n], p)
               PROVE  StandsElsewhere(s, text, rep)
    OBVIOUS
  <2>1. CASE n = N + 1
    <3>1. from[n] = <<>>
      BY <2>1 DEF Replaces
    <3>2. p + Len(s) <= 0
      BY <3>1 DEF StandsAt
    <3> QED
      BY <1>1, <3>2
  <2>2. CASE n \in 1..N /\ OccursAt(rep, text, n)
    <3>1. from[n] = Marker \o from[n + Len(rep)]
      BY <2>2 DEF Replaces
    <3>2. n + Len(rep) \in 1..(N + 1) /\ n + Len(rep) > n
      <4>1. n + Len(rep) - 1 <= N
        BY <2>2 DEF OccursAt
      <4>2. Len(rep) \in Nat \ {0}
        OBVIOUS
      <4> QED
        BY <1>0, <4>1, <4>2
    <3> DEFINE rest == from[n + Len(rep)]
    <3>3. rest \in Seq(Characters)
      BY <3>2
    <3>4. StandsAt(s, Marker \o rest, p)
      BY <3>1
    <3>5. \A m \in Nat : StandsAt(s, rest, m) => StandsElsewhere(s, text, rep)
      BY <1>2, <3>2
    <3> HIDE DEF rest, T
    <3>6. \/ StandsAt(s, Marker, p)
          \/ p >= Len(Marker) /\ StandsAt(s, rest, p - Len(Marker))
          \/ /\ p < Len(Marker) /\ p + Len(s) > Len(Marker)
             /\ s[Len(Marker) - p] = Marker[Len(Marker)]
             /\ s[Len(Marker) - p + 1] = rest[1]
      BY <1>1, <3>3, <3>4, MarkerTyped, StandsInConcatenation
    <3>7. ~StandsAt(s, Marker, p)
      BY <1>1, MarkerTyped, OccursSomewhere
    <3>8. CASE p >= Len(Marker) /\ StandsAt(s, rest, p - Len(Marker))
      <4>1. p - Len(Marker) \in Nat
        BY <3>8, MarkerTyped
      <4> QED
        BY <3>5, <3>8, <4>1
    <3>9. CASE /\ p < Len(Marker) /\ p + Len(s) > Len(Marker)
               /\ s[Len(Marker) - p] = Marker[Len(Marker)]
      <4>1. Len(Marker) - p \in 1..Len(s)
        BY <1>1, <3>9, MarkerTyped
      <4> QED
        BY <1>1, <3>9, <4>1
    <3> QED
      BY <3>6, <3>7, <3>8, <3>9
  <2>3. CASE n \in 1..N /\ ~OccursAt(rep, text, n)
    <3>1. from[n] = <<text[n]>> \o from[n + 1]
      BY <2>3 DEF Replaces
    <3> DEFINE rest == from[n + 1]
               one == <<text[n]>>
    <3>2. n + 1 \in 1..(N + 1) /\ n + 1 > n
      BY <1>0, <2>3
    <3>3. rest \in Seq(Characters) /\ one \in Seq(Characters) /\ Len(one) = 1
      <4>1. text[n] \in Characters
        BY <2>3
      <4> QED
        BY <3>2, <4>1
    <3>4. StandsAt(s, one \o rest, p)
      BY <3>1
    <3>5. \A m \in Nat : StandsAt(s, rest, m) => StandsElsewhere(s, text, rep)
      BY <1>2, <3>2
    <3> HIDE DEF rest, one, T
    <3>6. CASE p = 0
      <4>1. StandsAt(s, text, n - 1)
        BY <1>1, <3>6, BeginningKept
      <4> QED
        BY <2>3, <4>1 DEF StandsElsewhere
    <3>7. CASE p # 0
      <4>1. \/ StandsAt(s, one, p)
            \/ p >= Len(one) /\ StandsAt(s, rest, p - Len(one))
            \/ p < Len(one)
        BY <1>1, <3>3, <3>4, StandsInConcatenation
      <4>2. ~StandsAt(s, one, p)
        <5>1. ~(p + Len(s) <= Len(one))
          BY <1>1, <3>3, <3>7
        <5> QED
          BY <5>1 DEF StandsAt
      <4>3. p - Len(one) \in Nat /\ ~(p < Len(one))
        BY <3>3, <3>7
      <4> QED
        BY <3>5, <4>1, <4>2, <4>3
    <3> QED
      BY <3>6, <3>7
  <2> QED
    BY <1>0, <2>1, <2>2, <2>3
<1>3. \A n \in 1..(N + 1) : n \in T
  <2>1. N + 1 \in Nat
    BY <1>0
  <2> HIDE DEF T
  <2> QED
    BY <1>2, <2>1, DownwardInduction
<1>4. 1 \in 1..(N + 1)
  BY <1>0
<1> QED
  BY <1>3, <1>4

(* A replacement leaves none of what it replaces and makes none of what may *)
(* be redacted.                                                             *)
LEMMA ReplacedGone ==
  ASSUME NEW text \in Seq(Characters), NEW rep \in Redactable
  PROVE  Replaced(text, rep) \in Seq(Characters) /\ ~Occurs(rep, Replaced(text, rep))
<1>1. rep \in Seq(Characters) \ {<<>>}
  BY DEF Redactable
<1>2. PICK from \in [1..(Len(text) + 1) -> Seq(Characters)] : Replaces(from, text, rep)
  BY <1>1, Replacing
<1>3. Replaced(text, rep) = from[1] /\ from[1] \in Seq(Characters)
  <2>1. 1 \in 1..(Len(text) + 1)
    OBVIOUS
  <2> QED
    BY <1>2, <2>1 DEF Replaces
<1>4. ASSUME Occurs(rep, from[1])
      PROVE  FALSE
  <2>1. PICK p \in Nat : StandsAt(rep, from[1], p)
    BY <1>1, <1>3, <1>4, OccursSomewhere
  <2>2. StandsElsewhere(rep, text, rep)
    BY <1>1, <1>2, <2>1, NothingUncovered
  <2>3. PICK j \in 1..Len(text) : StandsAt(rep, text, j - 1) /\ ~OccursAt(rep, text, j)
    BY <2>2 DEF StandsElsewhere
  <2>4. j \in Nat \ {0}
    OBVIOUS
  <2> QED
    BY <1>1, <2>3, <2>4, OccursAtPosition
<1> QED
  BY <1>3, <1>4

LEMMA ReplacedMakesNone ==
  ASSUME NEW text \in Seq(Characters), NEW rep \in Redactable, NEW s \in Redactable,
         Occurs(s, Replaced(text, rep))
  PROVE  Occurs(s, text)
<1>1. rep \in Seq(Characters) \ {<<>>} /\ s \in Seq(Characters) \ {<<>>}
  BY DEF Redactable
<1>2. PICK from \in [1..(Len(text) + 1) -> Seq(Characters)] : Replaces(from, text, rep)
  BY <1>1, Replacing
<1>3. Replaced(text, rep) = from[1] /\ from[1] \in Seq(Characters)
  <2>1. 1 \in 1..(Len(text) + 1)
    OBVIOUS
  <2> QED
    BY <1>2, <2>1 DEF Replaces
<1>4. PICK p \in Nat : StandsAt(s, from[1], p)
  BY <1>1, <1>3, OccursSomewhere
<1>5. StandsElsewhere(s, text, rep)
  BY <1>1, <1>2, <1>4, NothingUncovered
<1>6. PICK j \in 1..Len(text) : StandsAt(s, text, j - 1)
  BY <1>5 DEF StandsElsewhere
<1>7. j - 1 \in Nat
  OBVIOUS
<1> QED
  BY <1>1, <1>6, <1>7, OccursSomewhere

-----------------------------------------------------------------------------
(* The order in which a scan takes the items.                               *)
Labels == {"secret_value", "secret_base64", "secret_hex"}

Items == [rep: Redactable, label: Labels]

LEMMA ItemTyped ==
  ASSUME NEW item \in Items
  PROVE  /\ item.rep \in Redactable /\ item.label \in Labels
         /\ item.rep \in Seq(Characters) \ {<<>>}
         /\ Len(item.rep) \in Nat \ {0}
<1>1. item.rep \in Redactable /\ item.label \in Labels
  BY DEF Items
<1>2. item.rep \in Seq(Characters) \ {<<>>}
  BY <1>1 DEF Redactable
<1> QED
  BY <1>1, <1>2

LEMMA LongestIs ==
  ASSUME NEW dict \in Seq(Items)
  PROVE  /\ Longest(dict) \in Nat
         /\ \A i \in 1..Len(dict) : Len(dict[i].rep) <= Longest(dict)
<1> DEFINE N == Len(dict)
           Lens(n) == {0} \union {Len(dict[i].rep) : i \in 1..n}
           T == {n \in 0..N : \E x \in Lens(n) : \A y \in Lens(n) : x >= y}
<1>0. N \in Nat /\ DOMAIN dict = 1..N
  OBVIOUS
<1>1. \A i \in 1..N : Len(dict[i].rep) \in Nat
  <2> TAKE i \in 1..N
  <2>1. dict[i] \in Items
    OBVIOUS
  <2> QED
    BY <2>1, ItemTyped
<1>2. 0 \in T
  <2>1. Lens(0) = {0}
    OBVIOUS
  <2> QED
    BY <1>0, <2>1
<1>3. ASSUME NEW n \in 1..N, n - 1 \in T
      PROVE  n \in T
  <2>1. PICK x \in Lens(n - 1) : \A y \in Lens(n - 1) : x >= y
    BY <1>3
  <2>2. n \in 0..N /\ \A i \in 1..n : i \in 1..N /\ (i \in 1..(n - 1) \/ i = n)
    BY <1>0
  <2> DEFINE len == Len(dict[n].rep)
  <2>3. Lens(n) = Lens(n - 1) \union {len}
    <3>1. \A i \in 1..(n - 1) : i \in 1..n
      BY <1>0
    <3>2. n \in 1..n
      BY <1>0
    <3> QED
      BY <2>2, <3>1, <3>2
  <2>4. len \in Nat /\ Lens(n - 1) \subseteq Nat
    <3>1. \A i \in 1..(n - 1) : i \in 1..N
      BY <1>0
    <3> QED
      BY <1>1, <3>1
  <2> HIDE DEF Lens, len
  <2>5. CASE x >= len
    BY <2>1, <2>2, <2>3, <2>5
  <2>6. CASE ~(x >= len)
    <3>1. \A y \in Lens(n) : len >= y
      BY <2>1, <2>3, <2>4, <2>6
    <3> QED
      BY <2>2, <2>3, <3>1
  <2> QED
    BY <2>5, <2>6
<1>4. N \in T
  <2>1. \A n \in 0..N : n \in T
    <3> HIDE DEF T, N
    <3> QED
      BY <1>0, <1>2, <1>3, BoundedInduction
  <2>2. N \in 0..N
    BY <1>0
  <2> QED
    BY <2>1, <2>2
<1>5. Longest(dict) = Max(Lens(N))
  BY <1>0 DEF Longest
<1>6. Longest(dict) \in Lens(N) /\ \A y \in Lens(N) : Longest(dict) >= y
  <2> HIDE DEF Lens
  <2> QED
    BY <1>4, <1>5 DEF Max
<1>7. Lens(N) \subseteq Nat
  BY <1>1
<1>8. \A i \in 1..N : Len(dict[i].rep) \in Lens(N)
  OBVIOUS
<1> HIDE DEF Lens
<1> QED
  BY <1>6, <1>7, <1>8

LEMMA OfLengthIs ==
  ASSUME NEW dict \in Seq(Items), NEW n \in Nat
  PROVE  /\ OfLength(dict, n) \in Seq(Items)
         /\ ToSet(OfLength(dict, n)) = {item \in ToSet(dict) : Len(item.rep) = n}
<1> DEFINE Chosen(item) == IF Len(item.rep) = n THEN <<item>> ELSE <<>>
           seqs == [i \in 1..Len(dict) |-> Chosen(dict[i])]
<1>0. Len(dict) \in Nat /\ DOMAIN dict = 1..Len(dict) /\ \A i \in 1..Len(dict) : dict[i] \in Items
  OBVIOUS
<1>1. \A item \in Items : Chosen(item) \in Seq(Items)
  OBVIOUS
<1>2. \A item \in Items : ToSet(Chosen(item)) = {x \in {item} : Len(x.rep) = n}
  <2> TAKE item \in Items
  <2>1. CASE Len(item.rep) = n
    <3>1. Chosen(item) = <<item>>
      BY <2>1
    <3>2. ToSet(<<item>>) = {item}
      BY DEF ToSet
    <3> QED
      BY <2>1, <3>1, <3>2
  <2>2. CASE Len(item.rep) # n
    <3>1. Chosen(item) = <<>>
      BY <2>2
    <3>2. ToSet(<<>>) = {}
      BY DEF ToSet
    <3> QED
      BY <2>2, <3>1, <3>2
  <2> QED
    BY <2>1, <2>2
<1>3. OfLength(dict, n) = FlattenSeq(seqs)
  BY <1>0 DEF OfLength
<1> HIDE DEF Chosen
<1>4. seqs \in Seq(Seq(Items)) /\ Len(seqs) = Len(dict)
  BY <1>0, <1>1
<1>5. \A i \in 1..Len(dict) : seqs[i] = Chosen(dict[i])
  OBVIOUS
<1> HIDE DEF seqs
<1>6. /\ FlattenSeq(seqs) \in Seq(Items)
      /\ ToSet(FlattenSeq(seqs)) = UNION {ToSet(seqs[i]) : i \in 1..Len(seqs)}
  BY <1>4, FlattenedSet
<1>7. \A i \in 1..Len(dict) : ToSet(seqs[i]) = {x \in {dict[i]} : Len(x.rep) = n}
  BY <1>0, <1>2, <1>5
<1>8. UNION {ToSet(seqs[i]) : i \in 1..Len(seqs)} = {item \in ToSet(dict) : Len(item.rep) = n}
  BY <1>0, <1>4, <1>7 DEF ToSet
<1> QED
  BY <1>3, <1>6, <1>8

(* No item comes before a longer one.                                       *)
Descending(items) ==
  \A i, j \in 1..Len(items) : i < j => Len(items[i].rep) >= Len(items[j].rep)

LEMMA DescendingOn ==
  ASSUME NEW s \in Seq(Items), NEW t \in Seq(Items), NEW n \in Int, Descending(s),
         \A item \in ToSet(s) : Len(item.rep) > n,
         \A item \in ToSet(t) : Len(item.rep) = n
  PROVE  Descending(s \o t)
<1>0. Len(s) \in Nat /\ Len(t) \in Nat
  OBVIOUS
<1> DEFINE whole == s \o t
<1>1. /\ Len(whole) = Len(s) + Len(t)
      /\ \A i \in 1..Len(s) : whole[i] = s[i]
      /\ \A i \in 1..Len(t) : whole[Len(s) + i] = t[i]
  <2>1. Concatenates(whole, s, t)
    BY Concatenated
  <2> QED
    BY <2>1 DEF Concatenates
<1>2. \A i \in 1..Len(s) : Len(s[i].rep) \in Nat /\ Len(s[i].rep) > n
  <2> TAKE i \in 1..Len(s)
  <2>1. s[i] \in Items /\ s[i] \in ToSet(s)
    BY DEF ToSet
  <2> QED
    BY <2>1, ItemTyped
<1>3. \A i \in 1..Len(t) : Len(t[i].rep) = n
  <2> TAKE i \in 1..Len(t)
  <2>1. t[i] \in ToSet(t)
    BY DEF ToSet
  <2> QED
    BY <2>1
<1> HIDE DEF whole
<1>4. ASSUME NEW i \in 1..Len(whole)
      PROVE  \/ i \in 1..Len(s) /\ whole[i] = s[i]
             \/ i > Len(s) /\ Len(whole[i].rep) = n
  <2>1. CASE i <= Len(s)
    <3>1. i \in 1..Len(s)
      BY <1>0, <2>1
    <3> QED
      BY <1>1, <3>1
  <2>2. CASE i > Len(s)
    <3>1. i - Len(s) \in 1..Len(t) /\ Len(s) + (i - Len(s)) = i
      BY <1>0, <1>1, <2>2
    <3>2. whole[i] = t[i - Len(s)]
      BY <1>1, <3>1
    <3> QED
      BY <1>3, <2>2, <3>1, <3>2
  <2> QED
    BY <1>0, <2>1, <2>2
<1>5. ASSUME NEW i \in 1..Len(whole), NEW j \in 1..Len(whole), i < j
      PROVE  Len(whole[i].rep) >= Len(whole[j].rep)
  <2>1. CASE j \in 1..Len(s) /\ whole[j] = s[j]
    <3>1. i \in 1..Len(s) /\ whole[i] = s[i]
      BY <1>0, <1>1, <1>5, <2>1
    <3> QED
      BY <1>5, <2>1, <3>1 DEF Descending
  <2>2. CASE j > Len(s) /\ Len(whole[j].rep) = n
    <3>1. CASE i \in 1..Len(s) /\ whole[i] = s[i]
      BY <1>2, <2>2, <3>1
    <3>2. CASE Len(whole[i].rep) = n
      BY <2>2, <3>2
    <3> QED
      BY <1>4, <3>1, <3>2
  <2> QED
    BY <1>4, <2>1, <2>2
<1> QED
  BY <1>5 DEF Descending, whole

LEMMA LongestFirstIs ==
  ASSUME NEW dict \in Seq(Items)
  PROVE  /\ LongestFirst(dict) \in Seq(Items)
         /\ ToSet(LongestFirst(dict)) = ToSet(dict)
         /\ Descending(LongestFirst(dict))
<1> DEFINE M == Longest(dict)
           seqs == [n \in 1..M |-> OfLength(dict, M + 1 - n)]
<1>0. M \in Nat /\ \A i \in 1..Len(dict) : Len(dict[i].rep) <= M
  BY LongestIs
<1>1. LongestFirst(dict) = FlattenSeq(seqs)
  BY DEF LongestFirst
<1> HIDE DEF M
<1>2. \A n \in 1..M : M + 1 - n \in Nat
  BY <1>0
<1>3. \A n \in 1..M : /\ OfLength(dict, M + 1 - n) \in Seq(Items)
                      /\ ToSet(OfLength(dict, M + 1 - n)) = {item \in ToSet(dict) : Len(item.rep) = M + 1 - n}
  BY <1>2, OfLengthIs
<1>4. seqs \in Seq(Seq(Items)) /\ Len(seqs) = M
  BY <1>0, <1>3
<1>5. \A n \in 1..M : ToSet(seqs[n]) = {item \in ToSet(dict) : Len(item.rep) = M + 1 - n}
  BY <1>3
<1> HIDE DEF seqs
<1>6. /\ FlattenSeq(seqs) \in Seq(Items)
      /\ ToSet(FlattenSeq(seqs)) = UNION {ToSet(seqs[n]) : n \in 1..M}
  BY <1>4, FlattenedSet
<1>7. ASSUME NEW item \in ToSet(dict)
      PROVE  \E n \in 1..M : item \in ToSet(seqs[n])
  <2>1. PICK i \in 1..Len(dict) : item = dict[i]
    BY <1>7 DEF ToSet
  <2>2. item \in Items
    BY <2>1
  <2>3. Len(item.rep) \in Nat \ {0} /\ Len(item.rep) <= M
    BY <1>0, <2>1, <2>2, ItemTyped
  <2>4. M + 1 - Len(item.rep) \in 1..M /\ M + 1 - (M + 1 - Len(item.rep)) = Len(item.rep)
    BY <1>0, <2>3
  <2> QED
    BY <1>5, <2>4
<1>8. ToSet(FlattenSeq(seqs)) = ToSet(dict)
  BY <1>5, <1>6, <1>7
<1>9. PICK f \in [0..M -> Seq(Items)] : Flattens(f, seqs)
  BY <1>4, Flattening
<1> DEFINE T == {n \in 0..M : /\ Descending(f[n])
                              /\ \A item \in ToSet(f[n]) : Len(item.rep) > M - n}
<1>10. 0 \in T
  <2>1. f[0] = <<>> /\ ToSet(<<>>) = {} /\ Descending(<<>>)
    BY <1>9 DEF Flattens, ToSet, Descending
  <2> QED
    BY <1>0, <2>1
<1>11. ASSUME NEW n \in 1..M, n - 1 \in T
       PROVE  n \in T
  <2>0. n \in 0..M /\ n - 1 \in 0..M /\ M - (n - 1) = M + 1 - n /\ M + 1 - n \in Int
    BY <1>0
  <2>1. f[n] = f[n - 1] \o seqs[n] /\ f[n - 1] \in Seq(Items) /\ seqs[n] \in Seq(Items)
    <3>1. f[n - 1] \in Seq(Items)
      BY <2>0
    <3>2. seqs[n] \in Seq(Items)
      BY <1>4
    <3> QED
      BY <1>4, <1>9, <3>1, <3>2 DEF Flattens
  <2>2. /\ Descending(f[n - 1])
        /\ \A item \in ToSet(f[n - 1]) : Len(item.rep) > M + 1 - n
    BY <1>11, <2>0
  <2>3. \A item \in ToSet(seqs[n]) : Len(item.rep) = M + 1 - n
    BY <1>5
  <2>4. Descending(f[n])
    BY <2>0, <2>1, <2>2, <2>3, DescendingOn
  <2>5. ToSet(f[n]) = ToSet(f[n - 1]) \union ToSet(seqs[n])
    BY <2>1, ConcatenatedSet
  <2>6. \A x \in Int : x > M + 1 - n => x > M - n
    BY <1>0
  <2>7. M + 1 - n > M - n
    BY <1>0
  <2>8. \A item \in ToSet(f[n - 1]) : Len(item.rep) \in Int
    <3>1. \A item \in ToSet(f[n - 1]) : item \in Items
      BY <2>1 DEF ToSet
    <3> QED
      BY <3>1, ItemTyped
  <2>9. \A item \in ToSet(f[n]) : Len(item.rep) > M - n
    BY <2>2, <2>3, <2>5, <2>6, <2>7, <2>8
  <2> QED
    BY <2>0, <2>4, <2>9
<1>12. Descending(f[M])
  <2>1. \A n \in 0..M : n \in T
    <3> HIDE DEF T
    <3> QED
      BY <1>0, <1>10, <1>11, BoundedInduction
  <2>2. M \in 0..M
    BY <1>0
  <2> QED
    BY <2>1, <2>2
<1>13. FlattenSeq(seqs) = f[M]
  BY <1>4, <1>9 DEF Flattens
<1> QED
  BY <1>1, <1>6, <1>8, <1>12, <1>13

-----------------------------------------------------------------------------
(* A scan, turn by turn.                                                    *)
ScanResult == [redacted: Seq(Characters), detections: SUBSET Labels]

ScansUpTo(f, items, text) ==
  /\ f[0] = Result(text, {})
  /\ \A n \in 1..Len(items) : f[n] = ScanTurn(f[n - 1], items[n])

LEMMA ResultTyped ==
  ASSUME NEW text \in Seq(Characters), NEW labels \in SUBSET Labels
  PROVE  /\ Result(text, labels) \in ScanResult
         /\ Result(text, labels).redacted = text
         /\ Result(text, labels).detections = labels
BY DEF Result, ScanResult

LEMMA ScanTurnIs ==
  ASSUME NEW result \in ScanResult, NEW item \in Items
  PROVE  /\ ScanTurn(result, item) \in ScanResult
         /\ Occurs(item.rep, result.redacted) =>
              /\ ScanTurn(result, item).redacted = Replaced(result.redacted, item.rep)
              /\ ScanTurn(result, item).detections = result.detections \union {item.label}
         /\ ~Occurs(item.rep, result.redacted) => ScanTurn(result, item) = result
<1>1. result.redacted \in Seq(Characters) /\ result.detections \in SUBSET Labels
  BY DEF ScanResult
<1>2. Replaced(result.redacted, item.rep) \in Seq(Characters)
  BY <1>1, ItemTyped, ReplacedGone
<1>3. result.detections \union {item.label} \in SUBSET Labels
  BY <1>1, ItemTyped
<1>4. CASE Occurs(item.rep, result.redacted)
  <2>1. ScanTurn(result, item) =
          Result(Replaced(result.redacted, item.rep), result.detections \union {item.label})
    BY <1>4 DEF ScanTurn
  <2> QED
    BY <1>2, <1>3, <1>4, <2>1, ResultTyped
<1>5. CASE ~Occurs(item.rep, result.redacted)
  BY <1>5 DEF ScanTurn
<1> QED
  BY <1>4, <1>5

LEMMA ScanFold ==
  ASSUME NEW dict, NEW items \in Seq(Items), LongestFirst(dict) = items,
         NEW text \in Seq(Characters)
  PROVE  \E f \in [0..Len(items) -> ScanResult] :
           ScansUpTo(f, items, text) /\ Scan(dict, text) = f[Len(items)]
<1> DEFINE N == Len(items)
           X == ScanResult
           base == Result(text, {})
           Eq(f) == f = [n \in 0..N |-> IF n = 0 THEN base ELSE ScanTurn(f[n - 1], items[n])]
           turn == [x \in X |-> [n \in Nat |-> IF n \in 1..N THEN ScanTurn(x, items[n]) ELSE x]]
<1>0. N \in Nat /\ base \in X /\ \A n \in 1..N : items[n] \in Items
  BY ResultTyped
<1>1. \A x \in X, n \in 1..N : ScanTurn(x, items[n]) \in X
  BY <1>0, ScanTurnIs
<1>2. turn \in [X -> [Nat -> X]]
  <2> HIDE DEF X, N
  <2> QED
    BY <1>1
<1>3. \E f : Eq(f)
  <2>1. PICK f \in [0..N -> X] : Turns(f, N, base, turn)
    <3> HIDE DEF N, X, base, turn
    <3> QED
      BY <1>0, <1>2, BoundedIteration
  <2>2. ASSUME NEW n \in 0..N, n # 0
        PROVE  turn[f[n - 1]][n] = ScanTurn(f[n - 1], items[n])
    <3>1. n \in 1..N /\ n - 1 \in 0..N /\ n \in Nat
      BY <2>2, <1>0
    <3>2. f[n - 1] \in X
      BY <3>1, <2>1
    <3> HIDE DEF X, N
    <3> QED
      BY <3>1, <3>2
  <2> HIDE DEF X, turn, N, base
  <2>3. Eq(f)
    BY <2>1, <2>2 DEF Turns
  <2> QED
    BY <2>3
<1>4. PICK f : Eq(f) /\ Scan(dict, text) = f[N]
  <2> DEFINE f == CHOOSE f : Eq(f)
  <2>1. Eq(f)
    BY <1>3
  <2>2. Scan(dict, text) = f[N]
    BY DEF Scan
  <2> QED
    BY <2>1, <2>2
<1>5. ASSUME NEW n \in 1..N
      PROVE  f[n] = ScanTurn(f[n - 1], items[n])
  <2>1. n \in 0..N /\ n # 0
    BY <1>0
  <2> HIDE DEF N
  <2> QED
    BY <1>4, <2>1
<1>6. f[0] = base
  BY <1>0, <1>4
<1>7. \A n \in 0..N : f[n] \in X
  <2> DEFINE T == {n \in 0..N : f[n] \in X}
  <2>1. 0 \in T
    BY <1>0, <1>6
  <2>2. ASSUME NEW n \in 1..N, n - 1 \in T
        PROVE  n \in T
    <3>1. f[n - 1] \in X /\ n \in 0..N
      BY <1>0, <2>2
    <3> QED
      BY <1>1, <1>5, <3>1
  <2> HIDE DEF T, N
  <2>3. \A n \in 0..N : n \in T
    BY <1>0, <2>1, <2>2, BoundedInduction
  <2> QED
    BY <2>3 DEF T
<1>8. f \in [0..N -> X]
  <2> HIDE DEF N, X
  <2> QED
    BY <1>4, <1>7
<1>9. ScansUpTo(f, items, text)
  BY <1>5, <1>6 DEF ScansUpTo
<1> QED
  BY <1>4, <1>8, <1>9

(* What holds after each turn.                                              *)
AfterTurns(result, items, n, text) ==
  /\ \A k \in 1..n : ~Occurs(items[k].rep, result.redacted)
  /\ \A s \in Redactable : Occurs(s, result.redacted) => Occurs(s, text)
  /\ \A label \in result.detections :
       \E k \in 1..n : items[k].label = label /\ Occurs(items[k].rep, text)
  /\ result.detections = {} => result.redacted = text

LEMMA AfterTurn ==
  ASSUME NEW items \in Seq(Items), NEW text \in Seq(Characters), NEW n \in 1..Len(items),
         NEW result \in ScanResult, AfterTurns(result, items, n - 1, text)
  PROVE  AfterTurns(ScanTurn(result, items[n]), items, n, text)
<1> DEFINE item == items[n]
           rep == items[n].rep
           next == ScanTurn(result, items[n])
           old == result.redacted
<1>0. /\ item \in Items /\ rep \in Redactable
      /\ n \in Nat /\ n \in 1..n
      /\ \A k \in 1..(n - 1) : k \in 1..n
      /\ \A k \in 1..n : k \in 1..(n - 1) \/ k = n
  <2>1. item \in Items
    OBVIOUS
  <2> QED
    BY <2>1, ItemTyped
<1>1. \A k \in 1..n : items[k].rep \in Redactable
  <2> TAKE k \in 1..n
  <2>1. items[k] \in Items
    BY <1>0
  <2> QED
    BY <2>1, ItemTyped
<1>2. old \in Seq(Characters)
  BY DEF ScanResult
<1>3. CASE Occurs(rep, old)
  <2>1. next.redacted = Replaced(old, rep) /\ next.detections = result.detections \union {item.label}
    BY <1>0, <1>3, ScanTurnIs
  <2>2. ~Occurs(rep, Replaced(old, rep))
    BY <1>0, <1>2, ReplacedGone
  <2>3. \A s \in Redactable : Occurs(s, Replaced(old, rep)) => Occurs(s, old)
    BY <1>0, <1>2, ReplacedMakesNone
  <2> HIDE DEF next
  <2>4. \A k \in 1..n : ~Occurs(items[k].rep, next.redacted)
    <3> TAKE k \in 1..n
    <3>1. CASE k = n
      BY <2>1, <2>2, <3>1
    <3>2. CASE k \in 1..(n - 1)
      <4>1. ~Occurs(items[k].rep, old)
        BY <3>2 DEF AfterTurns
      <4> QED
        BY <1>1, <2>1, <2>3, <4>1
    <3> QED
      BY <1>0, <3>1, <3>2
  <2>5. \A s \in Redactable : Occurs(s, next.redacted) => Occurs(s, text)
    BY <2>1, <2>3 DEF AfterTurns
  <2>6. \A label \in next.detections :
          \E k \in 1..n : items[k].label = label /\ Occurs(items[k].rep, text)
    <3> TAKE label \in next.detections
    <3>1. CASE label \in result.detections
      <4>1. PICK k \in 1..(n - 1) : items[k].label = label /\ Occurs(items[k].rep, text)
        BY <3>1 DEF AfterTurns
      <4> QED
        BY <1>0, <4>1
    <3>2. CASE label = item.label
      <4>1. Occurs(rep, text)
        BY <1>0, <1>3 DEF AfterTurns
      <4> QED
        BY <1>0, <3>2, <4>1
    <3> QED
      BY <2>1, <3>1, <3>2
  <2>7. next.detections # {}
    BY <2>1
  <2> QED
    BY <2>4, <2>5, <2>6, <2>7 DEF AfterTurns, next
<1>4. CASE ~Occurs(rep, old)
  <2>1. next = result
    BY <1>0, <1>4, ScanTurnIs
  <2> HIDE DEF next
  <2>2. \A k \in 1..n : ~Occurs(items[k].rep, result.redacted)
    BY <1>0, <1>4 DEF AfterTurns
  <2>3. \A label \in result.detections :
          \E k \in 1..n : items[k].label = label /\ Occurs(items[k].rep, text)
    <3> TAKE label \in result.detections
    <3>1. PICK k \in 1..(n - 1) : items[k].label = label /\ Occurs(items[k].rep, text)
      BY DEF AfterTurns
    <3> QED
      BY <1>0, <3>1
  <2>4. AfterTurns(result, items, n, text)
    BY <2>2, <2>3 DEF AfterTurns
  <2> QED
    BY <2>1, <2>4 DEF next
<1> QED
  BY <1>3, <1>4

(* The whole scan.                                                          *)
LEMMA ScanIs ==
  ASSUME NEW dict \in Seq(Items), NEW text \in Seq(Characters)
  PROVE  /\ Scan(dict, text) \in ScanResult
         /\ AfterTurns(Scan(dict, text), LongestFirst(dict), Len(LongestFirst(dict)), text)
<1> DEFINE items == LongestFirst(dict)
           N == Len(items)
<1>0. items \in Seq(Items) /\ N \in Nat
  BY LongestFirstIs
<1> HIDE DEF items
<1>1. PICK f \in [0..N -> ScanResult] :
        ScansUpTo(f, items, text) /\ Scan(dict, text) = f[N]
  BY <1>0, ScanFold DEF items
<1> DEFINE T == {n \in 0..N : AfterTurns(f[n], items, n, text)}
<1>2. 0 \in T
  <2>1. f[0].redacted = text /\ f[0].detections = {}
    BY <1>1, ResultTyped DEF ScansUpTo
  <2>2. AfterTurns(f[0], items, 0, text)
    BY <2>1 DEF AfterTurns
  <2> QED
    BY <1>0, <2>2
<1>3. ASSUME NEW n \in 1..N, n - 1 \in T
      PROVE  n \in T
  <2>1. n - 1 \in 0..N /\ n \in 0..N
    BY <1>0
  <2>2. f[n - 1] \in ScanResult
    BY <2>1
  <2>3. f[n] = ScanTurn(f[n - 1], items[n])
    BY <1>1 DEF ScansUpTo
  <2>4. AfterTurns(f[n - 1], items, n - 1, text)
    BY <1>3
  <2>5. AfterTurns(ScanTurn(f[n - 1], items[n]), items, n, text)
    BY <1>0, <2>2, <2>4, AfterTurn
  <2> QED
    BY <2>1, <2>3, <2>5
<1>4. \A n \in 0..N : n \in T
  <2> HIDE DEF T, N
  <2> QED
    BY <1>0, <1>2, <1>3, BoundedInduction
<1>5. N \in 0..N
  BY <1>0
<1>6. f[N] \in ScanResult /\ AfterTurns(f[N], items, N, text)
  BY <1>4, <1>5
<1> QED
  BY <1>1, <1>6 DEF items

LEMMA ItemsOfDict ==
  ASSUME NEW dict \in Seq(Items)
  PROVE  /\ \A i \in 1..Len(dict) : \E k \in 1..Len(LongestFirst(dict)) : LongestFirst(dict)[k] = dict[i]
         /\ \A k \in 1..Len(LongestFirst(dict)) : \E i \in 1..Len(dict) : LongestFirst(dict)[k] = dict[i]
<1> DEFINE items == LongestFirst(dict)
<1>1. items \in Seq(Items) /\ ToSet(items) = ToSet(dict)
  BY LongestFirstIs
<1> HIDE DEF items
<1>2. DOMAIN items = 1..Len(items) /\ DOMAIN dict = 1..Len(dict)
  BY <1>1
<1> QED
  BY <1>1, <1>2 DEF ToSet, items

(* No representation is left; what is reported was there.                   *)
LEMMA ScanRedacts ==
  ASSUME NEW dict \in Seq(Items), NEW text \in Seq(Characters), NEW i \in 1..Len(dict)
  PROVE  ~Occurs(dict[i].rep, Scan(dict, text).redacted)
BY ItemsOfDict, ScanIs DEF AfterTurns

LEMMA ScanReports ==
  ASSUME NEW dict \in Seq(Items), NEW text \in Seq(Characters),
         NEW label \in Scan(dict, text).detections
  PROVE  \E i \in 1..Len(dict) : dict[i].label = label /\ Occurs(dict[i].rep, text)
<1> DEFINE items == LongestFirst(dict)
<1>1. PICK k \in 1..Len(items) : items[k].label = label /\ Occurs(items[k].rep, text)
  BY ScanIs DEF AfterTurns
<1>2. PICK i \in 1..Len(dict) : items[k] = dict[i]
  BY ItemsOfDict
<1> QED
  BY <1>1, <1>2

LEMMA ReportedIsChanged ==
  ASSUME NEW dict \in Seq(Items), NEW text \in Seq(Characters)
  PROVE  Scan(dict, text).detections = {} <=> Scan(dict, text).redacted = text
<1>1. ASSUME Scan(dict, text).detections = {}
      PROVE  Scan(dict, text).redacted = text
  BY <1>1, ScanIs DEF AfterTurns
<1>2. ASSUME Scan(dict, text).redacted = text, NEW label \in Scan(dict, text).detections
      PROVE  FALSE
  <2>1. PICK i \in 1..Len(dict) : Occurs(dict[i].rep, text)
    BY ScanReports
  <2> QED
    BY <1>2, <2>1, ScanRedacts
<1> QED
  BY <1>1, <1>2

LEMMA NothingToScan ==
  ASSUME NEW dict \in Seq(Items), NEW text \in Seq(Characters),
         \A i \in 1..Len(dict) : ~Occurs(dict[i].rep, text)
  PROVE  Scan(dict, text) = Result(text, {})
<1>1. Scan(dict, text) \in ScanResult
  BY ScanIs
<1>2. Scan(dict, text).detections = {}
  BY ScanReports
<1>3. Scan(dict, text).redacted = text
  BY <1>2, ReportedIsChanged
<1> QED
  BY <1>1, <1>2, <1>3 DEF ScanResult, Result

-----------------------------------------------------------------------------
(* The dict.                                                                *)
Distinct(dict) == \A i, j \in DOMAIN dict : i # j => dict[i].rep # dict[j].rep

Reps(dict) == {dict[i].rep : i \in DOMAIN dict}

LEMMA DictSetIs ==
  ASSUME NEW dict \in Seq(Items), NEW item \in Items, Distinct(dict)
  PROVE  /\ DictSet(dict, item) \in Seq(Items)
         /\ Distinct(DictSet(dict, item))
         /\ Reps(DictSet(dict, item)) = Reps(dict) \union {item.rep}
<1>0. DOMAIN dict = 1..Len(dict) /\ Len(dict) \in Nat /\ \A i \in DOMAIN dict : dict[i] \in Items
  OBVIOUS
<1>1. CASE \E i \in DOMAIN dict : dict[i].rep = item.rep
  <2> DEFINE new == [i \in DOMAIN dict |-> IF dict[i].rep = item.rep THEN item ELSE dict[i]]
  <2>1. DictSet(dict, item) = new
    BY <1>1 DEF DictSet
  <2>2. new \in Seq(Items)
    BY <1>0
  <2>3. DOMAIN new = DOMAIN dict /\ \A i \in DOMAIN dict : new[i].rep = dict[i].rep
    OBVIOUS
  <2> HIDE DEF new
  <2>4. Distinct(new)
    BY <2>3 DEF Distinct
  <2>5. Reps(new) = Reps(dict)
    BY <2>3 DEF Reps
  <2>6. item.rep \in Reps(dict)
    BY <1>1 DEF Reps
  <2> QED
    BY <2>1, <2>2, <2>4, <2>5, <2>6
<1>2. CASE ~\E i \in DOMAIN dict : dict[i].rep = item.rep
  <2> DEFINE new == Append(dict, item)
             N == Len(dict)
  <2>1. DictSet(dict, item) = new
    BY <1>2 DEF DictSet
  <2>2. /\ new \in Seq(Items) /\ DOMAIN new = 1..(N + 1)
        /\ new[N + 1] = item /\ \A i \in 1..N : new[i] = dict[i]
    BY <1>0
  <2>3. \A i \in 1..(N + 1) : i \in 1..N \/ i = N + 1
    BY <1>0
  <2>4. N + 1 \in 1..(N + 1) /\ \A i \in 1..N : i \in 1..(N + 1)
    BY <1>0
  <2> HIDE DEF new
  <2>5. Distinct(new)
    BY <1>0, <1>2, <2>2, <2>3 DEF Distinct
  <2>6. Reps(new) = Reps(dict) \union {item.rep}
    BY <1>0, <2>2, <2>3, <2>4 DEF Reps
  <2> QED
    BY <2>1, <2>2, <2>5, <2>6
<1> QED
  BY <1>1, <1>2

LEMMA DictUpdateIs ==
  ASSUME NEW dict \in Seq(Items), Distinct(dict), NEW items \in Seq(Items)
  PROVE  /\ DictUpdate(dict, items) \in Seq(Items)
         /\ Distinct(DictUpdate(dict, items))
         /\ Reps(DictUpdate(dict, items)) = Reps(dict) \union Reps(items)
<1> DEFINE N == Len(items)
           X == {x \in Seq(Items) : Distinct(x)}
           Eq(f) == f = [n \in 0..N |-> IF n = 0 THEN dict ELSE DictSet(f[n - 1], items[n])]
           turn == [x \in X |-> [n \in Nat |-> IF n \in 1..N THEN DictSet(x, items[n]) ELSE x]]
<1>0. /\ N \in Nat /\ dict \in X /\ DOMAIN items = 1..N
      /\ \A n \in 1..N : items[n] \in Items
  OBVIOUS
<1>1. \A x \in X, n \in 1..N : DictSet(x, items[n]) \in X
  BY <1>0, DictSetIs
<1>2. turn \in [X -> [Nat -> X]]
  <2> HIDE DEF X, N
  <2> QED
    BY <1>1
<1>3. \E f : Eq(f)
  <2>1. PICK f \in [0..N -> X] : Turns(f, N, dict, turn)
    <3> HIDE DEF N, X, turn
    <3> QED
      BY <1>0, <1>2, BoundedIteration
  <2>2. ASSUME NEW n \in 0..N, n # 0
        PROVE  turn[f[n - 1]][n] = DictSet(f[n - 1], items[n])
    <3>1. n \in 1..N /\ n - 1 \in 0..N /\ n \in Nat
      BY <2>2, <1>0
    <3>2. f[n - 1] \in X
      BY <3>1, <2>1
    <3> HIDE DEF X, N
    <3> QED
      BY <3>1, <3>2
  <2> HIDE DEF X, turn, N
  <2>3. Eq(f)
    BY <2>1, <2>2 DEF Turns
  <2> QED
    BY <2>3
<1>4. PICK f : Eq(f) /\ DictUpdate(dict, items) = f[N]
  <2> DEFINE f == CHOOSE f : Eq(f)
  <2>1. Eq(f)
    BY <1>3
  <2>2. DictUpdate(dict, items) = f[N]
    BY DEF DictUpdate
  <2> QED
    BY <2>1, <2>2
<1>5. ASSUME NEW n \in 1..N
      PROVE  f[n] = DictSet(f[n - 1], items[n])
  <2>1. n \in 0..N /\ n # 0
    BY <1>0
  <2> HIDE DEF N
  <2> QED
    BY <1>4, <2>1
<1>6. f[0] = dict
  BY <1>0, <1>4
<1> DEFINE Upto(n) == {items[k].rep : k \in 1..n}
           T == {n \in 0..N : f[n] \in X /\ Reps(f[n]) = Reps(dict) \union Upto(n)}
<1>7. 0 \in T
  <2>1. Upto(0) = {}
    OBVIOUS
  <2> HIDE DEF Upto
  <2> QED
    BY <1>0, <1>6, <2>1
<1>8. ASSUME NEW n \in 1..N, n - 1 \in T
      PROVE  n \in T
  <2>1. f[n - 1] \in X /\ n \in 0..N /\ Reps(f[n - 1]) = Reps(dict) \union Upto(n - 1)
    BY <1>0, <1>8
  <2>2. /\ DictSet(f[n - 1], items[n]) \in X
        /\ Reps(DictSet(f[n - 1], items[n])) = Reps(f[n - 1]) \union {items[n].rep}
    BY <1>0, <2>1, DictSetIs
  <2>3. Upto(n) = Upto(n - 1) \union {items[n].rep}
    <3>1. /\ \A k \in 1..n : k \in 1..(n - 1) \/ k = n
          /\ \A k \in 1..(n - 1) : k \in 1..n
          /\ n \in 1..n
      BY <1>0
    <3> QED
      BY <3>1
  <2> HIDE DEF Upto, X
  <2> QED
    BY <1>5, <2>1, <2>2, <2>3
<1>9. N \in T
  <2>1. \A n \in 0..N : n \in T
    <3> HIDE DEF T, N
    <3> QED
      BY <1>0, <1>7, <1>8, BoundedInduction
  <2>2. N \in 0..N
    BY <1>0
  <2> QED
    BY <2>1, <2>2
<1>10. Upto(N) = Reps(items)
  BY <1>0 DEF Reps
<1> QED
  BY <1>4, <1>9, <1>10

LEMMA ItemIs ==
  ASSUME NEW rep \in Redactable, NEW label \in Labels
  PROVE  Item(rep, label) \in Items
BY DEF Item, Items

LEMMA EncodingsIs ==
  ASSUME NEW value \in Values
  PROVE  Encodings(value) \in Seq(Items) /\ Reps(Encodings(value)) = Promised(value)
<1> DEFINE r1 == value
           r2 == Base64[value]
           r3 == Rstrip(Base64[value])
           r4 == Urlsafe(Base64[value])
           r5 == Rstrip(Urlsafe(Base64[value]))
           r6 == Hex[value]
           r7 == Upper(Hex[value])
<1>1. Promised(value) = {r1, r2, r3, r4, r5, r6, r7}
  BY DEF Promised
<1>2. Encodings(value) =
        <<Item(r1, "secret_value"), Item(r2, "secret_base64"), Item(r3, "secret_base64"),
          Item(r4, "secret_base64"), Item(r5, "secret_base64"), Item(r6, "secret_hex"),
          Item(r7, "secret_hex")>>
  BY DEF Encodings
<1>3. {r1, r2, r3, r4, r5, r6, r7} \subseteq Redactable
  BY <1>1, PromisedRedactable
<1> HIDE DEF r1, r2, r3, r4, r5, r6, r7
<1> DEFINE i1 == Item(r1, "secret_value")
           i2 == Item(r2, "secret_base64")
           i3 == Item(r3, "secret_base64")
           i4 == Item(r4, "secret_base64")
           i5 == Item(r5, "secret_base64")
           i6 == Item(r6, "secret_hex")
           i7 == Item(r7, "secret_hex")
           items == <<i1, i2, i3, i4, i5, i6, i7>>
<1>a. /\ i1 \in Items /\ i2 \in Items /\ i3 \in Items /\ i4 \in Items
      /\ i5 \in Items /\ i6 \in Items /\ i7 \in Items
  <2>1. /\ r1 \in Redactable /\ r2 \in Redactable /\ r3 \in Redactable /\ r4 \in Redactable
        /\ r5 \in Redactable /\ r6 \in Redactable /\ r7 \in Redactable
    BY <1>3
  <2>2. "secret_value" \in Labels /\ "secret_base64" \in Labels /\ "secret_hex" \in Labels
    BY DEF Labels
  <2> QED
    BY <2>1, <2>2, ItemIs
<1>b. /\ i1.rep = r1 /\ i2.rep = r2 /\ i3.rep = r3 /\ i4.rep = r4
      /\ i5.rep = r5 /\ i6.rep = r6 /\ i7.rep = r7
  BY DEF Item
<1>c. Encodings(value) = items
  BY <1>2
<1> HIDE DEF i1, i2, i3, i4, i5, i6, i7
<1>5. items \in Seq(Items)
  BY <1>a
<1>6. DOMAIN items = {1, 2, 3, 4, 5, 6, 7}
  OBVIOUS
<1>7. /\ items[1].rep = r1 /\ items[2].rep = r2 /\ items[3].rep = r3 /\ items[4].rep = r4
      /\ items[5].rep = r5 /\ items[6].rep = r6 /\ items[7].rep = r7
  BY <1>b
<1> HIDE DEF items
<1>8. Reps(items) = {r1, r2, r3, r4, r5, r6, r7}
  BY <1>6, <1>7 DEF Reps
<1> QED
  BY <1>1, <1>c, <1>5, <1>8 DEF items

LEMMA PieceOfText ==
  ASSUME NEW c \in Characters, NEW piece \in Seq(Characters)
  PROVE  <<c>> \o piece \in Seq(Characters)
OBVIOUS

LEMMA JoinTyped ==
  ASSUME NEW pieces \in Seq(Seq(Characters))
  PROVE  Join(pieces) \in Seq(Characters)
<1> DEFINE parts == [i \in DOMAIN pieces |-> IF i = 1 THEN pieces[i] ELSE <<Separator>> \o pieces[i]]
<1>1. \A i \in 1..Len(pieces) : pieces[i] \in Seq(Characters) /\ <<Separator>> \o pieces[i] \in Seq(Characters)
  <2> TAKE i \in 1..Len(pieces)
  <2>1. pieces[i] \in Seq(Characters)
    OBVIOUS
  <2> QED
    BY <2>1, PieceOfText, ScannerAssumption
<1>2. parts \in Seq(Seq(Characters))
  <2> DEFINE Part(i) == IF i = 1 THEN pieces[i] ELSE <<Separator>> \o pieces[i]
  <2>1. \A i \in 1..Len(pieces) : Part(i) \in Seq(Characters)
    BY <1>1
  <2>2. parts = [i \in 1..Len(pieces) |-> Part(i)] /\ Len(pieces) \in Nat
    OBVIOUS
  <2> HIDE DEF parts, Part
  <2> QED
    BY <2>1, <2>2
<1> HIDE DEF parts
<1>3. FlattenSeq(parts) \in Seq(Characters)
  BY <1>2, FlattenedSet
<1> QED
  BY <1>3 DEF Join, parts

-----------------------------------------------------------------------------
(* The scanner's invariant: its items are redactable, one for each          *)
(* representation of what was registered, and the last scan is a scan by    *)
(* the dict as it is.                                                       *)
ScanCurrent ==
  scanned # NotScanned =>
    \E message \in Messages :
      scanned = [message |-> message, result |-> Scan(reps, Join(message))]

ScannerInv == reps \in Seq(Items) /\ TypeOK /\ ScanCurrent

LEMMA TypeOKIs ==
  TypeOK <=> Distinct(reps) /\ Reps(reps) = Secret /\ taught \subseteq Values
BY DEF TypeOK, Distinct, Reps

LEMMA RegisterKeeps ==
  ASSUME ScannerInv, NEW value \in Values, Register(value)
  PROVE  ScannerInv'
<1>1. Encodings(value) \in Seq(Items) /\ Reps(Encodings(value)) = Promised(value)
  BY EncodingsIs
<1>2. reps \in Seq(Items) /\ Distinct(reps) /\ Reps(reps) = Secret /\ taught \subseteq Values
  BY TypeOKIs DEF ScannerInv
<1>3. /\ reps' = DictUpdate(reps, Encodings(value))
      /\ taught' = taught \union {value}
      /\ scanned' = NotScanned
  BY DEF Register
<1>4. /\ reps' \in Seq(Items)
      /\ Distinct(reps')
      /\ Reps(reps') = Reps(reps) \union Reps(Encodings(value))
  BY <1>1, <1>2, <1>3, DictUpdateIs
<1>5. Secret' = Secret \union Promised(value)
  BY <1>3 DEF Secret
<1>6. Reps(reps') = Secret'
  BY <1>1, <1>2, <1>4, <1>5
<1>7. TypeOK'
  BY <1>2, <1>3, <1>4, <1>6 DEF TypeOK, Distinct, Reps
<1>8. ScanCurrent'
  BY <1>3 DEF ScanCurrent
<1> QED
  BY <1>4, <1>7, <1>8 DEF ScannerInv

LEMMA ScannerInvariant == Spec => []ScannerInv
<1>1. Init => ScannerInv
  <2> SUFFICES ASSUME Init PROVE ScannerInv
    OBVIOUS
  <2>1. reps = <<>> /\ taught = {} /\ scanned = NotScanned
    BY DEF Init
  <2>2. Secret = {} /\ Reps(reps) = {} /\ Distinct(reps)
    BY <2>1 DEF Secret, Reps, Distinct
  <2>3. TypeOK
    BY <2>1, <2>2, TypeOKIs
  <2>4. reps \in Seq(Items)
    BY <2>1
  <2> QED
    BY <2>1, <2>3, <2>4 DEF ScannerInv, ScanCurrent
<1>2. ScannerInv /\ [Next]_vars => ScannerInv'
  <2> SUFFICES ASSUME ScannerInv, [Next]_vars
               PROVE  ScannerInv'
    OBVIOUS
  <2>1. ASSUME NEW value \in Values, Register(value)
        PROVE  ScannerInv'
    BY <2>1, RegisterKeeps
  <2>2. ASSUME NEW message \in Messages, ScanMessage(message)
        PROVE  ScannerInv'
    <3>1. /\ reps' = reps /\ taught' = taught
          /\ scanned' = [message |-> message, result |-> Scan(reps, Join(message))]
      BY <2>2 DEF ScanMessage
    <3>2. scanned' = [message |-> message, result |-> Scan(reps', Join(message))]
      BY <3>1
    <3>3. TypeOK'
      BY <3>1 DEF ScannerInv, TypeOK, Secret, Promised
    <3>4. ScanCurrent'
      BY <2>2, <3>2 DEF ScanCurrent
    <3> QED
      BY <3>1, <3>3, <3>4 DEF ScannerInv
  <2>3. CASE UNCHANGED vars
    <3>1. reps' = reps /\ taught' = taught /\ scanned' = scanned
      BY <2>3 DEF vars
    <3>2. TypeOK'
      BY <3>1 DEF ScannerInv, TypeOK, Secret, Promised
    <3>3. ScanCurrent'
      BY <3>1 DEF ScannerInv, ScanCurrent
    <3> QED
      BY <3>1, <3>2, <3>3 DEF ScannerInv
  <2> QED
    BY <2>1, <2>2, <2>3 DEF Next
<1> QED
  BY <1>1, <1>2, PTL DEF Spec

(* What a state with a scan in it is.                                       *)
LEMMA ScannedIs ==
  ASSUME ScannerInv, scanned # NotScanned
  PROVE  /\ reps \in Seq(Items)
         /\ Secret = Reps(reps)
         /\ scanned.message \in Seq(Seq(Characters))
         /\ Join(scanned.message) \in Seq(Characters)
         /\ scanned.result = Scan(reps, Join(scanned.message))
<1>1. PICK message \in Messages :
        scanned = [message |-> message, result |-> Scan(reps, Join(message))]
  BY DEF ScannerInv, ScanCurrent
<1>2. scanned.message = message /\ scanned.result = Scan(reps, Join(message))
  BY <1>1
<1>3. message \in Seq(Seq(Characters))
  BY ScannerAssumption
<1>4. Join(message) \in Seq(Characters)
  BY <1>3, JoinTyped
<1>5. reps \in Seq(Items) /\ Secret = Reps(reps)
  BY TypeOKIs DEF ScannerInv
<1> QED
  BY <1>2, <1>3, <1>4, <1>5

(* The dict has exactly one item for each representation of each value that *)
(* was registered, however often and in whatever order.                     *)
THEOREM TypeCorrect == Spec => []TypeOK
<1>1. ScannerInv => TypeOK
  BY DEF ScannerInv
<1> QED
  BY <1>1, ScannerInvariant, PTL

(* After a scan no representation of a registered value can be found in the *)
(* text: replacing the others neither uncovers one nor pieces one together. *)
THEOREM NothingSurvivesCorrect == Spec => []NothingSurvives
<1>1. ScannerInv => NothingSurvives
  <2> SUFFICES ASSUME ScannerInv, scanned # NotScanned, NEW rep \in Secret
               PROVE  ~Occurs(rep, scanned.result.redacted)
    BY DEF NothingSurvives
  <2>1. PICK i \in 1..Len(reps) : rep = reps[i].rep
    BY ScannedIs DEF Reps
  <2> QED
    BY <2>1, ScannedIs, ScanRedacts
<1> QED
  BY <1>1, ScannerInvariant, PTL

(* To scan what was scanned changes and reports nothing.                    *)
THEOREM RescanIsHarmlessCorrect == Spec => []RescanIsHarmless
<1>1. ScannerInv => RescanIsHarmless
  <2> SUFFICES ASSUME ScannerInv, scanned # NotScanned
               PROVE  Scan(reps, scanned.result.redacted) = Result(scanned.result.redacted, {})
    BY DEF RescanIsHarmless
  <2> DEFINE text == scanned.result.redacted
  <2>1. reps \in Seq(Items)
    BY ScannedIs
  <2>2. \A i \in 1..Len(reps) : ~Occurs(reps[i].rep, text)
    BY ScannedIs, ScanRedacts
  <2>3. text \in Seq(Characters)
    BY ScannedIs, ScanIs DEF ScanResult
  <2> HIDE DEF text
  <2>4. Scan(reps, text) = Result(text, {})
    BY <2>1, <2>2, <2>3, NothingToScan
  <2> QED
    BY <2>4 DEF text
<1> QED
  BY <1>1, ScannerInvariant, PTL

(* A scan reports something exactly when it changes the text, and only what *)
(* was in the text as it came.                                              *)
THEOREM DetectionsTruthfulCorrect == Spec => []DetectionsTruthful
<1>1. ScannerInv => DetectionsTruthful
  <2> SUFFICES ASSUME ScannerInv, scanned # NotScanned
               PROVE  /\ scanned.result.detections = {}
                           <=> scanned.result.redacted = Join(scanned.message)
                      /\ \A label \in scanned.result.detections :
                           \E i \in DOMAIN reps :
                             reps[i].label = label /\ Occurs(reps[i].rep, Join(scanned.message))
    BY DEF DetectionsTruthful
  <2> DEFINE text == Join(scanned.message)
  <2>1. reps \in Seq(Items) /\ text \in Seq(Characters) /\ scanned.result = Scan(reps, text)
    BY ScannedIs
  <2> HIDE DEF text
  <2>2. scanned.result.detections = {} <=> scanned.result.redacted = text
    BY <2>1, ReportedIsChanged
  <2>3. DOMAIN reps = 1..Len(reps)
    BY <2>1
  <2>4. \A label \in scanned.result.detections :
          \E i \in DOMAIN reps : reps[i].label = label /\ Occurs(reps[i].rep, text)
    BY <2>1, <2>3, ScanReports
  <2> QED
    BY <2>2, <2>4 DEF text
<1> QED
  BY <1>1, ScannerInvariant, PTL

-----------------------------------------------------------------------------
(* What stands apart is replaced apart.                                     *)
RestAt(text, i, rest) ==
  /\ rest \in Seq(Characters)
  /\ Len(rest) = Len(text) - i + 1
  /\ \A k \in 1..(Len(text) - i + 1) : rest[k] = text[i + k - 1]

LEMMA RestOf ==
  ASSUME NEW text \in Seq(Characters), NEW i \in 1..(Len(text) + 1)
  PROVE  RestAt(text, i, SubSeq(text, i, Len(text)))
<1> DEFINE N == Len(text)
<1>1. N \in Nat /\ N = Len(text) /\ (\A k \in i..N : text[k] \in Characters)
  OBVIOUS
<1>2. i \in Nat \ {0} /\ i <= N + 1
  BY <1>1
<1> HIDE DEF N
<1>3. SubSeq(text, i, N) \in Seq(Characters) /\ Len(SubSeq(text, i, N)) = N - i + 1
  BY <1>1, <1>2
<1>4. \A k \in 1..(N - i + 1) : SubSeq(text, i, N)[k] = text[i + k - 1]
  BY <1>1, <1>2
<1> QED
  BY <1>1, <1>3, <1>4 DEF RestAt

LEMMA ReplacedSame ==
  ASSUME NEW text \in Seq(Characters), NEW rep \in Redactable, ~Occurs(rep, text)
  PROVE  Replaced(text, rep) = text
<1> DEFINE N == Len(text)
<1>0. N \in Nat /\ DOMAIN text = 1..N /\ rep \in Seq(Characters) \ {<<>>}
  BY DEF Redactable
<1>1. PICK from \in [1..(N + 1) -> Seq(Characters)] : Replaces(from, text, rep)
  BY <1>0, Replacing
<1>2. ASSUME NEW i \in 1..N
      PROVE  from[i] = <<text[i]>> \o from[i + 1] /\ text[i] \in Characters
  <2>1. ~OccursAt(rep, text, i)
    BY <1>0 DEF Occurs
  <2>2. text[i] \in Characters
    BY <1>0
  <2> QED
    BY <1>1, <2>1, <2>2 DEF Replaces
<1> DEFINE T == {i \in 1..(N + 1) : from[i] = SubSeq(text, i, N)}
<1>3. ASSUME NEW i \in 1..(N + 1), \A j \in 1..(N + 1) : j > i => j \in T
      PROVE  i \in T
  <2>1. CASE i = N + 1
    <3>1. from[i] = <<>>
      BY <1>1, <2>1 DEF Replaces
    <3>2. SubSeq(text, N + 1, N) = <<>>
      BY <1>0
    <3> QED
      BY <2>1, <3>1, <3>2
  <2>2. CASE i # N + 1
    <3>1. i \in 1..N /\ i + 1 \in 1..(N + 1) /\ i + 1 > i
      BY <1>0, <2>2
    <3>2. from[i + 1] = SubSeq(text, i + 1, N)
      BY <1>3, <3>1
    <3> DEFINE rest == SubSeq(text, i + 1, N)
               whole == SubSeq(text, i, N)
    <3>3. /\ rest \in Seq(Characters) /\ Len(rest) = N - i
          /\ \A k \in 1..(N - i) : rest[k] = text[i + k]
      <4>1. i + 1 \in 1..(N + 1) /\ N - (i + 1) + 1 = N - i
        BY <1>0, <3>1
      <4>2. RestAt(text, i + 1, rest)
        BY <4>1, RestOf
      <4> HIDE DEF rest, N
      <4>3. \A k \in 1..(N - i) : (i + 1) + k - 1 = i + k
        BY <3>1
      <4>4. rest \in Seq(Characters) /\ Len(rest) = N - i
        BY <4>1, <4>2 DEF RestAt, N
      <4>5. \A k \in 1..(N - i) : rest[k] = text[(i + 1) + k - 1]
        BY <4>1, <4>2 DEF RestAt, N
      <4> QED
        BY <4>3, <4>4, <4>5
    <3>4. /\ whole \in Seq(Characters) /\ Len(whole) = N - i + 1
          /\ \A k \in 1..(N - i + 1) : whole[k] = text[i + k - 1]
      BY <3>1, RestOf DEF RestAt
    <3> HIDE DEF rest, whole
    <3> DEFINE one == <<text[i]>>
    <3>5. one \in Seq(Characters) /\ Len(one) = 1 /\ one[1] = text[i]
      BY <1>2, <3>1
    <3> HIDE DEF one
    <3>6. /\ one \o rest \in Seq(Characters) /\ Len(one \o rest) = 1 + (N - i)
          /\ (one \o rest)[1] = text[i]
          /\ \A k \in 1..(N - i) : (one \o rest)[1 + k] = rest[k]
      <4>1. Concatenates(one \o rest, one, rest)
        BY <3>3, <3>5, Concatenated
      <4>2. one \o rest \in Seq(Characters)
        BY <3>3, <3>5
      <4> QED
        BY <3>3, <3>5, <4>1, <4>2 DEF Concatenates
    <3>7. ASSUME NEW k \in 1..(N - i + 1)
          PROVE  (one \o rest)[k] = whole[k]
      <4>1. CASE k = 1
        <5>1. i + k - 1 = i
          BY <3>1, <4>1
        <5> QED
          BY <3>4, <3>6, <4>1, <5>1
      <4>2. CASE k # 1
        <5> DEFINE m == k - 1
        <5>1. m \in 1..(N - i) /\ 1 + m = k /\ i + m = i + k - 1
          BY <1>0, <3>1, <4>2
        <5> HIDE DEF m
        <5>2. (one \o rest)[1 + m] = rest[m] /\ rest[m] = text[i + m]
          BY <3>3, <3>6, <5>1
        <5> QED
          BY <3>4, <5>1, <5>2
      <4> QED
        BY <4>1, <4>2
    <3>8. one \o rest = whole
      <4>1. Len(one \o rest) = Len(whole) /\ Len(whole) = N - i + 1
        BY <1>0, <3>1, <3>4, <3>6
      <4> HIDE DEF N
      <4> QED
        BY <3>4, <3>6, <3>7, <4>1
    <3>9. from[i] = one \o rest
      BY <1>2, <3>1, <3>2 DEF one, rest
    <3> QED
      BY <3>8, <3>9 DEF whole
  <2> QED
    BY <2>1, <2>2
<1>4. \A i \in 1..(N + 1) : i \in T
  <2>1. N + 1 \in Nat
    BY <1>0
  <2> HIDE DEF T
  <2> QED
    BY <1>3, <2>1, DownwardInduction
<1>5. from[1] = SubSeq(text, 1, N)
  <2>1. 1 \in 1..(N + 1)
    BY <1>0
  <2> QED
    BY <1>4, <2>1
<1>6. SubSeq(text, 1, N) = text
  BY <1>0
<1> QED
  BY <1>1, <1>5, <1>6 DEF Replaces

LEMMA Associative ==
  ASSUME NEW r \in Seq(Characters), NEW s \in Seq(Characters), NEW t \in Seq(Characters)
  PROVE  (r \o s) \o t = r \o (s \o t)
OBVIOUS


(* rep occurs in the text on either side of a separator where it occurs in  *)
(* that side, and nowhere else.                                             *)
Apart(x, y) == x \o (<<Separator>> \o y)

ApartIs(t, x, y) ==
  /\ t \in Seq(Characters)
  /\ Len(t) = Len(x) + 1 + Len(y)
  /\ \A j \in 1..Len(x) : t[j] = x[j]
  /\ t[Len(x) + 1] = Separator
  /\ \A j \in 1..Len(y) : t[Len(x) + 1 + j] = y[j]

LEMMA ApartTyped ==
  ASSUME NEW x \in Seq(Characters), NEW y \in Seq(Characters)
  PROVE  ApartIs(Apart(x, y), x, y)
<1> DEFINE A == Len(x)
           B == Len(y)
           one == <<Separator>>
           rest == one \o y
           t == x \o rest
<1>0. A \in Nat /\ B \in Nat /\ one \in Seq(Characters) /\ Len(one) = 1 /\ one[1] = Separator
  BY ScannerAssumption
<1> HIDE DEF one
<1>1. rest \in Seq(Characters) /\ Concatenates(rest, one, y)
  BY <1>0, Concatenated
<1>2. Len(rest) = 1 + B /\ rest[1] = Separator /\ \A j \in 1..B : rest[1 + j] = y[j]
  BY <1>0, <1>1 DEF Concatenates
<1> HIDE DEF rest
<1>3. t \in Seq(Characters) /\ Concatenates(t, x, rest)
  BY <1>1, Concatenated
<1> HIDE DEF t
<1>4. /\ Len(t) = A + Len(rest) /\ (\A j \in 1..A : t[j] = x[j])
      /\ \A j \in 1..Len(rest) : t[A + j] = rest[j]
  BY <1>3 DEF Concatenates
<1>5. Len(t) = A + 1 + B
  BY <1>0, <1>2, <1>4
<1>6. t[A + 1] = Separator
  BY <1>0, <1>2, <1>4
<1>7. ASSUME NEW j \in 1..B
      PROVE  t[A + 1 + j] = y[j]
  <2>1. 1 + j \in 1..Len(rest) /\ A + (1 + j) = A + 1 + j
    BY <1>0, <1>2
  <2> HIDE DEF A
  <2> QED
    BY <1>2, <1>4, <2>1
<1>8. Apart(x, y) = t
  BY DEF Apart, t, rest, one
<1> QED
  BY <1>3, <1>4, <1>5, <1>6, <1>7, <1>8 DEF ApartIs

LEMMA OccursApart ==
  ASSUME NEW x \in Seq(Characters), NEW y \in Seq(Characters), NEW rep \in Redactable,
         NEW t, ApartIs(t, x, y)
  PROVE  /\ \A j \in 1..Len(x) : OccursAt(rep, t, j) <=> OccursAt(rep, x, j)
         /\ ~OccursAt(rep, t, Len(x) + 1)
         /\ \A j \in 1..Len(y) : OccursAt(rep, t, Len(x) + 1 + j) <=> OccursAt(rep, y, j)
<1> DEFINE A == Len(x)
           B == Len(y)
           L == Len(rep)
<1>0. /\ A \in Nat /\ B \in Nat /\ L \in Nat \ {0} /\ rep \in Seq(Characters)
      /\ \A k \in 1..L : rep[k] # Separator
  BY DEF Redactable
<1>1. /\ t \in Seq(Characters) /\ Len(t) = A + 1 + B
      /\ (\A j \in 1..A : t[j] = x[j])
      /\ t[A + 1] = Separator
      /\ \A j \in 1..B : t[A + 1 + j] = y[j]
  BY DEF ApartIs
<1>2. ASSUME NEW p \in 0..A, StandsAt(rep, t, p)
      PROVE  p + L <= A
  <2> SUFFICES ASSUME p + L > A
               PROVE  FALSE
    BY <1>0
  <2> DEFINE k == A + 1 - p
  <2>1. k \in 1..L /\ p + k = A + 1
    BY <1>0
  <2> HIDE DEF k
  <2>2. t[p + k] = rep[k]
    BY <1>2, <2>1 DEF StandsAt
  <2> QED
    BY <1>0, <1>1, <2>1, <2>2
<1>3. ASSUME NEW j \in 1..A
      PROVE  OccursAt(rep, t, j) <=> OccursAt(rep, x, j)
  <2> DEFINE p == j - 1
  <2>0. p \in 0..A /\ p \in Nat /\ j \in Nat \ {0}
    BY <1>0
  <2>1. /\ OccursAt(rep, t, j) <=> StandsAt(rep, t, p)
        /\ OccursAt(rep, x, j) <=> StandsAt(rep, x, p)
    BY <1>0, <1>1, <2>0, OccursAtPosition
  <2> HIDE DEF p
  <2>2. ASSUME p + L <= A, NEW k \in 1..L
        PROVE  t[p + k] = x[p + k]
    <3>1. p + k \in 1..A
      BY <1>0, <2>0, <2>2
    <3> QED
      BY <1>1, <3>1
  <2>3. ASSUME p + L <= A
        PROVE  StandsAt(rep, t, p) <=> StandsAt(rep, x, p)
    <3>1. p + L <= Len(t)
      BY <1>0, <1>1, <2>0, <2>3
    <3> QED
      BY <2>2, <2>3, <3>1 DEF StandsAt
  <2>4. StandsAt(rep, x, p) => p + L <= A
    BY DEF StandsAt
  <2> QED
    BY <1>2, <2>0, <2>1, <2>3, <2>4
<1>4. ~OccursAt(rep, t, A + 1)
  <2>1. A + 1 \in Nat \ {0} /\ (A + 1) - 1 = A /\ A \in 0..A
    BY <1>0
  <2>2. ~StandsAt(rep, t, A)
    BY <1>0, <1>2, <2>1
  <2> HIDE DEF A
  <2> QED
    BY <1>0, <1>1, <2>1, <2>2, OccursAtPosition
<1>5. ASSUME NEW j \in 1..B
      PROVE  OccursAt(rep, t, A + 1 + j) <=> OccursAt(rep, y, j)
  <2> DEFINE p == j - 1
             i == A + 1 + j
             q == A + 1 + p
  <2>0. p \in Nat /\ q \in Nat /\ i - 1 = q /\ i \in Nat \ {0} /\ j \in Nat \ {0}
    BY <1>0
  <2>1. OccursAt(rep, t, i) <=> StandsAt(rep, t, q)
    <3> HIDE DEF i, q
    <3> QED
      BY <1>0, <1>1, <2>0, OccursAtPosition
  <2>2. OccursAt(rep, y, j) <=> StandsAt(rep, y, p)
    BY <1>0, <2>0, OccursAtPosition
  <2> HIDE DEF p, i
  <2>3. q + L <= Len(t) <=> p + L <= B
    BY <1>0, <1>1, <2>0
  <2>4. ASSUME p + L <= B, NEW k \in 1..L
        PROVE  t[q + k] = y[p + k]
    <3>1. p + k \in 1..B /\ q + k = A + 1 + (p + k)
      BY <1>0, <2>0, <2>4
    <3> HIDE DEF q, A
    <3> QED
      BY <1>1, <3>1
  <2> HIDE DEF q
  <2>5. StandsAt(rep, t, q) <=> StandsAt(rep, y, p)
    BY <2>3, <2>4 DEF StandsAt
  <2> QED
    BY <2>1, <2>2, <2>5 DEF i
<1> QED
  BY <1>3, <1>4, <1>5


LEMMA ReplacedApart ==
  ASSUME NEW x \in Seq(Characters), NEW y \in Seq(Characters), NEW rep \in Redactable
  PROVE  Replaced(Apart(x, y), rep) = Apart(Replaced(x, rep), Replaced(y, rep))
<1> DEFINE A == Len(x)
           B == Len(y)
           L == Len(rep)
           t == Apart(x, y)
<1>0. A \in Nat /\ B \in Nat /\ L \in Nat \ {0} /\ rep \in Seq(Characters) \ {<<>>}
  BY DEF Redactable
<1>1. ApartIs(t, x, y)
  BY ApartTyped
<1> HIDE DEF t
<1>2. t \in Seq(Characters) /\ Len(t) = A + 1 + B /\ t[A + 1] = Separator
  BY <1>1 DEF ApartIs
<1>3. /\ \A j \in 1..A : OccursAt(rep, t, j) <=> OccursAt(rep, x, j)
      /\ ~OccursAt(rep, t, A + 1)
      /\ \A j \in 1..B : OccursAt(rep, t, A + 1 + j) <=> OccursAt(rep, y, j)
  BY <1>1, OccursApart
<1>4. PICK fx \in [1..(A + 1) -> Seq(Characters)] : Replaces(fx, x, rep)
  BY <1>0, Replacing
<1>5. PICK fy \in [1..(B + 1) -> Seq(Characters)] : Replaces(fy, y, rep)
  BY <1>0, Replacing
<1>6. PICK ft \in [1..(Len(t) + 1) -> Seq(Characters)] : Replaces(ft, t, rep)
  BY <1>0, <1>2, Replacing
<1>7. /\ ft[A + 1 + (B + 1)] = <<>> /\ fx[A + 1] = <<>> /\ fy[B + 1] = <<>>
      /\ Replaced(x, rep) = fx[1] /\ Replaced(y, rep) = fy[1] /\ Replaced(t, rep) = ft[1]
  <2>1. Len(t) + 1 = A + 1 + (B + 1)
    BY <1>0, <1>2
  <2> QED
    BY <1>4, <1>5, <1>6, <2>1 DEF Replaces
(* To the right of the separator. *)
<1> DEFINE R == {j \in 1..(B + 1) : ft[A + 1 + j] = fy[j]}
<1>8. ASSUME NEW j \in 1..(B + 1), \A k \in 1..(B + 1) : k > j => k \in R
      PROVE  j \in R
  <2>1. CASE j = B + 1
    BY <1>7, <2>1
  <2>2. CASE j # B + 1
    <3> DEFINE i == A + 1 + j
    <3>1. /\ j \in 1..B /\ i \in 1..Len(t)
          /\ j + 1 \in 1..(B + 1) /\ j + 1 > j /\ i + 1 = A + 1 + (j + 1)
          /\ i + L = A + 1 + (j + L)
      BY <1>0, <1>2, <2>2
    <3>2. ft[i + 1] = fy[j + 1]
      BY <1>8, <3>1
    <3>3. t[i] = y[j]
      BY <1>1, <3>1 DEF ApartIs
    <3>4. OccursAt(rep, t, i) <=> OccursAt(rep, y, j)
      BY <1>3, <3>1
    <3>5. ASSUME OccursAt(rep, y, j)
          PROVE  ft[i + L] = fy[j + L]
      <4>1. j + L - 1 <= B
        BY <3>5 DEF OccursAt
      <4>2. j + L \in 1..(B + 1) /\ j + L > j
        BY <1>0, <3>1, <4>1
      <4> QED
        BY <1>8, <3>1, <4>2
    <3> HIDE DEF i, A, B
    <3>6. ft[i] = IF OccursAt(rep, t, i) THEN Marker \o ft[i + L] ELSE <<t[i]>> \o ft[i + 1]
      BY <1>6, <3>1 DEF Replaces
    <3>7. fy[j] = IF OccursAt(rep, y, j) THEN Marker \o fy[j + L] ELSE <<y[j]>> \o fy[j + 1]
      BY <1>5, <3>1 DEF Replaces, B
    <3>8. ft[i] = fy[j]
      BY <3>2, <3>3, <3>4, <3>5, <3>6, <3>7
    <3> QED
      BY <3>8 DEF i
  <2> QED
    BY <2>1, <2>2
<1>9. \A j \in 1..(B + 1) : j \in R
  <2>1. B + 1 \in Nat
    BY <1>0
  <2> HIDE DEF R
  <2> QED
    BY <1>8, <2>1, DownwardInduction
<1> DEFINE rest == <<Separator>> \o fy[1]
<1>10. fy[1] \in Seq(Characters) /\ fx[1] \in Seq(Characters) /\ rest \in Seq(Characters)
  <2>1. 1 \in 1..(B + 1) /\ 1 \in 1..(A + 1)
    BY <1>0
  <2>2. fy[1] \in Seq(Characters) /\ fx[1] \in Seq(Characters)
    BY <2>1
  <2> QED
    BY <2>2, PieceOfText, ScannerAssumption
<1>11. ft[A + 1] = rest
  <2>1. 1 \in 1..(B + 1) /\ A + 1 \in 1..Len(t)
    BY <1>0, <1>2
  <2>2. ft[A + 1 + 1] = fy[1]
    BY <1>9, <2>1
  <2> HIDE DEF A
  <2>3. ft[A + 1] = <<t[A + 1]>> \o ft[A + 1 + 1]
    BY <1>3, <1>6, <2>1 DEF Replaces
  <2> QED
    BY <1>2, <2>2, <2>3
<1> HIDE DEF rest
(* To its left. *)
<1> DEFINE T == {j \in 1..(A + 1) : ft[j] = fx[j] \o rest}
<1>12. ASSUME NEW j \in 1..(A + 1), \A k \in 1..(A + 1) : k > j => k \in T
       PROVE  j \in T
  <2>1. CASE j = A + 1
    <3>1. <<>> \o rest = rest
      BY <1>10
    <3> QED
      BY <1>7, <1>11, <2>1, <3>1
  <2>2. CASE j # A + 1
    <3>1. j \in 1..A /\ j \in 1..Len(t) /\ j + 1 \in 1..(A + 1) /\ j + 1 > j
      BY <1>0, <1>2, <2>2
    <3>2. t[j] = x[j] /\ (OccursAt(rep, t, j) <=> OccursAt(rep, x, j))
      BY <1>1, <1>3, <3>1 DEF ApartIs
    <3>3. CASE OccursAt(rep, x, j)
      <4>1. j + L - 1 <= A
        BY <3>3 DEF OccursAt
      <4>2. j + L \in 1..(A + 1) /\ j + L > j
        BY <1>0, <3>1, <4>1
      <4>3. ft[j + L] = fx[j + L] \o rest
        BY <1>12, <4>2
      <4>4. fx[j + L] \in Seq(Characters)
        BY <4>2
      <4>5. ft[j] = Marker \o ft[j + L] /\ fx[j] = Marker \o fx[j + L]
        BY <1>4, <1>6, <3>1, <3>2, <3>3 DEF Replaces
      <4>6. (Marker \o fx[j + L]) \o rest = Marker \o (fx[j + L] \o rest)
        <5> DEFINE f == fx[j + L]
        <5>1. Marker \in Seq(Characters) /\ f \in Seq(Characters) /\ rest \in Seq(Characters)
          BY <1>10, <4>4, MarkerTyped
        <5> HIDE DEF f
        <5>2. (Marker \o f) \o rest = Marker \o (f \o rest)
          BY <5>1, Associative
        <5> QED
          BY <5>2 DEF f
      <4> QED
        BY <4>3, <4>5, <4>6
    <3>4. CASE ~OccursAt(rep, x, j)
      <4>1. ft[j + 1] = fx[j + 1] \o rest
        BY <1>12, <3>1
      <4>2. fx[j + 1] \in Seq(Characters)
        BY <3>1
      <4>3. ft[j] = <<t[j]>> \o ft[j + 1] /\ fx[j] = <<x[j]>> \o fx[j + 1]
        BY <1>4, <1>6, <3>1, <3>2, <3>4 DEF Replaces
      <4>4. <<x[j]>> \in Seq(Characters)
        <5>1. x[j] \in Characters
          BY <3>1
        <5> QED
          BY <5>1
      <4>5. (<<x[j]>> \o fx[j + 1]) \o rest = <<x[j]>> \o (fx[j + 1] \o rest)
        BY <1>10, <4>2, <4>4, Associative
      <4> QED
        BY <3>2, <4>1, <4>3, <4>5
    <3> QED
      BY <3>3, <3>4
  <2> QED
    BY <2>1, <2>2
<1>13. \A j \in 1..(A + 1) : j \in T
  <2>1. A + 1 \in Nat
    BY <1>0
  <2> HIDE DEF T
  <2> QED
    BY <1>12, <2>1, DownwardInduction
<1>14. ft[1] = fx[1] \o rest
  <2>1. 1 \in 1..(A + 1)
    BY <1>0
  <2> QED
    BY <1>13, <2>1
<1> QED
  BY <1>7, <1>14 DEF Apart, rest, t


LEMMA TurnReplaces ==
  ASSUME NEW result \in ScanResult, NEW item \in Items
  PROVE  ScanTurn(result, item).redacted = Replaced(result.redacted, item.rep)
<1>1. result.redacted \in Seq(Characters) /\ item.rep \in Redactable
  BY ItemTyped DEF ScanResult
<1>2. ~Occurs(item.rep, result.redacted) => Replaced(result.redacted, item.rep) = result.redacted
  BY <1>1, ReplacedSame
<1> QED
  BY <1>2, ScanTurnIs

LEMMA ScanApart ==
  ASSUME NEW dict \in Seq(Items), NEW x \in Seq(Characters), NEW y \in Seq(Characters)
  PROVE  Scan(dict, Apart(x, y)).redacted = Apart(Scan(dict, x).redacted, Scan(dict, y).redacted)
<1> DEFINE items == LongestFirst(dict)
           N == Len(items)
           t == Apart(x, y)
<1>0. items \in Seq(Items) /\ N \in Nat /\ LongestFirst(dict) = items
  BY LongestFirstIs
<1>1. t \in Seq(Characters)
  BY ApartTyped DEF ApartIs
<1> HIDE DEF items, t
<1>2. PICK fx \in [0..N -> ScanResult] : ScansUpTo(fx, items, x) /\ Scan(dict, x) = fx[N]
  BY <1>0, ScanFold
<1>3. PICK fy \in [0..N -> ScanResult] : ScansUpTo(fy, items, y) /\ Scan(dict, y) = fy[N]
  BY <1>0, ScanFold
<1>4. PICK ft \in [0..N -> ScanResult] : ScansUpTo(ft, items, t) /\ Scan(dict, t) = ft[N]
  BY <1>0, <1>1, ScanFold
<1> DEFINE T == {n \in 0..N : ft[n].redacted = Apart(fx[n].redacted, fy[n].redacted)}
<1>5. 0 \in T
  <2>1. fx[0].redacted = x /\ fy[0].redacted = y /\ ft[0].redacted = t
    BY <1>1, <1>2, <1>3, <1>4, ResultTyped DEF ScansUpTo
  <2> QED
    BY <1>0, <2>1 DEF t
<1>6. ASSUME NEW n \in 1..N, n - 1 \in T
      PROVE  n \in T
  <2> DEFINE item == items[n]
  <2>1. n - 1 \in 0..N /\ n \in 0..N
    BY <1>0
  <2>2. item \in Items /\ item.rep \in Redactable
    <3>1. item \in Items
      BY <1>0
    <3> QED
      BY <3>1, ItemTyped
  <2>3. fx[n - 1] \in ScanResult /\ fy[n - 1] \in ScanResult /\ ft[n - 1] \in ScanResult
    BY <2>1
  <2>4. fx[n] = ScanTurn(fx[n - 1], item) /\ fy[n] = ScanTurn(fy[n - 1], item) /\ ft[n] = ScanTurn(ft[n - 1], item)
    BY <1>2, <1>3, <1>4 DEF ScansUpTo
  <2> HIDE DEF item
  <2>5. /\ fx[n].redacted = Replaced(fx[n - 1].redacted, item.rep)
        /\ fy[n].redacted = Replaced(fy[n - 1].redacted, item.rep)
        /\ ft[n].redacted = Replaced(ft[n - 1].redacted, item.rep)
    BY <2>2, <2>3, <2>4, TurnReplaces
  <2>6. fx[n - 1].redacted \in Seq(Characters) /\ fy[n - 1].redacted \in Seq(Characters)
    BY <2>3 DEF ScanResult
  <2>7. ft[n - 1].redacted = Apart(fx[n - 1].redacted, fy[n - 1].redacted)
    BY <1>6
  <2>8. ft[n].redacted = Apart(fx[n].redacted, fy[n].redacted)
    BY <2>2, <2>5, <2>6, <2>7, ReplacedApart
  <2> QED
    BY <2>1, <2>8
<1>7. N \in T
  <2>1. \A n \in 0..N : n \in T
    <3> HIDE DEF T, N
    <3> QED
      BY <1>0, <1>5, <1>6, BoundedInduction
  <2>2. N \in 0..N
    BY <1>0
  <2> QED
    BY <2>1, <2>2
<1> QED
  BY <1>2, <1>3, <1>4, <1>7 DEF t

(* A join, piece by piece.                                                  *)
Joins(f, pieces) ==
  /\ f[0] = <<>>
  /\ \A i \in 1..Len(pieces) : f[i] = IF i = 1 THEN pieces[i] ELSE Apart(f[i - 1], pieces[i])
  /\ Join(pieces) = f[Len(pieces)]

LEMMA Joining ==
  ASSUME NEW pieces \in Seq(Seq(Characters))
  PROVE  \E f \in [0..Len(pieces) -> Seq(Characters)] : Joins(f, pieces)
<1> DEFINE N == Len(pieces)
           Part(i) == IF i = 1 THEN pieces[i] ELSE <<Separator>> \o pieces[i]
           parts == [i \in 1..N |-> Part(i)]
<1>0. N \in Nat /\ DOMAIN pieces = 1..N
  OBVIOUS
<1>1. \A i \in 1..N : Part(i) \in Seq(Characters)
  <2> TAKE i \in 1..N
  <2>1. pieces[i] \in Seq(Characters)
    OBVIOUS
  <2> QED
    BY <2>1, PieceOfText, ScannerAssumption
<1>2. Join(pieces) = FlattenSeq(parts)
  BY <1>0 DEF Join
<1>3. parts \in Seq(Seq(Characters)) /\ Len(parts) = N /\ \A i \in 1..N : parts[i] = Part(i)
  <2> HIDE DEF N, Part
  <2> QED
    BY <1>0, <1>1
<1> HIDE DEF parts
<1>4. PICK f \in [0..N -> Seq(Characters)] : Flattens(f, parts)
  <2> HIDE DEF N
  <2> QED
    BY <1>3, Flattening
<1>5. f[0] = <<>> /\ (\A i \in 1..N : f[i] = f[i - 1] \o parts[i]) /\ Join(pieces) = f[N]
  <2> HIDE DEF N
  <2> QED
    BY <1>2, <1>3, <1>4 DEF Flattens
<1>6. ASSUME NEW i \in 1..N
      PROVE  f[i] = IF i = 1 THEN pieces[i] ELSE Apart(f[i - 1], pieces[i])
  <2>1. f[i] = f[i - 1] \o Part(i)
    BY <1>3, <1>5
  <2>2. CASE i = 1
    <3>1. Part(i) = pieces[i] /\ f[i - 1] = <<>> /\ pieces[i] \in Seq(Characters)
      BY <1>5, <2>2
    <3> HIDE DEF Part
    <3> DEFINE piece == pieces[i]
    <3>2. f[i] = <<>> \o piece /\ piece \in Seq(Characters)
      BY <2>1, <3>1
    <3> HIDE DEF piece
    <3>3. f[i] = piece
      BY <3>2
    <3> QED
      BY <2>2, <3>3 DEF piece
  <2>3. CASE i # 1
    BY <2>1, <2>3 DEF Apart
  <2> QED
    BY <2>2, <2>3
<1>7. Joins(f, pieces)
  BY <1>5, <1>6 DEF Joins
<1> QED
  BY <1>4, <1>7

LEMMA ScanJoined ==
  ASSUME NEW dict \in Seq(Items), NEW pieces \in Seq(Seq(Characters)),
         NEW done \in Seq(Seq(Characters)), Len(done) = Len(pieces),
         \A i \in 1..Len(pieces) : done[i] = Scan(dict, pieces[i]).redacted
  PROVE  Scan(dict, Join(pieces)).redacted = Join(done)
<1> DEFINE N == Len(pieces)
<1>0. N \in Nat
  OBVIOUS
<1>1. PICK f \in [0..N -> Seq(Characters)] : Joins(f, pieces)
  BY Joining
<1>2. PICK g \in [0..N -> Seq(Characters)] : Joins(g, done)
  BY Joining
<1> DEFINE T == {n \in 0..N : Scan(dict, f[n]).redacted = g[n]}
<1>3. 0 \in T
  <2>1. f[0] = <<>> /\ g[0] = <<>> /\ <<>> \in Seq(Characters)
    BY <1>1, <1>2 DEF Joins
  <2>2. \A i \in 1..Len(dict) : ~Occurs(dict[i].rep, <<>>)
    BY DEF Occurs
  <2>3. Scan(dict, <<>>) = Result(<<>>, {})
    BY <2>1, <2>2, NothingToScan
  <2>4. Scan(dict, <<>>).redacted = <<>>
    BY <2>3 DEF Result
  <2> QED
    BY <1>0, <2>1, <2>4
<1>4. ASSUME NEW n \in 1..N, n - 1 \in T
      PROVE  n \in T
  <2>1. n \in 0..N /\ n - 1 \in 0..N
    BY <1>0
  <2>2. /\ f[n] = IF n = 1 THEN pieces[n] ELSE Apart(f[n - 1], pieces[n])
        /\ g[n] = IF n = 1 THEN done[n] ELSE Apart(g[n - 1], done[n])
    BY <1>1, <1>2 DEF Joins
  <2>3. done[n] = Scan(dict, pieces[n]).redacted /\ Scan(dict, f[n - 1]).redacted = g[n - 1]
    BY <1>4
  <2>4. f[n - 1] \in Seq(Characters)
    BY <2>1
  <2>5. pieces[n] \in Seq(Characters)
    OBVIOUS
  <2>6. Scan(dict, f[n]).redacted = g[n]
    BY <2>2, <2>3, <2>4, <2>5, ScanApart
  <2> QED
    BY <2>1, <2>6
<1>5. N \in T
  <2>1. \A n \in 0..N : n \in T
    <3> HIDE DEF T, N
    <3> QED
      BY <1>0, <1>3, <1>4, BoundedInduction
  <2>2. N \in 0..N
    BY <1>0
  <2> QED
    BY <2>1, <2>2
<1> QED
  BY <1>1, <1>2, <1>5 DEF Joins


-----------------------------------------------------------------------------
(* A representation that is all of a text.                                  *)
LEMMA ReplacedWhole ==
  ASSUME NEW rep \in Redactable
  PROVE  Replaced(rep, rep) = Marker
<1> DEFINE L == Len(rep)
<1>0. L \in Nat \ {0} /\ rep \in Seq(Characters) \ {<<>>}
  BY DEF Redactable
<1>1. PICK from \in [1..(L + 1) -> Seq(Characters)] : Replaces(from, rep, rep)
  BY <1>0, Replacing
<1>2. OccursAt(rep, rep, 1)
  <2>1. SubSeq(rep, 1, 1 + L - 1) = rep /\ 1 + L - 1 <= L
    BY <1>0
  <2> QED
    BY <2>1 DEF OccursAt
<1>3. from[1] = Marker \o from[1 + L] /\ from[L + 1] = <<>> /\ Replaced(rep, rep) = from[1]
  <2>1. 1 \in 1..L
    BY <1>0
  <2> QED
    BY <1>1, <1>2, <2>1 DEF Replaces
<1>4. 1 + L = L + 1
  BY <1>0
<1> HIDE DEF L
<1>5. from[1] = Marker \o <<>>
  BY <1>3, <1>4
<1>6. Marker \o <<>> = Marker
  BY MarkerTyped
<1> QED
  BY <1>3, <1>5, <1>6

LEMMA LongerIsElsewhere ==
  ASSUME NEW rep \in Redactable, NEW piece \in Redactable, Len(rep) >= Len(piece),
         Occurs(rep, piece)
  PROVE  rep = piece
<1>0. /\ rep \in Seq(Characters) \ {<<>>} /\ piece \in Seq(Characters)
      /\ Len(rep) \in Nat /\ Len(piece) \in Nat
  BY DEF Redactable
<1>1. PICK p \in Nat : StandsAt(rep, piece, p)
  BY <1>0, OccursSomewhere
<1>2. p = 0 /\ Len(rep) = Len(piece)
  <2>1. p + Len(rep) <= Len(piece)
    BY <1>1 DEF StandsAt
  <2> QED
    BY <1>0, <2>1
<1>3. ASSUME NEW k \in 1..Len(rep)
      PROVE  rep[k] = piece[k]
  <2>1. piece[0 + k] = rep[k]
    BY <1>1, <1>2 DEF StandsAt
  <2> QED
    BY <2>1
<1> QED
  BY <1>0, <1>2, <1>3

(* The longer items, which come first, are not in it; its own item makes it *)
(* the marker; the others are not in the marker.                            *)
LEMMA SecretAlone ==
  ASSUME NEW dict \in Seq(Items), NEW i \in 1..Len(dict)
  PROVE  Scan(dict, dict[i].rep).redacted = Marker
<1> DEFINE items == LongestFirst(dict)
           N == Len(items)
           piece == dict[i].rep
<1>0. items \in Seq(Items) /\ N \in Nat /\ LongestFirst(dict) = items /\ Descending(items)
  BY LongestFirstIs
<1>1. piece \in Redactable /\ piece \in Seq(Characters)
  <2>1. dict[i] \in Items
    OBVIOUS
  <2> QED
    BY <2>1, ItemTyped
<1>2. PICK m \in 1..N : items[m].rep = piece
  BY ItemsOfDict
<1> HIDE DEF items, piece
<1>3. PICK f \in [0..N -> ScanResult] : ScansUpTo(f, items, piece) /\ Scan(dict, piece) = f[N]
  BY <1>0, <1>1, ScanFold
<1> DEFINE Found(n) == \E k \in 1..n : items[k].rep = piece
           Left(n) == IF Found(n) THEN Marker ELSE piece
           T == {n \in 0..N : f[n].redacted = Left(n)}
<1>4. 0 \in T
  <2>1. f[0].redacted = piece
    BY <1>1, <1>3, ResultTyped DEF ScansUpTo
  <2>2. 1..0 = {}
    OBVIOUS
  <2> QED
    BY <1>0, <2>1, <2>2
<1>5. ASSUME NEW n \in 1..N, n - 1 \in T
      PROVE  n \in T
  <2> DEFINE rep == items[n].rep
  <2>1. n - 1 \in 0..N /\ n \in 0..N
    BY <1>0
  <2>2. items[n] \in Items /\ rep \in Redactable
    <3>1. items[n] \in Items
      BY <1>0
    <3> QED
      BY <3>1, ItemTyped
  <2>3. f[n - 1] \in ScanResult
    BY <2>1
  <2>4. f[n] = ScanTurn(f[n - 1], items[n])
    BY <1>3 DEF ScansUpTo
  <2>5. f[n].redacted = Replaced(f[n - 1].redacted, rep)
    BY <2>2, <2>3, <2>4, TurnReplaces
  <2>6. Found(n) <=> Found(n - 1) \/ rep = piece
    <3>1. /\ \A k \in 1..n : k \in 1..(n - 1) \/ k = n
          /\ \A k \in 1..(n - 1) : k \in 1..n
          /\ n \in 1..n
      BY <1>0
    <3> QED
      BY <3>1
  <2>7. f[n - 1].redacted = Left(n - 1)
    BY <1>5
  <2>8. CASE Found(n - 1)
    <3>1. f[n - 1].redacted = Marker /\ ~Occurs(rep, Marker)
      BY <2>2, <2>7, <2>8 DEF Redactable
    <3>2. Replaced(Marker, rep) = Marker
      BY <2>2, <3>1, MarkerTyped, ReplacedSame
    <3>3. f[n].redacted = Marker /\ Found(n)
      BY <2>5, <2>6, <2>8, <3>1, <3>2
    <3> QED
      BY <2>1, <3>3
  <2>9. CASE ~Found(n - 1) /\ rep = piece
    <3>1. f[n].redacted = Replaced(piece, piece)
      BY <2>5, <2>7, <2>9
    <3>2. f[n].redacted = Marker /\ Found(n)
      BY <1>1, <2>6, <2>9, <3>1, ReplacedWhole
    <3> QED
      BY <2>1, <3>2
  <2>10. CASE ~Found(n - 1) /\ rep # piece
    <3>1. f[n - 1].redacted = piece /\ ~Found(n)
      BY <2>6, <2>7, <2>10
    <3>2. n < m
      <4>1. ~(m \in 1..n)
        BY <1>2, <3>1
      <4> QED
        BY <1>0, <4>1
    <3>3. Len(rep) >= Len(piece)
      BY <1>0, <1>2, <3>2 DEF Descending
    <3>4. ~Occurs(rep, piece)
      BY <1>1, <2>2, <2>10, <3>3, LongerIsElsewhere
    <3>5. Replaced(piece, rep) = piece
      BY <1>1, <2>2, <3>4, ReplacedSame
    <3>6. f[n].redacted = piece
      BY <2>5, <3>1, <3>5
    <3> QED
      BY <2>1, <3>1, <3>6
  <2> QED
    BY <2>8, <2>9, <2>10
<1>6. N \in T
  <2>1. \A n \in 0..N : n \in T
    <3> HIDE DEF T, N
    <3> QED
      BY <1>0, <1>4, <1>5, BoundedInduction
  <2>2. N \in 0..N
    BY <1>0
  <2> QED
    BY <2>1, <2>2
<1>7. f[N].redacted = Marker
  BY <1>2, <1>6
<1> QED
  BY <1>3, <1>7 DEF piece

(* A secret that stands alone becomes one marker, and each piece between    *)
(* separators becomes what it becomes by itself.                            *)
THEOREM SecretsLeaveNoRestCorrect == Spec => []SecretsLeaveNoRest
<1>1. ScannerInv => SecretsLeaveNoRest
  <2> SUFFICES ASSUME ScannerInv, scanned # NotScanned
               PROVE  scanned.result.redacted =
                        Join([i \in DOMAIN scanned.message |->
                                IF scanned.message[i] \in Secret
                                  THEN Marker
                                  ELSE Scan(reps, scanned.message[i]).redacted])
    BY DEF SecretsLeaveNoRest
  <2> DEFINE message == scanned.message
             Done(i) == IF message[i] \in Secret THEN Marker ELSE Scan(reps, message[i]).redacted
             done == [i \in 1..Len(message) |-> Done(i)]
  <2>1. /\ reps \in Seq(Items) /\ Secret = Reps(reps)
        /\ message \in Seq(Seq(Characters))
        /\ scanned.result = Scan(reps, Join(message))
    BY ScannedIs
  <2> HIDE DEF message
  <2>2. ASSUME NEW i \in 1..Len(message)
        PROVE  Done(i) \in Seq(Characters) /\ Done(i) = Scan(reps, message[i]).redacted
    <3>1. message[i] \in Seq(Characters)
      BY <2>1
    <3>2. Scan(reps, message[i]).redacted \in Seq(Characters)
      BY <2>1, <3>1, ScanIs DEF ScanResult
    <3>3. ASSUME message[i] \in Secret
          PROVE  Scan(reps, message[i]).redacted = Marker
      <4>0. message[i] \in {reps[k].rep : k \in 1..Len(reps)}
        <5>1. DOMAIN reps = 1..Len(reps)
          BY <2>1
        <5> QED
          BY <2>1, <3>3, <5>1 DEF Reps
      <4>1. PICK k \in 1..Len(reps) : message[i] = reps[k].rep
        BY <4>0
      <4> QED
        BY <2>1, <4>1, SecretAlone
    <3> QED
      BY <3>2, <3>3
  <2>3. DOMAIN message = 1..Len(message) /\ Len(message) \in Nat
    BY <2>1
  <2> HIDE DEF Done
  <2>4. /\ done \in Seq(Seq(Characters)) /\ Len(done) = Len(message)
        /\ \A i \in 1..Len(message) : done[i] = Scan(reps, message[i]).redacted
    BY <2>2, <2>3
  <2> HIDE DEF done
  <2>5. Scan(reps, Join(message)).redacted = Join(done)
    BY <2>1, <2>4, ScanJoined
  <2> QED
    BY <2>1, <2>3, <2>5 DEF done, Done, message
<1> QED
  BY <1>1, ScannerInvariant, PTL
=============================================================================
