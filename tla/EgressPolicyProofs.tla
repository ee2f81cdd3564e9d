-------------------------- MODULE EgressPolicyProofs --------------------------
(***************************************************************************)
(* The route check decides as a walk along the decoded path would: what it  *)
(* lets through stays below an entry, and but for two leading slashes it    *)
(* lets through all that does.                                              *)
(***************************************************************************)
EXTENDS EgressPolicy, RecursionFacts

Segment == Seq(Chars \ {"/"})

(* What normpath keeps.                                                     *)
PathName == {segment \in Segment : segment # <<>>}

-----------------------------------------------------------------------------
(* The folds of the model, as functions of the position.                    *)
LEMMA SegmentsTyped ==
  ASSUME NEW path \in Seq(Chars)
  PROVE  Segments(path) \in Seq(Segment)
<1> DEFINE N == Len(path)
           X == {x \in Seq(Segment) : Len(x) > 0}
           base == <<(<<>>)>>
           Eq(f) == f = [n \in 0..N |-> IF n = 0 THEN base ELSE SplitChar(f[n - 1], path[n])]
           turn == [x \in X |-> [n \in Nat |-> IF n \in 1..N THEN SplitChar(x, path[n]) ELSE x]]
<1>0. N \in Nat /\ base \in X
  <2>1. <<>> \in Segment
    BY DEF Segment
  <2> QED
    BY <2>1
<1>1. ASSUME NEW x \in X, NEW c \in Chars
      PROVE  SplitChar(x, c) \in X
  <2>1. CASE c = "/"
    <3>1. <<>> \in Segment
      BY DEF Segment
    <3> QED
      BY <2>1, <3>1 DEF SplitChar
  <2>2. CASE c # "/"
    <3>1. Len(x) \in DOMAIN x /\ x[Len(x)] \in Segment
      OBVIOUS
    <3>2. Append(x[Len(x)], c) \in Segment
      BY <2>2, <3>1 DEF Segment
    <3>3. [x EXCEPT ![Len(x)] = Append(@, c)] \in Seq(Segment)
      BY <3>1, <3>2
    <3>4. Len([x EXCEPT ![Len(x)] = Append(@, c)]) = Len(x)
      BY <3>1
    <3> QED
      BY <2>2, <3>3, <3>4 DEF SplitChar
  <2> QED
    BY <2>1, <2>2
<1>2. turn \in [X -> [Nat -> X]]
  <2>1. \A n \in 1..N : path[n] \in Chars
    OBVIOUS
  <2> HIDE DEF X
  <2> QED
    BY <1>1, <2>1
<1>3. \E f : Eq(f)
  <2>1. PICK f \in [0..N -> X] : Turns(f, N, base, turn)
    <3> HIDE DEF N, X, base, turn
    <3> QED
      BY <1>0, <1>2, BoundedIteration
  <2>2. ASSUME NEW n \in 0..N, n # 0
        PROVE  turn[f[n - 1]][n] = SplitChar(f[n - 1], path[n])
    <3>1. n \in 1..N /\ n - 1 \in 0..N /\ n \in Nat
      BY <2>2, <1>0
    <3>2. f[n - 1] \in X
      BY <3>1, <2>1
    <3> HIDE DEF X, N
    <3> QED
      BY <3>1, <3>2
  <2> HIDE DEF X, turn, N, base
  <2>3. Eq(f)
    BY <2>1, <2>2 DEF Turns
  <2> QED
    BY <2>3
<1>4. PICK f : Eq(f) /\ Segments(path) = f[N]
  <2> DEFINE f == CHOOSE f : Eq(f)
  <2>1. Eq(f)
    BY <1>3
  <2>2. Segments(path) = f[N]
    BY DEF Segments
  <2> QED
    BY <2>1, <2>2
<1>5. \A n \in 0..N : f[n] \in X
  <2> DEFINE T == {n \in 0..N : f[n] \in X}
  <2>1. 0 \in T
    BY <1>0, <1>4
  <2>2. ASSUME NEW n \in 1..N, n - 1 \in T
        PROVE  n \in T
    <3>1. f[n] = SplitChar(f[n - 1], path[n])
      <4>1. n \in 0..N /\ n # 0
        BY <1>0
      <4> HIDE DEF N
      <4> QED
        BY <1>4, <4>1
    <3> HIDE DEF X
    <3> QED
      BY <3>1, <1>1, <2>2
  <2> HIDE DEF T, N
  <2>3. \A n \in 0..N : n \in T
    BY <1>0, <2>1, <2>2, BoundedInduction
  <2> QED
    BY <2>3 DEF T
<1> QED
  BY <1>0, <1>4, <1>5

(* f holds the names left after each segment.                               *)
NamesUpTo(f, segments) ==
  /\ f[0] = <<>>
  /\ \A n \in 1..Len(segments) : f[n] = NormStep(f[n - 1], segments[n])
  /\ NamesLeft(segments) = f[Len(segments)]

LEMMA NormStepTyped ==
  ASSUME NEW names \in Seq(PathName), NEW segment \in Segment
  PROVE  NormStep(names, segment) \in Seq(PathName)
<1>1. CASE segment \in {<<>>, Dot}
  BY <1>1 DEF NormStep
<1>2. CASE segment \notin {<<>>, Dot} /\ segment # DotDot
  <2>1. segment \in PathName
    BY <1>2 DEF PathName
  <2>2. Append(names, segment) \in Seq(PathName)
    BY <2>1
  <2> QED
    BY <1>2, <2>2 DEF NormStep
<1>3. CASE segment \notin {<<>>, Dot} /\ segment = DotDot
  <2>1. CASE names = <<>>
    BY <1>3, <2>1 DEF NormStep
  <2>2. CASE names # <<>>
    <3>1. Front(names) \in Seq(PathName)
      BY <2>2 DEF Front
    <3> QED
      BY <1>3, <2>2, <3>1 DEF NormStep
  <2> QED
    BY <2>1, <2>2
<1> QED
  BY <1>1, <1>2, <1>3

LEMMA NamesFold ==
  ASSUME NEW segments \in Seq(Segment)
  PROVE  \E f \in [0..Len(segments) -> Seq(PathName)] : NamesUpTo(f, segments)
<1> DEFINE N == Len(segments)
           X == Seq(PathName)
           base == <<>>
           Eq(f) == f = [n \in 0..N |-> IF n = 0 THEN base ELSE NormStep(f[n - 1], segments[n])]
           turn == [x \in X |-> [n \in Nat |-> IF n \in 1..N THEN NormStep(x, segments[n]) ELSE x]]
<1>0. N \in Nat /\ base \in X /\ \A n \in 1..N : segments[n] \in Segment
  OBVIOUS
<1>1. turn \in [X -> [Nat -> X]]
  <2>1. \A x \in X, n \in 1..N : NormStep(x, segments[n]) \in X
    BY <1>0, NormStepTyped
  <2> HIDE DEF X, N
  <2> QED
    BY <2>1
<1>2. \E f : Eq(f)
  <2>1. PICK f \in [0..N -> X] : Turns(f, N, base, turn)
    <3> HIDE DEF N, X, base, turn
    <3> QED
      BY <1>0, <1>1, BoundedIteration
  <2>2. ASSUME NEW n \in 0..N, n # 0
        PROVE  turn[f[n - 1]][n] = NormStep(f[n - 1], segments[n])
    <3>1. n \in 1..N /\ n - 1 \in 0..N /\ n \in Nat
      BY <2>2, <1>0
    <3>2. f[n - 1] \in X
      BY <3>1, <2>1
    <3> HIDE DEF X, N
    <3> QED
      BY <3>1, <3>2
  <2> HIDE DEF X, turn, N, base
  <2>3. Eq(f)
    BY <2>1, <2>2 DEF Turns
  <2> QED
    BY <2>3
<1>3. PICK f : Eq(f) /\ NamesLeft(segments) = f[N]
  <2> DEFINE f == CHOOSE f : Eq(f)
  <2>1. Eq(f)
    BY <1>2
  <2>2. NamesLeft(segments) = f[N]
    BY DEF NamesLeft
  <2> QED
    BY <2>1, <2>2
<1>4. ASSUME NEW n \in 1..N
      PROVE  f[n] = NormStep(f[n - 1], segments[n])
  <2>1. n \in 0..N /\ n # 0
    BY <1>0
  <2> HIDE DEF N
  <2> QED
    BY <1>3, <2>1
<1>5. \A n \in 0..N : f[n] \in X
  <2> DEFINE T == {n \in 0..N : f[n] \in X}
  <2>1. 0 \in T
    BY <1>0, <1>3
  <2>2. ASSUME NEW n \in 1..N, n - 1 \in T
        PROVE  n \in T
    <3>1. f[n - 1] \in X /\ n \in 0..N
      BY <1>0, <2>2
    <3>2. NormStep(f[n - 1], segments[n]) \in X
      BY <1>0, <3>1, NormStepTyped
    <3> QED
      BY <1>4, <3>1, <3>2
  <2> HIDE DEF T, N
  <2>3. \A n \in 0..N : n \in T
    BY <1>0, <2>1, <2>2, BoundedInduction
  <2> QED
    BY <2>3 DEF T
<1>6. f \in [0..N -> X]
  <2> HIDE DEF N, X
  <2> QED
    BY <1>3, <1>5
<1>7. NamesUpTo(f, segments)
  BY <1>0, <1>3, <1>4 DEF NamesUpTo
<1> QED
  BY <1>6, <1>7

(* The depth after a segment, in terms of the depth before it.              *)
DepthStep(depth, segment) ==
  IF segment \in {<<>>, Dot} THEN depth
  ELSE IF segment # DotDot THEN depth + 1
  ELSE IF depth = 0 THEN 0
  ELSE depth - 1

LEMMA DepthFold ==
  ASSUME NEW segments \in Seq(Segment)
  PROVE  /\ DepthAfter(segments) \in [0..Len(segments) -> Nat]
         /\ DepthAfter(segments)[0] = 0
         /\ \A n \in 1..Len(segments) :
              DepthAfter(segments)[n] = DepthStep(DepthAfter(segments)[n - 1], segments[n])
<1> DEFINE N == Len(segments)
           Eq(f) == f = [n \in 0..N |-> IF n = 0 THEN 0 ELSE DepthStep(f[n - 1], segments[n])]
           turn == [x \in Nat |-> [n \in Nat |-> IF n \in 1..N THEN DepthStep(x, segments[n]) ELSE x]]
           d == DepthAfter(segments)
<1>0. N \in Nat
  OBVIOUS
<1>1. \A x \in Nat, n \in 1..N : DepthStep(x, segments[n]) \in Nat
  BY DEF DepthStep
<1>2. turn \in [Nat -> [Nat -> Nat]]
  BY <1>1
<1>3. \E f : Eq(f)
  <2>1. PICK f \in [0..N -> Nat] : Turns(f, N, 0, turn)
    <3> HIDE DEF N, turn
    <3> QED
      BY <1>0, <1>2, BoundedIteration
  <2>2. ASSUME NEW n \in 0..N, n # 0
        PROVE  turn[f[n - 1]][n] = DepthStep(f[n - 1], segments[n])
    <3>1. n \in 1..N /\ n - 1 \in 0..N /\ n \in Nat
      BY <2>2, <1>0
    <3>2. f[n - 1] \in Nat
      BY <3>1, <2>1
    <3> HIDE DEF N
    <3> QED
      BY <3>1, <3>2
  <2> HIDE DEF turn, N
  <2>3. Eq(f)
    BY <2>1, <2>2 DEF Turns
  <2> QED
    BY <2>3
<1>4. Eq(d)
  BY <1>3 DEF DepthAfter, DepthStep
<1> HIDE DEF d
<1>5. ASSUME NEW n \in 1..N
      PROVE  d[n] = DepthStep(d[n - 1], segments[n])
  <2>1. n \in 0..N /\ n # 0
    BY <1>0
  <2> HIDE DEF N
  <2> QED
    BY <1>4, <2>1
<1>6. d[0] = 0
  BY <1>0, <1>4
<1>7. \A n \in 0..N : d[n] \in Nat
  <2> DEFINE T == {n \in 0..N : d[n] \in Nat}
  <2>1. 0 \in T
    BY <1>0, <1>6
  <2>2. ASSUME NEW n \in 1..N, n - 1 \in T
        PROVE  n \in T
    BY <1>0, <1>1, <1>5, <2>2
  <2> HIDE DEF T, N
  <2>3. \A n \in 0..N : n \in T
    BY <1>0, <2>1, <2>2, BoundedInduction
  <2> QED
    BY <2>3 DEF T
<1>8. d \in [0..N -> Nat]
  <2> HIDE DEF N
  <2> QED
    BY <1>4, <1>7
<1> QED
  BY <1>5, <1>6, <1>8 DEF d

-----------------------------------------------------------------------------
(* The steps down that the first k segments have not taken back.            *)
Kept(d, k) == {i \in 1..k : d[i] > d[i - 1] /\ \A j \in i..k : d[j] >= d[i]}

LEMMA OneStepPerDepth ==
  ASSUME NEW N \in Nat, NEW d \in [0..N -> Nat], NEW k \in 0..N,
         NEW i \in Kept(d, k), NEW j \in Kept(d, k), d[i] = d[j]
  PROVE  i = j
<1>1. ASSUME NEW a \in Kept(d, k), NEW b \in Kept(d, k), d[a] = d[b]
      PROVE  ~(a < b)
  <2> SUFFICES ASSUME a < b PROVE FALSE
    OBVIOUS
  <2>1. a \in 1..k /\ b \in 1..k /\ d[b] > d[b - 1]
    BY DEF Kept
  <2>2. b - 1 \in a..k /\ a \in 0..N /\ b \in 0..N /\ b - 1 \in 0..N
    BY <2>1
  <2>3. d[b - 1] >= d[a]
    BY <2>2 DEF Kept
  <2>4. d[a] \in Nat /\ d[b] \in Nat /\ d[b - 1] \in Nat
    BY <2>2
  <2> QED
    BY <1>1, <2>1, <2>3, <2>4
<1>2. i \in Int /\ j \in Int
  BY DEF Kept
<1> QED
  BY <1>1, <1>2

(* After k segments the names that are left are those of the kept steps.    *)
NamesAreKept(d, names, segments, k) ==
  /\ Len(names[k]) = d[k]
  /\ \A x \in 1..d[k] : \E i \in Kept(d, k) : d[i] = x /\ segments[i] = names[k][x]

LEMMA KeptStep ==
  ASSUME NEW segments \in Seq(Segment), NEW names \in [0..Len(segments) -> Seq(PathName)],
         NamesUpTo(names, segments), NEW k \in 1..Len(segments),
         NamesAreKept(DepthAfter(segments), names, segments, k - 1)
  PROVE  NamesAreKept(DepthAfter(segments), names, segments, k)
<1> DEFINE N == Len(segments)
           d == DepthAfter(segments)
           segment == segments[k]
<1>0. N \in Nat /\ k \in 0..N /\ k - 1 \in 0..N /\ k - 1 \in Nat /\ segment \in Segment
  OBVIOUS
<1>1. d \in [0..N -> Nat] /\ d[k] = DepthStep(d[k - 1], segment)
  BY DepthFold
<1>2. names[k] = NormStep(names[k - 1], segment)
  BY DEF NamesUpTo
<1>3. names[k - 1] \in Seq(PathName) /\ Len(names[k - 1]) = d[k - 1]
  BY <1>0 DEF NamesAreKept
<1>4. ASSUME NEW x \in 1..d[k - 1]
      PROVE  \E i \in Kept(d, k - 1) : d[i] = x /\ segments[i] = names[k - 1][x]
  BY DEF NamesAreKept
<1>5. d[k] \in Nat /\ d[k - 1] \in Nat /\ \A i \in 1..k : d[i] \in Nat /\ d[i - 1] \in Nat
  <2>1. \A i \in 1..k : i \in 0..N /\ i - 1 \in 0..N
    BY <1>0
  <2> HIDE DEF d, N
  <2> QED
    BY <1>0, <1>1, <2>1
<1> HIDE DEF d
<1>6. ASSUME NEW i \in Kept(d, k - 1), d[i] <= d[k]
      PROVE  i \in Kept(d, k)
  <2>1. i \in 1..k /\ d[i] > d[i - 1] /\ \A j \in i..(k - 1) : d[j] >= d[i]
    BY <1>0 DEF Kept
  <2>2. \A j \in i..k : j \in i..(k - 1) \/ j = k
    BY <1>0, <2>1
  <2>3. \A j \in i..k : d[j] >= d[i]
    BY <1>5, <1>6, <2>1, <2>2
  <2> QED
    BY <2>1, <2>3 DEF Kept
<1>7. CASE d[k] = d[k - 1] /\ names[k] = names[k - 1]
  <2>1. \A x \in 1..d[k] : \E i \in Kept(d, k) : d[i] = x /\ segments[i] = names[k][x]
    <3> TAKE x \in 1..d[k]
    <3>1. PICK i \in Kept(d, k - 1) : d[i] = x /\ segments[i] = names[k - 1][x]
      BY <1>4, <1>7
    <3>2. i \in Kept(d, k)
      BY <1>6, <3>1, <1>5
    <3> QED
      BY <3>1, <3>2, <1>7
  <2> QED
    BY <2>1, <1>3, <1>7 DEF NamesAreKept, d
<1>8. CASE d[k] = d[k - 1] + 1 /\ names[k] = Append(names[k - 1], segment)
  <2>0. segment \in PathName \/ segment \notin PathName
    OBVIOUS
  <2>1. /\ Len(names[k]) = d[k]
        /\ names[k][d[k]] = segment
        /\ \A x \in 1..d[k - 1] : names[k][x] = names[k - 1][x]
    BY <1>3, <1>5, <1>8
  <2>2. \A x \in 1..d[k] : \E i \in Kept(d, k) : d[i] = x /\ segments[i] = names[k][x]
    <3> TAKE x \in 1..d[k]
    <3>1. CASE x = d[k]
      <4>1. k \in Kept(d, k)
        BY <1>0, <1>5, <1>8 DEF Kept
      <4> QED
        BY <3>1, <4>1, <2>1
    <3>2. CASE x # d[k]
      <4>1. x \in 1..d[k - 1]
        BY <1>5, <1>8, <3>2
      <4>2. PICK i \in Kept(d, k - 1) : d[i] = x /\ segments[i] = names[k - 1][x]
        BY <1>4, <4>1
      <4>3. i \in Kept(d, k)
        BY <1>6, <4>2, <1>5
      <4> QED
        BY <2>1, <4>1, <4>2, <4>3
    <3> QED
      BY <3>1, <3>2
  <2> QED
    BY <2>1, <2>2 DEF NamesAreKept, d
<1>9. CASE d[k] = d[k - 1] - 1 /\ names[k] = Front(names[k - 1])
  <2>1. /\ Len(names[k]) = d[k]
        /\ \A x \in 1..d[k] : names[k][x] = names[k - 1][x]
    BY <1>3, <1>5, <1>9 DEF Front
  <2>2. \A x \in 1..d[k] : \E i \in Kept(d, k) : d[i] = x /\ segments[i] = names[k][x]
    <3> TAKE x \in 1..d[k]
    <3>1. x \in 1..d[k - 1]
      BY <1>5, <1>9
    <3>2. PICK i \in Kept(d, k - 1) : d[i] = x /\ segments[i] = names[k - 1][x]
      BY <1>4, <3>1
    <3>3. i \in Kept(d, k)
      BY <1>6, <3>2, <1>5
    <3> QED
      BY <2>1, <3>2, <3>3
  <2> QED
    BY <2>1, <2>2 DEF NamesAreKept, d
<1>10. CASE segment \in {<<>>, Dot}
  <2>1. d[k] = d[k - 1] /\ names[k] = names[k - 1]
    BY <1>1, <1>2, <1>10 DEF DepthStep, NormStep
  <2> QED
    BY <1>7, <2>1
<1>11. CASE segment \notin {<<>>, Dot} /\ segment # DotDot
  <2>1. d[k] = d[k - 1] + 1 /\ names[k] = Append(names[k - 1], segment)
    BY <1>1, <1>2, <1>11 DEF DepthStep, NormStep
  <2> QED
    BY <1>8, <2>1
<1>12. CASE segment \notin {<<>>, Dot} /\ segment = DotDot
  <2>1. CASE d[k - 1] = 0
    <3>1. names[k - 1] = <<>>
      BY <1>3, <2>1
    <3>2. d[k] = d[k - 1] /\ names[k] = names[k - 1]
      BY <1>1, <1>2, <1>12, <2>1, <3>1 DEF DepthStep, NormStep
    <3> QED
      BY <1>7, <3>2
  <2>2. CASE d[k - 1] # 0
    <3>1. names[k - 1] # <<>>
      BY <1>3, <2>2
    <3>2. d[k] = d[k - 1] - 1 /\ names[k] = Front(names[k - 1])
      BY <1>1, <1>2, <1>12, <2>2, <3>1 DEF DepthStep, NormStep
    <3> QED
      BY <1>9, <3>2
  <2> QED
    BY <2>1, <2>2
<1> QED
  BY <1>10, <1>11, <1>12

(* The path that normpath computes is where the walk ends.                  *)
LEMMA NormpathIsTheWalk ==
  ASSUME NEW u, Unquote(PathOrRoot(u)) \in Seq(Chars)
  PROVE  /\ Location(u) = NamesLeft(Segments(Unquote(PathOrRoot(u))))
         /\ Location(u) \in Seq(PathName)
<1> DEFINE segments == Segments(Unquote(PathOrRoot(u)))
           N == Len(segments)
           d == DepthAfter(segments)
<1>1. segments \in Seq(Segment) /\ N \in Nat
  BY SegmentsTyped
<1> HIDE DEF segments
<1>2. PICK names \in [0..N -> Seq(PathName)] : NamesUpTo(names, segments)
  BY <1>1, NamesFold
<1>3. d \in [0..N -> Nat] /\ d[0] = 0
  BY <1>1, DepthFold
<1>4. \A k \in 0..N : NamesAreKept(d, names, segments, k)
  <2> DEFINE T == {k \in 0..N : NamesAreKept(d, names, segments, k)}
  <2>1. 0 \in T
    BY <1>1, <1>2, <1>3 DEF NamesUpTo, NamesAreKept
  <2>2. ASSUME NEW k \in 1..N, k - 1 \in T
        PROVE  k \in T
    BY <1>1, <1>2, <2>2, KeptStep
  <2> HIDE DEF T, N
  <2>3. \A k \in 0..N : k \in T
    BY <1>1, <2>1, <2>2, BoundedInduction
  <2> QED
    BY <2>3 DEF T
<1>5. NamesAreKept(d, names, segments, N) /\ names[N] \in Seq(PathName) /\ d[N] \in Nat
  BY <1>1, <1>2, <1>3, <1>4
<1>6. ASSUME NEW x \in 1..d[N]
      PROVE  segments[CHOOSE i \in Kept(d, N) : d[i] = x] = names[N][x]
  <2>1. PICK i \in Kept(d, N) : d[i] = x /\ segments[i] = names[N][x]
    BY <1>5 DEF NamesAreKept
  <2>2. ASSUME NEW j \in Kept(d, N), d[j] = x
        PROVE  j = i
    <3>1. N \in 0..N /\ d[j] = d[i]
      BY <1>1, <2>1, <2>2
    <3> HIDE DEF d, N
    <3> QED
      BY <1>1, <1>3, <3>1, OneStepPerDepth
  <2>3. (CHOOSE j \in Kept(d, N) : d[j] = x) = i
    BY <2>1, <2>2
  <2> QED
    BY <2>1, <2>3
<1>7. Location(u) = [x \in 1..d[N] |-> segments[CHOOSE i \in Kept(d, N) : d[i] = x]]
  <2>1. DOMAIN segments = 1..N
    BY <1>1
  <2> QED
    BY <2>1 DEF Location, Kept, segments
<1>8. Location(u) = [x \in 1..d[N] |-> names[N][x]]
  <2> HIDE DEF d, N
  <2> QED
    BY <1>6, <1>7
<1>9. names[N] = [x \in 1..d[N] |-> names[N][x]]
  BY <1>5 DEF NamesAreKept
<1>10. names[N] = NamesLeft(segments)
  BY <1>2 DEF NamesUpTo
<1> QED
  BY <1>5, <1>8, <1>9, <1>10 DEF segments

-----------------------------------------------------------------------------
Begins(p, q) == Len(p) <= Len(q) /\ \A i \in 1..Len(p) : p[i] = q[i]

LEMMA PrefixByPosition ==
  ASSUME NEW S, NEW p \in Seq(S), NEW q \in Seq(S)
  PROVE  IsPrefix(p, q) <=> Begins(p, q)
<1>1. CASE Len(p) <= Len(q)
  <2>1. /\ SubSeq(p, 1, Len(p)) \in Seq(S) /\ SubSeq(q, 1, Len(p)) \in Seq(S)
        /\ Len(SubSeq(p, 1, Len(p))) = Len(p) /\ Len(SubSeq(q, 1, Len(p))) = Len(p)
        /\ \A i \in 1..Len(p) : SubSeq(p, 1, Len(p))[i] = p[i] /\ SubSeq(q, 1, Len(p))[i] = q[i]
    BY <1>1
  <2> QED
    BY <1>1, <2>1 DEF IsPrefix, Begins
<1>2. CASE ~(Len(p) <= Len(q))
  BY <1>2 DEF IsPrefix, Begins
<1> QED
  BY <1>1, <1>2

Piece(names, i) == IF i = 1 THEN names[i] ELSE <<"/">> \o names[i]

(* f holds what is joined of the first k names.                             *)
JoinsUpTo(f, names) ==
  /\ f[0] = <<>>
  /\ \A i \in 1..Len(names) : f[i] = f[i - 1] \o Piece(names, i)
  /\ Joined(names) = f[Len(names)]

LEMMA PathNameTyped ==
  ASSUME NEW name \in PathName
  PROVE  /\ name \in Seq(Chars) /\ Len(name) \in Nat \ {0}
         /\ \A i \in 1..Len(name) : name[i] # "/"
<1>1. name \in Seq(Chars \ {"/"}) /\ name # <<>>
  BY DEF PathName, Segment
<1> QED
  BY <1>1

LEMMA PieceTyped ==
  ASSUME NEW names \in Seq(PathName), NEW i \in 1..Len(names)
  PROVE  Piece(names, i) \in Seq(Chars)
<1>1. names[i] \in Seq(Chars) /\ "/" \in Chars
  BY PathNameTyped, EgressAssumption
<1> QED
  BY <1>1 DEF Piece

LEMMA JoinFold ==
  ASSUME NEW names \in Seq(PathName)
  PROVE  \E f \in [0..Len(names) -> Seq(Chars)] : JoinsUpTo(f, names)
<1> DEFINE pieces == [i \in DOMAIN names |-> Piece(names, i)]
<1>1. /\ pieces \in Seq(Seq(Chars)) /\ Len(pieces) = Len(names)
      /\ \A i \in 1..Len(names) : pieces[i] = Piece(names, i)
  BY PieceTyped
<1>2. Joined(names) = FlattenSeq(pieces)
  BY DEF Joined, Piece
<1> HIDE DEF pieces
<1>3. PICK f \in [0..Len(pieces) -> Seq(Chars)] : Flattens(f, pieces)
  BY <1>1, Flattening
<1>4. f \in [0..Len(names) -> Seq(Chars)] /\ JoinsUpTo(f, names)
  BY <1>1, <1>2, <1>3 DEF Flattens, JoinsUpTo
<1> QED
  BY <1>4

LEMMA SlashBetween ==
  ASSUME NEW g \in Seq(Chars), NEW name \in Seq(Chars), "/" \in Chars,
         NEW h, h = g \o (<<"/">> \o name)
  PROVE  /\ Len(h) = (Len(g) + 1) + Len(name)
         /\ Begins(g, h)
         /\ h[Len(g) + 1] = "/"
         /\ StandsAt(name, h, Len(g) + 1)
<1> DEFINE piece == <<"/">> \o name
<1>1. /\ piece \in Seq(Chars) /\ Len(piece) = Len(name) + 1 /\ piece[1] = "/"
      /\ \A i \in 1..Len(name) : piece[i + 1] = name[i]
  OBVIOUS
<1>2. h = g \o piece
  OBVIOUS
<1> HIDE DEF piece
<1>3. /\ Len(h) = Len(g) + Len(piece)
      /\ \A i \in 1..Len(g) : h[i] = g[i]
      /\ \A i \in 1..Len(piece) : h[Len(g) + i] = piece[i]
  <2>1. Concatenates(g \o piece, g, piece)
    BY <1>1, Concatenated
  <2> QED
    BY <1>2, <2>1 DEF Concatenates
<1>4. Len(g) \in Nat /\ Len(name) \in Nat
  OBVIOUS
<1>5. Len(h) = (Len(g) + 1) + Len(name)
  BY <1>1, <1>3, <1>4
<1>6. ASSUME NEW i \in 1..Len(name)
      PROVE  h[(Len(g) + 1) + i] = name[i]
  <2>1. i + 1 \in 1..Len(piece) /\ Len(g) + (i + 1) = (Len(g) + 1) + i
    BY <1>1, <1>4
  <2> QED
    BY <1>1, <1>3, <2>1
<1>7. h[Len(g) + 1] = "/"
  BY <1>1, <1>3, <1>4
<1> QED
  BY <1>3, <1>4, <1>5, <1>6, <1>7 DEF Begins, StandsAt

(* Where the k-th name begins in what is joined of the first k.             *)
Before(f, k) == IF k = 1 THEN 0 ELSE Len(f[k - 1]) + 1

LEMMA JoinTurn ==
  ASSUME NEW names \in Seq(PathName), NEW f \in [0..Len(names) -> Seq(Chars)],
         JoinsUpTo(f, names), NEW k \in 1..Len(names)
  PROVE  /\ Before(f, k) \in Nat
         /\ Len(f[k]) = Before(f, k) + Len(names[k])
         /\ Begins(f[k - 1], f[k])
         /\ k # 1 => f[k][Before(f, k)] = "/"
         /\ StandsAt(names[k], f[k], Before(f, k))
<1>1. k - 1 \in 0..Len(names) /\ k \in 0..Len(names) /\ f[k] = f[k - 1] \o Piece(names, k)
  BY DEF JoinsUpTo
<1>2. names[k] \in Seq(Chars) /\ "/" \in Chars /\ f[k - 1] \in Seq(Chars) /\ f[k] \in Seq(Chars)
  <2>1. names[k] \in PathName
    OBVIOUS
  <2> QED
    BY <1>1, <2>1, PathNameTyped, EgressAssumption
<1>3. CASE k = 1
  <2>1. f[k] = names[k] /\ f[k - 1] = <<>> /\ Before(f, k) = 0
    BY <1>1, <1>2, <1>3 DEF Piece, JoinsUpTo, Before
  <2> DEFINE name == names[k]
  <2>2. name \in Seq(Chars)
    BY <1>2
  <2> HIDE DEF name
  <2>3. Len(name) = 0 + Len(name) /\ Begins(<<>>, name) /\ StandsAt(name, name, 0)
    BY <2>2 DEF Begins, StandsAt
  <2> QED
    BY <1>3, <2>1, <2>3 DEF name
<1>4. CASE k # 1
  <2>1. Before(f, k) = Len(f[k - 1]) + 1
    BY <1>4 DEF Before
  <2>2. f[k] = f[k - 1] \o (<<"/">> \o names[k])
    BY <1>1, <1>4 DEF Piece
  <2>3. /\ Len(f[k]) = (Len(f[k - 1]) + 1) + Len(names[k])
        /\ Begins(f[k - 1], f[k])
        /\ f[k][Len(f[k - 1]) + 1] = "/"
        /\ StandsAt(names[k], f[k], Len(f[k - 1]) + 1)
    BY <1>2, <2>2, SlashBetween
  <2>4. Len(f[k - 1]) + 1 \in Nat
    BY <1>2
  <2> QED
    BY <2>1, <2>3, <2>4
<1> QED
  BY <1>3, <1>4

(* part stands there as a whole name: a "/" or nothing follows.             *)
StandsAsName(part, whole, p) ==
  /\ StandsAt(part, whole, p)
  /\ Len(whole) > p + Len(part) => whole[p + Len(part) + 1] = "/"

LEMMA Extends ==
  ASSUME NEW part \in Seq(Chars), NEW g \in Seq(Chars), NEW h \in Seq(Chars), NEW p \in Nat,
         StandsAsName(part, g, p), Begins(g, h),
         Len(g) = p + Len(part) /\ Len(h) > Len(g) => h[Len(g) + 1] = "/"
  PROVE  StandsAsName(part, h, p)
<1>0. Len(g) \in Nat /\ Len(h) \in Nat /\ Len(part) \in Nat
  OBVIOUS
<1>1. /\ p + Len(part) <= Len(g) /\ Len(g) <= Len(h)
      /\ \A i \in 1..Len(part) : g[p + i] = part[i]
      /\ \A i \in 1..Len(g) : h[i] = g[i]
  BY DEF StandsAsName, StandsAt, Begins
<1>2. ASSUME NEW i \in 1..Len(part)
      PROVE  h[p + i] = part[i]
  <2>1. p + i \in 1..Len(g)
    BY <1>0, <1>1
  <2> QED
    BY <1>1, <2>1
<1>3. ASSUME Len(h) > p + Len(part)
      PROVE  h[p + Len(part) + 1] = "/"
  <2>1. CASE Len(g) = p + Len(part)
    BY <1>3, <2>1
  <2>2. CASE Len(g) # p + Len(part)
    <3>1. p + Len(part) + 1 \in 1..Len(g) /\ Len(g) > p + Len(part)
      BY <1>0, <1>1, <2>2
    <3> QED
      BY <1>1, <3>1 DEF StandsAsName
  <2> QED
    BY <2>1, <2>2
<1> QED
  BY <1>0, <1>1, <1>2, <1>3 DEF StandsAsName, StandsAt

LEMMA BeginsBegins ==
  ASSUME NEW p \in Seq(Chars), NEW q \in Seq(Chars), NEW r \in Seq(Chars),
         Begins(p, q), Begins(q, r)
  PROVE  Begins(p, r)
BY DEF Begins

(* The k-th name in what is joined of the first m.                          *)
Holds(names, f, k, m) ==
  /\ StandsAsName(names[k], f[m], Before(f, k))
  /\ Begins(f[k], f[m])
  /\ k < m => Len(f[k]) < Len(f[m])

LEMMA JoinHolds ==
  ASSUME NEW names \in Seq(PathName), NEW f \in [0..Len(names) -> Seq(Chars)],
         JoinsUpTo(f, names), NEW k \in 1..Len(names), NEW m \in k..Len(names)
  PROVE  Holds(names, f, k, m)
<1> DEFINE N == Len(names)
           T == {i \in 0..N : i >= k => Holds(names, f, k, i)}
<1>0. N \in Nat /\ k \in Nat /\ k > 0
  OBVIOUS
<1>1. 0 \in T
  BY <1>0
<1>2. ASSUME NEW i \in 1..N, i - 1 \in T
      PROVE  i \in T
  <2> SUFFICES ASSUME i >= k PROVE Holds(names, f, k, i)
    BY <1>0
  <2>1. /\ Before(f, i) \in Nat
        /\ Len(f[i]) = Before(f, i) + Len(names[i])
        /\ Begins(f[i - 1], f[i])
        /\ i # 1 => f[i][Before(f, i)] = "/"
        /\ StandsAt(names[i], f[i], Before(f, i))
    BY JoinTurn
  <2>2. /\ names[i] \in Seq(Chars) /\ Len(names[i]) \in Nat \ {0}
        /\ names[k] \in Seq(Chars)
    <3>1. names[i] \in PathName /\ names[k] \in PathName
      OBVIOUS
    <3> QED
      BY <3>1, PathNameTyped
  <2>3. f[i] \in Seq(Chars) /\ f[i - 1] \in Seq(Chars) /\ f[k] \in Seq(Chars)
    <3>1. i \in 0..N /\ i - 1 \in 0..N /\ k \in 0..N
      BY <1>0
    <3> QED
      BY <3>1
  <2>4. CASE i = k
    <3>1. ~(Len(f[i]) > Before(f, i) + Len(names[i]))
      BY <2>1, <2>2
    <3>2. Begins(f[i], f[i])
      BY <2>3 DEF Begins
    <3> QED
      BY <2>1, <2>4, <3>1, <3>2 DEF Holds, StandsAsName
  <2>5. CASE i # k
    <3>1. i - 1 >= k /\ i # 1 /\ i - 1 \in 0..N
      BY <1>0, <2>5
    <3>2. Holds(names, f, k, i - 1)
      BY <1>2, <3>1
    <3>3. Before(f, i) = Len(f[i - 1]) + 1 /\ f[i][Len(f[i - 1]) + 1] = "/"
      BY <2>1, <3>1 DEF Before
    <3>4. Before(f, k) \in Nat
      BY JoinTurn
    <3>5. StandsAsName(names[k], f[i], Before(f, k))
      BY <2>1, <2>2, <2>3, <3>2, <3>3, <3>4, Extends DEF Holds
    <3>6. Begins(f[k], f[i])
      BY <2>1, <2>3, <3>2, BeginsBegins DEF Holds
    <3>7. Len(f[k]) < Len(f[i])
      <4>1. Len(f[k]) <= Len(f[i - 1])
        BY <3>2 DEF Holds, Begins
      <4>2. Len(f[k]) \in Nat /\ Len(f[i - 1]) \in Nat
        BY <2>3
      <4>3. Len(f[i]) = (Len(f[i - 1]) + 1) + Len(names[i])
        BY <2>1, <3>3
      <4> DEFINE lk == Len(f[k])
                 lp == Len(f[i - 1])
                 ln == Len(names[i])
      <4>4. lk \in Nat /\ lp \in Nat /\ ln \in Nat /\ lk <= lp
        BY <2>2, <4>1, <4>2
      <4> HIDE DEF lk, lp, ln
      <4>5. lk < (lp + 1) + ln
        BY <4>4
      <4> QED
        BY <4>3, <4>5 DEF lk, lp, ln
    <3> QED
      BY <3>5, <3>6, <3>7 DEF Holds
  <2> QED
    BY <2>4, <2>5
<1>3. \A i \in 0..N : i \in T
  <2> HIDE DEF T, N
  <2> QED
    BY <1>0, <1>1, <1>2, BoundedInduction
<1>4. m \in 0..N /\ m >= k
  BY <1>0
<1> QED
  BY <1>3, <1>4

(* Two names that stand at the same place of two paths are one name when    *)
(* the first path is the second up to a "/" or its end.                     *)
Above(p, q) == Begins(p, q) /\ (Len(p) < Len(q) => q[Len(p) + 1] = "/")

LEMMA SameName ==
  ASSUME NEW x \in PathName, NEW y \in PathName, NEW p \in Nat,
         NEW g \in Seq(Chars), NEW h \in Seq(Chars), Above(g, h),
         StandsAsName(x, g, p), StandsAsName(y, h, p)
  PROVE  x = y
<1>1. /\ x \in Seq(Chars) /\ Len(x) \in Nat \ {0} /\ \A i \in 1..Len(x) : x[i] # "/"
      /\ y \in Seq(Chars) /\ Len(y) \in Nat \ {0} /\ \A i \in 1..Len(y) : y[i] # "/"
  BY PathNameTyped
<1>2. Len(g) \in Nat /\ Len(h) \in Nat
  OBVIOUS
<1>3. /\ p + Len(x) <= Len(g) /\ \A i \in 1..Len(x) : g[p + i] = x[i]
      /\ Len(g) > p + Len(x) => g[p + Len(x) + 1] = "/"
  BY DEF StandsAsName, StandsAt
<1>4. /\ p + Len(y) <= Len(h) /\ \A i \in 1..Len(y) : h[p + i] = y[i]
      /\ Len(h) > p + Len(y) => h[p + Len(y) + 1] = "/"
  BY DEF StandsAsName, StandsAt
<1>5. /\ Len(g) <= Len(h) /\ \A i \in 1..Len(g) : h[i] = g[i]
      /\ Len(g) < Len(h) => h[Len(g) + 1] = "/"
  BY DEF Above, Begins
<1>6. ~(Len(x) < Len(y))
  <2> SUFFICES ASSUME Len(x) < Len(y) PROVE FALSE
    OBVIOUS
  <2>1. Len(x) + 1 \in 1..Len(y) /\ p + (Len(x) + 1) = p + Len(x) + 1
    BY <1>1
  <2>2. h[p + Len(x) + 1] # "/"
    BY <1>1, <1>4, <2>1
  <2>3. CASE Len(g) = p + Len(x)
    <3>1. Len(g) < Len(h)
      BY <1>1, <1>2, <1>4, <2>3
    <3> QED
      BY <1>5, <2>2, <2>3, <3>1
  <2>4. CASE Len(g) # p + Len(x)
    <3>1. Len(g) > p + Len(x) /\ p + Len(x) + 1 \in 1..Len(g)
      BY <1>1, <1>2, <1>3, <2>4
    <3> QED
      BY <1>3, <1>5, <2>2, <3>1
  <2> QED
    BY <2>3, <2>4
<1>7. ~(Len(y) < Len(x))
  <2> SUFFICES ASSUME Len(y) < Len(x) PROVE FALSE
    OBVIOUS
  <2>1. Len(y) + 1 \in 1..Len(x) /\ p + (Len(y) + 1) = p + Len(y) + 1
    BY <1>1
  <2>2. g[p + Len(y) + 1] # "/"
    BY <1>1, <1>3, <2>1
  <2>3. p + Len(y) + 1 \in 1..Len(g) /\ Len(h) > p + Len(y)
    BY <1>1, <1>2, <1>3, <1>5
  <2> QED
    BY <1>4, <1>5, <2>2, <2>3
<1>8. Len(x) = Len(y)
  BY <1>1, <1>6, <1>7
<1>9. ASSUME NEW i \in 1..Len(x)
      PROVE  x[i] = y[i]
  <2>1. p + i \in 1..Len(g)
    BY <1>1, <1>2, <1>3
  <2> QED
    BY <1>3, <1>4, <1>5, <1>8, <2>1
<1> QED
  BY <1>1, <1>8, <1>9

(* What is joined of the same names is the same.                            *)
LEMMA SameStart ==
  ASSUME NEW a \in Seq(PathName), NEW b \in Seq(PathName),
         NEW f \in [0..Len(a) -> Seq(Chars)], NEW h \in [0..Len(b) -> Seq(Chars)],
         JoinsUpTo(f, a), JoinsUpTo(h, b),
         NEW k \in 0..Len(a), k <= Len(b), \A j \in 1..k : a[j] = b[j]
  PROVE  f[k] = h[k]
<1> DEFINE T == {j \in 0..k : f[j] = h[j]}
<1>0. k \in Nat /\ Len(a) \in Nat /\ Len(b) \in Nat /\ k <= Len(a)
  OBVIOUS
<1>1. 0 \in T
  BY <1>0 DEF JoinsUpTo
<1>2. ASSUME NEW j \in 1..k, j - 1 \in T
      PROVE  j \in T
  <2>1. j \in 1..Len(a) /\ j \in 1..Len(b) /\ j \in 0..k
    BY <1>0
  <2>2. f[j] = f[j - 1] \o Piece(a, j) /\ h[j] = h[j - 1] \o Piece(b, j)
    BY <2>1 DEF JoinsUpTo
  <2>3. Piece(a, j) = Piece(b, j) /\ f[j - 1] = h[j - 1]
    BY <1>2 DEF Piece
  <2> QED
    BY <2>1, <2>2, <2>3
<1>3. \A j \in 0..k : j \in T
  <2> HIDE DEF T
  <2> QED
    BY <1>0, <1>1, <1>2, BoundedInduction
<1> QED
  BY <1>0, <1>3

LEMMA AboveHasNames ==
  ASSUME NEW a \in Seq(PathName), NEW b \in Seq(PathName),
         Above(Joined(a), Joined(b))
  PROVE  IsPrefix(a, b)
<1> DEFINE N == Len(a)
           M == Len(b)
<1>0. N \in Nat /\ M \in Nat
  OBVIOUS
<1>1. PICK f \in [0..N -> Seq(Chars)] : JoinsUpTo(f, a)
  BY JoinFold
<1>2. PICK h \in [0..M -> Seq(Chars)] : JoinsUpTo(h, b)
  BY JoinFold
<1>3. Joined(a) = f[N] /\ Joined(b) = h[M] /\ f[N] \in Seq(Chars) /\ h[M] \in Seq(Chars)
  <2>1. N \in 0..N /\ M \in 0..M
    BY <1>0
  <2>2. f[N] \in Seq(Chars) /\ h[M] \in Seq(Chars)
    BY <2>1
  <2> QED
    BY <1>1, <1>2, <2>2 DEF JoinsUpTo
<1> DEFINE T == {k \in 0..N : k <= M /\ \A j \in 1..k : a[j] = b[j]}
<1>4. 0 \in T
  BY <1>0
<1>5. ASSUME NEW k \in 1..N, k - 1 \in T
      PROVE  k \in T
  <2>0. /\ k - 1 \in 0..N /\ k - 1 <= M /\ \A j \in 1..(k - 1) : a[j] = b[j]
        /\ k \in 0..N /\ k \in Nat
    BY <1>0, <1>5
  <2>1. f[k - 1] = h[k - 1]
    <3> HIDE DEF T
    <3> QED
      BY <1>1, <1>2, <2>0, SameStart
  <2>2. Holds(a, f, k, N) /\ Before(f, k) \in Nat
    <3>1. N \in k..N
      BY <1>0
    <3> QED
      BY <1>1, <3>1, JoinHolds, JoinTurn
  <2>3. k <= M
    <3> SUFFICES ASSUME ~(k <= M) PROVE FALSE
      OBVIOUS
    <3>1. k - 1 = M
      BY <1>0, <2>0
    <3>2. h[M] = f[k - 1]
      BY <2>1, <3>1
    <3>3. Len(f[k - 1]) < Len(f[k])
      <4>1. /\ Before(f, k) \in Nat
            /\ Len(f[k]) = Before(f, k) + Len(a[k])
            /\ Begins(f[k - 1], f[k])
        BY <1>1, JoinTurn
      <4>2. a[k] \in PathName /\ f[k - 1] \in Seq(Chars)
        <5>1. f[k - 1] \in Seq(Chars)
          BY <2>0
        <5> QED
          BY <5>1
      <4>3. Len(a[k]) \in Nat \ {0} /\ Len(f[k - 1]) \in Nat
        BY <4>2, PathNameTyped
      <4>4. CASE k = 1
        <5>1. f[k - 1] = <<>> /\ Before(f, k) = 0
          BY <1>1, <4>4 DEF JoinsUpTo, Before
        <5>2. Len(f[k]) = Len(a[k]) /\ Len(f[k - 1]) = 0
          BY <4>1, <4>3, <5>1
        <5> QED
          BY <4>3, <5>2
      <4>5. CASE k # 1
        <5>1. Before(f, k) = Len(f[k - 1]) + 1
          BY <4>5 DEF Before
        <5>2. Len(f[k]) = (Len(f[k - 1]) + 1) + Len(a[k])
          BY <4>1, <5>1
        <5> DEFINE lp == Len(f[k - 1])
                   la == Len(a[k])
        <5>3. lp \in Nat /\ la \in Nat
          BY <4>3
        <5> HIDE DEF lp, la
        <5>4. lp < (lp + 1) + la
          BY <5>3
        <5> QED
          BY <5>2, <5>4 DEF lp, la
      <4> QED
        BY <4>4, <4>5
    <3>4. Len(f[k]) <= Len(f[N])
      BY <2>2 DEF Holds, Begins
    <3>5. Len(f[N]) <= Len(h[M])
      BY <1>3 DEF Above, Begins
    <3>6. /\ Len(f[k]) \in Nat /\ Len(f[k - 1]) \in Nat
          /\ Len(f[N]) \in Nat /\ Len(h[M]) \in Nat
      <4>1. f[k] \in Seq(Chars) /\ f[k - 1] \in Seq(Chars)
        BY <2>0
      <4> QED
        BY <1>3, <4>1
    <3>7. Len(h[M]) = Len(f[k - 1])
      BY <3>2
    <3> DEFINE lp == Len(f[k - 1])
               lk == Len(f[k])
               ln == Len(f[N])
               lm == Len(h[M])
    <3>8. /\ lp \in Nat /\ lk \in Nat /\ ln \in Nat /\ lm \in Nat
          /\ lm = lp /\ ln <= lm /\ lk <= ln /\ lp < lk
      BY <3>3, <3>4, <3>5, <3>6, <3>7
    <3> HIDE DEF lp, lk, ln, lm
    <3> QED
      BY <3>8
  <2>4. k \in 1..M
    BY <1>0, <2>3
  <2>5. Holds(b, h, k, M)
    <3>1. M \in k..M
      BY <1>0, <2>3
    <3> QED
      BY <1>2, <2>4, <3>1, JoinHolds
  <2>6. Before(f, k) = Before(h, k)
    BY <2>1 DEF Before
  <2>7. a[k] = b[k]
    <3>1. a[k] \in PathName /\ b[k] \in PathName
      BY <2>4
    <3>2. Above(f[N], h[M])
      BY <1>3
    <3> HIDE DEF T
    <3> QED
      BY <1>3, <2>2, <2>5, <2>6, <3>1, <3>2, SameName DEF Holds
  <2>8. \A j \in 1..k : a[j] = b[j]
    <3>1. \A j \in 1..k : j \in 1..(k - 1) \/ j = k
      BY <1>0
    <3> QED
      BY <2>0, <2>7, <3>1
  <2> QED
    BY <1>0, <2>3, <2>8
<1>6. N \in T
  <2>1. \A k \in 0..N : k \in T
    <3> HIDE DEF T, N
    <3> QED
      BY <1>0, <1>4, <1>5, BoundedInduction
  <2> QED
    BY <1>0, <2>1
<1>7. Begins(a, b)
  BY <1>6 DEF Begins
<1> QED
  BY <1>7, PrefixByPosition

LEMMA NamesAreAbove ==
  ASSUME NEW a \in Seq(PathName), NEW b \in Seq(PathName), a # <<>>,
         IsPrefix(a, b)
  PROVE  Above(Joined(a), Joined(b))
<1> DEFINE N == Len(a)
           M == Len(b)
<1>0. N \in Nat /\ M \in Nat /\ N # 0
  OBVIOUS
<1>1. PICK f \in [0..N -> Seq(Chars)] : JoinsUpTo(f, a)
  BY JoinFold
<1>2. PICK h \in [0..M -> Seq(Chars)] : JoinsUpTo(h, b)
  BY JoinFold
<1>3. Joined(a) = f[N] /\ Joined(b) = h[M] /\ f[N] \in Seq(Chars) /\ h[M] \in Seq(Chars)
  <2>1. N \in 0..N /\ M \in 0..M
    BY <1>0
  <2>2. f[N] \in Seq(Chars) /\ h[M] \in Seq(Chars)
    BY <2>1
  <2> QED
    BY <1>1, <1>2, <2>2 DEF JoinsUpTo
<1>4. N <= M /\ \A j \in 1..N : a[j] = b[j]
  BY PrefixByPosition DEF Begins
<1>5. N \in 0..N /\ N \in 1..M /\ M \in N..M
  BY <1>0, <1>4
<1>6. f[N] = h[N]
  BY <1>1, <1>2, <1>4, <1>5, SameStart
<1>7. Holds(b, h, N, M)
  BY <1>2, <1>5, JoinHolds
<1>8. Len(h[N]) = Before(h, N) + Len(b[N])
  BY <1>2, <1>5, JoinTurn
<1>9. Len(h[N]) < Len(h[M]) => h[M][Len(h[N]) + 1] = "/"
  BY <1>7, <1>8 DEF Holds, StandsAsName
<1> QED
  BY <1>3, <1>6, <1>7, <1>9 DEF Above, Holds

(* What is joined does not begin with a "/".                                *)
LEMMA JoinedHead ==
  ASSUME NEW names \in Seq(PathName)
  PROVE  /\ Joined(names) \in Seq(Chars)
         /\ names = <<>> => Joined(names) = <<>>
         /\ names # <<>> => Len(Joined(names)) > 0 /\ Joined(names)[1] # "/"
<1> DEFINE N == Len(names)
<1>0. N \in Nat
  OBVIOUS
<1>1. PICK f \in [0..N -> Seq(Chars)] : JoinsUpTo(f, names)
  BY JoinFold
<1>2. Joined(names) = f[N] /\ f[N] \in Seq(Chars) /\ (N = 0 => f[N] = <<>>)
  BY <1>0, <1>1 DEF JoinsUpTo
<1>3. ASSUME names # <<>>
      PROVE  Len(f[N]) > 0 /\ f[N][1] # "/"
  <2>1. 1 \in 1..N /\ N \in 1..N
    BY <1>0, <1>3
  <2>2. Holds(names, f, 1, N) /\ Before(f, 1) = 0
    BY <1>1, <2>1, JoinHolds DEF Before
  <2>3. names[1] \in PathName
    BY <2>1
  <2>4. Len(names[1]) \in Nat \ {0} /\ \A i \in 1..Len(names[1]) : names[1][i] # "/"
    BY <2>3, PathNameTyped
  <2>5. 0 + Len(names[1]) <= Len(f[N]) /\ \A i \in 1..Len(names[1]) : f[N][0 + i] = names[1][i]
    BY <2>2 DEF Holds, StandsAsName, StandsAt
  <2>6. 1 \in 1..Len(names[1]) /\ 0 + 1 = 1 /\ Len(f[N]) \in Nat
    BY <1>2, <2>4
  <2>7. f[N][1] = names[1][1]
    BY <2>5, <2>6
  <2> QED
    BY <2>4, <2>5, <2>6, <2>7
<1> QED
  BY <1>2, <1>3

-----------------------------------------------------------------------------
(* The leading slashes, and what normpath makes of a path of names.         *)
Root(n) == [i \in 1..n |-> "/"]

IsRooted(path, n, part) ==
  /\ path \in Seq(Chars) /\ Len(path) = n + Len(part)
  /\ \A i \in 1..n : path[i] = "/"
  /\ \A i \in 1..Len(part) : path[n + i] = part[i]

LEMMA Rooted ==
  ASSUME NEW n \in 1..2, NEW part \in Seq(Chars)
  PROVE  IsRooted(Root(n) \o part, n, part)
<1> DEFINE root == Root(n)
<1>1. root \in Seq(Chars) /\ Len(root) = n /\ \A i \in 1..n : root[i] = "/"
  BY EgressAssumption DEF Root
<1> HIDE DEF root
<1>2. /\ Len(root \o part) = Len(root) + Len(part)
      /\ \A i \in 1..Len(root) : (root \o part)[i] = root[i]
      /\ \A i \in 1..Len(part) : (root \o part)[Len(root) + i] = part[i]
  <2>1. Concatenates(root \o part, root, part)
    BY <1>1, Concatenated
  <2> QED
    BY <2>1 DEF Concatenates
<1>3. root \o part \in Seq(Chars)
  BY <1>1
<1>4. IsRooted(root \o part, n, part)
  BY <1>1, <1>2, <1>3 DEF IsRooted
<1> QED
  BY <1>4 DEF root

LEMMA AllowedIsAbove ==
  ASSUME NEW p \in Seq(Chars), NEW q \in Seq(Chars), PathAllowed(q, p)
  PROVE  p = <<"/">> \/ Above(p, q)
<1>1. CASE q = p
  BY <1>1 DEF Above, Begins
<1>2. CASE IsPrefix(p \o <<"/">>, q)
  <2> DEFINE slash == <<"/">>
             longer == p \o slash
  <2>1. slash \in Seq(Chars) /\ Len(slash) = 1 /\ slash[1] = "/"
    BY EgressAssumption
  <2> HIDE DEF slash
  <2>2. /\ longer \in Seq(Chars) /\ Len(longer) = Len(p) + 1
        /\ \A i \in 1..Len(p) : longer[i] = p[i]
        /\ \A i \in 1..Len(slash) : longer[Len(p) + i] = slash[i]
    <3>1. Concatenates(p \o slash, p, slash)
      BY <2>1, Concatenated
    <3>2. p \o slash \in Seq(Chars)
      BY <2>1
    <3> QED
      BY <2>1, <3>1, <3>2 DEF Concatenates
  <2>3. longer[Len(p) + 1] = "/"
    BY <2>1, <2>2
  <2> HIDE DEF longer
  <2>4. Begins(longer, q)
    BY <1>2, <2>2, PrefixByPosition DEF longer, slash
  <2>5. Len(p) \in Nat /\ Len(q) \in Nat
    OBVIOUS
  <2> QED
    BY <2>2, <2>3, <2>4, <2>5 DEF Above, Begins
<1> QED
  BY <1>1, <1>2 DEF PathAllowed

LEMMA AboveIsAllowed ==
  ASSUME NEW p \in Seq(Chars), NEW q \in Seq(Chars), Above(p, q)
  PROVE  PathAllowed(q, p)
<1>0. Len(p) \in Nat /\ Len(q) \in Nat
  OBVIOUS
<1>1. CASE Len(p) = Len(q)
  <2>1. p = q
    BY <1>1 DEF Above, Begins
  <2> QED
    BY <2>1 DEF PathAllowed
<1>2. CASE Len(p) # Len(q)
  <2> DEFINE slash == <<"/">>
             longer == p \o slash
  <2>1. slash \in Seq(Chars) /\ Len(slash) = 1 /\ slash[1] = "/"
    BY EgressAssumption
  <2> HIDE DEF slash
  <2>2. /\ longer \in Seq(Chars) /\ Len(longer) = Len(p) + 1
        /\ \A i \in 1..Len(p) : longer[i] = p[i]
        /\ \A i \in 1..Len(slash) : longer[Len(p) + i] = slash[i]
    <3>1. Concatenates(p \o slash, p, slash)
      BY <2>1, Concatenated
    <3>2. p \o slash \in Seq(Chars)
      BY <2>1
    <3> QED
      BY <2>1, <3>1, <3>2 DEF Concatenates
  <2>3. longer[Len(p) + 1] = "/"
    BY <2>1, <2>2
  <2> HIDE DEF longer
  <2>4. Len(p) < Len(q) /\ q[Len(p) + 1] = "/" /\ \A i \in 1..Len(p) : p[i] = q[i]
    BY <1>0, <1>2 DEF Above, Begins
  <2>5. \A i \in 1..Len(longer) : i \in 1..Len(p) \/ i = Len(p) + 1
    BY <1>0, <2>2
  <2>6. Begins(longer, q)
    BY <1>0, <2>2, <2>3, <2>4, <2>5 DEF Begins
  <2> QED
    BY <2>2, <2>6, PrefixByPosition DEF PathAllowed, longer, slash
<1> QED
  BY <1>1, <1>2

LEMMA AllowedHasNames ==
  ASSUME NEW a \in Seq(PathName), NEW b \in Seq(PathName),
         NEW m \in 1..2, NEW n \in 1..2,
         PathAllowed(Root(n) \o Joined(b), Root(m) \o Joined(a))
  PROVE  IsPrefix(a, b)
<1> DEFINE g == Joined(a)
           h == Joined(b)
           p == Root(m) \o g
           q == Root(n) \o h
<1>1. CASE a = <<>>
  <2>1. Begins(a, b)
    BY <1>1 DEF Begins
  <2> QED
    BY <2>1, PrefixByPosition
<1>2. CASE a # <<>>
  <2>1. g \in Seq(Chars) /\ Len(g) > 0 /\ g[1] # "/"
    BY <1>2, JoinedHead
  <2>2. h \in Seq(Chars) /\ (Len(h) > 0 => h[1] # "/")
    BY JoinedHead
  <2> HIDE DEF g, h
  <2>3. /\ p \in Seq(Chars) /\ Len(p) = m + Len(g)
        /\ \A i \in 1..m : p[i] = "/"
        /\ \A i \in 1..Len(g) : p[m + i] = g[i]
    <3>1. IsRooted(Root(m) \o g, m, g)
      BY <2>1, Rooted
    <3> QED
      BY <3>1 DEF IsRooted
  <2>4. /\ q \in Seq(Chars) /\ Len(q) = n + Len(h)
        /\ \A i \in 1..n : q[i] = "/"
        /\ \A i \in 1..Len(h) : q[n + i] = h[i]
    <3>1. IsRooted(Root(n) \o h, n, h)
      BY <2>2, Rooted
    <3> QED
      BY <3>1 DEF IsRooted
  <2>5. PathAllowed(q, p)
    BY DEF g, h
  <2> HIDE DEF p, q
  <2>6. Len(g) \in Nat /\ Len(h) \in Nat
    BY <2>1, <2>2
  <2>7. p # <<"/">>
    <3>1. Len(p) # 1
      BY <2>1, <2>3, <2>6
    <3> QED
      BY <3>1
  <2>8. Above(p, q)
    BY <2>3, <2>4, <2>5, <2>7, AllowedIsAbove
  <2>9. /\ m + Len(g) <= n + Len(h)
        /\ \A i \in 1..(m + Len(g)) : p[i] = q[i]
        /\ m + Len(g) < n + Len(h) => q[m + Len(g) + 1] = "/"
    BY <2>3, <2>4, <2>8 DEF Above, Begins
  <2>10. m = n
    <3>1. CASE m = 1 /\ n = 2
      <4>1. 2 \in 1..(m + Len(g)) /\ 1 \in 1..Len(g)
        BY <2>1, <2>6, <3>1
      <4>2. p[m + 1] = g[1] /\ q[2] = "/"
        BY <2>3, <2>4, <3>1, <4>1
      <4> QED
        BY <2>1, <2>9, <3>1, <4>1, <4>2
    <3>2. CASE m = 2 /\ n = 1
      <4>1. 2 \in 1..(m + Len(g)) /\ 1 \in 1..Len(h) /\ Len(h) > 0
        BY <2>1, <2>6, <2>9, <3>2
      <4>2. q[n + 1] = h[1] /\ p[2] = "/"
        BY <2>3, <2>4, <3>2, <4>1
      <4> QED
        BY <2>2, <2>9, <3>2, <4>1, <4>2
    <3> QED
      BY <3>1, <3>2
  <2>11. ASSUME NEW i \in 1..Len(g)
         PROVE  g[i] = h[i]
    <3>1. m + i \in 1..(m + Len(g)) /\ i \in 1..Len(h)
      BY <2>6, <2>9, <2>10
    <3> QED
      BY <2>3, <2>4, <2>9, <2>10, <3>1
  <2>12. ASSUME Len(g) < Len(h)
         PROVE  h[Len(g) + 1] = "/"
    <3>1. /\ m + Len(g) < n + Len(h) /\ Len(g) + 1 \in 1..Len(h)
          /\ m + Len(g) + 1 = n + (Len(g) + 1)
      BY <2>6, <2>10, <2>12
    <3> QED
      BY <2>4, <2>9, <3>1
  <2>13. Len(g) <= Len(h)
    BY <2>6, <2>9, <2>10
  <2>14. Above(g, h)
    BY <2>11, <2>12, <2>13 DEF Above, Begins
  <2> QED
    BY <2>14, AboveHasNames DEF g, h
<1> QED
  BY <1>1, <1>2

LEMMA NamesAreAllowed ==
  ASSUME NEW a \in Seq(PathName), NEW b \in Seq(PathName), IsPrefix(a, b)
  PROVE  PathAllowed(Root(1) \o Joined(b), Root(1) \o Joined(a))
<1> DEFINE g == Joined(a)
           h == Joined(b)
           p == Root(1) \o g
           q == Root(1) \o h
<1>1. g \in Seq(Chars) /\ h \in Seq(Chars) /\ (a = <<>> => g = <<>>)
  BY JoinedHead
<1>2. CASE a = <<>>
  <2>1. Root(1) = <<"/">>
    BY DEF Root
  <2>2. Root(1) \o <<>> = <<"/">>
    BY <2>1
  <2>3. p = <<"/">>
    BY <1>1, <1>2, <2>2
  <2> HIDE DEF p, q
  <2>4. PathAllowed(q, p)
    BY <2>3 DEF PathAllowed
  <2> QED
    BY <2>4 DEF p, q
<1>3. CASE a # <<>>
  <2>1. Above(g, h)
    BY <1>3, NamesAreAbove
  <2> HIDE DEF g, h
  <2>2. 1 \in 1..2
    OBVIOUS
  <2>3. /\ p \in Seq(Chars) /\ Len(p) = 1 + Len(g)
        /\ \A i \in 1..1 : p[i] = "/"
        /\ \A i \in 1..Len(g) : p[1 + i] = g[i]
    <3>1. IsRooted(Root(1) \o g, 1, g)
      BY <1>1, <2>2, Rooted
    <3> QED
      BY <3>1 DEF IsRooted
  <2>4. /\ q \in Seq(Chars) /\ Len(q) = 1 + Len(h)
        /\ \A i \in 1..1 : q[i] = "/"
        /\ \A i \in 1..Len(h) : q[1 + i] = h[i]
    <3>1. IsRooted(Root(1) \o h, 1, h)
      BY <1>1, <2>2, Rooted
    <3> QED
      BY <3>1 DEF IsRooted
  <2> HIDE DEF p, q
  <2>5. Len(g) \in Nat /\ Len(h) \in Nat
    BY <1>1
  <2>6. /\ Len(g) <= Len(h) /\ \A i \in 1..Len(g) : g[i] = h[i]
        /\ Len(g) < Len(h) => h[Len(g) + 1] = "/"
    BY <2>1 DEF Above, Begins
  <2>7. ASSUME NEW i \in 1..Len(p)
        PROVE  p[i] = q[i]
    <3>1. CASE i = 1
      BY <2>3, <2>4, <3>1
    <3>2. CASE i # 1
      <4>1. i - 1 \in 1..Len(g) /\ i - 1 \in 1..Len(h) /\ 1 + (i - 1) = i
        BY <2>3, <2>5, <2>6, <3>2
      <4> QED
        BY <2>3, <2>4, <2>6, <4>1
    <3> QED
      BY <3>1, <3>2
  <2>8. ASSUME Len(p) < Len(q)
        PROVE  q[Len(p) + 1] = "/"
    <3>1. Len(g) < Len(h) /\ Len(g) + 1 \in 1..Len(h) /\ Len(p) + 1 = 1 + (Len(g) + 1)
      BY <2>3, <2>4, <2>5, <2>8
    <3> QED
      BY <2>4, <2>6, <3>1
  <2>9. Len(p) <= Len(q)
    BY <2>3, <2>4, <2>5, <2>6
  <2>10. Above(p, q)
    BY <2>7, <2>8, <2>9 DEF Above, Begins
  <2>11. PathAllowed(q, p)
    BY <2>3, <2>4, <2>10, AboveIsAllowed
  <2> QED
    BY <2>11 DEF p, q, g, h
<1> QED
  BY <1>2, <1>3

-----------------------------------------------------------------------------
LEMMA TargetTyped ==
  ASSUME NEW u \in Targets
  PROVE  /\ Unquote(PathOrRoot(u)) \in Seq(Chars)
         /\ Slashes(Unquote(PathOrRoot(u))) \in 1..2
         /\ Location(u) \in Seq(PathName)
         /\ Resolves(u) =>
              /\ AuthorityPath(u) # Unresolved
              /\ AuthorityPath(u).authority = Authority(u)
              /\ AuthorityPath(u).norm =
                   Root(Slashes(Unquote(PathOrRoot(u)))) \o Joined(Location(u))
<1>1. PathOrRoot(u) \in Seq(Chars)
  BY EgressAssumption DEF PathOrRoot
<1>2. Unquote(PathOrRoot(u)) \in Seq(Chars)
  <2> DEFINE path == PathOrRoot(u)
  <2>1. path \in Seq(Chars)
    BY <1>1
  <2> HIDE DEF path
  <2>2. \A c \in Chars : DecodedChar(c) \in Chars
    BY EgressAssumption DEF DecodedChar
  <2>3. Unquote(path) \in Seq(Chars)
    BY <2>1, <2>2 DEF Unquote
  <2> QED
    BY <2>3 DEF path
<1>3. Slashes(Unquote(PathOrRoot(u))) \in 1..2
  BY DEF Slashes
<1>4. /\ Location(u) = NamesLeft(Segments(Unquote(PathOrRoot(u))))
      /\ Location(u) \in Seq(PathName)
  BY <1>2, NormpathIsTheWalk
<1>5. Normpath(Unquote(PathOrRoot(u))) =
        Root(Slashes(Unquote(PathOrRoot(u)))) \o Joined(Location(u))
  BY <1>4 DEF Normpath, Root
<1>6. ASSUME Resolves(u)
      PROVE  /\ AuthorityPath(u) # Unresolved
             /\ AuthorityPath(u).authority = Authority(u)
             /\ AuthorityPath(u).norm = Normpath(Unquote(PathOrRoot(u)))
  <2>1. AuthorityPath(u) # Unresolved
    BY <1>6, EgressAssumption
  <2>2. AuthorityPath(u) = [authority |-> Authority(u), norm |-> Normpath(Unquote(PathOrRoot(u)))]
    BY <1>6 DEF AuthorityPath
  <2> QED
    BY <2>1, <2>2
<1> QED
  BY <1>2, <1>3, <1>4, <1>5, <1>6

(* The pair of url and entry decides as the walk does.                      *)
LEMMA AllowedIsInside ==
  ASSUME NEW u \in Targets, NEW entry \in Targets,
         AuthorityPath(u) # Unresolved, AuthorityPath(entry) # Unresolved,
         AuthorityPath(u).authority = AuthorityPath(entry).authority,
         PathAllowed(AuthorityPath(u).norm, AuthorityPath(entry).norm)
  PROVE  Inside(u, entry)
<1>1. Resolves(u) /\ Resolves(entry)
  BY DEF AuthorityPath
<1>2. SameServer(u, entry)
  BY <1>1, TargetTyped DEF SameServer
<1>3. PathAllowed(Root(Slashes(Unquote(PathOrRoot(u)))) \o Joined(Location(u)),
                  Root(Slashes(Unquote(PathOrRoot(entry)))) \o Joined(Location(entry)))
  BY <1>1, TargetTyped
<1>4. IsPrefix(Location(entry), Location(u))
  BY <1>3, TargetTyped, AllowedHasNames
<1> QED
  BY <1>2, <1>4 DEF Inside

LEMMA InsideIsAllowed ==
  ASSUME NEW u \in Targets, NEW entry \in Targets,
         PlainRoot(u), PlainRoot(entry), Inside(u, entry)
  PROVE  /\ AuthorityPath(u) # Unresolved /\ AuthorityPath(entry) # Unresolved
         /\ AuthorityPath(u).authority = AuthorityPath(entry).authority
         /\ PathAllowed(AuthorityPath(u).norm, AuthorityPath(entry).norm)
<1>1. Resolves(u) /\ Resolves(entry) /\ Authority(u) = Authority(entry)
  BY DEF Inside, SameServer
<1>2. PathAllowed(Root(1) \o Joined(Location(u)), Root(1) \o Joined(Location(entry)))
  BY TargetTyped, NamesAreAllowed DEF Inside
<1>3. /\ AuthorityPath(u).norm = Root(1) \o Joined(Location(u))
      /\ AuthorityPath(entry).norm = Root(1) \o Joined(Location(entry))
  BY <1>1, TargetTyped DEF PlainRoot
<1> QED
  BY <1>1, <1>2, <1>3, TargetTyped

(* What the check has decided is what the code decides of its arguments.    *)
Decided ==
  /\ url \in Targets
  /\ allowlist \in Seq(Targets)
  /\ verdict = "allowed" => UrlEgressAllowed(url, allowlist)
  /\ verdict = "denied" => ~UrlEgressAllowed(url, allowlist)

LEMMA DecidedInvariant == Spec => []Decided
<1>1. Init => Decided
  <2> SUFFICES ASSUME Init PROVE Decided
    OBVIOUS
  <2>1. url \in Targets
    BY DEF Init, Targets
  <2>2. allowlist \in Seq(Targets)
    BY EgressAssumption DEF Init
  <2> QED
    BY <2>1, <2>2 DEF Init, Decided
<1>2. Decided /\ [Next]_vars => Decided'
  BY DEF Decided, Next, Check, vars
<1> QED
  BY <1>1, <1>2, PTL DEF Spec

(* A request that url_egress_allowed lets through stays below an entry of   *)
(* the allowlist on that entry's server, however long its path and whatever *)
(* it is written with: the walk along the decoded path ends inside.         *)
THEOREM EgressSoundCorrect == Spec => []EgressSound
<1>1. Decided => EgressSound
  <2> SUFFICES ASSUME Decided, verdict = "allowed"
               PROVE  \E i \in DOMAIN allowlist : Inside(url, allowlist[i])
    BY DEF EgressSound
  <2>1. PICK i \in DOMAIN allowlist :
          /\ AuthorityPath(url) # Unresolved /\ AuthorityPath(allowlist[i]) # Unresolved
          /\ AuthorityPath(url).authority = AuthorityPath(allowlist[i]).authority
          /\ PathAllowed(AuthorityPath(url).norm, AuthorityPath(allowlist[i]).norm)
    BY DEF Decided, UrlEgressAllowed
  <2>2. url \in Targets /\ allowlist[i] \in Targets
    BY DEF Decided
  <2>3. Inside(url, allowlist[i])
    BY <2>1, <2>2, AllowedIsInside
  <2> QED
    BY <2>3
<1> QED
  BY <1>1, DecidedInvariant, PTL

(* A request that is denied is below no entry of the allowlist, as far as   *)
(* neither begins with exactly two slashes.                                 *)
THEOREM EgressCompleteCorrect == Spec => []EgressComplete
<1>1. Decided => EgressComplete
  <2> SUFFICES ASSUME Decided, verdict = "denied", NEW i \in DOMAIN allowlist,
                      PlainRoot(url), PlainRoot(allowlist[i]), Inside(url, allowlist[i])
               PROVE  FALSE
    BY DEF EgressComplete
  <2>1. url \in Targets /\ allowlist[i] \in Targets
    BY DEF Decided
  <2>2. /\ AuthorityPath(url) # Unresolved /\ AuthorityPath(allowlist[i]) # Unresolved
        /\ AuthorityPath(url).authority = AuthorityPath(allowlist[i]).authority
        /\ PathAllowed(AuthorityPath(url).norm, AuthorityPath(allowlist[i]).norm)
    BY <2>1, InsideIsAllowed
  <2>3. UrlEgressAllowed(url, allowlist)
    BY <2>2 DEF UrlEgressAllowed
  <2> QED
    BY <2>3 DEF Decided
<1> QED
  BY <1>1, DecidedInvariant, PTL
=============================================================================
