----------------------------- MODULE Ladder_proofs -----------------------------
(***************************************************************************)
(* Proofs about Ladder and Streak, for every ladder of rungs, every window *)
(* and retention, and checks, failures and stops without number.           *)
(***************************************************************************)
EXTENDS Streak, FiniteSetTheorems, WellFoundedInduction, TLAPS

LEMMA Constants ==
  /\ Top \in Nat /\ 0 \in Rung /\ Top \in Rung /\ Rung \subseteq Nat
  /\ \A l \in Rung : Width[l] \in Nat \ {0} /\ Retain[l] \in Nat
  /\ \A l \in Rung : l > 0 => l - 1 \in Rung /\ Width[l] % Width[l-1] = 0
  /\ SampleRetention \in Nat /\ SealGrace \in Nat /\ SampleInterval \in Nat
  /\ RawWindow \in Nat /\ MaxPoints \in Nat /\ MaxTime \in Nat
  /\ MaxChanges \in Nat /\ MaxFailures \in Nat /\ MaxStops \in Nat
  /\ Windows \subseteq Nat
  /\ SampleRetention >= SealGrace + Width[0]
  /\ \A l \in Rung : l > 0 => Retain[l-1] >= SealGrace + 2 * Width[l]
<1>1. Top \in Nat /\ 0 \in Rung /\ Top \in Rung /\ Rung \subseteq Nat
  BY LadderAssumption DEF Rung
<1>2. \A l \in Rung : l > 0 => l - 1 \in Rung
  BY <1>1 DEF Rung
<1> QED
  BY <1>1, <1>2, LadderAssumption

-----------------------------------------------------------------------------
\* Numbers.

\* A set of naturals has a least one.
LEMMA HasLeast ==
  ASSUME NEW S \in SUBSET Nat, S # {}
  PROVE  Least(S) \in S /\ \A s \in S : Least(S) <= s
<1>1. PICK b \in S : \A c \in S : ~(<<c, b>> \in OpToRel(<, Nat))
  <2>1. IsWellFoundedOn(OpToRel(<, Nat), Nat)
    BY NatLessThanWellFounded
  <2> QED
    BY <2>1, WFMin, Zenon
<1>2. \A c \in S : ~(c < b)
  BY <1>1 DEF OpToRel
<1>3. \A c \in S : b <= c
  BY <1>2
<1> QED
  BY <1>3 DEF Least

\* A set of integers with an upper bound has a greatest one.
LEMMA HasGreatest ==
  ASSUME NEW S \in SUBSET Int, S # {}, NEW N \in Int, \A s \in S : s <= N
  PROVE  Greatest(S) \in S /\ \A s \in S : s <= Greatest(S)
<1> DEFINE below == {N - s : s \in S}
<1>1. below \subseteq Nat /\ below # {}
  <2>1. \A s \in S : N - s \in Nat
    OBVIOUS
  <2>2. PICK s \in S : TRUE
    OBVIOUS
  <2>3. N - s \in below
    OBVIOUS
  <2> QED
    BY <2>1, <2>3
<1>2. PICK b \in below : \A c \in below : b <= c
  <2> HIDE DEF below
  <2>1. below \in SUBSET Nat
    BY <1>1
  <2> QED
    BY <1>1, <2>1, HasLeast
<1>3. PICK g \in S : b = N - g
  BY <1>2
<1>4. \A s \in S : s <= g
  <2> SUFFICES ASSUME NEW s \in S
               PROVE  s <= g
    OBVIOUS
  <2>1. N - g <= N - s
    BY <1>2, <1>3
  <2>2. s \in Int /\ g \in Int
    OBVIOUS
  <2> HIDE DEF below
  <2> QED
    BY <2>1, <2>2
<1> QED
  BY <1>4 DEF Greatest

\* A set of naturals that has zero, and the next of each it has, has them all.
LEMMA Count ==
  ASSUME NEW S, 0 \in S, \A n \in Nat : n \in S => n + 1 \in S
  PROVE  Nat \subseteq S
<1> DEFINE missing == Nat \ S
<1>1. missing = {}
  <2> SUFFICES ASSUME missing # {}
               PROVE  FALSE
    OBVIOUS
  <2>1. Least(missing) \in missing /\ \A s \in missing : Least(missing) <= s
    <3>1. missing \in SUBSET Nat
      OBVIOUS
    <3> HIDE DEF missing
    <3> QED
      BY <3>1, HasLeast
  <2>2. PICK m \in missing : \A s \in missing : m <= s
    BY <2>1
  <2>3. m # 0 /\ m - 1 \in Nat /\ m - 1 \notin missing
    BY <2>2
  <2>4. m - 1 \in S /\ (m - 1) + 1 = m
    BY <2>3
  <2> QED
    BY <2>3, <2>4
<1> QED
  BY <1>1

-----------------------------------------------------------------------------
\* Buckets.

\* The bucket of an instant begins no later and ends after it.
LEMMA BucketBounds ==
  ASSUME NEW t \in Int, NEW l \in Rung
  PROVE  /\ Bucket(t, l) \in Int
         /\ BucketStart(Bucket(t, l), l) <= t
         /\ t < BucketEnd(Bucket(t, l), l)
         /\ BucketEnd(Bucket(t, l), l) <= t + Width[l]
         /\ t >= 0 => Bucket(t, l) >= 0
<1> DEFINE w == Width[l]
<1>1. w \in Nat \ {0}
  BY Constants
<1> HIDE DEF w
<1>2. /\ t \div w \in Int
      /\ w * (t \div w) <= t
      /\ t < w * (t \div w) + w
  BY <1>1
<1>3. t >= 0 => t \div w >= 0
  BY <1>1
<1> DEFINE b == t \div w
<1>4. b \in Int /\ w * b <= t /\ t < w * b + w
  BY <1>2
<1> HIDE DEF b
<1>5. b * w = w * b /\ (b + 1) * w = w * b + w
  BY <1>1, <1>4
<1> QED
  BY <1>1, <1>3, <1>4, <1>5 DEF Bucket, BucketStart, BucketEnd, b, w

\* An earlier bucket ends before a later one begins.
LEMMA BucketOrder ==
  ASSUME NEW b \in Int, NEW l \in Rung
  PROVE  /\ BucketStart(b, l) \in Int /\ BucketEnd(b, l) \in Int
         /\ BucketEnd(b, l) = BucketStart(b, l) + Width[l]
         /\ \A c \in Int : b < c => BucketEnd(b, l) <= BucketStart(c, l)
         /\ b >= 0 => BucketStart(b, l) >= 0
<1> DEFINE w == Width[l]
<1>1. w \in Nat \ {0}
  BY Constants
<1> HIDE DEF w
<1>2. \A c \in Int : b < c => (b + 1) * w <= c * w
  BY <1>1
<1>3. (b + 1) * w = b * w + w /\ b * w \in Int
  BY <1>1
<1>4. b >= 0 => b * w >= 0
  BY <1>1
<1>5. BucketStart(b, l) = b * w /\ BucketEnd(b, l) = (b + 1) * w
      /\ \A c \in Int : BucketStart(c, l) = c * w
  BY DEF BucketStart, BucketEnd, w
<1>6. w = Width[l]
  BY DEF w
<1> QED
  BY <1>1, <1>2, <1>3, <1>4, <1>5, <1>6

\* Later instants have later buckets.
LEMMA BucketLater ==
  ASSUME NEW s \in Int, NEW t \in Int, NEW l \in Rung, s <= t
  PROVE  Bucket(s, l) <= Bucket(t, l)
<1> SUFFICES ASSUME Bucket(t, l) < Bucket(s, l)
             PROVE  FALSE
  BY BucketBounds
<1>1. BucketEnd(Bucket(t, l), l) <= BucketStart(Bucket(s, l), l)
  BY BucketBounds, BucketOrder
<1>2. t < BucketEnd(Bucket(t, l), l) /\ BucketStart(Bucket(s, l), l) <= s
  BY BucketBounds
<1>3. BucketEnd(Bucket(t, l), l) \in Int /\ BucketStart(Bucket(s, l), l) \in Int
  BY BucketBounds, BucketOrder
<1> QED
  BY <1>1, <1>2, <1>3

\* An instant a width earlier is in an earlier bucket.
LEMMA BucketApart ==
  ASSUME NEW s \in Int, NEW t \in Int, NEW l \in Rung, s + Width[l] <= t
  PROVE  Bucket(s, l) < Bucket(t, l)
<1> DEFINE b == Bucket(s, l)
           c == Bucket(t, l)
           w == Width[l]
<1>1. b \in Int /\ BucketStart(b, l) <= s
  BY BucketBounds
<1>2. c \in Int /\ t < BucketEnd(c, l)
  BY BucketBounds
<1>3. w \in Nat
  BY Constants
<1> HIDE DEF b, c, w
<1> SUFFICES ASSUME c <= b
             PROVE  FALSE
  BY <1>1, <1>2 DEF b, c
<1>4. /\ BucketStart(b, l) \in Int /\ BucketEnd(b, l) \in Int /\ BucketEnd(c, l) \in Int
      /\ BucketEnd(c, l) <= BucketStart(b + 1, l)
      /\ BucketEnd(b, l) = BucketStart(b, l) + w
  BY <1>1, <1>2, BucketOrder DEF w
<1>5. BucketStart(b + 1, l) = BucketEnd(b, l)
  BY DEF BucketStart, BucketEnd
<1> QED
  BY <1>1, <1>2, <1>3, <1>4, <1>5 DEF w

\* Coarse buckets are made of whole fine ones.
LEMMA Quotients ==
  ASSUME NEW a \in Nat \ {0}, NEW b \in Nat \ {0}, b % a = 0, NEW k \in Int
  PROVE  /\ b \div a \in Nat \ {0}
         /\ a * (b \div a) = b
         /\ (k \div a) \div (b \div a) = k \div b
<1> DEFINE c == b \div a
           q == k \div a
           p == k \div b
<1>1. c \in Nat \ {0} /\ a * c = b
  OBVIOUS
<1>2. q \in Int /\ a * q <= k /\ k < a * (q + 1)
  OBVIOUS
<1>3. p \in Int /\ b * p <= k /\ k < b * (p + 1)
  OBVIOUS
<1> HIDE DEF c, q, p
<1>4. a * (c * p) = b * p /\ a * (c * (p + 1)) = b * (p + 1)
  BY <1>1, <1>3
<1>5. c * p \in Int /\ c * (p + 1) \in Int
  BY <1>1, <1>3
<1>6. c * p < q + 1
  <2>1. a * (c * p) < a * (q + 1)
    BY <1>2, <1>3, <1>4
  <2> QED
    BY <1>2, <1>5, <2>1
<1>7. q < c * (p + 1)
  <2>1. a * q < a * (c * (p + 1))
    BY <1>2, <1>3, <1>4
  <2> QED
    BY <1>2, <1>5, <2>1
<1>8. q \div c = p
  BY <1>1, <1>2, <1>3, <1>5, <1>6, <1>7
<1> QED
  BY <1>1, <1>8 DEF c, q, p

LEMMA Nested ==
  ASSUME NEW l \in Rung, l > 0
  PROVE  /\ l - 1 \in Rung
         /\ Ratio(l) \in Nat \ {0}
         /\ \A b \in Int : b \div Ratio(l) \in Int /\ (b >= 0 => b \div Ratio(l) >= 0)
         /\ \A t \in Int : Bucket(t, l - 1) \div Ratio(l) = Bucket(t, l)
         /\ \A t, u \in Int : Bucket(t, l) < Bucket(u, l) => Bucket(t, l - 1) < Bucket(u, l - 1)
<1>1. /\ l - 1 \in Rung
      /\ Width[l] \in Nat \ {0} /\ Width[l-1] \in Nat \ {0} /\ Width[l] % Width[l-1] = 0
  BY Constants
<1>2. Ratio(l) \in Nat \ {0} /\ \A t \in Int : Bucket(t, l - 1) \div Ratio(l) = Bucket(t, l)
  <2> DEFINE a == Width[l-1]
             b == Width[l]
  <2>1. a \in Nat \ {0} /\ b \in Nat \ {0} /\ b % a = 0
    BY <1>1
  <2> HIDE DEF a, b
  <2>2. b \div a \in Nat \ {0} /\ \A t \in Int : (t \div a) \div (b \div a) = t \div b
    BY <2>1, Quotients
  <2> QED
    BY <2>2 DEF Ratio, Bucket, a, b
<1>3. \A b \in Int : b \div Ratio(l) \in Int /\ (b >= 0 => b \div Ratio(l) >= 0)
  BY <1>2
<1>4. ASSUME NEW t \in Int, NEW u \in Int, Bucket(t, l) < Bucket(u, l)
      PROVE  Bucket(t, l - 1) < Bucket(u, l - 1)
  <2> SUFFICES ASSUME Bucket(u, l - 1) <= Bucket(t, l - 1)
               PROVE  FALSE
    BY <1>1, BucketBounds
  <2> DEFINE b == Bucket(u, l - 1)
             c == Bucket(t, l - 1)
             r == Ratio(l)
  <2>1. b \in Int /\ c \in Int /\ r \in Nat \ {0} /\ b <= c
    BY <1>1, <1>2, BucketBounds
  <2>2. Bucket(u, l) = b \div r /\ Bucket(t, l) = c \div r
    BY <1>2
  <2> HIDE DEF b, c, r
  <2>3. b \div r <= c \div r /\ b \div r \in Int /\ c \div r \in Int
    BY <2>1
  <2> QED
    BY <1>4, <2>2, <2>3
<1> QED
  BY <1>1, <1>2, <1>3, <1>4

-----------------------------------------------------------------------------
\* Sums.  CountOf and CountOkOf are functions by recursion: that there is one, and what
\* it has in common with each set of rows, are inductions over the number of rows.

Pick(R) == CHOOSE r \in R : TRUE

\* g adds up what v says of each row, over the subsets of rows.
Sums(g, rows, v) ==
  g = [R \in SUBSET rows |-> IF R = {} THEN 0 ELSE v[Pick(R)] + g[R \ {Pick(R)}]]

Small(rows, n) == {R \in SUBSET rows : Cardinality(R) <= n}

SumsUpTo(g, rows, v, n) ==
  g = [R \in Small(rows, n) |-> IF R = {} THEN 0 ELSE v[Pick(R)] + g[R \ {Pick(R)}]]

\* One row less.
LEMMA Picked ==
  ASSUME NEW rows, IsFiniteSet(rows), NEW R \in SUBSET rows, R # {}
  PROVE  /\ Pick(R) \in R
         /\ R \ {Pick(R)} \in SUBSET rows
         /\ Cardinality(R) \in Nat /\ Cardinality(R \ {Pick(R)}) = Cardinality(R) - 1
         /\ Cardinality(R \ {Pick(R)}) \in Nat
<1>1. Pick(R) \in R
  BY DEF Pick
<1>2. IsFiniteSet(R)
  BY FS_Subset
<1>3. Cardinality(R) \in Nat
  BY <1>2, FS_CardinalityType
<1>4. IsFiniteSet(R \ {Pick(R)}) /\ Cardinality(R \ {Pick(R)}) = Cardinality(R) - 1
  BY <1>1, <1>2, FS_RemoveElement
<1>5. Cardinality(R \ {Pick(R)}) \in Nat
  BY <1>4, FS_CardinalityType
<1> QED
  BY <1>1, <1>3, <1>4, <1>5

LEMMA HasSum ==
  ASSUME NEW rows, IsFiniteSet(rows), NEW v
  PROVE  \E g : Sums(g, rows, v)
<1> DEFINE S == {n \in Nat : \E g : SumsUpTo(g, rows, v, n)}
<1>1. 0 \in S
  <2> DEFINE g == [R \in Small(rows, 0) |-> 0]
  <2>1. ASSUME NEW R \in Small(rows, 0)
        PROVE  R = {}
    <3>1. IsFiniteSet(R) /\ R \in SUBSET rows /\ Cardinality(R) <= 0
      BY FS_Subset DEF Small
    <3>2. Cardinality(R) = 0
      BY <3>1, FS_CardinalityType
    <3> QED
      BY <3>1, <3>2, FS_EmptySet
  <2>2. g = [R \in Small(rows, 0) |-> IF R = {} THEN 0 ELSE v[Pick(R)] + g[R \ {Pick(R)}]]
    BY <2>1
  <2> QED
    BY <2>2 DEF SumsUpTo
<1>2. ASSUME NEW n \in Nat, n \in S
      PROVE  n + 1 \in S
  <2>1. PICK g : SumsUpTo(g, rows, v, n)
    BY <1>2
  <2> DEFINE h == [R \in Small(rows, n + 1) |-> IF R = {} THEN 0 ELSE v[Pick(R)] + g[R \ {Pick(R)}]]
  <2>2. ASSUME NEW R \in Small(rows, n + 1), R # {}
        PROVE  g[R \ {Pick(R)}] = h[R \ {Pick(R)}]
    <3> DEFINE Q == R \ {Pick(R)}
    <3>1. Q \in Small(rows, n) /\ Q \in Small(rows, n + 1)
      <4>1. R \in SUBSET rows /\ Cardinality(R) <= n + 1
        BY DEF Small
      <4>2. /\ Q \in SUBSET rows /\ Cardinality(R) \in Nat
            /\ Cardinality(Q) = Cardinality(R) - 1 /\ Cardinality(Q) \in Nat
        BY <2>2, <4>1, Picked
      <4> HIDE DEF Q
      <4> QED
        BY <4>1, <4>2 DEF Small
    <3> HIDE DEF Q
    <3>2. g[Q] = IF Q = {} THEN 0 ELSE v[Pick(Q)] + g[Q \ {Pick(Q)}]
      BY <2>1, <3>1 DEF SumsUpTo
    <3>3. h[Q] = IF Q = {} THEN 0 ELSE v[Pick(Q)] + g[Q \ {Pick(Q)}]
      BY <3>1
    <3>4. g[Q] = h[Q]
      BY <3>2, <3>3
    <3> QED
      BY <3>4 DEF Q
  <2>3. h = [R \in Small(rows, n + 1) |-> IF R = {} THEN 0 ELSE v[Pick(R)] + h[R \ {Pick(R)}]]
    <3>1. \A R \in Small(rows, n + 1) :
            h[R] = IF R = {} THEN 0 ELSE v[Pick(R)] + h[R \ {Pick(R)}]
      BY <2>2
    <3>2. h = [R \in Small(rows, n + 1) |-> h[R]]
      OBVIOUS
    <3> HIDE DEF h
    <3> QED
      BY <3>1, <3>2
  <2> HIDE DEF h
  <2>4. SumsUpTo(h, rows, v, n + 1)
    BY <2>3 DEF SumsUpTo
  <2> QED
    BY <2>4
<1>3. Cardinality(rows) \in S
  <2> HIDE DEF S
  <2> QED
    BY <1>1, <1>2, Count, FS_CardinalityType
<1>4. PICK g : SumsUpTo(g, rows, v, Cardinality(rows))
  BY <1>3
<1>5. Small(rows, Cardinality(rows)) = SUBSET rows
  BY FS_Subset DEF Small
<1> QED
  BY <1>4, <1>5 DEF Sums, SumsUpTo

\* What holds of no row and 0, and is kept when a row is added to each, holds of all of
\* the rows and their sum.
LEMMA SumInduction ==
  ASSUME NEW rows, IsFiniteSet(rows), NEW v, NEW g, Sums(g, rows, v), NEW P,
         <<{}, 0>> \in P,
         \A R \in SUBSET rows : \A x :
           R # {} /\ <<R \ {Pick(R)}, x>> \in P => <<R, v[Pick(R)] + x>> \in P
  PROVE  <<rows, g[rows]>> \in P
<1> DEFINE S == {n \in Nat : \A R \in SUBSET rows : Cardinality(R) = n => <<R, g[R]>> \in P}
<1>1. g[{}] = 0
  BY DEF Sums
<1>2. 0 \in S
  <2>1. ASSUME NEW R \in SUBSET rows, Cardinality(R) = 0
        PROVE  R = {}
    BY <2>1, FS_Subset, FS_EmptySet
  <2> QED
    BY <1>1, <2>1
<1>3. ASSUME NEW n \in Nat, n \in S
      PROVE  n + 1 \in S
  <2> SUFFICES ASSUME NEW R \in SUBSET rows, Cardinality(R) = n + 1
               PROVE  <<R, g[R]>> \in P
    OBVIOUS
  <2>1. R # {}
    BY FS_EmptySet
  <2>2. R \ {Pick(R)} \in SUBSET rows /\ Cardinality(R \ {Pick(R)}) = n
    BY <2>1, Picked
  <2>3. <<R \ {Pick(R)}, g[R \ {Pick(R)}]>> \in P
    BY <1>3, <2>2
  <2>4. g[R] = v[Pick(R)] + g[R \ {Pick(R)}]
    BY <2>1 DEF Sums
  <2> QED
    BY <2>1, <2>3, <2>4
<1>4. Cardinality(rows) \in S
  <2> HIDE DEF S
  <2> QED
    BY <1>2, <1>3, Count, FS_CardinalityType
<1> QED
  BY <1>4

\* What CountOf and CountOkOf return, by induction over the rows.
LEMMA CountOfInduction ==
  ASSUME NEW rows, IsFiniteSet(rows), NEW P,
         <<{}, 0>> \in P,
         \A R \in SUBSET rows : \A x :
           R # {} /\ <<R \ {Pick(R)}, x>> \in P => <<R, Pick(R).count + x>> \in P
  PROVE  <<rows, CountOf(rows)>> \in P
<1> DEFINE v == [r \in rows |-> r.count]
           Eq(g) == g = [R \in SUBSET rows |-> IF R = {} THEN 0
                                               ELSE LET r == CHOOSE r \in R : TRUE
                                                    IN  r.count + g[R \ {r}]]
<1>1. \A R \in SUBSET rows : R # {} => v[Pick(R)] = Pick(R).count
  BY Picked
<1>2. ASSUME NEW g
      PROVE  Eq(g) <=> Sums(g, rows, v)
  <2>1. \A R \in SUBSET rows :
          (IF R = {} THEN 0 ELSE LET r == CHOOSE r \in R : TRUE IN r.count + g[R \ {r}])
            = (IF R = {} THEN 0 ELSE v[Pick(R)] + g[R \ {Pick(R)}])
    <3> SUFFICES ASSUME NEW R \in SUBSET rows, R # {}
                 PROVE  (LET r == CHOOSE r \in R : TRUE IN r.count + g[R \ {r}])
                          = v[Pick(R)] + g[R \ {Pick(R)}]
      OBVIOUS
    <3>1. v[Pick(R)] = Pick(R).count
      BY <1>1
    <3>2. (LET r == CHOOSE r \in R : TRUE IN r.count + g[R \ {r}]) = Pick(R).count + g[R \ {Pick(R)}]
      BY Zenon DEF Pick
    <3> HIDE DEF v
    <3> QED
      BY <3>1, <3>2
  <2> QED
    BY <2>1 DEF Sums
<1> HIDE DEF v
<1>3. PICK h : Eq(h)
  <2>1. PICK h : Sums(h, rows, v)
    BY HasSum
  <2> HIDE DEF Eq
  <2> QED
    BY <1>2, <2>1
<1> DEFINE g == CHOOSE g : Eq(g)
<1>4. Eq(g)
  <2> HIDE DEF Eq
  <2> QED
    BY <1>3
<1>5. CountOf(rows) = g[rows]
  BY DEF CountOf
<1> HIDE DEF g, Eq
<1>6. \A R \in SUBSET rows : \A x :
        R # {} /\ <<R \ {Pick(R)}, x>> \in P => <<R, v[Pick(R)] + x>> \in P
  BY <1>1
<1>7. <<rows, g[rows]>> \in P
  BY <1>2, <1>4, <1>6, SumInduction
<1> QED
  BY <1>5, <1>7

LEMMA CountOkOfInduction ==
  ASSUME NEW rows, IsFiniteSet(rows), NEW P,
         <<{}, 0>> \in P,
         \A R \in SUBSET rows : \A x :
           R # {} /\ <<R \ {Pick(R)}, x>> \in P => <<R, Pick(R).countOk + x>> \in P
  PROVE  <<rows, CountOkOf(rows)>> \in P
<1> DEFINE v == [r \in rows |-> r.countOk]
           Eq(g) == g = [R \in SUBSET rows |-> IF R = {} THEN 0
                                               ELSE LET r == CHOOSE r \in R : TRUE
                                                    IN  r.countOk + g[R \ {r}]]
<1>1. \A R \in SUBSET rows : R # {} => v[Pick(R)] = Pick(R).countOk
  BY Picked
<1>2. ASSUME NEW g
      PROVE  Eq(g) <=> Sums(g, rows, v)
  <2>1. \A R \in SUBSET rows :
          (IF R = {} THEN 0 ELSE LET r == CHOOSE r \in R : TRUE IN r.countOk + g[R \ {r}])
            = (IF R = {} THEN 0 ELSE v[Pick(R)] + g[R \ {Pick(R)}])
    <3> SUFFICES ASSUME NEW R \in SUBSET rows, R # {}
                 PROVE  (LET r == CHOOSE r \in R : TRUE IN r.countOk + g[R \ {r}])
                          = v[Pick(R)] + g[R \ {Pick(R)}]
      OBVIOUS
    <3>1. v[Pick(R)] = Pick(R).countOk
      BY <1>1
    <3>2. (LET r == CHOOSE r \in R : TRUE IN r.countOk + g[R \ {r}]) = Pick(R).countOk + g[R \ {Pick(R)}]
      BY Zenon DEF Pick
    <3> HIDE DEF v
    <3> QED
      BY <3>1, <3>2
  <2> QED
    BY <2>1 DEF Sums
<1> HIDE DEF v
<1>3. PICK h : Eq(h)
  <2>1. PICK h : Sums(h, rows, v)
    BY HasSum
  <2> HIDE DEF Eq
  <2> QED
    BY <1>2, <2>1
<1> DEFINE g == CHOOSE g : Eq(g)
<1>4. Eq(g)
  <2> HIDE DEF Eq
  <2> QED
    BY <1>3
<1>5. CountOkOf(rows) = g[rows]
  BY DEF CountOkOf
<1> HIDE DEF g, Eq
<1>6. \A R \in SUBSET rows : \A x :
        R # {} /\ <<R \ {Pick(R)}, x>> \in P => <<R, v[Pick(R)] + x>> \in P
  BY <1>1
<1>7. <<rows, g[rows]>> \in P
  BY <1>2, <1>4, <1>6, SumInduction
<1> QED
  BY <1>5, <1>7

LEMMA CountOfType ==
  ASSUME NEW rows, IsFiniteSet(rows), \A r \in rows : r.count \in Nat \ {0}
  PROVE  CountOf(rows) \in Nat /\ (rows # {} => CountOf(rows) # 0)
<1> DEFINE P == {p \in (SUBSET rows) \X Nat : p[1] # {} => p[2] > 0}
<1>1. <<{}, 0>> \in P
  OBVIOUS
<1>2. ASSUME NEW R \in SUBSET rows, NEW x, R # {}, <<R \ {Pick(R)}, x>> \in P
      PROVE  <<R, Pick(R).count + x>> \in P
  <2>1. Pick(R).count \in Nat \ {0} /\ x \in Nat
    BY <1>2, Picked
  <2> QED
    BY <2>1
<1>3. <<rows, CountOf(rows)>> \in P
  <2> HIDE DEF P
  <2> QED
    BY <1>1, <1>2, CountOfInduction
<1> QED
  BY <1>3

LEMMA CountOkOfType ==
  ASSUME NEW rows, IsFiniteSet(rows), \A r \in rows : r.countOk \in Nat
  PROVE  CountOkOf(rows) \in Nat
<1> DEFINE P == {p \in (SUBSET rows) \X Nat : TRUE}
<1>1. <<{}, 0>> \in P
  OBVIOUS
<1>2. ASSUME NEW R \in SUBSET rows, NEW x, R # {}, <<R \ {Pick(R)}, x>> \in P
      PROVE  <<R, Pick(R).countOk + x>> \in P
  <2>1. Pick(R).countOk \in Nat /\ x \in Nat
    BY <1>2, Picked
  <2> QED
    BY <2>1
<1>3. <<rows, CountOkOf(rows)>> \in P
  <2> HIDE DEF P
  <2> QED
    BY <1>1, <1>2, CountOkOfInduction
<1> QED
  BY <1>3

\* Those of C in the buckets of some rows of the rung l.
Covered(C, R, l) == {c \in C : \E r \in R : r.bucket = Bucket(c.at, l)}

\* A further bucket adds what is in it.
LEMMA CoveredAdds ==
  ASSUME NEW rows, IsFiniteSet(rows), NEW C, IsFiniteSet(C), NEW l,
         \A r, q \in rows : r.bucket = q.bucket => r = q,
         NEW R \in SUBSET rows, R # {}
  PROVE  /\ Cardinality(Covered(C, R, l)) \in Nat
         /\ Cardinality(Covered(C, R, l)) = Cardinality(In(C, Pick(R).bucket, l))
                                             + Cardinality(Covered(C, R \ {Pick(R)}, l))
<1> DEFINE S == Covered(C, R \ {Pick(R)}, l)
           T == In(C, Pick(R).bucket, l)
<1>1. Pick(R) \in R
  BY Picked
<1>2. Covered(C, R, l) = S \cup T /\ S \cap T = {}
  BY <1>1 DEF Covered, In
<1>3. S \in SUBSET C /\ T \in SUBSET C
  BY DEF Covered, In
<1> HIDE DEF S, T
<1>4. IsFiniteSet(S) /\ IsFiniteSet(T) /\ Cardinality(S) \in Nat /\ Cardinality(T) \in Nat
  BY <1>3, FS_Subset, FS_CardinalityType
<1>5. Cardinality(S \cup T) = Cardinality(S) + Cardinality(T)
  <2>1. Cardinality(S \cap T) = 0
    BY <1>2, FS_EmptySet
  <2>2. Cardinality(S \cup T) = Cardinality(S) + Cardinality(T) - Cardinality(S \cap T)
    BY <1>4, FS_Union
  <2> QED
    BY <1>4, <2>1, <2>2
<1>6. Cardinality(Covered(C, R, l)) = Cardinality(T) + Cardinality(S)
  BY <1>2, <1>4, <1>5
<1> QED
  BY <1>4, <1>6 DEF S, T

\* If every row counts the checks of its bucket, their sum counts those of all of them.
LEMMA CountOfCovered ==
  ASSUME NEW rows, IsFiniteSet(rows), NEW C, IsFiniteSet(C), NEW l,
         \A r, q \in rows : r.bucket = q.bucket => r = q,
         \A r \in rows : r.count = Cardinality(In(C, r.bucket, l))
  PROVE  CountOf(rows) = Cardinality(Covered(C, rows, l))
<1> DEFINE P == {<<R, Cardinality(Covered(C, R, l))>> : R \in SUBSET rows}
<1>1. <<{}, 0>> \in P
  <2>1. Covered(C, {}, l) = {}
    BY DEF Covered
  <2>2. Cardinality(Covered(C, {}, l)) = 0
    BY <2>1, FS_EmptySet
  <2> QED
    BY <2>2
<1>2. ASSUME NEW R \in SUBSET rows, NEW x, R # {}, <<R \ {Pick(R)}, x>> \in P
      PROVE  <<R, Pick(R).count + x>> \in P
  <2>1. x = Cardinality(Covered(C, R \ {Pick(R)}, l))
    BY <1>2
  <2>2. Pick(R).count = Cardinality(In(C, Pick(R).bucket, l))
    BY <1>2, Picked
  <2>3. Cardinality(Covered(C, R, l)) = Pick(R).count + x
    BY <1>2, <2>1, <2>2, CoveredAdds
  <2> QED
    BY <2>3
<1>3. <<rows, CountOf(rows)>> \in P
  <2> HIDE DEF P
  <2> QED
    BY <1>1, <1>2, CountOfInduction
<1> QED
  BY <1>3

LEMMA CountOkOfCovered ==
  ASSUME NEW rows, IsFiniteSet(rows), NEW C, IsFiniteSet(C), NEW l,
         \A r, q \in rows : r.bucket = q.bucket => r = q,
         \A r \in rows : r.countOk = Cardinality(In(C, r.bucket, l))
  PROVE  CountOkOf(rows) = Cardinality(Covered(C, rows, l))
<1> DEFINE P == {<<R, Cardinality(Covered(C, R, l))>> : R \in SUBSET rows}
<1>1. <<{}, 0>> \in P
  <2>1. Covered(C, {}, l) = {}
    BY DEF Covered
  <2>2. Cardinality(Covered(C, {}, l)) = 0
    BY <2>1, FS_EmptySet
  <2> QED
    BY <2>2
<1>2. ASSUME NEW R \in SUBSET rows, NEW x, R # {}, <<R \ {Pick(R)}, x>> \in P
      PROVE  <<R, Pick(R).countOk + x>> \in P
  <2>1. x = Cardinality(Covered(C, R \ {Pick(R)}, l))
    BY <1>2
  <2>2. Pick(R).countOk = Cardinality(In(C, Pick(R).bucket, l))
    BY <1>2, Picked
  <2>3. Cardinality(Covered(C, R, l)) = Pick(R).countOk + x
    BY <1>2, <2>1, <2>2, CoveredAdds
  <2> QED
    BY <2>3
<1>3. <<rows, CountOkOf(rows)>> \in P
  <2> HIDE DEF P
  <2> QED
    BY <1>1, <1>2, CountOkOfInduction
<1> QED
  BY <1>3

\* The image of a finite set is finite.
LEMMA Image ==
  ASSUME NEW S, IsFiniteSet(S), NEW f
  PROVE  IsFiniteSet({f[x] : x \in S})
<1> DEFINE T == {f[x] : x \in S}
           g == [x \in S |-> f[x]]
<1>1. g \in Surjection(S, T)
  BY DEF Surjection
<1> HIDE DEF g, T
<1>2. IsFiniteSet(T)
  BY <1>1, FS_Surjection
<1> QED
  BY <1>2 DEF T

-----------------------------------------------------------------------------
\* The invariant.

\* The first bucket that is open at the instant t.
Sealed(t, l) == Bucket(t - SealGrace, l)

\* The bucket of a check is built and marked; has a row; had one, which was dropped of age
\* once the next rung had it.
Past(c, l)    == Bucket(c.at, l) < watermark[l]
Held(c, l)    == \E r \in rollups : r.level = l /\ r.bucket = Bucket(c.at, l)
Dropped(c, l) == /\ Bucket(c.at, l) < Bucket(now - Retain[l], l)
                 /\ l < Top => Past(c, l + 1)

\* What had sealed by the instant t is built.
Built(l, t) == \A c \in checks : Bucket(c.at, l) < Sealed(t, l) => Past(c, l)

\* The pass is at a rung, and has not done l.
InPass     == at.step \in {"rows", "mark"}
Pending(l) == InPass /\ at.level <= l

\* Whatever fails.  A period has one check and a bucket one row.
Times  == /\ \A c \in checks : c.at <= now
          /\ \A c, d \in checks : c.at = d.at => c = d
OneRow == \A r, q \in rollups : r.level = q.level /\ r.bucket = q.bucket => r = q

\* Nothing of an open bucket is built.
Closed == \A r \in rollups : 0 <= r.bucket /\ r.bucket < Sealed(now, r.level)
Marks  == /\ \A l \in Rung : /\ -1 <= watermark[l]
                             /\ watermark[l] # Unset => watermark[l] <= Sealed(now, l)
          /\ at.step = "mark" => /\ watermark[at.level] < Sealed(now, at.level)
                                 /\ 0 <= Sealed(now, at.level)

\* Samples are swept of age, and from their end.
Young   == \A c \in checks : c \in samples \/ c.at < now - SampleRetention
InOrder == \A s \in samples, c \in checks : c \notin samples => c.at < s.at

Shape == /\ TypeOK /\ IsFiniteSet(checks) /\ IsFiniteSet(rollups)
         /\ Times /\ OneRow /\ Closed /\ Marks /\ Young /\ InOrder
         /\ ~up => stops > 0 /\ at = Rest

\* With one kind of fault.  A check goes from the samples to a row, and from rung to rung.
Kept  == \A c \in checks : c \in samples \/ Past(c, 0)
Chain == \A c \in checks, l \in Rung : Past(c, l) => Held(c, l) \/ Dropped(c, l)

\* Between its rows and its mark, a rung has rows for all that has sealed.
Written == at.step = "mark" =>
             \A c \in checks : Bucket(c.at, at.level) < Sealed(now, at.level)
                                 => Past(c, at.level) \/ Held(c, at.level)

\* A pass has done the rungs below the one it is at, and unless it failed, all of them.
Passed  == InPass => \A l \in Rung : l < at.level => Built(l, now)
Current == failures = 0 /\ up /\ ~InPass => \A l \in Rung : Built(l, now)

\* A node that never stopped is late by as many periods as statements failed.
Late == stops = 0 =>
          \A l \in Rung : Built(l, IF Pending(l) THEN now - failures - 1 ELSE now - failures)

\* A row that is dropped leaves no older one.
FromTheEnd == \A c \in checks, r \in rollups :
                Past(c, r.level) => Held(c, r.level) \/ Bucket(c.at, r.level) < r.bucket

Sound == /\ RescansChangeNothing
         /\ Kept /\ Chain /\ Written /\ Passed /\ Current /\ Late /\ FromTheEnd

\* The failures there were have not kept anything from being built until it was swept.
Room == /\ SampleRetention >= SealGrace + Width[0] + failures - 1
        /\ \A l \in Rung : l > 0 => Retain[l-1] >= SealGrace + Width[l] + failures - 1

Inv == Shape /\ (OneKindOfFault /\ Room => Sound)

\* Neither will those that may come.
RoomToFail == /\ SampleRetention >= SealGrace + Width[0] + MaxFailures - 1
              /\ \A l \in Rung : l > 0 => Retain[l-1] >= SealGrace + Width[l] + MaxFailures - 1

-----------------------------------------------------------------------------
\* What a rung is built from and what is built of it.

LEMMA RowTypes ==
  ASSUME TypeOK
  PROVE  /\ now \in Nat /\ now <= MaxTime
         /\ \A c \in checks : c.at \in Nat /\ c.ok \in BOOLEAN /\ c = [at |-> c.at, ok |-> c.ok]
         /\ \A c \in samples : c \in checks
         /\ \A r \in rollups : /\ r.level \in Rung /\ r.bucket \in Int
                               /\ r.count \in Nat \ {0} /\ r.countOk \in Nat
         /\ \A l \in Rung : watermark[l] \in Int
         /\ \A t \in Int, l \in Rung : Sealed(t, l) \in Int
         /\ \A c \in checks, l \in Rung : Bucket(c.at, l) \in Nat
<1>1. now \in Nat /\ now <= MaxTime
  BY Constants DEF TypeOK
<1>2. \A c \in checks : c.at \in Nat /\ c.ok \in BOOLEAN /\ c = [at |-> c.at, ok |-> c.ok]
  BY Constants DEF TypeOK, Sample
<1>3. \A t \in Int, l \in Rung : Sealed(t, l) \in Int
  BY BucketBounds, Constants DEF Sealed
<1>4. \A c \in checks, l \in Rung : Bucket(c.at, l) \in Nat
  BY <1>2, BucketBounds
<1> QED
  BY <1>1, <1>2, <1>3, <1>4 DEF TypeOK, Rollup

\* The buckets a rung can be built in.
Source(l) == IF l = 0 THEN {Bucket(s.at, 0) : s \in samples}
                      ELSE {r.bucket \div Ratio(l) : r \in {q \in rollups : q.level = l - 1}}

LEMMA SourceType ==
  ASSUME TypeOK, Closed, NEW l \in Rung
  PROVE  Source(l) \in SUBSET Nat
<1>1. CASE l = 0
  BY <1>1, RowTypes, Constants DEF Source
<1>2. CASE l # 0
  <2>1. l > 0
    BY <1>2, Constants
  <2>2. \A r \in rollups : r.bucket \div Ratio(l) \in Nat
    BY <2>1, Nested, RowTypes DEF Closed
  <2> QED
    BY <1>2, <2>2 DEF Source
<1> QED
  BY <1>1, <1>2

Builds(l) == \E from \in StartOf(l) : from <= SealedThrough(l)
From(l)   == Least(StartOf(l))

LEMMA LeastOfOne == ASSUME NEW x \in Int PROVE Least({x}) = x
  BY DEF Least

\* Building starts at the watermark, or where there is none at the oldest.
LEMMA StartIs ==
  ASSUME TypeOK, Closed, Marks, NEW l \in Rung
  PROVE  /\ Builds(l) => /\ From(l) \in Int /\ From(l) <= SealedThrough(l) /\ 0 <= From(l)
                         /\ watermark[l] = Unset \/ watermark[l] = From(l)
                         /\ watermark[l] = Unset => \A b \in Source(l) : From(l) <= b
         /\ ~Builds(l) => /\ watermark[l] # Unset => SealedThrough(l) < watermark[l]
                          /\ watermark[l] = Unset => \A b \in Source(l) : SealedThrough(l) < b
         /\ SealedThrough(l) \in Int /\ SealedThrough(l) + 1 = Sealed(now, l)
<1>1. SealedThrough(l) \in Int /\ SealedThrough(l) + 1 = Sealed(now, l)
  BY RowTypes DEF SealedThrough, Sealed
<1>2. CASE watermark[l] # Unset
  <2>1. StartOf(l) = {watermark[l]} /\ watermark[l] \in Int /\ 0 <= watermark[l]
    BY <1>2, RowTypes DEF StartOf, Marks, Unset
  <2>2. From(l) = watermark[l]
    BY <2>1, LeastOfOne DEF From
  <2> QED
    BY <1>1, <1>2, <2>1, <2>2 DEF Builds
<1>3. CASE watermark[l] = Unset /\ Source(l) = {}
  <2>1. StartOf(l) = {}
    BY <1>3 DEF StartOf, Source
  <2> QED
    BY <1>1, <1>3, <2>1 DEF Builds
<1>4. CASE watermark[l] = Unset /\ Source(l) # {}
  <2>1. StartOf(l) = {Least(Source(l))}
    BY <1>4 DEF StartOf, Source
  <2>2. Least(Source(l)) \in Nat /\ \A b \in Source(l) : Least(Source(l)) <= b
    BY <1>4, SourceType, HasLeast
  <2>3. From(l) = Least(Source(l))
    BY <2>1, <2>2, LeastOfOne DEF From
  <2>4. \A b \in Source(l) : b \in Nat
    BY SourceType
  <2> QED
    BY <1>1, <1>4, <2>1, <2>2, <2>3, <2>4 DEF Builds
<1> QED
  BY <1>2, <1>3, <1>4

\* The rows a rung is built of, and the row it gives a bucket.
FineOf(l, b) == {r \in {q \in rollups : q.level = l - 1} : r.bucket \div Ratio(l) = b}

RowOf(l, b) ==
  IF l = 0
  THEN [level |-> 0, bucket |-> b, count |-> Cardinality(In(samples, b, 0)),
                                   countOk |-> Cardinality(Ok(In(samples, b, 0)))]
  ELSE [level |-> l, bucket |-> b,
         count |-> CountOf(FineOf(l, b)), countOk |-> CountOkOf(FineOf(l, b))]

NewRows(l) == {RowOf(l, b) : b \in Source(l) \cap From(l)..SealedThrough(l)}

LEMMA RowOfType ==
  ASSUME Shape, NEW l \in Rung, NEW b \in Source(l)
  PROVE  RowOf(l, b) \in Rollup /\ RowOf(l, b).level = l /\ RowOf(l, b).bucket = b
<1>1. b \in Int
  BY SourceType DEF Shape
<1>2. CASE l = 0
  <2> DEFINE S == In(samples, b, 0)
  <2>1. S \in SUBSET checks /\ Ok(S) \in SUBSET checks
    BY DEF In, Ok, Shape, TypeOK
  <2>2. S # {}
    BY <1>2 DEF In, Source
  <2> HIDE DEF S
  <2>3. IsFiniteSet(S) /\ Cardinality(S) \in Nat /\ Cardinality(Ok(S)) \in Nat
    BY <2>1, FS_Subset, FS_CardinalityType DEF Shape
  <2>4. Cardinality(S) # 0
    BY <2>2, <2>3, FS_EmptySet
  <2>5. RowOf(l, b) = [level |-> 0, bucket |-> b,
                       count |-> Cardinality(S), countOk |-> Cardinality(Ok(S))]
    BY <1>2 DEF RowOf, S
  <2> QED
    BY <1>1, <1>2, <2>3, <2>4, <2>5 DEF Rollup
<1>3. CASE l # 0
  <2> DEFINE S == FineOf(l, b)
  <2>1. S \in SUBSET rollups
    BY DEF FineOf
  <2>2. S # {}
    BY <1>3 DEF FineOf, Source
  <2> HIDE DEF S
  <2>3. IsFiniteSet(S) /\ \A r \in S : r.count \in Nat \ {0} /\ r.countOk \in Nat
    BY <2>1, FS_Subset, RowTypes DEF Shape
  <2>4. CountOf(S) \in Nat \ {0} /\ CountOkOf(S) \in Nat
    BY <2>2, <2>3, CountOfType, CountOkOfType
  <2>5. RowOf(l, b) = [level |-> l, bucket |-> b, count |-> CountOf(S), countOk |-> CountOkOf(S)]
    BY <1>3 DEF RowOf, S
  <2> QED
    BY <1>1, <2>4, <2>5 DEF Rollup
<1> QED
  BY <1>2, <1>3

LEMMA NewRowsAre ==
  ASSUME Shape, NEW l \in Rung, Builds(l)
  PROVE  /\ NewRows(l) = IF l = 0 THEN RollSamples(From(l), SealedThrough(l) + 1)
                                  ELSE RollLevel(l, From(l), SealedThrough(l) + 1)
         /\ IsFiniteSet(NewRows(l))
         /\ \A r \in NewRows(l) : /\ r \in Rollup /\ r.level = l /\ r.bucket \in Source(l)
                                  /\ From(l) <= r.bucket /\ r.bucket < Sealed(now, l)
                                  /\ r = RowOf(l, r.bucket)
         /\ \A r, q \in NewRows(l) : r.bucket = q.bucket => r = q
         /\ \A b \in Source(l) : From(l) <= b /\ b < Sealed(now, l)
                                   => \E r \in NewRows(l) : r.bucket = b
<1> DEFINE Bs == Source(l) \cap From(l)..SealedThrough(l)
<1>1. /\ From(l) \in Int /\ SealedThrough(l) \in Int /\ SealedThrough(l) + 1 = Sealed(now, l)
      /\ (SealedThrough(l) + 1) - 1 = SealedThrough(l)
  BY StartIs DEF Shape
<1>2. IsFiniteSet(Bs)
  <2>1. Bs \in SUBSET (From(l)..SealedThrough(l))
    OBVIOUS
  <2> QED
    BY <1>1, <2>1, FS_Interval, FS_Subset
<1>3. IsFiniteSet(NewRows(l))
  <2> DEFINE f == [b \in Bs |-> RowOf(l, b)]
  <2>1. NewRows(l) = {f[b] : b \in Bs}
    BY DEF NewRows
  <2> HIDE DEF f, Bs
  <2> QED
    BY <1>2, <2>1, Image
<1>4. \A b \in Bs : /\ RowOf(l, b) \in Rollup /\ RowOf(l, b).level = l /\ RowOf(l, b).bucket = b
                    /\ From(l) <= b /\ b < Sealed(now, l) /\ b \in Source(l)
  BY <1>1, RowOfType
<1>5. \A b \in Source(l) : From(l) <= b /\ b < Sealed(now, l) => b \in Bs
  <2>1. Source(l) \in SUBSET Nat
    BY SourceType DEF Shape
  <2> QED
    BY <1>1, <2>1
<1>6. NewRows(l) = {RowOf(l, b) : b \in Bs}
  BY DEF NewRows
<1>7. NewRows(l) = IF l = 0 THEN RollSamples(From(l), SealedThrough(l) + 1)
                            ELSE RollLevel(l, From(l), SealedThrough(l) + 1)
  <2>1. CASE l = 0
    <3>1. RollSamples(From(l), SealedThrough(l) + 1)
            = {[level |-> 0, bucket |-> b, count |-> Cardinality(In(samples, b, 0)),
                countOk |-> Cardinality(Ok(In(samples, b, 0)))] : b \in Bs}
      BY <1>1, <2>1 DEF RollSamples, Source
    <3> QED
      BY <1>6, <2>1, <3>1 DEF RowOf
  <2>2. CASE l # 0
    <3>1. RollLevel(l, From(l), SealedThrough(l) + 1)
            = {[level |-> l, bucket |-> b, count |-> CountOf(FineOf(l, b)),
                countOk |-> CountOkOf(FineOf(l, b))] : b \in Bs}
      BY <1>1, <2>2 DEF RollLevel, Source, FineOf
    <3> QED
      BY <1>6, <2>2, <3>1 DEF RowOf
  <2> QED
    BY <2>1, <2>2
<1> HIDE DEF Bs
<1> QED
  BY <1>3, <1>4, <1>5, <1>6, <1>7

\* Writing rows over the rows of their buckets.
LEMMA UpsertIs ==
  ASSUME NEW rows
  PROVE  /\ \A r \in Upsert(rows) : \/ r \in rows
                                   \/ /\ r \in rollups
                                      /\ \A n \in rows : ~(n.level = r.level /\ n.bucket = r.bucket)
         /\ rows \subseteq Upsert(rows)
         /\ \A r \in rollups : \E q \in Upsert(rows) : q.level = r.level /\ q.bucket = r.bucket
<1>1. \A r \in Upsert(rows) :
        \/ r \in rows
        \/ r \in rollups /\ \A n \in rows : ~(n.level = r.level /\ n.bucket = r.bucket)
  BY DEF Upsert
<1>2. rows \subseteq Upsert(rows)
  BY DEF Upsert
<1>3. ASSUME NEW r \in rollups
      PROVE  \E q \in Upsert(rows) : q.level = r.level /\ q.bucket = r.bucket
  <2>1. CASE \E n \in rows : n.level = r.level /\ n.bucket = r.bucket
    BY <1>2, <2>1
  <2>2. CASE ~\E n \in rows : n.level = r.level /\ n.bucket = r.bucket
    <3>1. r \in Upsert(rows)
      BY <2>2 DEF Upsert
    <3> QED
      BY <3>1
  <2> QED
    BY <2>1, <2>2
<1> QED
  BY <1>1, <1>2, <1>3

LEMMA UpsertFinite ==
  ASSUME NEW rows, IsFiniteSet(rows), IsFiniteSet(rollups)
  PROVE  IsFiniteSet(Upsert(rows))
<1> DEFINE kept == {r \in rollups : ~\E n \in rows : n.level = r.level /\ n.bucket = r.bucket}
<1>1. IsFiniteSet(kept)
  <2>1. kept \in SUBSET rollups
    OBVIOUS
  <2> QED
    BY <2>1, FS_Subset
<1>2. Upsert(rows) = kept \cup rows
  BY DEF Upsert
<1> HIDE DEF kept
<1> QED
  BY <1>1, <1>2, FS_Union

\* What Rows does, where there is something to build.
LEMMA RowsIs ==
  ASSUME Shape, NEW l \in Rung, Rows(l)
  PROVE  /\ Builds(l) => rollups' = Upsert(NewRows(l)) /\ at' = Go("mark", l)
         /\ ~Builds(l) => rollups' = rollups /\ at' = After(l)
<1>1. ASSUME Builds(l)
      PROVE  rollups' = Upsert(NewRows(l)) /\ at' = Go("mark", l)
  <2>1. rollups' = Upsert(IF l = 0 THEN RollSamples(From(l), SealedThrough(l) + 1)
                                   ELSE RollLevel(l, From(l), SealedThrough(l) + 1))
        /\ at' = Go("mark", l)
    BY <1>1 DEF Rows, Builds, From
  <2> QED
    BY <1>1, <2>1, NewRowsAre
<1>2. ASSUME ~Builds(l)
      PROVE  rollups' = rollups /\ at' = After(l)
  BY <1>2 DEF Rows, Builds
<1> QED
  BY <1>1, <1>2

-----------------------------------------------------------------------------
\* A row counts every check of its bucket.

\* When a pass comes to a rung, whatever has sealed and is not built can be built from.
LEMMA SourceComplete ==
  ASSUME Shape, Sound, NEW l \in Rung, at = Go("rows", l),
         NEW c \in checks, Bucket(c.at, l) < Sealed(now, l), ~Past(c, l)
  PROVE  /\ Bucket(c.at, l) \in Source(l)
         /\ l = 0 => c \in samples
         /\ l # 0 => Held(c, l - 1)
<1>1. CASE l = 0
  <2>1. c \in samples
    BY <1>1 DEF Sound, Kept
  <2> QED
    BY <1>1, <2>1 DEF Source
<1>2. CASE l # 0
  <2>1. l > 0 /\ l - 1 \in Rung /\ l - 1 < l /\ c.at \in Int /\ now - SealGrace \in Int
    BY <1>2, Constants, RowTypes DEF Shape
  <2>2. Bucket(c.at, l - 1) < Sealed(now, l - 1)
    BY <2>1, Nested DEF Sealed
  <2>3. Built(l - 1, now)
    BY <2>1 DEF Sound, Passed, InPass, Go
  <2>4. Past(c, l - 1)
    BY <2>2, <2>3 DEF Built
  <2>5. Held(c, l - 1) \/ Dropped(c, l - 1)
    BY <2>1, <2>4 DEF Sound, Chain
  <2>6. ~Dropped(c, l - 1)
    <3>1. l - 1 < Top /\ (l - 1) + 1 = l
      BY <2>1, Constants DEF Rung
    <3> QED
      BY <3>1 DEF Dropped
  <2>7. PICK r \in rollups : r.level = l - 1 /\ r.bucket = Bucket(c.at, l - 1)
    BY <2>5, <2>6 DEF Held
  <2>8. r.bucket \div Ratio(l) = Bucket(c.at, l)
    BY <2>1, <2>7, Nested
  <2> QED
    BY <1>2, <2>5, <2>6, <2>7, <2>8 DEF Source
<1> QED
  BY <1>1, <1>2

\* Where it starts to build, nothing has been built before.
LEMMA FromIsNew ==
  ASSUME Shape, NEW l \in Rung, Builds(l), NEW c \in checks, From(l) <= Bucket(c.at, l)
  PROVE  ~Past(c, l)
<1>1. /\ From(l) \in Int
      /\ watermark[l] = Unset \/ watermark[l] = From(l)
      /\ Bucket(c.at, l) \in Nat
  BY StartIs, RowTypes DEF Shape
<1> QED
  BY <1>1 DEF Past, Unset

LEMMA NewRowsExact ==
  ASSUME Shape, Sound, NEW l \in Rung, at = Go("rows", l), Builds(l), NEW r \in NewRows(l)
  PROVE  /\ r.count = Cardinality(In(checks, r.bucket, l))
         /\ r.countOk = Cardinality(Ok(In(checks, r.bucket, l)))
<1> DEFINE b == r.bucket
<1>1. r = RowOf(l, b) /\ b < Sealed(now, l) /\ From(l) <= b /\ b \in Source(l)
  BY NewRowsAre
<1>2. ASSUME NEW c \in checks, Bucket(c.at, l) = b
      PROVE  /\ l = 0 => c \in samples
             /\ l # 0 => Held(c, l - 1)
  BY <1>1, <1>2, FromIsNew, SourceComplete
<1>3. CASE l = 0
  <2>1. In(samples, b, 0) = In(checks, b, 0)
    BY <1>2, <1>3, RowTypes DEF In, Shape
  <2> HIDE DEF b
  <2>2. r = [level |-> 0, bucket |-> b, count |-> Cardinality(In(checks, b, 0)),
             countOk |-> Cardinality(Ok(In(checks, b, 0)))]
    BY <1>1, <1>3, <2>1 DEF RowOf
  <2> QED
    BY <1>3, <2>2 DEF b
<1>4. CASE l # 0
  <2> DEFINE F == FineOf(l, b)
             k == l - 1
  <2>1. l > 0 /\ k \in Rung
    BY <1>4, Constants
  <2>2. F \in SUBSET rollups /\ \A q \in F : q.level = k /\ q.bucket \div Ratio(l) = b
    BY DEF FineOf
  <2>3. IsFiniteSet(F) /\ IsFiniteSet(checks) /\ IsFiniteSet(Ok(checks))
    <3>1. Ok(checks) \in SUBSET checks
      BY DEF Ok
    <3> HIDE DEF F
    <3> QED
      BY <2>2, <3>1, FS_Subset DEF Shape
  <2>4. \A q, p \in F : q.bucket = p.bucket => q = p
    BY <2>2 DEF Shape, OneRow
  <2>5. \A q \in F : /\ q.count = Cardinality(In(checks, q.bucket, k))
                     /\ q.countOk = Cardinality(In(Ok(checks), q.bucket, k))
    <3>1. \A q \in F : Ok(In(checks, q.bucket, k)) = In(Ok(checks), q.bucket, k)
      BY DEF Ok, In
    <3> QED
      BY <2>2, <3>1 DEF Sound, RescansChangeNothing
  <2>6. CountOf(F) = Cardinality(Covered(checks, F, k))
        /\ CountOkOf(F) = Cardinality(Covered(Ok(checks), F, k))
    <3> HIDE DEF F, k
    <3> QED
      BY <2>3, <2>4, <2>5, CountOfCovered, CountOkOfCovered
  <2>7. ASSUME NEW c \in checks
        PROVE  (\E q \in F : q.bucket = Bucket(c.at, k)) <=> Bucket(c.at, l) = b
    <3>1. Bucket(c.at, k) \div Ratio(l) = Bucket(c.at, l)
      <4>1. c.at \in Int
        BY RowTypes DEF Shape
      <4> QED
        BY <2>1, <4>1, Nested
    <3>2. ASSUME NEW q \in F, q.bucket = Bucket(c.at, k)
          PROVE  Bucket(c.at, l) = b
      BY <2>2, <3>1, <3>2
    <3>3. ASSUME Bucket(c.at, l) = b
          PROVE  \E q \in F : q.bucket = Bucket(c.at, k)
      <4>1. PICK q \in rollups : q.level = k /\ q.bucket = Bucket(c.at, k)
        BY <1>2, <1>4, <3>3 DEF Held
      <4>2. q \in F
        BY <3>1, <3>3, <4>1 DEF FineOf
      <4> QED
        BY <4>1, <4>2
    <3> QED
      BY <3>2, <3>3
  <2>8. /\ Covered(checks, F, k) = In(checks, b, l)
        /\ Covered(Ok(checks), F, k) = Ok(In(checks, b, l))
    <3> HIDE DEF F, k, b
    <3> QED
      BY <2>7 DEF Covered, In, Ok
  <2>9. r.count = CountOf(F) /\ r.countOk = CountOkOf(F)
    <3> HIDE DEF b
    <3> QED
      BY <1>1, <1>4 DEF RowOf
  <2> QED
    BY <2>6, <2>8, <2>9
<1> QED
  BY <1>3, <1>4

-----------------------------------------------------------------------------
\* Whatever fails.

LEMMA InitShape == Init => Shape
<1> SUFFICES ASSUME Init PROVE Shape
  OBVIOUS
<1>1. TypeOK
  BY Constants DEF Init, TypeOK, Step, Go, Unset
<1>2. IsFiniteSet(checks) /\ IsFiniteSet(rollups)
  BY FS_EmptySet DEF Init
<1>3. Times /\ OneRow /\ Closed /\ Young /\ InOrder
  BY DEF Init, Times, OneRow, Closed, Young, InOrder
<1>4. Marks
  BY DEF Init, Marks, Unset, Go
<1> QED
  BY <1>1, <1>2, <1>3, <1>4 DEF Init, Shape

LEMMA Steps ==
  /\ \A l \in Rung : /\ Go("rows", l) \in Step /\ Go("mark", l) \in Step
                     /\ After(l) \in Step /\ AfterSweep(l) \in Step
  /\ Rest \in Step /\ Go("sweep samples", 0) \in Step /\ Go("sweep", 0) \in Step
<1>1. \A l \in Rung : l < Top => l + 1 \in Rung
  BY Constants DEF Rung
<1> QED
  BY <1>1, Constants DEF Step, Go, Rest, After, AfterSweep

LEMMA StepType ==
  ASSUME Shape, [Next]_vars
  PROVE  TypeOK'
<1>0. /\ now \in Nat /\ now \in Int /\ now <= MaxTime /\ MaxTime \in Nat
      /\ MaxFailures \in Nat /\ MaxStops \in Nat
      /\ route \in BOOLEAN /\ checks \subseteq Sample /\ samples \subseteq checks
      /\ rollups \subseteq Rollup /\ watermark \in [Rung -> Int] /\ at \in Step
      /\ lastSamplePrune \in Int /\ lastPrune \in [Rung -> Int] /\ up \in BOOLEAN
      /\ changes \in 0..MaxChanges /\ failures \in 0..MaxFailures /\ stops \in 0..MaxStops
  BY Constants DEF Shape, TypeOK
<1>1. CASE Tick
  <2>1. now' \in 0..MaxTime
    BY <1>0, <1>1 DEF Tick
  <2>2. at' \in Step
    BY <1>1, Steps, Constants DEF Tick
  <2> QED
    BY <1>0, <1>1, <2>1, <2>2 DEF Tick, TypeOK, tables, sweeps, counts
<1>2. CASE Change
  BY <1>0, <1>2, Constants DEF Change, TypeOK, tables, sweeps
<1>3. CASE Check
  <2>1. [at |-> now, ok |-> route] \in Sample
    BY <1>0 DEF Sample
  <2> QED
    BY <1>0, <1>3, <2>1 DEF Check, TypeOK, sweeps, counts
<1>4. ASSUME NEW l \in Rung, Rows(l) PROVE TypeOK'
  <2>1. rollups' \subseteq Rollup
    <3>1. CASE Builds(l)
      BY <1>0, <1>4, <3>1, RowsIs, NewRowsAre, UpsertIs
    <3>2. CASE ~Builds(l)
      BY <1>0, <1>4, <3>2, RowsIs
    <3> QED
      BY <3>1, <3>2
  <2>2. at' \in Step
    BY <1>4, RowsIs, Steps
  <2> QED
    BY <1>0, <1>4, <2>1, <2>2 DEF Rows, TypeOK, sweeps, counts
<1>5. ASSUME NEW l \in Rung, Mark(l) PROVE TypeOK'
  <2>1. SealedThrough(l) + 1 \in Int
    BY StartIs DEF Shape
  <2>2. at' \in Step
    BY <1>5, Steps DEF Mark
  <2> QED
    BY <1>0, <1>5, <2>1, <2>2 DEF Mark, TypeOK, sweeps, counts
<1>6. CASE SweepSamples
  <2>1. samples' \subseteq checks /\ lastSamplePrune' \in Int
    BY <1>0, <1>6 DEF SweepSamples, PruneSamples
  <2>2. at' \in Step
    BY <1>6, Steps DEF SweepSamples
  <2> QED
    <3>1. UNCHANGED <<now, route, checks, rollups, watermark, lastPrune, up, counts>>
      BY <1>6 DEF SweepSamples
    <3> QED
      BY <1>0, <2>1, <2>2, <3>1 DEF TypeOK, counts
<1>7. ASSUME NEW l \in Rung, Sweep(l) PROVE TypeOK'
  <2>1. rollups' \subseteq Rollup /\ lastPrune' \in [Rung -> Int]
    BY <1>0, <1>7 DEF Sweep, PruneRollups
  <2>2. at' \in Step
    BY <1>7, Steps DEF Sweep
  <2> QED
    BY <1>0, <1>7, <2>1, <2>2 DEF Sweep, TypeOK, counts
<1>8. CASE FailPass
  <2>1. failures' \in 0..MaxFailures
    <3>1. failures < MaxFailures /\ failures' = failures + 1
      BY <1>8 DEF FailPass
    <3> QED
      BY <1>0, <3>1
  <2>2. at' \in Step
    BY <1>8, Steps DEF FailPass
  <2> QED
    <3>1. UNCHANGED <<now, route, checks, tables, sweeps, up, changes, stops>>
      BY <1>8 DEF FailPass
    <3> QED
      BY <1>0, <2>1, <2>2, <3>1 DEF TypeOK, tables, sweeps
<1>9. CASE FailSweep
  <2>1. failures' \in 0..MaxFailures
    <3>1. failures < MaxFailures /\ failures' = failures + 1
      BY <1>9 DEF FailSweep
    <3> QED
      BY <1>0, <3>1
  <2>2. at' \in Step
    BY <1>9, Steps DEF FailSweep
  <2>3. lastSamplePrune' \in Int /\ lastPrune' \in [Rung -> Int]
    BY <1>0, <1>9 DEF FailSweep
  <2> QED
    <3>1. UNCHANGED <<now, route, checks, tables, up, changes, stops>>
      BY <1>9 DEF FailSweep
    <3> QED
      BY <1>0, <2>1, <2>2, <2>3, <3>1 DEF TypeOK, tables
<1>10. CASE Stop
  <2>1. stops' \in 0..MaxStops
    BY <1>0, <1>10, Constants DEF Stop
  <2>2. at' \in Step
    BY <1>10, Steps DEF Stop
  <2> QED
    <3>1. UNCHANGED <<now, route, checks, tables, sweeps, changes, failures>>
      BY <1>10 DEF Stop
    <3>2. up' \in BOOLEAN
      BY <1>10 DEF Stop
    <3> QED
      BY <1>0, <2>1, <2>2, <3>1, <3>2 DEF TypeOK, tables, sweeps
<1>11. CASE Start
  <2>1. lastSamplePrune' \in Int /\ lastPrune' \in [Rung -> Int]
    BY <1>11 DEF Start, Unset
  <2>2. at' \in Step
    BY <1>11, Steps, Constants DEF Start
  <2> QED
    BY <1>0, <1>11, <2>1, <2>2 DEF Start, TypeOK, tables, counts
<1>12. CASE UNCHANGED vars
  BY <1>0, <1>12 DEF vars, tables, sweeps, counts, TypeOK
<1> QED
  BY <1>1, <1>2, <1>3, <1>4, <1>5, <1>6, <1>7, <1>8, <1>9, <1>10, <1>11, <1>12 DEF Next

\* What has sealed stays sealed.
LEMMA SealedLater ==
  ASSUME TypeOK, NEW t \in Int, now <= t, NEW l \in Rung
  PROVE  Sealed(now, l) <= Sealed(t, l)
<1>1. now - SealGrace \in Int /\ t - SealGrace \in Int /\ now - SealGrace <= t - SealGrace
  BY RowTypes, Constants
<1> QED
  BY <1>1, BucketLater DEF Sealed

\* The steps that leave the tables.
LEMMA TablesStay ==
  ASSUME Shape, TypeOK', UNCHANGED <<checks, tables>>, now' \in {now, now + 1},
         at' # at => at'.step # "mark"
  PROVE  /\ IsFiniteSet(checks)' /\ IsFiniteSet(rollups)'
         /\ Times' /\ OneRow' /\ Closed' /\ Marks' /\ Young' /\ InOrder'
<1> USE DEF tables
<1>1. now \in Int /\ now' \in Int /\ now <= now' /\ now' - SampleRetention >= now - SampleRetention
  BY RowTypes, Constants DEF Shape
<1>2. \A l \in Rung : /\ Sealed(now, l) \in Int /\ Sealed(now', l) \in Int
                      /\ Sealed(now, l) <= Sealed(now', l)
  BY <1>1, SealedLater, RowTypes DEF Shape
<1>3. IsFiniteSet(checks)' /\ IsFiniteSet(rollups)' /\ OneRow' /\ InOrder'
  BY DEF Shape, OneRow, InOrder
<1>4. Times' /\ Young'
  BY <1>1, RowTypes, Constants DEF Shape, Times, Young
<1>5. Closed'
  <2>1. \A r \in rollups : r.level \in Rung /\ r.bucket \in Int
    BY RowTypes DEF Shape
  <2> QED
    BY <1>2, <2>1 DEF Shape, Closed
<1>6. Marks'
  <2>1. \A l \in Rung : watermark[l] \in Int
    BY RowTypes DEF Shape
  <2>2. \A l \in Rung : /\ -1 <= watermark'[l]
                        /\ watermark'[l] # Unset => watermark'[l] <= Sealed(now', l)
    BY <1>2, <2>1 DEF Shape, Marks
  <2>3. ASSUME at'.step = "mark"
        PROVE  watermark'[at'.level] < Sealed(now', at'.level) /\ 0 <= Sealed(now', at'.level)
    <3>1. at' = at
      BY <2>3
    <3>2. at.level \in Rung
      BY DEF Shape, TypeOK, Step
    <3> QED
      BY <1>2, <2>1, <2>3, <3>1, <3>2 DEF Shape, Marks
  <2> QED
    BY <2>2, <2>3 DEF Marks
<1> QED
  BY <1>3, <1>4, <1>5, <1>6

\* The steps that take rows or samples away.
LEMMA SweptStay ==
  ASSUME Shape, TypeOK', UNCHANGED <<now, checks, watermark>>, rollups' \subseteq rollups,
         at'.step # "mark"
  PROVE  /\ IsFiniteSet(checks)' /\ IsFiniteSet(rollups)'
         /\ Times' /\ OneRow' /\ Closed' /\ Marks'
<1>1. IsFiniteSet(checks)' /\ IsFiniteSet(rollups)'
  BY FS_Subset DEF Shape
<1>2. Times'
  BY DEF Shape, Times
<1>3. OneRow'
  BY DEF Shape, OneRow
<1>4. Closed'
  BY DEF Shape, Closed
<1>5. Marks'
  BY DEF Shape, Marks
<1> QED
  BY <1>1, <1>2, <1>3, <1>4, <1>5

\* A sealed bucket has a place.
LEMMA SourceSealed ==
  ASSUME Shape, NEW l \in Rung, Builds(l)
  PROVE  0 <= Sealed(now, l) /\ Sealed(now, l) \in Int /\ watermark[l] < Sealed(now, l)
<1>1. /\ From(l) \in Int /\ SealedThrough(l) \in Int /\ From(l) <= SealedThrough(l) /\ 0 <= From(l)
      /\ SealedThrough(l) + 1 = Sealed(now, l)
      /\ watermark[l] = Unset \/ watermark[l] = From(l)
  BY StartIs DEF Shape
<1> QED
  BY <1>1 DEF Unset

LEMMA RowsShape ==
  ASSUME Shape, TypeOK', NEW l \in Rung, Rows(l)
  PROVE  /\ IsFiniteSet(checks)' /\ IsFiniteSet(rollups)'
         /\ Times' /\ OneRow' /\ Closed' /\ Marks' /\ Young' /\ InOrder'
<1>1. UNCHANGED <<now, checks, samples, watermark>>
  BY DEF Rows
<1>2. IsFiniteSet(checks)' /\ Times' /\ Young' /\ InOrder'
  BY <1>1 DEF Shape, Times, Young, InOrder
<1>3. CASE Builds(l)
  <2>1. rollups' = Upsert(NewRows(l)) /\ at' = Go("mark", l)
    BY <1>3, RowsIs
  <2>2. /\ IsFiniteSet(NewRows(l))
        /\ \A r \in NewRows(l) : /\ r.level = l /\ r.bucket \in Nat /\ r.bucket < Sealed(now, l)
        /\ \A r, q \in NewRows(l) : r.bucket = q.bucket => r = q
    BY <1>3, NewRowsAre, SourceType DEF Shape
  <2>3. IsFiniteSet(rollups)'
    BY <2>1, <2>2, UpsertFinite DEF Shape
  <2>4. \A r \in rollups' : \/ r \in NewRows(l)
                           \/ /\ r \in rollups
                              /\ \A n \in NewRows(l) : ~(n.level = r.level /\ n.bucket = r.bucket)
    BY <2>1, UpsertIs
  <2>5. OneRow'
    BY <2>2, <2>4 DEF Shape, OneRow
  <2>6. Closed'
    BY <1>1, <2>2, <2>4 DEF Shape, Closed
  <2>7. Marks'
    <3>1. at'.level = l
      BY <2>1 DEF Go
    <3>2. \A k \in Rung : /\ -1 <= watermark'[k]
                          /\ watermark'[k] # Unset => watermark'[k] <= Sealed(now', k)
      BY <1>1 DEF Shape, Marks
    <3>3. watermark'[l] < Sealed(now', l) /\ 0 <= Sealed(now', l)
      BY <1>1, <1>3, SourceSealed
    <3> QED
      BY <3>1, <3>2, <3>3 DEF Marks
  <2> QED
    BY <1>2, <2>3, <2>5, <2>6, <2>7
<1>4. CASE ~Builds(l)
  <2>1. rollups' = rollups /\ at'.step # "mark"
    <3>1. rollups' = rollups /\ at' = After(l)
      BY <1>4, RowsIs
    <3> QED
      BY <3>1 DEF After, Go
  <2>2. IsFiniteSet(rollups)' /\ OneRow' /\ Closed' /\ Marks'
    BY <1>1, <2>1, SweptStay
  <2> QED
    BY <1>2, <2>2
<1> QED
  BY <1>3, <1>4

LEMMA CheckShape ==
  ASSUME Shape, TypeOK', Check
  PROVE  /\ IsFiniteSet(checks)' /\ IsFiniteSet(rollups)'
         /\ Times' /\ OneRow' /\ Closed' /\ Marks' /\ Young' /\ InOrder'
<1> DEFINE s == [at |-> now, ok |-> route]
<1>1. /\ checks' = checks \cup {s} /\ samples' = samples \cup {s} /\ s.at = now
      /\ UNCHANGED <<now, rollups, watermark, at>>
      /\ \A c \in checks : c.at # now
  BY DEF Check, Checked
<1>2. now \in Int /\ (\A c \in checks : c.at \in Int /\ c.at <= now)
  BY RowTypes DEF Shape, Times
<1> HIDE DEF s
<1>3. IsFiniteSet(checks)'
  BY <1>1, FS_AddElement DEF Shape
<1>4. Times'
  BY <1>1, <1>2 DEF Shape, Times
<1>5. IsFiniteSet(rollups)' /\ OneRow' /\ Closed' /\ Marks'
  BY <1>1 DEF Shape, OneRow, Closed, Marks
<1>6. Young'
  BY <1>1 DEF Shape, Young
<1>7. InOrder'
  BY <1>1, <1>2 DEF Shape, InOrder
<1> QED
  BY <1>3, <1>4, <1>5, <1>6, <1>7

LEMMA ShapeStep ==
  ASSUME Shape, [Next]_vars
  PROVE  Shape'
<1>0. TypeOK'
  BY StepType
<1>1. (~up => stops > 0 /\ at = Rest)'
  <2>1. /\ ~up => stops > 0 /\ at = Rest
        /\ stops \in Nat
    BY Constants DEF Shape, TypeOK
  <2>2. CASE up' = up /\ stops' = stops /\ (~up => at' = at)
    BY <2>1, <2>2
  <2>3. CASE Stop
    BY <2>1, <2>3 DEF Stop
  <2>4. CASE Start
    BY <2>4 DEF Start
  <2>5. Next => \/ up' = up /\ stops' = stops /\ (~up => at' = at)
                \/ Stop \/ Start
    BY <2>1
      DEF Next, Tick, Change, Check, Rows, Mark, SweepSamples, Sweep, FailPass, FailSweep, counts
  <2> QED
    BY <2>2, <2>3, <2>4, <2>5 DEF vars, counts
<1>2. SUFFICES /\ IsFiniteSet(checks)' /\ IsFiniteSet(rollups)'
               /\ Times' /\ OneRow' /\ Closed' /\ Marks' /\ Young' /\ InOrder'
  BY <1>0, <1>1 DEF Shape
<1>3. CASE Tick
  <2>1. UNCHANGED <<checks, tables>> /\ now' = now + 1
    BY <1>3 DEF Tick
  <2>2. at'.step # "mark"
    BY <1>3 DEF Tick, Go, Rest
  <2> QED
    BY <1>0, <2>1, <2>2, TablesStay
<1>4. CASE Change
  BY <1>0, <1>4, TablesStay DEF Change
<1>5. CASE Check
  BY <1>0, <1>5, CheckShape
<1>6. ASSUME NEW l \in Rung, Rows(l)
      PROVE  /\ IsFiniteSet(checks)' /\ IsFiniteSet(rollups)'
             /\ Times' /\ OneRow' /\ Closed' /\ Marks' /\ Young' /\ InOrder'
  BY <1>0, <1>6, RowsShape
<1>7. ASSUME NEW l \in Rung, Mark(l)
      PROVE  /\ IsFiniteSet(checks)' /\ IsFiniteSet(rollups)'
             /\ Times' /\ OneRow' /\ Closed' /\ Marks' /\ Young' /\ InOrder'
  <2>1. UNCHANGED <<now, checks, samples, rollups>>
    BY <1>7 DEF Mark
  <2>2. /\ IsFiniteSet(checks)' /\ IsFiniteSet(rollups)' /\ Times' /\ OneRow' /\ Closed' /\ Young' /\ InOrder'
    BY <2>1 DEF Shape, Times, OneRow, Closed, Young, InOrder
  <2>3. at'.step # "mark"
    BY <1>7 DEF Mark, After, Go
  <2>4. watermark' = [watermark EXCEPT ![l] = Sealed(now, l)] /\ Sealed(now, l) \in Int
    <3>1. watermark' = [watermark EXCEPT ![l] = SealedThrough(l) + 1]
      BY <1>7 DEF Mark
    <3>2. SealedThrough(l) + 1 = Sealed(now, l) /\ SealedThrough(l) \in Int
      BY StartIs DEF Shape
    <3>3. watermark' = [watermark EXCEPT ![l] = Sealed(now, l)]
      BY <3>1, <3>2, Zenon
    <3>4. Sealed(now, l) \in Int
      BY <3>2
    <3> QED
      BY <3>3, <3>4
  <2>5. 0 <= Sealed(now, l)
    BY <1>7 DEF Mark, Go, Shape, Marks
  <2>6. watermark \in [Rung -> Int]
    BY DEF Shape, TypeOK
  <2>7. \A k \in Rung : /\ -1 <= watermark'[k]
                        /\ watermark'[k] # Unset => watermark'[k] <= Sealed(now', k)
    BY <2>1, <2>4, <2>5, <2>6 DEF Shape, Marks
  <2>8. Marks'
    BY <2>3, <2>7 DEF Marks
  <2> QED
    BY <2>2, <2>8
<1>8. CASE SweepSamples
  <2>1. UNCHANGED <<now, checks, rollups, watermark>> /\ at'.step # "mark"
    BY <1>8 DEF SweepSamples, Go
  <2>2. \/ samples' = samples
        \/ samples' = {s \in samples : s.at >= now - SampleRetention}
    BY <1>8 DEF SweepSamples, PruneSamples
  <2>3. now \in Int /\ SampleRetention \in Int /\ \A c \in checks : c.at \in Int
    BY RowTypes, Constants DEF Shape
  <2>4. samples \subseteq checks
    BY DEF Shape, TypeOK
  <2>5. Young'
    BY <2>1, <2>2, <2>3, <2>4 DEF Shape, Young
  <2>6. InOrder'
    BY <2>1, <2>2, <2>3, <2>4 DEF Shape, InOrder
  <2> QED
    BY <1>0, <2>1, <2>5, <2>6, SweptStay
<1>9. ASSUME NEW l \in Rung, Sweep(l)
      PROVE  /\ IsFiniteSet(checks)' /\ IsFiniteSet(rollups)'
             /\ Times' /\ OneRow' /\ Closed' /\ Marks' /\ Young' /\ InOrder'
  <2>1. UNCHANGED <<now, checks, samples, watermark>> /\ at'.step # "mark"
    BY <1>9 DEF Sweep, AfterSweep, Go, Rest
  <2>2. rollups' \subseteq rollups
    BY <1>9 DEF Sweep, PruneRollups
  <2>3. Young' /\ InOrder'
    BY <2>1 DEF Shape, Young, InOrder
  <2> QED
    BY <1>0, <2>1, <2>2, <2>3, SweptStay
<1>10. CASE FailPass
  <2>1. UNCHANGED <<now, checks, tables>> /\ at'.step # "mark"
    BY <1>10 DEF FailPass, Go
  <2> QED
    BY <1>0, <2>1, TablesStay
<1>11. CASE FailSweep
  <2>1. UNCHANGED <<now, checks, tables>> /\ at'.step # "mark"
    BY <1>11 DEF FailSweep, Rest
  <2> QED
    BY <1>0, <2>1, TablesStay
<1>12. CASE Stop
  <2>1. UNCHANGED <<now, checks, tables>> /\ at'.step # "mark"
    BY <1>12 DEF Stop, Rest
  <2> QED
    BY <1>0, <2>1, TablesStay
<1>13. CASE Start
  <2>1. UNCHANGED <<now, checks, tables>> /\ at'.step # "mark"
    BY <1>13 DEF Start, Go
  <2> QED
    BY <1>0, <2>1, TablesStay
<1>14. CASE UNCHANGED vars
  <2>1. UNCHANGED <<now, checks, tables, at>>
    BY <1>14 DEF vars
  <2> QED
    BY <1>0, <2>1, TablesStay
<1> QED
  BY <1>3, <1>4, <1>5, <1>6, <1>7, <1>8, <1>9, <1>10, <1>11, <1>12, <1>13, <1>14 DEF Next

\* The tables and the worker hold what they are made to hold: every row is a row of a
\* rung, and no sample is kept that was not a check.
THEOREM LadderTypeCorrect == Spec => []TypeOK
<1>1. Init => Shape
  BY InitShape
<1>2. Shape /\ [Next]_vars => Shape'
  BY ShapeStep
<1>3. Shape => TypeOK
  BY DEF Shape
<1> QED
  BY <1>1, <1>2, <1>3, PTL DEF Spec

-----------------------------------------------------------------------------
\* With one kind of fault.

LEMMA InitSound == Init => Sound
<1> SUFFICES ASSUME Init PROVE Sound
  OBVIOUS
<1>1. checks = {} /\ rollups = {} /\ at = Go("rows", 0)
  BY DEF Init
<1>2. Written
  BY <1>1 DEF Written, Go
<1>3. \A l \in Rung, t \in Int : Built(l, t)
  BY <1>1 DEF Built
<1>4. Passed /\ Current /\ Late
  BY <1>1 DEF Passed, Current, Late, Built
<1>5. RescansChangeNothing /\ Kept /\ Chain /\ FromTheEnd
  BY <1>1 DEF RescansChangeNothing, Kept, Chain, FromTheEnd
<1> QED
  BY <1>2, <1>4, <1>5 DEF Sound

LEMMA GoIs == \A s, l : Go(s, l).step = s /\ Go(s, l).level = l
  BY DEF Go

LEMMA RestIs == Rest.step = "rest"
  BY DEF Rest

\* Faults are only ever added.
LEMMA FaultsGrow ==
  ASSUME TypeOK, [Next]_vars
  PROVE  /\ failures' \in {failures, failures + 1} /\ stops' \in {stops, stops + 1}
         /\ failures \in Nat /\ stops \in Nat
         /\ OneKindOfFault' => OneKindOfFault
         /\ Room' => Room
<1>1. failures \in Nat /\ stops \in Nat
  BY Constants DEF TypeOK
<1>2. failures' \in {failures, failures + 1} /\ stops' \in {stops, stops + 1}
  BY DEF Next, Tick, Change, Check, Rows, Mark, SweepSamples, Sweep, FailPass, FailSweep,
         Stop, Start, vars, counts
<1>3. Room' => Room
  <2> SUFFICES ASSUME Room' PROVE Room
    OBVIOUS
  <2>1. /\ SampleRetention >= SealGrace + Width[0] + failures' - 1
        /\ \A l \in Rung : l > 0 => Retain[l-1] >= SealGrace + Width[l] + failures' - 1
    BY DEF Room
  <2>2. SampleRetention \in Int /\ SealGrace \in Int /\ Width[0] \in Int
    BY Constants
  <2>3. SampleRetention >= SealGrace + Width[0] + failures - 1
    BY <1>1, <1>2, <2>1, <2>2
  <2>4. ASSUME NEW l \in Rung, l > 0
        PROVE  Retain[l-1] >= SealGrace + Width[l] + failures - 1
    <3>1. Retain[l-1] >= SealGrace + Width[l] + failures' - 1
      BY <2>1, <2>4
    <3>2. Retain[l-1] \in Int /\ SealGrace \in Int /\ Width[l] \in Int
      BY <2>4, Constants
    <3> QED
      BY <1>1, <1>2, <3>1, <3>2
  <2> QED
    BY <2>3, <2>4 DEF Room
<1> QED
  BY <1>1, <1>2, <1>3 DEF OneKindOfFault

LEMMA RoomIs ==
  ASSUME TypeOK, RoomToFail \/ failures = 0
  PROVE  Room
<1>0. failures \in Int /\ MaxFailures \in Int /\ failures <= MaxFailures
  BY Constants DEF TypeOK
<1>1. SampleRetention >= SealGrace + Width[0] + failures - 1
  <2>1. SampleRetention \in Int /\ SealGrace \in Int /\ Width[0] \in Int
    BY Constants
  <2> QED
    BY <1>0, <2>1, Constants DEF RoomToFail
<1>2. ASSUME NEW l \in Rung, l > 0
      PROVE  Retain[l-1] >= SealGrace + Width[l] + failures - 1
  <2>1. /\ Retain[l-1] \in Int /\ SealGrace \in Int /\ Width[l] \in Nat
        /\ Retain[l-1] >= SealGrace + 2 * Width[l]
    BY <1>2, Constants
  <2>2. RoomToFail => Retain[l-1] >= SealGrace + Width[l] + MaxFailures - 1
    BY <1>2 DEF RoomToFail
  <2> QED
    BY <1>0, <2>1, <2>2
<1> QED
  BY <1>1, <1>2 DEF Room

\* What is built up to an instant is built up to an earlier one.
LEMMA BuiltEarlier ==
  ASSUME TypeOK, NEW l \in Rung, NEW t \in Int, NEW s \in Int, s <= t, Built(l, t)
  PROVE  Built(l, s)
<1>1. Sealed(s, l) <= Sealed(t, l)
  BY BucketLater, Constants DEF Sealed
<1>2. \A c \in checks : Bucket(c.at, l) \in Int
  BY RowTypes
<1>3. Sealed(s, l) \in Int /\ Sealed(t, l) \in Int
  BY RowTypes
<1> QED
  BY <1>1, <1>2, <1>3 DEF Built

\* A pass that finds nothing to build has nothing left to build.
LEMMA NothingLeft ==
  ASSUME Shape, Sound, NEW l \in Rung, at = Go("rows", l), ~Builds(l)
  PROVE  Built(l, now)
<1> SUFFICES ASSUME NEW c \in checks, Bucket(c.at, l) < Sealed(now, l), ~Past(c, l)
             PROVE  FALSE
  BY DEF Built
<1>1. Bucket(c.at, l) \in Source(l)
  BY SourceComplete
<1>2. /\ watermark[l] # Unset => SealedThrough(l) < watermark[l]
      /\ watermark[l] = Unset => \A b \in Source(l) : SealedThrough(l) < b
      /\ SealedThrough(l) \in Int /\ SealedThrough(l) + 1 = Sealed(now, l)
  BY StartIs DEF Shape
<1>3. Bucket(c.at, l) \in Int /\ watermark[l] \in Int
  BY RowTypes DEF Shape
<1> QED
  BY <1>1, <1>2, <1>3 DEF Past

Sweeping == at.step \in {"sweep samples", "sweep"}

\* What has to be swept is built, however late.
LEMMA BuiltBySweep ==
  ASSUME Shape, Sound, OneKindOfFault, Sweeping, NEW l \in Rung
  PROVE  Built(l, now - failures)
<1>1. up /\ ~InPass /\ ~Pending(l)
  <2>1. ~up => at = Rest
    BY DEF Shape
  <2>2. at # Rest
    <3>1. Rest.step = "rest" /\ at.step # "rest"
      BY DEF Sweeping, Rest
    <3> QED
      BY <3>1
  <2>3. ~InPass
    BY DEF Sweeping, InPass
  <2> QED
    BY <2>1, <2>2, <2>3 DEF Pending
<1>2. CASE stops = 0
  BY <1>1, <1>2 DEF Sound, Late
<1>3. CASE failures = 0
  <2>1. Built(l, now)
    BY <1>1, <1>3 DEF Sound, Current
  <2>2. now - failures = now
    BY <1>3, RowTypes DEF Shape
  <2> QED
    BY <2>1, <2>2
<1> QED
  BY <1>2, <1>3 DEF OneKindOfFault

\* And so are checks of that age.
LEMMA BuiltInTime ==
  ASSUME Shape, Sound, OneKindOfFault, Sweeping, NEW l \in Rung,
         NEW c \in checks, c.at < now - (SealGrace + Width[l] + failures - 1)
  PROVE  Past(c, l)
<1>1. now \in Int /\ c.at \in Int /\ failures \in Int
  BY RowTypes, Constants DEF Shape, TypeOK
<1>2. SealGrace \in Int /\ Width[l] \in Int
  BY Constants
<1>3. c.at + Width[l] <= (now - failures) - SealGrace /\ (now - failures) - SealGrace \in Int
  BY <1>1, <1>2
<1>4. Bucket(c.at, l) < Sealed(now - failures, l)
  BY <1>1, <1>3, BucketApart DEF Sealed
<1> QED
  BY <1>4, BuiltBySweep DEF Built

\* The steps that leave the tables.
LEMMA TablesSound ==
  ASSUME Shape, Sound, UNCHANGED <<checks, tables>>, now' \in {now, now + 1}
  PROVE  RescansChangeNothing' /\ Kept' /\ Chain' /\ FromTheEnd'
<1>1. UNCHANGED <<checks, samples, rollups, watermark>>
  BY DEF tables
<1>2. RescansChangeNothing'
  BY <1>1 DEF Sound, RescansChangeNothing, In, Bucket
<1>3. Kept' /\ FromTheEnd'
  BY <1>1 DEF Sound, Kept, FromTheEnd, Past, Held
<1>4. Chain'
  <2>1. ASSUME NEW c \in checks, NEW l \in Rung, Dropped(c, l)
        PROVE  Dropped(c, l)'
    <3>1. now \in Int /\ Retain[l] \in Int /\ c.at \in Int
      BY RowTypes, Constants DEF Shape
    <3>2. now - Retain[l] \in Int /\ now' - Retain[l] \in Int /\ now - Retain[l] <= now' - Retain[l]
      BY <3>1
    <3>3. Bucket(now - Retain[l], l) <= Bucket(now' - Retain[l], l)
      BY <3>2, BucketLater
    <3>4. /\ Bucket(now - Retain[l], l) \in Int /\ Bucket(now' - Retain[l], l) \in Int
          /\ Bucket(c.at, l) \in Int
      BY <3>1, <3>2, BucketBounds
    <3> QED
      BY <1>1, <2>1, <3>3, <3>4 DEF Dropped, Past
  <2>2. \A c \in checks, l \in Rung : (Past(c, l)' <=> Past(c, l)) /\ (Held(c, l)' <=> Held(c, l))
    BY <1>1 DEF Past, Held
  <2> QED
    BY <1>1, <2>1, <2>2 DEF Sound, Chain
<1> QED
  BY <1>2, <1>3, <1>4

\* The end of a rung: what has sealed is built, and the worker goes on.
LEMMA RungDone ==
  ASSUME Shape, Sound, OneKindOfFault, NEW l \in Rung, NEW s \in {"rows", "mark"},
         at = Go(s, l), at' = After(l), Built(l, now)',
         UNCHANGED <<now, checks, up, counts>>,
         \A k \in Rung : k # l => watermark'[k] = watermark[k]
  PROVE  Written' /\ Passed' /\ Current' /\ Late'
<1>1. /\ InPass /\ at.level = l /\ l \in Nat /\ l <= Top /\ Top \in Nat
      /\ now' = now /\ failures' = failures /\ stops' = stops /\ checks' = checks
  BY Constants DEF InPass, Go, counts, Rung
<1>2. \A k \in Rung, t \in Int : k # l /\ Built(k, t) => Built(k, t)'
  BY <1>1 DEF Built, Past
<1>3. ASSUME NEW k \in Rung, k < l
      PROVE  Built(k, now)'
  <2>1. Built(k, now)
    BY <1>1, <1>3 DEF Sound, Passed
  <2> QED
    BY <1>1, <1>3, <2>1 DEF Built, Past
<1>4. \A k \in Rung : k <= l => Built(k, now)'
  <2>1. \A k \in Rung : k \in Nat
    BY Constants
  <2> QED
    BY <1>1, <1>3, <2>1
<1>5. /\ l < Top => at'.step = "rows" /\ at'.level = l + 1
      /\ ~(l < Top) => at'.step = "sweep samples"
      /\ InPass' <=> l < Top
  <2>1. CASE l < Top
    <3>1. at' = Go("rows", l + 1)
      BY <2>1 DEF After
    <3>2. at'.step = "rows" /\ at'.level = l + 1
      BY <3>1 DEF Go
    <3> QED
      BY <2>1, <3>2 DEF InPass
  <2>2. CASE ~(l < Top)
    <3>1. at' = Go("sweep samples", 0)
      BY <2>2 DEF After
    <3>2. at'.step = "sweep samples"
      BY <3>1, GoIs, Zenon
    <3> QED
      BY <2>2, <3>2 DEF InPass
  <2> QED
    BY <2>1, <2>2
<1>6. Written'
  BY <1>5 DEF Written
<1>7. Passed'
  <2>1. CASE l < Top
    <3>1. \A k \in Rung : k < l + 1 => k <= l
      BY <1>1, Constants
    <3> QED
      BY <1>4, <1>5, <2>1, <3>1 DEF Passed
  <2>2. CASE ~(l < Top)
    BY <1>5, <2>2 DEF Passed
  <2> QED
    BY <2>1, <2>2
<1>8. Current'
  <2>1. CASE l < Top
    BY <1>5, <2>1 DEF Current
  <2>2. CASE ~(l < Top)
    <3>1. \A k \in Rung : k <= l
      BY <1>1, <2>2, Constants DEF Rung
    <3> QED
      BY <1>4, <3>1 DEF Current
  <2> QED
    BY <2>1, <2>2
<1>9. Late'
  <2> SUFFICES ASSUME stops = 0, NEW k \in Rung
               PROVE  Built(k, IF Pending(k) THEN now - failures - 1 ELSE now - failures)'
    BY <1>1 DEF Late
  <2>0. now \in Int /\ failures \in Nat /\ k \in Nat
    BY RowTypes, Constants DEF Shape, TypeOK
  <2>1. CASE k = l
    <3>1. ~Pending(k)'
      <4>1. CASE l < Top
        <5>1. ~(l + 1 <= k)
          BY <1>1, <2>1
        <5> QED
          BY <1>5, <4>1, <5>1 DEF Pending
      <4>2. CASE ~(l < Top)
        BY <1>5, <4>2 DEF Pending
      <4> QED
        BY <4>1, <4>2
    <3>2. Built(k, now - failures)'
      <4>1. /\ Sealed(now - failures, k) <= Sealed(now, k)
            /\ Sealed(now - failures, k) \in Int /\ Sealed(now, k) \in Int
        <5>1. /\ now - SealGrace \in Int /\ (now - failures) - SealGrace \in Int
              /\ (now - failures) - SealGrace <= now - SealGrace
          BY <2>0, Constants
        <5> QED
          BY <5>1, BucketLater, BucketBounds DEF Sealed
      <4>2. \A c \in checks : Bucket(c.at, k) \in Int
        BY RowTypes DEF Shape
      <4>3. Built(k, now)'
        BY <2>1
      <4>4. \A c \in checks : Bucket(c.at, k) < Sealed(now, k) => Past(c, k)'
        BY <1>1, <4>3 DEF Built
      <4>5. \A c \in checks : Bucket(c.at, k) < Sealed(now - failures, k) => Past(c, k)'
        BY <4>1, <4>2, <4>4
      <4> QED
        BY <1>1, <4>5 DEF Built
    <3> QED
      BY <3>1, <3>2
  <2>2. CASE k # l
    <3>1. Pending(k)' <=> Pending(k)
      <4>1. Pending(k) <=> l <= k
        BY <1>1 DEF Pending
      <4>2. CASE l < Top
        <5>1. Pending(k)' <=> l + 1 <= k
          BY <1>5, <4>2 DEF Pending
        <5> QED
          BY <1>1, <2>0, <2>2, <4>1, <5>1
      <4>3. CASE ~(l < Top)
        <5>1. ~Pending(k)'
          BY <1>5, <4>3 DEF Pending
        <5>2. k <= Top
          BY Constants DEF Rung
        <5> QED
          BY <1>1, <2>0, <2>2, <4>1, <4>3, <5>1, <5>2
      <4> QED
        BY <4>2, <4>3
    <3>2. Built(k, IF Pending(k) THEN now - failures - 1 ELSE now - failures)
      BY DEF Sound, Late
    <3> QED
      BY <1>1, <2>2, <3>1, <3>2 DEF Built, Past
  <2> QED
    BY <2>1, <2>2
<1> QED
  BY <1>6, <1>7, <1>8, <1>9

LEMMA RowsSound ==
  ASSUME Shape, Sound, OneKindOfFault, NEW l \in Rung, Rows(l)
  PROVE  Sound'
<1>1. UNCHANGED <<now, checks, samples, watermark, up, counts>> /\ at = Go("rows", l)
  BY DEF Rows
<1>2. \A c \in checks, k \in Rung :
        (Past(c, k)' <=> Past(c, k)) /\ (Dropped(c, k)' <=> Dropped(c, k))
  BY <1>1 DEF Past, Dropped
<1>3. CASE Builds(l)
  <2>1. rollups' = Upsert(NewRows(l)) /\ at' = Go("mark", l)
    BY <1>3, RowsIs
  <2>2. /\ at.level = l /\ at'.level = l /\ at'.step = "mark"
        /\ InPass /\ InPass'
    BY <1>1, <2>1, GoIs DEF InPass
  <2>3. /\ \A r \in rollups' : \/ r \in NewRows(l)
                              \/ r \in rollups
        /\ NewRows(l) \subseteq rollups'
    BY <2>1, UpsertIs
  <2>4. \A c \in checks, k \in Rung : Held(c, k) => Held(c, k)'
    BY <1>1, <2>1, UpsertIs DEF Held
  <2>5. \A r \in NewRows(l) : /\ r.level = l /\ From(l) <= r.bucket /\ r.bucket \in Nat
    BY <1>3, NewRowsAre, SourceType DEF Shape
  <2>6. RescansChangeNothing'
    <3>1. \A r \in NewRows(l) : /\ r.count = Cardinality(In(checks, r.bucket, l))
                                /\ r.countOk = Cardinality(Ok(In(checks, r.bucket, l)))
      BY <1>1, <1>3, NewRowsExact
    <3>2. \A r \in rollups' : /\ r.count = Cardinality(In(checks, r.bucket, r.level))
                              /\ r.countOk = Cardinality(Ok(In(checks, r.bucket, r.level)))
      BY <2>3, <2>5, <3>1 DEF Sound, RescansChangeNothing
    <3> QED
      BY <1>1, <3>2 DEF RescansChangeNothing
  <2>7. Kept' /\ Chain'
    BY <1>1, <1>2, <2>4, Constants DEF Sound, Kept, Chain
  <2>8. Written'
    <3>1. ASSUME NEW c \in checks, Bucket(c.at, l) < Sealed(now, l), ~Past(c, l)
          PROVE  Held(c, l)'
      <4>1. Bucket(c.at, l) \in Source(l)
        BY <1>1, <3>1, SourceComplete
      <4>2. From(l) <= Bucket(c.at, l)
        <5>1. /\ watermark[l] = Unset \/ watermark[l] = From(l)
              /\ watermark[l] = Unset => From(l) <= Bucket(c.at, l)
          BY <1>3, <4>1, StartIs DEF Shape
        <5>2. watermark[l] \in Int /\ Bucket(c.at, l) \in Int
          BY RowTypes DEF Shape
        <5> QED
          BY <3>1, <5>1, <5>2 DEF Past
      <4>3. PICK r \in NewRows(l) : r.bucket = Bucket(c.at, l)
        BY <1>3, <3>1, <4>1, <4>2, NewRowsAre
      <4> QED
        BY <2>3, <2>5, <4>3 DEF Held
    <3> QED
      BY <1>1, <1>2, <2>2, <3>1 DEF Written
  <2>9. Passed' /\ Current' /\ Late'
    <3>1. \A k \in Rung : /\ Pending(k)' <=> Pending(k)
                          /\ \A t \in Int : Built(k, t) => Built(k, t)'
      BY <1>1, <2>2 DEF Pending, Built, Past
    <3>2. Passed'
      BY <1>1, <2>2 DEF Sound, Passed, Built, Past
    <3>3. Current'
      BY <2>2 DEF Current
    <3>4. Late'
      BY <1>1, <3>1 DEF Sound, Late, Built, Past, counts
    <3> QED
      BY <3>2, <3>3, <3>4
  <2>10. FromTheEnd'
    <3> SUFFICES ASSUME NEW c \in checks, NEW r \in rollups', Past(c, r.level), ~Held(c, r.level)'
                 PROVE  Bucket(c.at, r.level) < r.bucket
      BY <1>1 DEF FromTheEnd, Past, Held
    <3>1. CASE r \in rollups
      <4>1. r.level \in Rung
        BY <3>1, RowTypes DEF Shape
      <4> QED
        BY <2>4, <3>1, <4>1 DEF Sound, FromTheEnd
    <3>2. CASE r \in NewRows(l)
      <4>1. r.level = l /\ From(l) <= r.bucket /\ r.bucket \in Int
        BY <2>5, <3>2
      <4>2. /\ watermark[l] = Unset \/ watermark[l] = From(l)
            /\ watermark[l] \in Int /\ Bucket(c.at, l) \in Nat
        BY <1>3, StartIs, RowTypes DEF Shape
      <4> QED
        BY <4>1, <4>2 DEF Past, Unset
    <3> QED
      BY <2>3, <3>1, <3>2
  <2> QED
    BY <2>6, <2>7, <2>8, <2>9, <2>10 DEF Sound
<1>4. CASE ~Builds(l)
  <2>1. rollups' = rollups /\ at' = After(l)
    BY <1>4, RowsIs
  <2>2. RescansChangeNothing' /\ Kept' /\ Chain' /\ FromTheEnd'
    BY <1>1, <2>1, TablesSound DEF tables
  <2>3. Built(l, now)'
    <3>1. Built(l, now)
      BY <1>1, <1>4, NothingLeft
    <3> QED
      BY <1>1, <3>1 DEF Built, Past
  <2>4. Written' /\ Passed' /\ Current' /\ Late'
    BY <1>1, <2>1, <2>3, RungDone
  <2> QED
    BY <2>2, <2>4 DEF Sound
<1> QED
  BY <1>3, <1>4

LEMMA MarkSound ==
  ASSUME Shape, Sound, OneKindOfFault, NEW l \in Rung, Mark(l)
  PROVE  Sound'
<1>1. /\ UNCHANGED <<now, checks, samples, rollups, up, counts>>
      /\ at = Go("mark", l) /\ at' = After(l)
  BY DEF Mark
<1>2. at.step = "mark" /\ at.level = l
  BY <1>1, GoIs
<1>3. watermark'[l] = Sealed(now, l) /\ \A k \in Rung : k # l => watermark'[k] = watermark[k]
  <2>1. watermark \in [Rung -> Int]
    BY DEF Shape, TypeOK
  <2>2. watermark' = [watermark EXCEPT ![l] = SealedThrough(l) + 1]
    BY DEF Mark
  <2>3. SealedThrough(l) + 1 = Sealed(now, l)
    BY StartIs DEF Shape
  <2> QED
    BY <2>1, <2>2, <2>3
<1>4. \A c \in checks, k \in Rung : Past(c, k) => Past(c, k)'
  <2>1. watermark[l] < Sealed(now, l) /\ watermark[l] \in Int /\ Sealed(now, l) \in Int
    BY <1>2, RowTypes DEF Shape, Marks
  <2>2. \A c \in checks : Bucket(c.at, l) \in Int
    BY RowTypes DEF Shape
  <2> QED
    BY <1>1, <1>3, <2>1, <2>2 DEF Past
<1>5. \A c \in checks, k \in Rung : Held(c, k)' <=> Held(c, k)
  BY <1>1 DEF Held
<1>6. ASSUME NEW c \in checks, NEW k \in Rung, Past(c, k)'
      PROVE  Past(c, k) \/ Held(c, k)
  <2>1. CASE k # l
    BY <1>1, <1>3, <1>6, <2>1 DEF Past
  <2>2. CASE k = l
    <3>1. Bucket(c.at, l) < Sealed(now, l)
      BY <1>1, <1>3, <1>6, <2>2 DEF Past
    <3> QED
      BY <1>2, <2>2, <3>1 DEF Sound, Written
  <2> QED
    BY <2>1, <2>2
<1>7. RescansChangeNothing' /\ Kept'
  BY <1>1, <1>4, Constants DEF Sound, RescansChangeNothing, Kept, In, Ok
<1>8. Chain'
  <2>1. \A c \in checks, k \in Rung : Dropped(c, k) => Dropped(c, k)'
    <3>1. \A k \in Rung : k < Top => k + 1 \in Rung
      BY Constants DEF Rung
    <3> QED
      BY <1>1, <1>4, <3>1 DEF Dropped
  <2> QED
    BY <1>1, <1>5, <1>6, <2>1 DEF Sound, Chain
<1>9. FromTheEnd'
  <2>1. \A r \in rollups : r.level \in Rung
    BY RowTypes DEF Shape
  <2> QED
    BY <1>1, <1>5, <1>6, <2>1 DEF Sound, FromTheEnd
<1>10. Built(l, now)'
  BY <1>1, <1>3 DEF Built, Past
<1>11. Written' /\ Passed' /\ Current' /\ Late'
  BY <1>1, <1>3, <1>10, RungDone
<1> QED
  BY <1>7, <1>8, <1>9, <1>11 DEF Sound

\* A new check is of a bucket that is open.
LEMMA BuiltByCheck ==
  ASSUME Shape, Check, NEW l \in Rung, NEW t \in Int, t <= now, Built(l, t)
  PROVE  Built(l, t)'
<1> DEFINE s == [at |-> now, ok |-> route]
<1>1. checks' = checks \cup {s} /\ s.at = now /\ UNCHANGED watermark
  BY DEF Check
<1> HIDE DEF s
<1>2. now \in Int
  BY RowTypes DEF Shape
<1>3. t - SealGrace \in Int /\ t - SealGrace <= now
  BY <1>2, Constants
<1>4. Sealed(t, l) <= Bucket(now, l) /\ Sealed(t, l) \in Int /\ Bucket(now, l) \in Int
  BY <1>2, <1>3, BucketLater, BucketBounds DEF Sealed
<1>5. ~(Bucket(s.at, l) < Sealed(t, l))
  BY <1>1, <1>4
<1> QED
  BY <1>1, <1>5 DEF Built, Past

LEMMA CheckSound ==
  ASSUME Shape, Sound, Check
  PROVE  Sound'
<1> DEFINE s == [at |-> now, ok |-> route]
<1>1. /\ checks' = checks \cup {s} /\ samples' = samples \cup {s} /\ s.at = now
      /\ UNCHANGED <<now, rollups, watermark, at, up, counts>>
  BY DEF Check
<1> HIDE DEF s
<1>2. now \in Int /\ failures \in Nat /\ TypeOK
  BY RowTypes, Constants DEF Shape, TypeOK
<1>3. ASSUME NEW l \in Rung, NEW t \in Int, t <= now
      PROVE  ~(Bucket(s.at, l) < Sealed(t, l))
  <2>1. t - SealGrace \in Int /\ t - SealGrace <= now
    BY <1>2, <1>3, Constants
  <2>2. Sealed(t, l) <= Bucket(now, l) /\ Sealed(t, l) \in Int /\ Bucket(now, l) \in Int
    BY <1>2, <2>1, BucketLater, BucketBounds DEF Sealed
  <2> QED
    BY <1>1, <2>2
<1>4. ASSUME NEW l \in Rung
      PROVE  ~Past(s, l)
  <2>1. /\ -1 <= watermark[l] /\ watermark[l] \in Int
        /\ watermark[l] # Unset => watermark[l] <= Sealed(now, l)
        /\ Sealed(now, l) \in Int /\ Bucket(s.at, l) \in Nat
    BY <1>1, <1>2, RowTypes, BucketBounds DEF Shape, Marks
  <2>2. ~(Bucket(s.at, l) < Sealed(now, l))
    BY <1>2, <1>3
  <2> QED
    BY <2>1, <2>2 DEF Past, Unset
<1>5. \A c \in checks', l \in Rung : /\ Past(c, l)' <=> Past(c, l)
                                     /\ Held(c, l)' <=> Held(c, l)
                                     /\ Dropped(c, l)' <=> Dropped(c, l)
  BY <1>1 DEF Past, Held, Dropped
<1>6. \A l \in Rung, t \in Int : t <= now /\ Built(l, t) => Built(l, t)'
  BY <1>1, <1>3, <1>5 DEF Built
<1>7. RescansChangeNothing'
  <2>1. ASSUME NEW r \in rollups
        PROVE  In(checks', r.bucket, r.level) = In(checks, r.bucket, r.level)
    <3>1. r.level \in Rung /\ r.bucket < Sealed(now, r.level) /\ r.bucket \in Int
      BY RowTypes DEF Shape, Closed
    <3>2. Bucket(s.at, r.level) # r.bucket
      BY <1>2, <1>3, <3>1
    <3> QED
      BY <1>1, <3>2 DEF In
  <2> QED
    BY <1>1, <2>1 DEF Sound, RescansChangeNothing, Ok, In
<1>8. Kept' /\ Chain'
  BY <1>1, <1>4, <1>5, Constants DEF Sound, Kept, Chain
<1>9. Written'
  <2>1. at.step = "mark" => at.level \in Rung
    BY <1>2 DEF TypeOK, Step
  <2> QED
    BY <1>1, <1>2, <1>3, <1>5, <2>1 DEF Sound, Written
<1>10. Passed' /\ Current'
  <2>1. \A l \in Rung : Built(l, now) => Built(l, now)'
    BY <1>1, <1>2, <1>6 DEF Built
  <2> QED
    BY <1>1, <2>1 DEF Sound, Passed, Current, InPass, counts
<1>11. Late'
  <2> SUFFICES ASSUME stops = 0, NEW l \in Rung
               PROVE  Built(l, IF Pending(l) THEN now - failures - 1 ELSE now - failures)'
    BY <1>1 DEF Late, counts
  <2>1. Pending(l)' <=> Pending(l)
    BY <1>1 DEF Pending, InPass
  <2>2. Built(l, IF Pending(l) THEN now - failures - 1 ELSE now - failures)
    BY DEF Sound, Late
  <2>3. /\ now - failures - 1 \in Int /\ now - failures - 1 <= now
        /\ now - failures \in Int /\ now - failures <= now
    BY <1>2
  <2>4. Built(l, now - failures - 1) =>
          \A c \in checks' : Bucket(c.at, l) < Sealed(now - failures - 1, l) => Past(c, l)'
    BY <1>6, <2>3 DEF Built
  <2>5. Built(l, now - failures) =>
          \A c \in checks' : Bucket(c.at, l) < Sealed(now - failures, l) => Past(c, l)'
    BY <1>6, <2>3 DEF Built
  <2> QED
    BY <1>1, <2>1, <2>2, <2>4, <2>5 DEF Built, counts
<1>12. FromTheEnd'
  <2>1. \A r \in rollups : r.level \in Rung
    BY RowTypes DEF Shape
  <2> QED
    BY <1>1, <1>4, <1>5, <2>1 DEF Sound, FromTheEnd
<1> QED
  BY <1>7, <1>8, <1>9, <1>10, <1>11, <1>12 DEF Sound

\* Sweeping the steps of a sweep: what has been built is not the sweep's.
LEMMA SweepGoesOn ==
  ASSUME Shape, Sound, Sweeping, UNCHANGED <<now, checks, watermark, up, counts>>, ~InPass',
         at'.step # "mark"
  PROVE  Written' /\ Passed' /\ Current' /\ Late'
<1>1. ~InPass
  BY DEF Sweeping, InPass
<1>2. \A l \in Rung : ~Pending(l) /\ ~Pending(l)'
  BY <1>1 DEF Pending
<1>3. Written' /\ Passed'
  BY DEF Written, Passed
<1>4. Current'
  BY <1>1 DEF Sound, Current, Built, Past, counts
<1>5. Late'
  BY <1>2 DEF Sound, Late, Built, Past, counts
<1> QED
  BY <1>3, <1>4, <1>5

LEMMA SweepSamplesSound ==
  ASSUME Room, Shape, Sound, OneKindOfFault, SweepSamples
  PROVE  Sound'
<1>1. /\ UNCHANGED <<now, checks, rollups, watermark, up, counts>> /\ Sweeping
      /\ at' = Go("sweep", 0)
  BY DEF SweepSamples, Sweeping
<1>2. at'.step = "sweep"
  BY <1>1, GoIs
<1>3. ~InPass' /\ at'.step # "mark"
  BY <1>2 DEF InPass
<1>4. Written' /\ Passed' /\ Current' /\ Late'
  BY <1>1, <1>3, SweepGoesOn
<1>5. RescansChangeNothing' /\ Chain' /\ FromTheEnd'
  BY <1>1 DEF Sound, RescansChangeNothing, Chain, FromTheEnd, Past, Held, Dropped, In, Ok
<1>6. Kept'
  <2> SUFFICES ASSUME NEW c \in checks, c \in samples, c \notin samples'
               PROVE  Past(c, 0)
    BY <1>1 DEF Sound, Kept, Past
  <2>1. ~(c.at >= now - SampleRetention)
    BY DEF SweepSamples, PruneSamples
  <2>2. /\ SampleRetention >= SealGrace + Width[0] + failures - 1
        /\ now \in Int /\ c.at \in Int /\ SealGrace \in Int /\ Width[0] \in Int /\ failures \in Int
        /\ SampleRetention \in Int /\ 0 \in Rung
    BY RowTypes, Constants DEF Room, Shape, TypeOK
  <2>3. c.at < now - (SealGrace + Width[0] + failures - 1)
    BY <2>1, <2>2
  <2> QED
    BY <1>1, <2>2, <2>3, BuiltInTime
<1> QED
  BY <1>4, <1>5, <1>6 DEF Sound

LEMMA SweepSound ==
  ASSUME Room, Shape, Sound, OneKindOfFault, NEW l \in Rung, Sweep(l)
  PROVE  Sound'
<1>1. /\ UNCHANGED <<now, checks, samples, watermark, up, counts>> /\ at = Go("sweep", l)
      /\ at' = AfterSweep(l)
  BY DEF Sweep
<1>2. Sweeping
  <2>1. at.step = "sweep"
    BY <1>1, GoIs
  <2> QED
    BY <2>1 DEF Sweeping
<1>3. ~InPass' /\ at'.step # "mark"
  <2>1. AfterSweep(l).step \in {"sweep", "rest"}
    BY DEF AfterSweep, Go, Rest
  <2> QED
    BY <1>1, <2>1 DEF InPass
<1>4. Written' /\ Passed' /\ Current' /\ Late'
  BY <1>1, <1>2, <1>3, SweepGoesOn
<1>5. /\ rollups' \subseteq rollups
      /\ \A r \in rollups : r.level # l => r \in rollups'
      /\ \/ rollups' = rollups
         \/ \A r \in rollups : r.level = l =>
              (r \in rollups' <=> r.bucket >= Bucket(now - Retain[l], l))
  BY DEF Sweep, PruneRollups
<1>6. RescansChangeNothing' /\ Kept'
  BY <1>1, <1>5 DEF Sound, RescansChangeNothing, Kept, Past, In, Ok
<1>7. \A c \in checks, k \in Rung : /\ Past(c, k)' <=> Past(c, k)
                                    /\ Dropped(c, k)' <=> Dropped(c, k)
  BY <1>1 DEF Past, Dropped
<1>8. /\ now \in Int /\ Retain[l] \in Int
      /\ now - Retain[l] \in Int /\ Bucket(now - Retain[l], l) \in Int
  <2>1. now \in Int /\ Retain[l] \in Int /\ now - Retain[l] \in Int
    BY RowTypes, Constants DEF Shape
  <2> QED
    BY <2>1, BucketBounds
<1>9. ASSUME NEW c \in checks, NEW k \in Rung, Held(c, k), ~Held(c, k)'
      PROVE  k = l /\ rollups' # rollups /\ Bucket(c.at, l) < Bucket(now - Retain[l], l)
  <2>1. PICK r \in rollups : r.level = k /\ r.bucket = Bucket(c.at, k)
    BY <1>9 DEF Held
  <2>2. r \notin rollups'
    BY <1>9, <2>1 DEF Held
  <2>3. r.level = l /\ ~(r.bucket >= Bucket(now - Retain[l], l)) /\ rollups' # rollups
    BY <1>5, <2>1, <2>2
  <2>4. r.bucket \in Int
    BY RowTypes DEF Shape
  <2> QED
    BY <1>8, <2>1, <2>3, <2>4
<1>10. ASSUME NEW c \in checks, Held(c, l), ~Held(c, l)'
       PROVE  Dropped(c, l)
  <2>1. Bucket(c.at, l) < Bucket(now - Retain[l], l)
    BY <1>9, <1>10
  <2>2. ASSUME l < Top
        PROVE  Past(c, l + 1)
    <3>1. l + 1 \in Rung /\ l + 1 > 0 /\ (l + 1) - 1 = l
      BY <2>2, Constants DEF Rung
    <3>2. /\ Retain[l] >= SealGrace + Width[l + 1] + failures - 1
          /\ SealGrace \in Int /\ Width[l + 1] \in Int /\ failures \in Int /\ c.at \in Int
      <4>1. Retain[(l + 1) - 1] >= SealGrace + Width[l + 1] + failures - 1
        BY <3>1 DEF Room
      <4> QED
        BY <3>1, <4>1, Constants, RowTypes DEF Shape, TypeOK
    <3>3. c.at < now - Retain[l]
      <4>1. c.at >= now - Retain[l] => Bucket(now - Retain[l], l) <= Bucket(c.at, l)
        BY <1>8, <3>2, BucketLater
      <4>2. Bucket(c.at, l) \in Int
        BY RowTypes DEF Shape
      <4> QED
        BY <1>8, <2>1, <3>2, <4>1, <4>2
    <3>4. c.at < now - (SealGrace + Width[l + 1] + failures - 1)
      BY <1>8, <3>2, <3>3
    <3> QED
      BY <1>2, <3>1, <3>4, BuiltInTime
  <2> QED
    BY <2>1, <2>2 DEF Dropped
<1>11. Chain'
  <2> SUFFICES ASSUME NEW c \in checks, NEW k \in Rung, Past(c, k), ~Held(c, k)'
               PROVE  Dropped(c, k)
    BY <1>1, <1>7 DEF Chain
  <2>1. CASE Held(c, k)
    <3>1. k = l
      BY <1>9, <2>1
    <3> QED
      BY <1>10, <2>1, <3>1
  <2>2. CASE ~Held(c, k)
    BY <2>2 DEF Sound, Chain
  <2> QED
    BY <2>1, <2>2
<1>12. FromTheEnd'
  <2> SUFFICES ASSUME NEW c \in checks, NEW r \in rollups', Past(c, r.level), ~Held(c, r.level)'
               PROVE  Bucket(c.at, r.level) < r.bucket
    BY <1>1, <1>5 DEF FromTheEnd, Past, Held
  <2>1. r \in rollups /\ r.level \in Rung /\ r.bucket \in Int
    BY <1>5, RowTypes DEF Shape
  <2>2. CASE Held(c, r.level)
    <3>1. r.level = l /\ rollups' # rollups /\ Bucket(c.at, l) < Bucket(now - Retain[l], l)
      BY <1>9, <2>1, <2>2
    <3>2. r.bucket >= Bucket(now - Retain[l], l)
      BY <1>5, <2>1, <3>1
    <3>3. Bucket(c.at, l) \in Int
      BY RowTypes DEF Shape
    <3> QED
      BY <1>8, <2>1, <3>1, <3>2, <3>3
  <2>3. CASE ~Held(c, r.level)
    BY <2>1, <2>3 DEF Sound, FromTheEnd
  <2> QED
    BY <2>2, <2>3
<1> QED
  BY <1>4, <1>6, <1>11, <1>12 DEF Sound

\* A statement that fails: the checks and the tables stay, and the node is later by one.
LEMMA FailSound ==
  ASSUME Shape, Sound, UNCHANGED <<now, checks, tables, stops>>, failures' = failures + 1,
         ~InPass'
  PROVE  Sound'
<1>1. UNCHANGED <<checks, samples, rollups, watermark>>
  BY DEF tables
<1>2. RescansChangeNothing' /\ Kept' /\ Chain' /\ FromTheEnd'
  BY TablesSound
<1>3. failures \in Nat /\ now \in Int
  BY Constants, RowTypes DEF Shape, TypeOK
<1>4. Written' /\ Passed'
  BY DEF Written, Passed, InPass
<1>5. Current'
  BY <1>3 DEF Current
<1>6. Late'
  <2> SUFFICES ASSUME stops = 0, NEW l \in Rung
               PROVE  Built(l, now - failures)'
    BY DEF Late, Pending
  <2>1. Built(l, IF Pending(l) THEN now - failures - 1 ELSE now - failures)
    BY DEF Sound, Late
  <2>2. /\ now - failures - 1 \in Int /\ now - failures \in Int
        /\ now - failures - 1 <= now - failures /\ now - failures - 1 = now - (failures + 1)
    BY <1>3
  <2>3. Built(l, now - failures - 1)
    BY <2>1, <2>2, BuiltEarlier DEF Shape
  <2>4. Built(l, now - (failures + 1))
    BY <2>2, <2>3
  <2> QED
    BY <1>1, <2>4 DEF Built, Past
<1> QED
  BY <1>2, <1>4, <1>5, <1>6 DEF Sound

LEMMA SoundStep ==
  ASSUME Room, Shape, Sound, OneKindOfFault, [Next]_vars
  PROVE  Sound'
<1>0. now \in Int /\ failures \in Nat /\ stops \in Nat
  BY Constants, RowTypes DEF Shape, TypeOK
<1>1. CASE Tick
  <2>1. /\ UNCHANGED <<checks, tables, up, counts>> /\ now' = now + 1
        /\ up => at = Rest
        /\ at' = IF up THEN Go("rows", 0) ELSE Rest
    BY <1>1 DEF Tick
  <2>2. /\ at'.step # "mark" /\ at'.level = 0 /\ (InPass' <=> up)
        /\ UNCHANGED <<checks, samples, rollups, watermark, failures, stops>>
    <3>1. CASE up
      BY <2>1, <3>1, GoIs DEF InPass, tables, counts
    <3>2. CASE ~up
      <4>1. at' = Rest
        BY <2>1, <3>2
      <4> QED
        BY <2>1, <3>2, <4>1 DEF InPass, Rest, tables, counts
    <3> QED
      BY <3>1, <3>2
  <2>3. RescansChangeNothing' /\ Kept' /\ Chain' /\ FromTheEnd'
    BY <2>1, TablesSound
  <2>4. Written' /\ Passed' /\ Current'
    <3>1. \A l \in Rung : ~(l < 0)
      BY Constants
    <3>2. Written' /\ Passed'
      <4>1. at'.step # "mark" /\ at'.level = 0
        BY <2>2
      <4>2. Written'
        BY <4>1 DEF Written
      <4>3. Passed'
        BY <3>1, <4>1 DEF Passed
      <4> QED
        BY <4>2, <4>3
    <3>3. Current'
      BY <2>1, <2>2 DEF Current
    <3> QED
      BY <3>2, <3>3
  <2>5. Late'
    <3> SUFFICES ASSUME stops = 0, NEW l \in Rung
                 PROVE  Built(l, IF Pending(l) THEN now - failures - 1 ELSE now - failures)'
      BY <2>2 DEF Late
    <3>1. up /\ at = Rest
      <4>1. up
        BY <1>0 DEF Shape
      <4> QED
        BY <2>1, <4>1
    <3>2. ~Pending(l)
      BY <3>1 DEF Pending, InPass, Rest
    <3>3. Built(l, now - failures)
      BY <3>2 DEF Sound, Late
    <3>4. Pending(l)'
      <4>1. 0 <= l
        BY Constants
      <4> QED
        BY <2>2, <3>1, <4>1 DEF Pending
    <3>5. now' - failures' - 1 = now - failures
      BY <1>0, <2>1, <2>2
    <3> QED
      BY <2>2, <3>3, <3>4, <3>5 DEF Built, Past
  <2> QED
    BY <2>3, <2>4, <2>5 DEF Sound
<1>2. CASE Change
  <2>1. UNCHANGED <<now, checks, tables, at, up, failures, stops>>
    BY <1>2 DEF Change
  <2>2. RescansChangeNothing' /\ Kept' /\ Chain' /\ FromTheEnd'
    BY <2>1, TablesSound
  <2>3. Written' /\ Passed' /\ Current' /\ Late'
    BY <2>1 DEF Sound, Written, Passed, Current, Late, Built, Past, Held, InPass, Pending, tables
  <2> QED
    BY <2>2, <2>3 DEF Sound
<1>3. CASE Check
  BY <1>3, CheckSound
<1>4. ASSUME NEW l \in Rung, Rows(l)
      PROVE  Sound'
  BY <1>4, RowsSound
<1>5. ASSUME NEW l \in Rung, Mark(l)
      PROVE  Sound'
  BY <1>5, MarkSound
<1>6. CASE SweepSamples
  BY <1>6, SweepSamplesSound
<1>7. ASSUME NEW l \in Rung, Sweep(l)
      PROVE  Sound'
  BY <1>7, SweepSound
<1>8. CASE FailPass
  <2>1. UNCHANGED <<now, checks, tables, stops>> /\ failures' = failures + 1
        /\ at' = Go("sweep samples", 0)
    BY <1>8 DEF FailPass
  <2>2. ~InPass'
    <3>1. at'.step = "sweep samples"
      BY <2>1, GoIs
    <3> QED
      BY <3>1 DEF InPass
  <2> QED
    BY <2>1, <2>2, FailSound
<1>9. CASE FailSweep
  <2>1. UNCHANGED <<now, checks, tables, stops>> /\ failures' = failures + 1 /\ at' = Rest
    BY <1>9 DEF FailSweep
  <2>2. ~InPass'
    BY <2>1 DEF InPass, Rest
  <2> QED
    BY <2>1, <2>2, FailSound
<1>10. CASE Stop
  <2>1. UNCHANGED <<now, checks, tables, failures>> /\ stops' = stops + 1 /\ at' = Rest /\ ~up'
    BY <1>10 DEF Stop
  <2>2. RescansChangeNothing' /\ Kept' /\ Chain' /\ FromTheEnd'
    BY <2>1, TablesSound
  <2>3. Written' /\ Passed' /\ Current' /\ Late'
    BY <1>0, <2>1 DEF Written, Passed, Current, Late, InPass, Rest
  <2> QED
    BY <2>2, <2>3 DEF Sound
<1>11. CASE Start
  <2>1. UNCHANGED <<now, checks, tables, counts>> /\ ~up /\ at' = Go("rows", 0)
    BY <1>11 DEF Start
  <2>2. at'.step = "rows" /\ at'.level = 0
    BY <2>1, GoIs
  <2>3. RescansChangeNothing' /\ Kept' /\ Chain' /\ FromTheEnd'
    BY <2>1, TablesSound
  <2>4. \A l \in Rung : ~(l < 0)
    BY Constants
  <2>5. stops' # 0
    BY <1>0, <2>1 DEF Shape, counts
  <2>6. Written' /\ Passed' /\ Current' /\ Late'
    BY <2>2, <2>4, <2>5 DEF Written, Passed, Current, Late, InPass
  <2> QED
    BY <2>3, <2>6 DEF Sound
<1>12. CASE UNCHANGED vars
  <2>1. UNCHANGED <<now, checks, tables, at, up, failures, stops>>
    BY <1>12 DEF vars, counts
  <2>2. RescansChangeNothing' /\ Kept' /\ Chain' /\ FromTheEnd'
    BY <2>1, TablesSound
  <2>3. Written' /\ Passed' /\ Current' /\ Late'
    BY <2>1 DEF Sound, Written, Passed, Current, Late, Built, Past, Held, InPass, Pending, tables
  <2> QED
    BY <2>2, <2>3 DEF Sound
<1> QED
  BY <1>1, <1>2, <1>3, <1>4, <1>5, <1>6, <1>7, <1>8, <1>9, <1>10, <1>11, <1>12 DEF Next

LEMMA InvStep ==
  ASSUME Inv, [Next]_vars
  PROVE  Inv'
<1>1. Shape'
  BY ShapeStep DEF Inv
<1>2. (OneKindOfFault' => OneKindOfFault) /\ (Room' => Room)
  BY FaultsGrow DEF Inv, Shape
<1> QED
  BY <1>1, <1>2, SoundStep DEF Inv

LEMMA AlwaysInv == Spec => []Inv
<1>1. Init => Inv
  BY InitShape, InitSound DEF Inv
<1>2. Inv /\ [Next]_vars => Inv'
  BY InvStep
<1> QED
  BY <1>1, <1>2, PTL DEF Spec

-----------------------------------------------------------------------------
\* What is read of the rows.

\* A check that is not among the samples any more and in no row has left every rung.
LEMMA GoneIsOld ==
  ASSUME Shape, Sound, NEW c \in checks, Past(c, 0), \A l \in Rung : ~Held(c, l)
  PROVE  /\ \A l \in Rung : Past(c, l)
         /\ Bucket(c.at, Top) < Bucket(now - Retain[Top], Top)
<1> DEFINE S == {n \in Nat : n \in Rung => Past(c, n)}
<1>1. 0 \in S
  BY Constants
<1>2. ASSUME NEW n \in Nat, n \in S
      PROVE  n + 1 \in S
  <2> SUFFICES ASSUME n + 1 \in Rung
               PROVE  Past(c, n + 1)
    OBVIOUS
  <2>1. n \in Rung /\ n < Top
    BY Constants DEF Rung
  <2>2. Dropped(c, n)
    BY <1>2, <2>1 DEF Sound, Chain
  <2> QED
    BY <2>1, <2>2 DEF Dropped
<1>3. Nat \subseteq S
  <2> HIDE DEF S
  <2> QED
    BY <1>1, <1>2, Count
<1>4. \A l \in Rung : Past(c, l)
  BY <1>3, Constants
<1>5. Dropped(c, Top)
  BY <1>4, Constants DEF Sound, Chain
<1> QED
  BY <1>4, <1>5 DEF Dropped

\* Every row counts every check of its bucket and which of them succeeded, however often
\* RollSamples and RollLevel scan its range again, or stop between a rung's rows and its
\* watermark: with no more failures than there is room for, and one kind of fault.
THEOREM RowsAreExact ==
  ASSUME RoomToFail
  PROVE  Spec => []RolledIsExact
<1>1. Inv => RolledIsExact
  BY RoomIs DEF Inv, Shape, Sound, RolledIsExact
<1> QED
  BY <1>1, AlwaysInv, PTL

\* No sweep takes a check before it is counted (Rollup.prune): until the coarsest rung
\* lets go of it, a check is a sample or counted in a row.
THEOREM NoCheckIsLost ==
  ASSUME RoomToFail
  PROVE  Spec => []NothingIsLost
<1>1. Inv => NothingIsLost
  <2> SUFFICES ASSUME Inv, OneKindOfFault, NEW c \in checks, c \notin samples,
                      ~\E r \in rollups : r.bucket = Bucket(c.at, r.level)
               PROVE  Bucket(c.at, Top) < Bucket(now - Retain[Top], Top)
    BY DEF NothingIsLost
  <2>0. Shape /\ Sound
    BY RoomIs DEF Inv, Shape
  <2>1. Past(c, 0)
    BY <2>0 DEF Sound, Kept
  <2>2. \A l \in Rung : ~Held(c, l)
    BY DEF Held
  <2> QED
    BY <2>0, <2>1, <2>2, GoneIsOld
<1> QED
  BY <1>1, AlwaysInv, PTL

\* What LevelFor finds: no rung, or one.
LEMMA LevelForIs ==
  ASSUME NEW w
  PROVE  LevelFor(w) = {} \/ \E l \in Rung : LevelFor(w) = {l}
<1> DEFINE fit == {l \in Rung : w \div MaxPoints <= Width[l]}
<1>1. fit # {} => Least(fit) \in Rung
  <2>1. fit \in SUBSET Nat
    BY Constants
  <2>2. fit # {} => Least(fit) \in fit
    <3> HIDE DEF fit
    <3> QED
      BY <2>1, HasLeast
  <2> QED
    BY <2>2
<1>2. LevelFor(w) = IF w <= RawWindow THEN {} ELSE IF fit = {} THEN {Top} ELSE {Least(fit)}
  BY DEF LevelFor
<1> HIDE DEF fit
<1> QED
  BY <1>1, <1>2, Constants

\* The windows asked for are those a rung is kept for, and the samples.
Reach == \A w \in Windows : /\ LevelFor(w) = {} => w <= SampleRetention
                            /\ \A l \in LevelFor(w) : w <= Retain[l]

\* A chart (handleAvailabilityHistory: EdgeRaw, EdgeAtLevel) shows every check of its
\* window that is built, where the window reaches no further than what it is drawn from
\* is kept.
THEOREM ChartsShowAll ==
  ASSUME RoomToFail, Reach
  PROVE  Spec => []ChartsAreWhole
<1>1. Inv => ChartsAreWhole
  <2> SUFFICES ASSUME Inv, OneKindOfFault, NEW w \in Windows, NEW c \in checks,
                      ~(c.at < now - w),
                      ~\E l \in LevelFor(w) :
                        watermark[l] = Unset \/ Bucket(c.at, l) >= watermark[l]
               PROVE  \E p \in History(w) : p.first <= c.at /\ c.at <= p.last
    BY DEF ChartsAreWhole
  <2>0. Shape /\ Sound /\ now \in Int /\ w \in Int /\ c.at \in Int /\ c.at <= now /\ now - w <= c.at
    <3>1. Shape /\ Sound
      BY RoomIs DEF Inv, Shape
    <3>2. now \in Int /\ w \in Int /\ c.at \in Int /\ c.at <= now
      BY <3>1, RowTypes, Constants DEF Shape, Times
    <3> QED
      BY <3>1, <3>2
  <2>1. CASE LevelFor(w) = {}
    <3>1. c \in samples
      <4>1. w <= SampleRetention /\ SampleRetention \in Int
        BY <2>1, Constants DEF Reach
      <4>2. ~(c.at < now - SampleRetention)
        BY <2>0, <4>1
      <4> QED
        BY <2>0, <4>2 DEF Shape, Young
    <3>2. [first |-> c.at, last |-> c.at, count |-> 1] \in EdgeRaw(now - w)
      <4>1. c \in {s \in samples : s.at >= now - w}
        BY <2>0, <3>1
      <4> QED
        BY <4>1 DEF EdgeRaw
    <3>3. EdgeRaw(now - w) = History(w)
      BY <2>1 DEF History
    <3> QED
      BY <2>0, <3>2, <3>3
  <2>2. ASSUME NEW l \in Rung, LevelFor(w) = {l}
        PROVE  \E p \in History(w) : p.first <= c.at /\ c.at <= p.last
    <3>1. Least(LevelFor(w)) = l
      BY <2>2, LeastOfOne, Constants
    <3>2. History(w) = EdgeAtLevel(l, Bucket(now - w, l), Bucket(now, l))
      BY <2>2, <3>1 DEF History
    <3>3. Bucket(c.at, l) \in Int /\ watermark[l] \in Int
      BY <2>0, RowTypes DEF Shape
    <3>4. Past(c, l)
      BY <2>2, <3>3 DEF Past
    <3>5. ~Dropped(c, l)
      <4>1. w <= Retain[l] /\ Retain[l] \in Int
        BY <2>2, Constants DEF Reach
      <4>2. now - Retain[l] \in Int /\ now - Retain[l] <= c.at
        BY <2>0, <4>1
      <4>3. Bucket(now - Retain[l], l) <= Bucket(c.at, l) /\ Bucket(now - Retain[l], l) \in Int
        BY <2>0, <4>2, BucketLater, BucketBounds
      <4> QED
        BY <3>3, <4>3 DEF Dropped
    <3>6. PICK r \in rollups : r.level = l /\ r.bucket = Bucket(c.at, l)
      BY <2>0, <3>4, <3>5 DEF Sound, Chain, Held
    <3>7. r.bucket \in Bucket(now - w, l)..Bucket(now, l)
      <4>1. now - w \in Int
        BY <2>0
      <4>2. /\ Bucket(now - w, l) <= Bucket(c.at, l) /\ Bucket(c.at, l) <= Bucket(now, l)
            /\ Bucket(now - w, l) \in Int /\ Bucket(now, l) \in Int
        BY <2>0, <4>1, BucketLater, BucketBounds
      <4> QED
        BY <3>3, <3>6, <4>2
    <3> DEFINE p == [first |-> BucketStart(r.bucket, l), last |-> BucketEnd(r.bucket, l) - 1,
                     count |-> r.count]
    <3>8. p \in History(w)
      BY <3>2, <3>6, <3>7 DEF EdgeAtLevel
    <3>9. p.first <= c.at /\ c.at <= p.last
      <4>1. /\ BucketStart(r.bucket, l) <= c.at /\ c.at < BucketEnd(r.bucket, l)
            /\ BucketEnd(r.bucket, l) \in Int
        BY <2>0, <3>3, <3>6, BucketBounds, BucketOrder
      <4> QED
        BY <2>0, <4>1
    <3> HIDE DEF p
    <3> QED
      BY <3>8, <3>9
  <2> QED
    BY <2>1, <2>2, LevelForIs
<1> QED
  BY <1>1, AlwaysInv, PTL

-----------------------------------------------------------------------------
\* Keeping up.

\* No sweep is late: the samples and each rung were swept within their intervals, and a
\* rung that was swept before is built anew from what has sealed since the last pass.
SamplesSwept ==
  /\ lastSamplePrune # Unset =>
       /\ 0 <= lastSamplePrune /\ lastSamplePrune <= now
       /\ \A s \in samples : lastSamplePrune - SampleRetention <= s.at
  /\ up /\ (at.step = "sweep" \/ at = Rest) =>
       /\ lastSamplePrune # Unset
       /\ now - lastSamplePrune < SampleInterval

RungSwept(l) ==
  /\ lastPrune[l] # Unset =>
       /\ 0 <= lastPrune[l] /\ lastPrune[l] <= now
       /\ \A r \in rollups : r.level = l => lastPrune[l] - Retain[l] < BucketEnd(r.bucket, l)
       /\ \A k \in Rung : Pending(k) => Built(k, now - 1)
  /\ up /\ ((at.step = "sweep" /\ l < at.level) \/ at = Rest) =>
       /\ lastPrune[l] # Unset
       /\ now - lastPrune[l] < Width[l]

SweepInv == failures = 0 => SamplesSwept /\ \A l \in Rung : RungSwept(l)

\* The code's: two minutes, and 365 days to 12 minutes.
Intervals == SampleInterval > 0 /\ Retain[Top] > SealGrace

\* A row that a pass builds counts a check that had not been built yet.
LEMMA NewRowHasCheck ==
  ASSUME Shape, Sound, NEW l \in Rung, at = Go("rows", l), Builds(l), NEW r \in NewRows(l)
  PROVE  \E c \in checks : Bucket(c.at, l) = r.bucket /\ ~Past(c, l)
<1>1. r.bucket \in Source(l) /\ From(l) <= r.bucket
  BY NewRowsAre
<1>2. \E c \in checks : Bucket(c.at, l) = r.bucket
  <2>1. CASE l = 0
    BY <1>1, <2>1 DEF Source, Shape, TypeOK
  <2>2. CASE l # 0
    <3>1. l > 0 /\ l - 1 \in Rung
      BY <2>2, Constants
    <3>2. PICK q \in rollups : q.level = l - 1 /\ q.bucket \div Ratio(l) = r.bucket
      BY <1>1, <2>2 DEF Source
    <3>3. In(checks, q.bucket, l - 1) # {}
      <4>1. q.count # 0 /\ q.count = Cardinality(In(checks, q.bucket, l - 1))
        BY <3>2, RowTypes DEF Shape, Sound, RescansChangeNothing
      <4> QED
        BY <4>1, FS_EmptySet
    <3>4. PICK c \in checks : Bucket(c.at, l - 1) = q.bucket
      BY <3>3 DEF In
    <3>5. c.at \in Int
      BY RowTypes DEF Shape
    <3>6. Bucket(c.at, l) = Bucket(c.at, l - 1) \div Ratio(l)
      BY <3>1, <3>5, Nested
    <3> QED
      BY <3>2, <3>4, <3>6
  <2> QED
    BY <2>1, <2>2
<1> QED
  BY <1>1, <1>2, FromIsNew

LEMMA SamplesSweptStep ==
  ASSUME Intervals, Shape, SweepInv, failures = 0, failures' = 0, [Next]_vars
  PROVE  SamplesSwept'
<1>0. /\ now \in Nat /\ lastSamplePrune \in Int /\ SampleRetention \in Nat /\ SampleInterval \in Nat
      /\ SampleInterval > 0 /\ \A s \in samples : s.at \in Int
      /\ SamplesSwept
  BY RowTypes, Constants DEF Shape, TypeOK, SweepInv, Intervals
<1>1. CASE Tick
  <2>1. /\ now' = now + 1 /\ UNCHANGED <<samples, lastSamplePrune, up>>
        /\ at' = IF up THEN Go("rows", 0) ELSE Rest
    BY <1>1 DEF Tick, tables, sweeps
  <2>2. ~(up' /\ (at'.step = "sweep" \/ at' = Rest))
    BY <2>1 DEF Go, Rest
  <2> QED
    BY <1>0, <2>1, <2>2 DEF SamplesSwept
<1>2. CASE UNCHANGED <<now, samples, lastSamplePrune, up, at>>
  BY <1>0, <1>2 DEF SamplesSwept
<1>3. CASE Check
  <2>1. /\ UNCHANGED <<now, lastSamplePrune, up, at>>
        /\ \A s \in samples' : s \in samples \/ s.at = now
    BY <1>3 DEF Check, sweeps
  <2> QED
    BY <1>0, <2>1 DEF SamplesSwept
<1>4. CASE UNCHANGED <<now, samples, lastSamplePrune>> /\ InPass' /\ at' # Rest
  BY <1>0, <1>4 DEF SamplesSwept, InPass
<1>5. CASE UNCHANGED <<now, samples, lastSamplePrune>> /\ at'.step = "sweep samples" /\ at' # Rest
  BY <1>0, <1>5 DEF SamplesSwept
<1>6. ASSUME NEW l \in Rung, Rows(l) \/ Mark(l)
      PROVE  SamplesSwept'
  <2>1. UNCHANGED <<now, samples, lastSamplePrune>>
    BY <1>6 DEF Rows, Mark, sweeps
  <2>2. at' \in {Go("mark", l), After(l)}
    BY <1>6 DEF Rows, Mark
  <2>3. (InPass' /\ at' # Rest) \/ (at'.step = "sweep samples" /\ at' # Rest)
    <3>1. CASE at' = Go("mark", l)
      <4>1. at'.step = "mark"
        BY <3>1, GoIs
      <4> QED
        BY <4>1, RestIs DEF InPass
    <3>2. CASE at' = After(l) /\ l < Top
      <4>1. at' = Go("rows", l + 1)
        BY <3>2 DEF After
      <4>2. at'.step = "rows"
        BY <4>1, GoIs
      <4> QED
        BY <4>2, RestIs DEF InPass
    <3>3. CASE at' = After(l) /\ ~(l < Top)
      <4>1. at' = Go("sweep samples", 0)
        BY <3>3 DEF After
      <4>2. at'.step = "sweep samples"
        BY <4>1, GoIs
      <4> QED
        BY <4>2, RestIs
    <3> QED
      BY <2>2, <3>1, <3>2, <3>3
  <2> QED
    BY <1>4, <1>5, <2>1, <2>3
<1>7. CASE SweepSamples
  <2>1. UNCHANGED now
    BY <1>7 DEF SweepSamples
  <2>2. CASE SamplesDue
    <3>1. lastSamplePrune' = now /\ samples' = {s \in samples : s.at >= now - SampleRetention}
      BY <1>7, <2>2 DEF SweepSamples, PruneSamples
    <3> QED
      BY <1>0, <2>1, <3>1 DEF SamplesSwept, Unset
  <2>3. CASE ~SamplesDue
    <3>1. UNCHANGED <<samples, lastSamplePrune>>
      BY <1>7, <2>3 DEF SweepSamples
    <3> QED
      BY <1>0, <2>1, <2>3, <3>1 DEF SamplesSwept, SamplesDue
  <2> QED
    BY <2>2, <2>3
<1>8. ASSUME NEW l \in Rung, Sweep(l)
      PROVE  SamplesSwept'
  <2>1. UNCHANGED <<now, samples, lastSamplePrune, up>> /\ at = Go("sweep", l)
    BY <1>8 DEF Sweep
  <2>2. at.step = "sweep"
    BY <2>1, GoIs
  <2> QED
    BY <1>0, <1>8, <2>1, <2>2 DEF SamplesSwept, Sweep
<1>9. ~FailPass /\ ~FailSweep
  BY DEF FailPass, FailSweep
<1>10. CASE Stop
  BY <1>0, <1>10 DEF Stop, SamplesSwept, tables, sweeps
<1>11. CASE Start
  <2>1. UNCHANGED now /\ lastSamplePrune' = Unset /\ at' = Go("rows", 0)
    BY <1>11 DEF Start
  <2>2. at'.step # "sweep" /\ at' # Rest
    BY <2>1 DEF Go, Rest
  <2> QED
    BY <2>1, <2>2 DEF SamplesSwept
<1>12. CASE Change
  BY <1>2, <1>12 DEF Change, tables, sweeps
<1>13. CASE UNCHANGED vars
  BY <1>2, <1>13 DEF vars, tables, sweeps
<1> QED
  BY <1>1, <1>3, <1>6, <1>7, <1>8, <1>9, <1>10, <1>11, <1>12, <1>13 DEF Next

\* A row that is built of a rung that was swept before ends after what was swept.
LEMMA NewRowIsYoung ==
  ASSUME Intervals, Shape, Sound, NEW l \in Rung, at = Go("rows", l), Builds(l), Built(l, now - 1),
         NEW r \in NewRows(l)
  PROVE  now - Retain[l] < BucketEnd(r.bucket, l)
<1>1. PICK c \in checks : Bucket(c.at, l) = r.bucket /\ ~Past(c, l)
  BY NewRowHasCheck
<1>2. ~(r.bucket < Sealed(now - 1, l))
  BY <1>1 DEF Built
<1>3. now \in Int /\ (now - 1) - SealGrace \in Int /\ r.bucket \in Int
  BY <1>1, RowTypes, Constants DEF Shape
<1>4. Retain[l] >= SealGrace + 1 /\ Retain[l] \in Int /\ SealGrace \in Int
  <2>1. CASE l = Top
    BY <2>1, Constants DEF Intervals
  <2>2. CASE l # Top
    <3>1. l + 1 \in Rung /\ l + 1 > 0 /\ (l + 1) - 1 = l
      BY <2>2, Constants DEF Rung
    <3>2. Retain[(l + 1) - 1] >= SealGrace + 2 * Width[l + 1] /\ Width[l + 1] \in Nat \ {0}
      BY <3>1, Constants
    <3> QED
      BY <3>1, <3>2, Constants
  <2> QED
    BY <2>1, <2>2
<1> DEFINE b == Sealed(now - 1, l)
<1>5. b \in Int /\ (now - 1) - SealGrace < BucketEnd(b, l)
  BY <1>3, BucketBounds DEF Sealed
<1> HIDE DEF b
<1>6. /\ BucketEnd(b, l) <= BucketEnd(r.bucket, l)
      /\ BucketEnd(b, l) \in Int /\ BucketEnd(r.bucket, l) \in Int
  <2>1. /\ BucketEnd(b, l) \in Int /\ BucketEnd(r.bucket, l) \in Int
        /\ BucketEnd(r.bucket, l) = BucketStart(r.bucket, l) + Width[l]
        /\ BucketStart(r.bucket, l) \in Int /\ Width[l] \in Nat
        /\ b < r.bucket => BucketEnd(b, l) <= BucketStart(r.bucket, l)
    BY <1>3, <1>5, BucketOrder, Constants
  <2>2. b <= r.bucket
    BY <1>2, <1>3, <1>5 DEF b
  <2>3. CASE b = r.bucket
    BY <2>1, <2>3
  <2>4. CASE b < r.bucket
    BY <2>1, <2>4
  <2> QED
    BY <1>3, <1>5, <2>2, <2>3, <2>4
<1> QED
  BY <1>3, <1>4, <1>5, <1>6

LEMMA RungSweptStep ==
  ASSUME Intervals, Shape, Sound, SweepInv, failures = 0, failures' = 0, [Next]_vars, NEW l \in Rung
  PROVE  RungSwept(l)'
<1>0. /\ now \in Nat /\ lastPrune[l] \in Int /\ Retain[l] \in Nat /\ Width[l] \in Nat \ {0}
      /\ \A r \in rollups : r.level = l => BucketEnd(r.bucket, l) \in Int
      /\ RungSwept(l)
  <2>1. \A r \in rollups : BucketEnd(r.bucket, l) \in Int
    BY RowTypes, BucketOrder DEF Shape
  <2> QED
    BY <2>1, RowTypes, Constants DEF Shape, TypeOK, SweepInv
<1>1. CASE Tick
  <2>1. /\ now' = now + 1 /\ UNCHANGED <<checks, rollups, watermark, lastPrune, up>>
        /\ at' = IF up THEN Go("rows", 0) ELSE Rest
        /\ up => at = Rest
    BY <1>1 DEF Tick, tables, sweeps
  <2>2. /\ ~(up' /\ ((at'.step = "sweep" /\ l < at'.level) \/ at' = Rest))
        /\ InPass' => up
    BY <2>1 DEF Go, Rest, InPass
  <2>3. ASSUME NEW k \in Rung, Pending(k)'
        PROVE  Built(k, now - 1)'
    <3>1. up /\ at = Rest
      BY <2>1, <2>2, <2>3 DEF Pending
    <3>2. Built(k, now)
      BY <3>1 DEF Sound, Current, InPass, Rest
    <3>3. now' - 1 = now
      BY <1>0, <2>1
    <3> QED
      BY <2>1, <3>2, <3>3 DEF Built, Past
  <2> QED
    BY <1>0, <2>1, <2>2, <2>3 DEF RungSwept
<1>2. CASE UNCHANGED <<now, checks, rollups, watermark, lastPrune, up, at>>
  BY <1>0, <1>2 DEF RungSwept, Pending, InPass, Built, Past
<1>3. CASE Check
  <2>1. UNCHANGED <<now, rollups, watermark, lastPrune, up, at>>
    BY <1>3 DEF Check, sweeps
  <2>2. now - 1 \in Int /\ now - 1 <= now
    BY <1>0
  <2>3. \A k \in Rung : Built(k, now - 1) => Built(k, now - 1)'
    <3>1. \A k \in Rung : Built(k, now - 1) =>
            \A c \in checks' : Bucket(c.at, k) < Sealed(now - 1, k) => Past(c, k)'
      BY <1>3, <2>2, BuiltByCheck DEF Built
    <3> QED
      BY <2>1, <3>1 DEF Built
  <2> QED
    BY <1>0, <2>1, <2>3 DEF RungSwept, Pending, InPass
<1>4. ASSUME NEW m \in Rung, Rows(m) \/ Mark(m)
      PROVE  RungSwept(l)'
  <2>1. UNCHANGED <<now, checks, lastPrune, up>> /\ at \in {Go("rows", m), Go("mark", m)}
        /\ at' \in {Go("mark", m), After(m)}
    BY <1>4 DEF Rows, Mark, sweeps
  <2>2. InPass /\ at.level = m
    BY <2>1, GoIs DEF InPass
  <2>3. /\ at'.step # "sweep" /\ at' # Rest
        /\ InPass' => (at'.level = m /\ at' = Go("mark", m)) \/ at'.level = m + 1
    <3>1. CASE at' = Go("mark", m)
      <4>1. at'.step = "mark" /\ at'.level = m
        BY <3>1, GoIs
      <4> QED
        BY <3>1, <4>1, RestIs
    <3>2. CASE at' = After(m) /\ m < Top
      <4>1. at' = Go("rows", m + 1)
        BY <3>2 DEF After
      <4>2. at'.step = "rows" /\ at'.level = m + 1
        BY <4>1, GoIs
      <4> QED
        BY <4>2, RestIs
    <3>3. CASE at' = After(m) /\ ~(m < Top)
      <4>1. at' = Go("sweep samples", 0)
        BY <3>3 DEF After
      <4>2. at'.step = "sweep samples"
        BY <4>1, GoIs
      <4> QED
        BY <4>2, RestIs DEF InPass
    <3> QED
      BY <2>1, <3>1, <3>2, <3>3
  <2>4. ASSUME NEW k \in Rung, Pending(k)', Built(k, now - 1) \/ ~Pending(k)
        PROVE  Built(k, now - 1)'
    <3>1. k \in Int /\ m \in Int
      BY Constants
    <3>2. Pending(k)
      BY <2>2, <2>3, <2>4, <3>1 DEF Pending
    <3>3. watermark'[k] = watermark[k]
      <4>1. CASE Rows(m)
        BY <4>1 DEF Rows
      <4>2. CASE Mark(m)
        <5>1. at' = After(m) /\ watermark' = [watermark EXCEPT ![m] = SealedThrough(m) + 1]
          BY <4>2 DEF Mark
        <5>2. k # m
          <6>1. at' # Go("mark", m)
            <7>1. After(m).step # "mark"
              BY DEF After, Go
            <7> QED
              BY <5>1, <7>1, GoIs
          <6> QED
            BY <2>3, <2>4, <3>1, <6>1 DEF Pending
        <5> QED
          BY <5>1, <5>2 DEF Shape, TypeOK
      <4> QED
        BY <1>4, <4>1, <4>2
    <3> QED
      BY <2>1, <2>4, <3>2, <3>3 DEF Built, Past
  <2>5. ASSUME lastPrune[l] # Unset, NEW r \in rollups', r.level = l
        PROVE  lastPrune[l] - Retain[l] < BucketEnd(r.bucket, l)
    <3>1. CASE r \in rollups
      BY <1>0, <2>5, <3>1 DEF RungSwept
    <3>2. CASE r \notin rollups
      <4>1. Rows(m)
        BY <1>4, <2>5, <3>2 DEF Mark
      <4>2. Builds(m) /\ rollups' = Upsert(NewRows(m)) /\ at = Go("rows", m)
        BY <2>5, <3>2, <4>1, RowsIs DEF Rows
      <4>3. r \in NewRows(m)
        BY <2>5, <3>2, <4>2, UpsertIs
      <4>4. m = l
        BY <2>5, <4>2, <4>3, NewRowsAre
      <4>5. Built(l, now - 1)
        <5>1. Pending(l)
          BY <2>2, <4>4, Constants DEF Pending
        <5> QED
          BY <1>0, <2>5, <5>1 DEF RungSwept
      <4>6. now - Retain[l] < BucketEnd(r.bucket, l)
        BY <4>2, <4>3, <4>4, <4>5, NewRowIsYoung
      <4>7. BucketEnd(r.bucket, l) \in Int
        <5>1. r.bucket \in Int
          BY <4>2, <4>3, <4>4, NewRowsAre, SourceType DEF Shape
        <5> QED
          BY <5>1, BucketOrder
      <4>8. lastPrune[l] <= now
        BY <1>0, <2>5 DEF RungSwept
      <4> QED
        BY <1>0, <4>6, <4>7, <4>8
    <3> QED
      BY <3>1, <3>2
  <2> QED
    BY <1>0, <2>1, <2>3, <2>4, <2>5 DEF RungSwept
<1>5. CASE SweepSamples
  <2>1. UNCHANGED <<now, checks, rollups, watermark, lastPrune, up>> /\ at' = Go("sweep", 0)
    BY <1>5 DEF SweepSamples
  <2>2. at'.step = "sweep" /\ at'.level = 0
    BY <2>1, GoIs
  <2>3. at' # Rest /\ ~InPass' /\ ~(l < 0)
    BY <2>2, Constants DEF Rest, InPass
  <2> QED
    BY <1>0, <2>1, <2>2, <2>3 DEF RungSwept, Pending
<1>6. ASSUME NEW m \in Rung, Sweep(m)
      PROVE  RungSwept(l)'
  <2>1. UNCHANGED <<now, checks, watermark, up>> /\ up /\ at = Go("sweep", m) /\ at' = AfterSweep(m)
    BY <1>6 DEF Sweep
  <2>2. at.step = "sweep" /\ at.level = m
    BY <2>1, GoIs
  <2>3. /\ ~InPass'
        /\ (at'.step = "sweep" /\ l < at'.level) \/ at' = Rest => l <= m
    <3>0. l \in Int /\ m \in Int /\ l <= Top /\ Top \in Int
      BY Constants DEF Rung
    <3>1. CASE m < Top
      <4>1. at' = Go("sweep", m + 1)
        BY <2>1, <3>1 DEF AfterSweep
      <4>2. at'.step = "sweep" /\ at'.level = m + 1
        BY <4>1, GoIs
      <4> QED
        BY <3>0, <4>2 DEF Rest, InPass
    <3>2. CASE ~(m < Top)
      <4>1. at' = Rest
        BY <2>1, <3>2 DEF AfterSweep
      <4> QED
        BY <3>0, <3>2, <4>1 DEF Rest, InPass
    <3> QED
      BY <3>1, <3>2
  <2>4. ~Pending(l)' /\ \A k \in Rung : ~Pending(k)'
    BY <2>3 DEF Pending
  <2>5. CASE m = l /\ RungDue(l)
    <3>1. lastPrune' = [lastPrune EXCEPT ![l] = now] /\ rollups' = PruneRollups(l)
      BY <1>6, <2>5 DEF Sweep
    <3>2. lastPrune'[l] = now /\ now # Unset
      BY <1>0, <3>1 DEF Shape, TypeOK, Unset
    <3>3. ASSUME NEW r \in rollups', r.level = l
          PROVE  now - Retain[l] < BucketEnd(r.bucket, l)
      <4>1. r \in rollups /\ r.bucket >= Bucket(now - Retain[l], l)
        BY <3>1, <3>3 DEF PruneRollups
      <4>2. now - Retain[l] \in Int /\ r.bucket \in Int
        BY <1>0, <4>1, RowTypes DEF Shape
      <4> DEFINE b == Bucket(now - Retain[l], l)
      <4>3. b \in Int /\ now - Retain[l] < BucketEnd(b, l)
        BY <4>2, BucketBounds
      <4>4. b <= r.bucket
        BY <4>1, <4>2, <4>3
      <4> HIDE DEF b
      <4>5. CASE b = r.bucket
        BY <4>3, <4>5
      <4>6. CASE b < r.bucket
        <5>1. /\ BucketEnd(b, l) <= BucketStart(r.bucket, l)
              /\ BucketEnd(r.bucket, l) = BucketStart(r.bucket, l) + Width[l]
              /\ BucketEnd(b, l) \in Int /\ BucketStart(r.bucket, l) \in Int
          BY <4>2, <4>3, <4>6, BucketOrder
        <5> QED
          BY <1>0, <4>2, <4>3, <5>1
      <4> QED
        BY <4>2, <4>3, <4>4, <4>5, <4>6
    <3> QED
      BY <1>0, <2>1, <2>4, <3>2, <3>3 DEF RungSwept
  <2>6. CASE m = l /\ ~RungDue(l)
    <3>1. UNCHANGED <<lastPrune, rollups>>
      BY <1>6, <2>6 DEF Sweep
    <3>2. lastPrune[l] # Unset /\ now - lastPrune[l] < Width[l]
      BY <1>0, <2>6 DEF RungDue
    <3> QED
      BY <1>0, <2>1, <2>4, <3>1, <3>2 DEF RungSwept
  <2>7. CASE m # l
    <3>1. lastPrune'[l] = lastPrune[l] /\ rollups' \subseteq rollups
      BY <1>6, <2>7 DEF Sweep, PruneRollups, Shape, TypeOK
    <3>2. (at'.step = "sweep" /\ l < at'.level) \/ at' = Rest => l < at.level
      BY <2>2, <2>3, <2>7, Constants
    <3> QED
      BY <1>0, <2>1, <2>2, <2>4, <3>1, <3>2 DEF RungSwept
  <2> QED
    BY <2>5, <2>6, <2>7
<1>7. ~FailPass /\ ~FailSweep
  BY DEF FailPass, FailSweep
<1>8. CASE Stop
  <2>1. UNCHANGED <<now, rollups, lastPrune>> /\ ~up' /\ at' = Rest
    BY <1>8 DEF Stop, tables, sweeps
  <2> QED
    BY <1>0, <2>1 DEF RungSwept, Pending, InPass, Rest
<1>9. CASE Start
  <2>1. lastPrune'[l] = Unset /\ at' = Go("rows", 0)
    BY <1>9 DEF Start
  <2>2. at'.step = "rows"
    BY <2>1, GoIs
  <2> QED
    BY <2>1, <2>2 DEF RungSwept, Rest
<1>10. CASE Change
  BY <1>2, <1>10 DEF Change, tables, sweeps
<1>11. CASE UNCHANGED vars
  BY <1>2, <1>11 DEF vars, tables, sweeps
<1> QED
  BY <1>1, <1>3, <1>4, <1>5, <1>6, <1>7, <1>8, <1>9, <1>10, <1>11 DEF Next

\* Rollup.pass and prune keep up: a pass that nothing failed in leaves nothing that sealed
\* to be built, and nothing that is older than its retention by more than the interval of
\* its sweep, though the node stopped and was away.
THEOREM LadderKeepsUp ==
  ASSUME Intervals
  PROVE  Spec => []KeepsUp
<1>1. Init => SweepInv
  <2> SUFFICES ASSUME Init PROVE SamplesSwept /\ \A l \in Rung : RungSwept(l)
    BY DEF SweepInv
  <2>1. at.step = "rows"
    BY GoIs DEF Init
  <2> QED
    BY <2>1 DEF Init, SamplesSwept, RungSwept, Rest
<1>2. Inv /\ SweepInv /\ [Next]_vars => SweepInv'
  <2> SUFFICES ASSUME Inv, SweepInv, [Next]_vars, failures' = 0
               PROVE  SamplesSwept' /\ \A l \in Rung : RungSwept(l)'
    BY DEF SweepInv
  <2>1. failures = 0
    BY FaultsGrow DEF Inv, Shape
  <2>2. Shape /\ Sound
    BY <2>1, RoomIs DEF Inv, Shape, OneKindOfFault
  <2> QED
    BY <2>1, <2>2, SamplesSweptStep, RungSweptStep
<1>3. Inv /\ SweepInv => KeepsUp
  <2> SUFFICES ASSUME Inv, SweepInv, up, at = Rest, failures = 0
               PROVE  /\ \A s \in samples : now - s.at < SampleRetention + SampleInterval
                      /\ \A r \in rollups :
                           now - BucketEnd(r.bucket, r.level) < Retain[r.level] + Width[r.level]
                      /\ \A c \in checks, l \in Rung :
                           \/ Bucket(c.at, l) > SealedThrough(l)
                           \/ Bucket(c.at, l) < Bucket(now - Retain[l], l)
                           \/ \E r \in rollups : r.level = l /\ r.bucket = Bucket(c.at, l)
    BY DEF KeepsUp
  <2>1. Shape /\ Sound
    BY RoomIs DEF Inv, Shape, OneKindOfFault
  <2>2. SamplesSwept /\ \A l \in Rung : RungSwept(l)
    BY DEF SweepInv
  <2>3. now \in Int /\ lastSamplePrune \in Int /\ SampleRetention \in Int /\ SampleInterval \in Int
    BY <2>1, RowTypes, Constants DEF Shape, TypeOK
  <2>4. \A s \in samples : now - s.at < SampleRetention + SampleInterval
    <3>1. \A s \in samples : s.at \in Int
      BY <2>1, RowTypes DEF Shape
    <3> QED
      BY <2>2, <2>3, <3>1 DEF SamplesSwept
  <2>5. ASSUME NEW r \in rollups
        PROVE  now - BucketEnd(r.bucket, r.level) < Retain[r.level] + Width[r.level]
    <3>1. r.level \in Rung /\ r.bucket \in Int
      BY <2>1, RowTypes DEF Shape
    <3> PICK l \in Rung : l = r.level
      BY <3>1
    <3>2. lastPrune[l] # Unset /\ now - lastPrune[l] < Width[l]
          /\ lastPrune[l] - Retain[l] < BucketEnd(r.bucket, l)
      BY <2>2, <3>1 DEF RungSwept
    <3>3. /\ lastPrune[l] \in Int /\ Width[l] \in Int
          /\ Retain[l] \in Int /\ BucketEnd(r.bucket, l) \in Int
      <4>1. lastPrune \in [Rung -> Int]
        BY <2>1 DEF Shape, TypeOK
      <4>2. BucketEnd(r.bucket, l) \in Int
        BY <3>1, BucketOrder
      <4> QED
        BY <3>1, <4>1, <4>2, Constants
    <3>4. now - BucketEnd(r.bucket, l) < Retain[l] + Width[l]
      BY <2>3, <3>2, <3>3
    <3> QED
      BY <3>4
  <2>6. ASSUME NEW c \in checks, NEW l \in Rung, ~(Bucket(c.at, l) > SealedThrough(l)),
               ~(Bucket(c.at, l) < Bucket(now - Retain[l], l))
        PROVE  \E r \in rollups : r.level = l /\ r.bucket = Bucket(c.at, l)
    <3>1. Bucket(c.at, l) < Sealed(now, l)
      <4>1. SealedThrough(l) \in Int /\ SealedThrough(l) + 1 = Sealed(now, l)
        BY <2>1, StartIs DEF Shape
      <4>2. Bucket(c.at, l) \in Int
        BY <2>1, RowTypes DEF Shape
      <4> QED
        BY <2>6, <4>1, <4>2
    <3>2. Past(c, l)
      BY <2>1, <3>1 DEF Sound, Current, InPass, Rest, Built
    <3>3. ~Dropped(c, l)
      BY <2>6 DEF Dropped
    <3> QED
      BY <2>1, <3>2, <3>3 DEF Sound, Chain, Held
  <2> QED
    BY <2>4, <2>5, <2>6
<1> QED
  BY <1>1, <1>2, <1>3, AlwaysInv, PTL DEF Spec

-----------------------------------------------------------------------------
\* The streak.  What its queries find in the tables.

TimesOf == {c.at : c \in checks}

LEMMA TimesAre ==
  ASSUME Shape
  PROVE  TimesOf \in SUBSET Nat /\ TimesOf \subseteq 0..now /\ now \in Nat
  BY RowTypes DEF TimesOf, Shape, Times

\* Every row ends by now, and begins before.
LEMMA RowBounds ==
  ASSUME Shape, NEW r \in rollups
  PROVE  /\ BucketStart(r.bucket, r.level) \in 0..now
         /\ BucketEnd(r.bucket, r.level) \in 0..now
<1>1. /\ r.level \in Rung /\ r.bucket \in Nat /\ now \in Nat /\ now - SealGrace \in Int
      /\ now - SealGrace <= now /\ Sealed(now, r.level) \in Int
  BY RowTypes, Constants DEF Shape, Closed
<1> PICK l \in Rung : l = r.level
  BY <1>1
<1> DEFINE b == Sealed(now, l)
<1>2. BucketStart(b, l) <= now - SealGrace /\ BucketStart(b, l) \in Int
  BY <1>1, BucketBounds, BucketOrder DEF Sealed
<1>3. BucketEnd(r.bucket, l) <= BucketStart(b, l)
  BY <1>1, BucketOrder DEF Shape, Closed
<1> HIDE DEF b
<1>4. /\ BucketStart(r.bucket, l) \in Int /\ BucketEnd(r.bucket, l) \in Int
      /\ BucketStart(r.bucket, l) >= 0
      /\ BucketEnd(r.bucket, l) = BucketStart(r.bucket, l) + Width[l]
  BY <1>1, BucketOrder
<1>5. Width[l] \in Nat
  BY Constants
<1> QED
  BY <1>1, <1>2, <1>3, <1>4, <1>5

LEMMA RowEndsAre ==
  ASSUME Shape, NEW ok
  PROVE  RowEnds(ok) \subseteq 0..now
  BY RowBounds DEF RowEnds

LEMMA OldestIs ==
  ASSUME Shape
  PROVE  OldestEdgeRecord \subseteq 0..now
<1>1. \A s \in samples : s.at \in 0..now
  BY RowTypes DEF Shape, TypeOK, Times
<1> QED
  BY <1>1, RowBounds DEF OldestEdgeRecord

\* The newest sample is the newest check.
LEMMA NewestIs ==
  ASSUME Shape, samples # {}
  PROVE  \E x \in samples : Newest(samples) = {x} /\ Newest(checks) = {x}
<1> DEFINE T == {s.at : s \in samples}
<1>1. T \subseteq 0..now /\ T # {} /\ samples \subseteq checks /\ now \in Int
  BY RowTypes DEF Shape, TypeOK, Times
<1>2. Greatest(T) \in T /\ \A t \in T : t <= Greatest(T)
  <2>1. T \in SUBSET Int /\ \A t \in T : t <= now
    BY <1>1
  <2> HIDE DEF T
  <2> QED
    BY <1>1, <2>1, HasGreatest
<1>3. PICK x \in samples : x.at = Greatest(T)
  BY <1>2
<1>4. \A s \in samples : s.at <= x.at
  BY <1>2, <1>3
<1>5. /\ x \in checks
      /\ \A c \in checks : c.at \in Int /\ c.at <= x.at
      /\ \A c \in checks : c.at = x.at => c = x
  <2>1. \A c \in checks : c.at \in Int
    BY RowTypes DEF Shape
  <2>2. \A c \in checks : c \notin samples => c.at < x.at
    BY DEF Shape, InOrder
  <2>3. \A c \in checks : c.at = x.at => c = x
    BY <1>1 DEF Shape, Times
  <2> QED
    BY <1>1, <1>4, <2>1, <2>2, <2>3
<1>6. Newest(checks) = {x}
  <2>1. x \in Newest(checks)
    BY <1>5 DEF Newest
  <2>2. \A c \in Newest(checks) : c = x
    <3> SUFFICES ASSUME NEW c \in Newest(checks) PROVE c = x
      OBVIOUS
    <3>1. c \in checks /\ x.at <= c.at
      BY <1>5 DEF Newest
    <3> QED
      BY <1>5, <3>1
  <2> QED
    BY <2>1, <2>2
<1>7. Newest(samples) = {x}
  <2>1. x \in Newest(samples)
    BY <1>4 DEF Newest
  <2>2. \A c \in Newest(samples) : c = x
    <3> SUFFICES ASSUME NEW c \in Newest(samples) PROVE c = x
      OBVIOUS
    <3>1. c \in checks /\ x.at <= c.at
      BY <1>1 DEF Newest
    <3> QED
      BY <1>5, <3>1
  <2> QED
    BY <2>1, <2>2
<1> QED
  BY <1>6, <1>7

\* A row that counts a check that disagrees is found.
LEMMA RowDisagrees ==
  ASSUME Shape, Sound, NEW c \in checks, NEW ok \in BOOLEAN, c.ok # ok, NEW r \in rollups,
         r.bucket = Bucket(c.at, r.level)
  PROVE  BucketEnd(r.bucket, r.level) \in RowEnds(ok)
<1> DEFINE S == In(checks, r.bucket, r.level)
<1>1. c \in S /\ S \in SUBSET checks
  BY DEF In
<1>2. r.count = Cardinality(S) /\ r.countOk = Cardinality(Ok(S))
  BY DEF Sound, RescansChangeNothing
<1> HIDE DEF S
<1>3. IsFiniteSet(S) /\ Ok(S) \in SUBSET S
  BY <1>1, FS_Subset DEF Ok, Shape
<1>4. IsFiniteSet(Ok(S)) /\ Cardinality(S) \in Nat /\ Cardinality(Ok(S)) \in Nat
  BY <1>3, FS_Subset, FS_CardinalityType
<1>5. c.ok \in BOOLEAN
  BY RowTypes DEF Shape
<1>6. IF ok THEN r.countOk < r.count ELSE r.countOk > 0
  <2>1. CASE ok = TRUE
    <3>1. c \notin Ok(S)
      BY <2>1 DEF Ok
    <3>2. Ok(S) # S
      BY <1>1, <3>1
    <3>3. Cardinality(Ok(S)) <= Cardinality(S) /\ Cardinality(Ok(S)) # Cardinality(S)
      BY <1>3, <3>2, FS_Subset
    <3> QED
      BY <1>2, <1>4, <2>1, <3>3
  <2>2. CASE ok = FALSE
    <3>1. c \in Ok(S)
      BY <1>1, <1>5, <2>2 DEF Ok
    <3>2. Cardinality(Ok(S)) # 0
      BY <1>4, <3>1, FS_EmptySet
    <3> QED
      BY <1>2, <1>4, <2>2, <3>2
  <2> QED
    BY <2>1, <2>2
<1> QED
  BY <1>6 DEF RowEnds

\* A check that is nowhere any more is older than all that is somewhere.
Unheld(c) == c \notin samples /\ \A l \in Rung : ~Held(c, l)

LEMMA UnheldIsOld ==
  ASSUME Shape, Sound, NEW c \in checks, Unheld(c)
  PROVE  /\ c.at < now
         /\ \A s \in samples : c.at < s.at
         /\ \A r \in rollups : c.at < BucketStart(r.bucket, r.level)
<1>1. Past(c, 0)
  BY DEF Unheld, Sound, Kept
<1>2. (\A l \in Rung : Past(c, l)) /\ Bucket(c.at, Top) < Bucket(now - Retain[Top], Top)
  BY <1>1, GoneIsOld DEF Unheld
<1>3. /\ c.at \in Int /\ now \in Int /\ Retain[Top] \in Nat
      /\ now - Retain[Top] \in Int /\ Top \in Rung
  BY RowTypes, Constants DEF Shape
<1>4. c.at < now
  <2>1. now - Retain[Top] <= c.at => Bucket(now - Retain[Top], Top) <= Bucket(c.at, Top)
    BY <1>3, BucketLater
  <2>2. Bucket(now - Retain[Top], Top) \in Int /\ Bucket(c.at, Top) \in Int
    BY <1>3, BucketBounds
  <2> QED
    BY <1>2, <1>3, <2>1, <2>2
<1>5. \A s \in samples : c.at < s.at
  BY DEF Unheld, Shape, InOrder
<1>6. ASSUME NEW r \in rollups
      PROVE  c.at < BucketStart(r.bucket, r.level)
  <2>1. r.level \in Rung /\ r.bucket \in Int
    BY RowTypes DEF Shape
  <2>2. Bucket(c.at, r.level) < r.bucket
    BY <1>2, <2>1 DEF Unheld, Sound, FromTheEnd
  <2>3. c.at < BucketEnd(Bucket(c.at, r.level), r.level) /\ Bucket(c.at, r.level) \in Int
    BY <1>3, <2>1, BucketBounds
  <2>4. /\ BucketEnd(Bucket(c.at, r.level), r.level) <= BucketStart(r.bucket, r.level)
        /\ BucketEnd(Bucket(c.at, r.level), r.level) \in Int
        /\ BucketStart(r.bucket, r.level) \in Int
    BY <2>1, <2>2, <2>3, BucketOrder
  <2> QED
    BY <1>3, <2>3, <2>4
<1> QED
  BY <1>4, <1>5, <1>6

\* And it stays nowhere: no pass builds its buckets again.
LEMMA UnheldStays ==
  ASSUME Shape, Sound, [Next]_vars, NEW c \in checks, Unheld(c), checks' = checks
  PROVE  Unheld(c)'
<1>1. c \notin samples'
  <2>1. samples' \subseteq samples \/ Check
    BY DEF Next, Tick, Change, Rows, Mark, SweepSamples, PruneSamples, Sweep, FailPass,
           FailSweep, Stop, Start, vars, tables
  <2>2. ~Check
    <3>1. ASSUME Check PROVE FALSE
      <4>1. [at |-> now, ok |-> route] \in checks
        BY <3>1 DEF Check
      <4> QED
        BY <3>1, <4>1 DEF Check, Checked
    <3> QED
      BY <3>1
  <2> QED
    BY <2>1, <2>2 DEF Unheld
<1>2. ASSUME NEW l \in Rung, Held(c, l)'
      PROVE  FALSE
  <2>1. PICK r \in rollups' : r.level = l /\ r.bucket = Bucket(c.at, l)
    BY <1>2 DEF Held
  <2>2. r \notin rollups
    BY <2>1 DEF Unheld, Held
  <2>3. PICK m \in Rung : Rows(m)
    BY <2>1, <2>2 DEF Next, Tick, Change, Check, Mark, SweepSamples, Sweep, PruneRollups, FailPass,
                      FailSweep, Stop, Start, vars, tables
  <2>4. Builds(m) /\ r \in NewRows(m)
    BY <2>1, <2>2, <2>3, RowsIs, UpsertIs
  <2>5. m = l /\ From(l) <= Bucket(c.at, l)
    BY <2>1, <2>4, NewRowsAre
  <2>6. ~Past(c, l)
    BY <2>4, <2>5, FromIsNew
  <2>7. Past(c, 0)
    BY DEF Unheld, Sound, Kept
  <2> QED
    BY <2>6, <2>7, GoneIsOld DEF Unheld
<1> QED
  BY <1>1, <1>2 DEF Unheld

-----------------------------------------------------------------------------
\* The invariant of a reading and its answer.

ReadingSet == [step : {"broke", "began", "rows", "oldest"}, ok : BOOLEAN,
               newest : SUBSET TimesOf, broke : SUBSET (0..now)]
AnswerSet  == [found : {TRUE}, ok : BOOLEAN, since : 0..now,
               newest : SUBSET TimesOf, last : SUBSET TimesOf]

ReadingShape == \/ reading = Idle
                \/ /\ reading \in ReadingSet
                   /\ reading.step = "began" => \E b \in 0..now : reading.broke = {b}

AnswerShape == answer = NoAnswer \/ answer \in AnswerSet

StreakShape == Shape /\ ReadingShape /\ AnswerShape

\* No check came since the reading began; a check says otherwise.
Whole    == reading # Idle /\ reading.newest = TimesOf
Other(c) == c.ok # reading.ok

\* What the reader knows, from query to query.
NewestAgrees == samples # {} => \A c \in Newest(checks) : c.ok = reading.ok
BrokeIsLast  == reading.step = "began" =>
                  \A b \in reading.broke : /\ \E c \in checks : c.at = b /\ Other(c)
                                           /\ \A c \in checks : Other(c) => c.at <= b
NoSample     == reading.step \in {"rows", "oldest"} => \A c \in checks : Other(c) => c \notin samples
NoRow        == reading.step = "oldest" => \A c \in checks : Other(c) => Unheld(c)

ReadingTrue  == Whole => NewestAgrees /\ BrokeIsLast /\ NoSample
ReadingSound == Whole => NoRow

StreakInv == /\ StreakShape /\ Inv
             /\ ReadingTrue /\ RecentIsExact
             /\ OneKindOfFault /\ Room => ReadingSound /\ UnbrokenIfUndisturbed

LEMMA IdleIs == Idle.step = "idle" /\ NoAnswer.found = FALSE
  BY DEF Idle, NoAnswer

LEMMA ReadingIs ==
  ASSUME ReadingShape, reading.step # "idle"
  PROVE  /\ reading \in ReadingSet /\ reading # Idle
         /\ reading.ok \in BOOLEAN /\ reading.newest \subseteq TimesOf
         /\ reading.broke \subseteq 0..now
         /\ reading.step \in {"broke", "began", "rows", "oldest"}
         /\ reading.step = "began" => \E b \in 0..now : reading.broke = {b}
<1>1. reading # Idle
  BY IdleIs
<1>2. /\ reading \in ReadingSet
      /\ reading.step = "began" => \E b \in 0..now : reading.broke = {b}
  BY <1>1 DEF ReadingShape
<1> QED
  BY <1>1, <1>2 DEF ReadingSet

LEMMA AnswerIs ==
  ASSUME Shape, reading \in ReadingSet, NEW t \in 0..now
  PROVE  Answer(t) \in AnswerSet
<1>1. reading.ok \in BOOLEAN /\ reading.newest \in SUBSET TimesOf
  BY DEF ReadingSet
<1> QED
  BY <1>1 DEF Answer, AnswerSet, TimesOf

\* The reader leaves the tables, and beside it they change as before.
Reads == Ask \/ ReadBroke \/ ReadBegan \/ ReadRows \/ ReadOldest

LEMMA StreakSteps ==
  ASSUME [StreakNext]_streakVars
  PROVE  /\ [Next]_vars
         /\ \/ UNCHANGED <<now, reading, answer>>
            \/ UNCHANGED <<now, checks, answer>> /\ reading' = Idle
            \/ UNCHANGED <<checks, reading>> /\ reading = Idle /\ answer' = NoAnswer
            \/ UNCHANGED vars /\ Reads
<1>1. CASE Beside
  <2>1. CASE Tick /\ reading = Idle /\ answer' = NoAnswer /\ UNCHANGED reading
    BY <2>1 DEF Tick, Next
  <2>2. CASE Stop /\ reading' = Idle /\ UNCHANGED answer
    BY <2>2 DEF Stop, Next
  <2>3. CASE /\ \/ Change \/ Check
                \/ \E l \in Rung : Rows(l) \/ Mark(l) \/ Sweep(l)
                \/ SweepSamples
                \/ FailPass \/ FailSweep
                \/ Start
             /\ UNCHANGED <<reading, answer>>
    <3>1. Next
      BY <2>3 DEF Next
    <3>2. UNCHANGED now
      BY <2>3 DEF Change, Check, Rows, Mark, Sweep, SweepSamples, FailPass, FailSweep, Start
    <3> QED
      BY <2>3, <3>1, <3>2
  <2> QED
    BY <1>1, <2>1, <2>2, <2>3 DEF Beside
<1>2. CASE Reads
  BY <1>2 DEF Reads, Ask, ReadBroke, ReadBegan, ReadRows, ReadOldest
<1>3. CASE UNCHANGED streakVars
  BY <1>3 DEF streakVars, vars
<1> QED
  BY <1>1, <1>2, <1>3 DEF StreakNext, Reads

\* Checks are only ever added, and else samples only taken away.
LEMMA Drains ==
  ASSUME [Next]_vars
  PROVE  /\ checks \subseteq checks'
         /\ Check \/ (checks' = checks /\ samples' \subseteq samples)
  BY DEF Next, Tick, Change, Check, Rows, Mark, SweepSamples, PruneSamples, Sweep, FailPass,
         FailSweep, Stop, Start, vars, tables

LEMMA StreakShapeStep ==
  ASSUME StreakShape, [StreakNext]_streakVars
  PROVE  StreakShape'
<1>0. Shape /\ ReadingShape /\ AnswerShape /\ now \in Nat
  BY TimesAre DEF StreakShape
<1>1. Shape' /\ [Next]_vars /\ checks \subseteq checks'
  BY <1>0, StreakSteps, ShapeStep, Drains
<1>2. TimesOf \subseteq TimesOf'
  BY <1>1 DEF TimesOf
<1>3. ASSUME now' = now, answer' = answer
      PROVE  AnswerShape'
  <2>1. AnswerSet \subseteq AnswerSet'
    BY <1>2, <1>3 DEF AnswerSet
  <2> QED
    BY <1>0, <1>3, <2>1 DEF AnswerShape, NoAnswer
<1>4. ASSUME now' = now, reading' = reading
      PROVE  ReadingShape'
  <2>1. ReadingSet \subseteq ReadingSet'
    BY <1>2, <1>4 DEF ReadingSet
  <2> QED
    BY <1>0, <1>4, <2>1 DEF ReadingShape, Idle
<1>5. CASE UNCHANGED <<now, reading, answer>>
  BY <1>1, <1>3, <1>4, <1>5 DEF StreakShape
<1>6. CASE UNCHANGED <<now, checks, answer>> /\ reading' = Idle
  BY <1>1, <1>3, <1>6 DEF StreakShape, ReadingShape, Idle
<1>7. CASE UNCHANGED <<checks, reading>> /\ reading = Idle /\ answer' = NoAnswer
  BY <1>1, <1>7 DEF StreakShape, ReadingShape, AnswerShape, Idle, NoAnswer
<1>8. CASE UNCHANGED vars /\ Reads
  <2>0. /\ UNCHANGED <<now, checks>>
        /\ TimesOf' = TimesOf /\ ReadingSet' = ReadingSet /\ AnswerSet' = AnswerSet
    BY <1>8 DEF vars, TimesOf, ReadingSet, AnswerSet
  <2>1. CASE Ask
    <3>1. Reading("broke", TRUE \in LatestEdge) \in ReadingSet
      BY DEF Reading, ReadingSet, TimesOf
    <3>2. Reading("broke", TRUE \in LatestEdge).step = "broke"
      BY DEF Reading
    <3> QED
      BY <1>1, <1>3, <1>4, <2>0, <2>1, <3>1, <3>2
        DEF Ask, StreakShape, ReadingShape, AnswerShape, NoAnswer
  <2>2. CASE ReadBroke
    <3>1. reading \in ReadingSet
      BY <1>0, <2>2, ReadingIs DEF ReadBroke
    <3> DEFINE D == Disagreeing(reading.ok)
    <3>2. D # {} => Greatest(D) \in 0..now
      <4>1. D \in SUBSET Int /\ (\A t \in D : t <= now) /\ D \subseteq 0..now
        BY <1>0, RowTypes DEF Disagreeing, Shape, TypeOK, Times
      <4>2. now \in Int
        BY <1>0
      <4> HIDE DEF D
      <4> QED
        BY <4>1, <4>2, HasGreatest
    <3>3. CASE D = {}
      <4>1. reading' = [reading EXCEPT !.step = "rows"]
        BY <2>2, <3>3 DEF ReadBroke
      <4>2. reading' \in ReadingSet /\ reading'.step = "rows"
        BY <3>1, <4>1 DEF ReadingSet
      <4> QED
        BY <1>1, <1>3, <2>0, <2>2, <4>2 DEF ReadBroke, StreakShape, ReadingShape
    <3>4. CASE D # {}
      <4>1. reading' = [reading EXCEPT !.step = "began", !.broke = {Greatest(D)}]
        BY <2>2, <3>4 DEF ReadBroke
      <4> HIDE DEF D
      <4>2. reading' \in ReadingSet /\ reading'.broke = {Greatest(D)}
        BY <3>1, <3>2, <3>4, <4>1 DEF ReadingSet
      <4> QED
        BY <1>1, <1>3, <2>0, <2>2, <3>2, <3>4, <4>2 DEF ReadBroke, StreakShape, ReadingShape
    <3> QED
      BY <3>3, <3>4
  <2>3. CASE ReadBegan
    <3>1. reading \in ReadingSet
      BY <1>0, <2>3, ReadingIs DEF ReadBegan
    <3>2. CASE Agreeing # {}
      <4>1. answer' = Answer(Least(Agreeing)) /\ reading' = Idle
        BY <2>3, <3>2 DEF ReadBegan
      <4>2. Agreeing \in SUBSET Nat /\ Agreeing \subseteq 0..now
        BY <1>0, RowTypes DEF Agreeing, Shape, TypeOK, Times
      <4>3. Least(Agreeing) \in 0..now
        BY <3>2, <4>2, HasLeast
      <4>4. answer' \in AnswerSet
        BY <1>0, <3>1, <4>1, <4>3, AnswerIs
      <4> QED
        BY <1>1, <2>0, <4>1, <4>4 DEF StreakShape, ReadingShape, AnswerShape, Idle
    <3>3. CASE Agreeing = {}
      <4>1. reading' = [reading EXCEPT !.step = "rows"] /\ answer' = answer
        BY <2>3, <3>3 DEF ReadBegan
      <4>2. reading' \in ReadingSet /\ reading'.step = "rows"
        BY <3>1, <4>1 DEF ReadingSet
      <4> QED
        BY <1>1, <1>3, <2>0, <4>1, <4>2 DEF StreakShape, ReadingShape
    <3> QED
      BY <3>2, <3>3
  <2>4. CASE ReadRows
    <3>1. reading \in ReadingSet
      BY <1>0, <2>4, ReadingIs DEF ReadRows
    <3> DEFINE E == RowEnds(reading.ok)
    <3>2. CASE E # {}
      <4>1. answer' = Answer(Greatest(E)) /\ reading' = Idle
        BY <2>4, <3>2 DEF ReadRows
      <4>2. E \subseteq 0..now /\ now \in Int
        BY <1>0, RowEndsAre
      <4> HIDE DEF E
      <4>3. Greatest(E) \in 0..now
        <5>1. E \in SUBSET Int /\ \A t \in E : t <= now
          BY <4>2
        <5> QED
          BY <3>2, <4>2, <5>1, HasGreatest
      <4>4. answer' \in AnswerSet
        BY <1>0, <3>1, <4>1, <4>3, AnswerIs
      <4> QED
        BY <1>1, <2>0, <4>1, <4>4 DEF StreakShape, ReadingShape, AnswerShape, Idle
    <3>3. CASE E = {}
      <4>1. reading' = [reading EXCEPT !.step = "oldest"] /\ answer' = answer
        BY <2>4, <3>3 DEF ReadRows
      <4>2. reading' \in ReadingSet /\ reading'.step = "oldest"
        BY <3>1, <4>1 DEF ReadingSet
      <4> QED
        BY <1>1, <1>3, <2>0, <4>1, <4>2 DEF StreakShape, ReadingShape
    <3> QED
      BY <3>2, <3>3
  <2>5. CASE ReadOldest
    <3>1. reading \in ReadingSet
      BY <1>0, <2>5, ReadingIs DEF ReadOldest
    <3> DEFINE t == IF OldestEdgeRecord = {} THEN now ELSE Least(OldestEdgeRecord)
    <3>2. answer' = Answer(t) /\ reading' = Idle
      BY <2>5 DEF ReadOldest
    <3>3. t \in 0..now
      <4>1. OldestEdgeRecord \subseteq 0..now
        BY <1>0, OldestIs
      <4>2. OldestEdgeRecord \in SUBSET Nat
        BY <4>1
      <4>3. OldestEdgeRecord # {} => Least(OldestEdgeRecord) \in OldestEdgeRecord
        BY <4>2, HasLeast
      <4>4. now \in 0..now
        BY <1>0
      <4> QED
        BY <4>1, <4>3, <4>4
    <3> HIDE DEF t
    <3>4. answer' \in AnswerSet
      BY <1>0, <3>1, <3>2, <3>3, AnswerIs
    <3> QED
      BY <1>1, <2>0, <3>2, <3>4 DEF StreakShape, ReadingShape, AnswerShape, Idle
  <2> QED
    BY <1>8, <2>1, <2>2, <2>3, <2>4, <2>5 DEF Reads
<1> QED
  BY <1>5, <1>6, <1>7, <1>8, StreakSteps

\* A reading of EdgeStreak goes from query to query, and its answer is of its time.
THEOREM StreakTypeCorrect == StreakSpec => []StreakTypeOK
<1>1. StreakInit => StreakShape
  BY InitShape DEF StreakInit, StreakShape, ReadingShape, AnswerShape
<1>2. StreakShape /\ [StreakNext]_streakVars => StreakShape'
  BY StreakShapeStep
<1>3. StreakShape => StreakTypeOK
  <2> SUFFICES ASSUME StreakShape PROVE StreakTypeOK
    OBVIOUS
  <2>1. TypeOK /\ TimesOf \subseteq 0..now /\ ReadingShape /\ AnswerShape
    BY TimesAre DEF StreakShape, Shape
  <2>2. \/ reading = Idle
        \/ /\ reading.step \in {"broke", "began", "rows", "oldest"}
           /\ reading.ok \in BOOLEAN
           /\ reading.newest \subseteq 0..now
           /\ reading.broke \subseteq 0..now
           /\ reading.step = "began" => reading.broke # {}
    BY <2>1 DEF ReadingShape, ReadingSet
  <2>3. \/ answer = NoAnswer
        \/ answer.ok \in BOOLEAN /\ answer.since \in 0..now
    BY <2>1 DEF AnswerShape, AnswerSet
  <2> QED
    BY <2>1, <2>2, <2>3 DEF StreakTypeOK
<1> QED
  BY <1>1, <1>2, <1>3, PTL DEF StreakSpec

-----------------------------------------------------------------------------
\* What the reader knows.

\* Whether TRUE is in a set of one result is that result.
LEMMA OneResult ==
  ASSUME NEW b \in BOOLEAN, NEW S, S = {b}
  PROVE  (TRUE \in S) = b
<1>1. (TRUE \in {FALSE}) = FALSE /\ (TRUE \in {TRUE}) = TRUE
  <2>1. (TRUE \in {FALSE}) = FALSE
    OBVIOUS
  <2>2. (TRUE \in {TRUE}) = TRUE
    OBVIOUS
  <2> QED
    BY <2>1, <2>2
<1>2. CASE b = TRUE
  BY <1>1, <1>2, Zenon
<1>3. CASE b = FALSE
  BY <1>1, <1>3, Zenon
<1> QED
  BY <1>2, <1>3, Zenon

LEMMA AskKnows ==
  ASSUME StreakShape, Ask
  PROVE  ReadingTrue' /\ ReadingSound' /\ (answer' = answer \/ answer' = NoAnswer)
<1>1. UNCHANGED <<checks, samples, rollups>> /\ reading = Idle
  BY DEF Ask, vars, tables
<1>2. CASE LatestEdge = {}
  <2>1. reading' = Idle /\ answer' = NoAnswer
    BY <1>1, <1>2 DEF Ask
  <2>2. Idle' = Idle
    BY DEF Idle
  <2> QED
    BY <2>1, <2>2 DEF ReadingTrue, ReadingSound, Whole
<1>3. CASE LatestEdge # {}
  <2>1. reading' = Reading("broke", TRUE \in LatestEdge) /\ answer' = answer
    BY <1>3 DEF Ask
  <2>2. reading'.step = "broke" /\ reading'.ok = (TRUE \in LatestEdge)
    BY <2>1 DEF Reading
  <2>3. ASSUME samples # {}
        PROVE  \A c \in Newest(checks) : c.ok = reading'.ok
    <3>1. PICK x \in samples : Newest(samples) = {x} /\ Newest(checks) = {x}
      BY <2>3, NewestIs DEF StreakShape
    <3>2. LatestEdge = {x.ok}
      BY <2>3, <3>1 DEF LatestEdge
    <3>3. x.ok \in BOOLEAN
      BY RowTypes DEF StreakShape, Shape
    <3>4. (TRUE \in LatestEdge) = x.ok
      BY <3>2, <3>3, OneResult, Zenon
    <3> QED
      BY <2>2, <3>1, <3>4
  <2>4. NewestAgrees'
    BY <1>1, <2>3 DEF NewestAgrees, Newest
  <2>5. BrokeIsLast' /\ NoSample' /\ NoRow'
    BY <2>2 DEF BrokeIsLast, NoSample, NoRow
  <2> QED
    BY <2>1, <2>4, <2>5 DEF ReadingTrue, ReadingSound
<1> QED
  BY <1>2, <1>3

LEMMA ReadBrokeKnows ==
  ASSUME StreakShape, ReadingTrue, ReadBroke
  PROVE  ReadingTrue' /\ ReadingSound' /\ answer' = answer
<1>0. UNCHANGED <<checks, samples, answer>> /\ reading.step = "broke"
  BY DEF ReadBroke, vars, tables
<1>1. reading \in ReadingSet /\ reading # Idle /\ ReadingShape
  BY <1>0, ReadingIs DEF StreakShape
<1> DEFINE D == Disagreeing(reading.ok)
<1>2. /\ reading'.ok = reading.ok /\ reading'.newest = reading.newest
      /\ reading'.step = (IF D = {} THEN "rows" ELSE "began")
      /\ D # {} => reading'.broke = {Greatest(D)}
  <2>1. CASE D = {}
    <3>1. reading' = [reading EXCEPT !.step = "rows"]
      BY <2>1 DEF ReadBroke
    <3> QED
      BY <1>1, <2>1, <3>1 DEF ReadingSet
  <2>2. CASE D # {}
    <3>1. reading' = [reading EXCEPT !.step = "began", !.broke = {Greatest(D)}]
      BY <2>2 DEF ReadBroke
    <3> HIDE DEF D
    <3> QED
      BY <1>1, <2>2, <3>1 DEF ReadingSet
  <2> QED
    BY <2>1, <2>2
<1>3. Whole' => Whole
  BY <1>0, <1>1, <1>2 DEF Whole, TimesOf
<1>4. NewestAgrees => NewestAgrees'
  BY <1>0, <1>2 DEF NewestAgrees, Newest
<1>5. samples \subseteq checks /\ now \in Int /\ \A s \in samples : s.at \in Int /\ s.at <= now
  BY RowTypes DEF StreakShape, Shape, TypeOK, Times
<1>6. BrokeIsLast'
  <2> SUFFICES ASSUME D # {}
               PROVE  /\ \E c \in checks : c.at = Greatest(D) /\ Other(c)
                      /\ \A c \in checks : Other(c) => c.at <= Greatest(D)
    <3>1. reading'.step = "began" => D # {}
      BY <1>2
    <3> HIDE DEF D
    <3> QED
      BY <1>0, <1>2, <3>1 DEF BrokeIsLast, Other
  <2>1. Greatest(D) \in D /\ \A t \in D : t <= Greatest(D)
    <3>1. D \in SUBSET Int /\ \A t \in D : t <= now
      BY <1>5 DEF Disagreeing
    <3> HIDE DEF D
    <3> QED
      BY <1>5, <3>1, HasGreatest
  <2>2. PICK x \in samples : x.at = Greatest(D) /\ x.ok # reading.ok
    BY <2>1 DEF Disagreeing
  <2>3. ASSUME NEW c \in checks, Other(c)
        PROVE  c.at <= Greatest(D)
    <3>1. CASE c \in samples
      <4>1. c.at \in D
        BY <2>3, <3>1 DEF Disagreeing, Other
      <4> QED
        BY <2>1, <4>1
    <3>2. CASE c \notin samples
      <4>1. c.at < x.at /\ c.at \in Int /\ x.at \in Int
        BY <1>5, <3>2, RowTypes DEF StreakShape, Shape, InOrder
      <4> QED
        BY <2>2, <4>1
    <3> QED
      BY <3>1, <3>2
  <2> QED
    BY <1>5, <2>2, <2>3 DEF Other
<1>7. NoSample'
  <2> SUFFICES ASSUME D = {}, NEW c \in samples
               PROVE  ~Other(c)
    <3>1. reading'.step \in {"rows", "oldest"} => D = {}
      BY <1>2
    <3> HIDE DEF D
    <3> QED
      BY <1>0, <1>2, <3>1 DEF NoSample, Other
  <2> QED
    BY DEF Disagreeing, Other
<1>8. NoRow'
  BY <1>2 DEF NoRow
<1> QED
  BY <1>0, <1>3, <1>4, <1>6, <1>7, <1>8 DEF ReadingTrue, ReadingSound

\* The answers.  With the checks of the reading, all checks are seen.
LEMMA AnswerSays ==
  ASSUME NEW t, answer' = Answer(t), UNCHANGED <<checks, now>>
  PROVE  /\ answer'.found /\ answer'.since = t /\ answer'.ok = reading.ok
         /\ answer'.newest = reading.newest
         /\ Undisturbed' <=> reading.newest = TimesOf
         /\ reading.newest = TimesOf => /\ Seen(answer.newest)' = checks
                                        /\ Against' = {c \in checks : Other(c)}
<1>1. /\ answer'.found /\ answer'.since = t /\ answer'.ok = reading.ok
      /\ answer'.newest = reading.newest /\ answer'.last = TimesOf
  BY DEF Answer, TimesOf
<1>2. reading.newest = TimesOf => Seen(answer.newest)' = checks
  BY <1>1 DEF Seen, TimesOf
<1> QED
  BY <1>1, <1>2 DEF Undisturbed, Against, Other

LEMMA NotReading == ASSUME reading' = Idle PROVE ReadingTrue' /\ ReadingSound'
<1>1. Idle' = Idle
  BY DEF Idle
<1> QED
  BY <1>1 DEF ReadingTrue, ReadingSound, Whole

\* The steps whose answer is not new.
LEMMA NoNewAnswer ==
  ASSUME answer' = answer, UNCHANGED <<now, checks>>
  PROVE  /\ RecentIsExact => RecentIsExact'
         /\ UnbrokenIfUndisturbed => UnbrokenIfUndisturbed'
  BY DEF RecentIsExact, UnbrokenIfUndisturbed, Undisturbed, Against, Seen

LEMMA AnswerGone ==
  ASSUME answer' = NoAnswer
  PROVE  RecentIsExact' /\ UnbrokenIfUndisturbed'
<1>1. answer'.found = FALSE
  BY IdleIs
<1> QED
  BY <1>1 DEF RecentIsExact, UnbrokenIfUndisturbed

LEMMA ReadBeganKnows ==
  ASSUME StreakShape, ReadingTrue, ReadBegan
  PROVE  /\ ReadingTrue' /\ ReadingSound'
         /\ RecentIsExact => RecentIsExact'
         /\ UnbrokenIfUndisturbed => UnbrokenIfUndisturbed'
<1>0. UNCHANGED <<now, checks, samples>> /\ reading.step = "began"
  BY DEF ReadBegan, vars, tables
<1>1. reading \in ReadingSet /\ reading # Idle /\ reading.ok \in BOOLEAN
  BY <1>0, ReadingIs DEF StreakShape
<1>2. PICK b \in 0..now : reading.broke = {b}
  BY <1>0, ReadingIs DEF StreakShape
<1>3. /\ samples \subseteq checks /\ now \in Int /\ b \in Int
      /\ \A c \in checks : c.at \in Nat /\ c.ok \in BOOLEAN
  BY <1>2, RowTypes DEF StreakShape, Shape, TypeOK
<1>4. Agreeing \in SUBSET Nat
  BY <1>3 DEF Agreeing
<1>5. CASE Agreeing # {}
  <2>1. answer' = Answer(Least(Agreeing)) /\ reading' = Idle
    BY <1>5 DEF ReadBegan
  <2>2. Least(Agreeing) \in Agreeing /\ \A t \in Agreeing : Least(Agreeing) <= t
    BY <1>4, <1>5, HasLeast
  <2>3. Least(Agreeing) > b /\ Least(Agreeing) \in Nat
    BY <1>2, <1>4, <2>2 DEF Agreeing
  <2>4. UnbrokenIfUndisturbed'
    <3> SUFFICES ASSUME Undisturbed', NEW c \in Against'
                 PROVE  c.at < Least(Agreeing)
      BY <1>0, <2>1, AnswerSays DEF UnbrokenIfUndisturbed
    <3>1. Whole /\ c \in checks /\ Other(c)
      BY <1>0, <1>1, <2>1, AnswerSays DEF Whole
    <3>2. c.at <= b
      BY <1>0, <1>2, <3>1 DEF ReadingTrue, BrokeIsLast
    <3> QED
      BY <1>3, <2>3, <3>1, <3>2
  <2>5. RecentIsExact'
    <3> SUFFICES ASSUME Whole, NEW c \in checks, Other(c), c.at >= now - SampleRetention,
                        \A d \in checks : Other(d) => d.at <= c.at
                 PROVE  Least(Agreeing) = Least({d.at : d \in {d \in checks : d.at > c.at}})
      BY <1>0, <1>1, <2>1, AnswerSays DEF RecentIsExact, Whole
    <3>1. c.at = b
      <4>1. PICK x \in checks : x.at = b /\ Other(x)
        BY <1>0, <1>2 DEF ReadingTrue, BrokeIsLast
      <4>2. c.at <= b
        BY <1>0, <1>2 DEF ReadingTrue, BrokeIsLast
      <4> QED
        BY <1>3, <4>1, <4>2
    <3>2. c \in samples
      BY <1>3, Constants DEF StreakShape, Shape, Young
    <3>3. ASSUME NEW d \in checks, d.at > c.at
          PROVE  d \in samples /\ d.ok = reading.ok
      <4>1. d \in samples
        BY <1>3, <3>2, <3>3 DEF StreakShape, Shape, InOrder
      <4>2. ~Other(d)
        BY <1>3, <3>3
      <4> QED
        BY <4>1, <4>2 DEF Other
    <3>4. Agreeing = {d.at : d \in {d \in checks : d.at > c.at}}
      BY <1>2, <1>3, <3>1, <3>3 DEF Agreeing
    <3> QED
      BY <3>4
  <2> QED
    BY <2>1, <2>4, <2>5, NotReading
<1>6. CASE Agreeing = {}
  <2>1. reading' = [reading EXCEPT !.step = "rows"] /\ answer' = answer
    BY <1>6 DEF ReadBegan
  <2>2. reading'.step = "rows" /\ reading'.ok = reading.ok /\ reading'.newest = reading.newest
    BY <1>1, <2>1 DEF ReadingSet
  <2>3. Whole' => Whole
    BY <1>0, <1>1, <2>2 DEF Whole, TimesOf
  <2>4. NewestAgrees => NewestAgrees'
    BY <1>0, <2>2 DEF NewestAgrees, Newest
  <2>5. BrokeIsLast' /\ NoRow'
    BY <2>2 DEF BrokeIsLast, NoRow
  <2>6. ASSUME Whole
        PROVE  samples = {}
    <3> SUFFICES ASSUME samples # {} PROVE FALSE
      OBVIOUS
    <3>1. PICK x \in samples : Newest(checks) = {x}
      BY NewestIs DEF StreakShape
    <3>2. x.ok = reading.ok
      BY <2>6, <3>1 DEF ReadingTrue, NewestAgrees
    <3>3. PICK y \in checks : y.at = b /\ Other(y)
      BY <1>0, <1>2, <2>6 DEF ReadingTrue, BrokeIsLast
    <3>4. y.at <= x.at
      BY <1>3, <3>1 DEF Newest
    <3>5. x.at # y.at
      BY <1>3, <3>2, <3>3 DEF Other, StreakShape, Shape, Times
    <3>6. x.at \in Agreeing
      BY <1>2, <1>3, <3>2, <3>3, <3>4, <3>5 DEF Agreeing
    <3> QED
      BY <1>6, <3>6
  <2>7. Whole => NoSample'
    BY <1>0, <2>6 DEF NoSample
  <2> QED
    BY <1>0, <2>1, <2>3, <2>4, <2>5, <2>7, NoNewAnswer DEF ReadingTrue, ReadingSound
<1> QED
  BY <1>5, <1>6

LEMMA ReadRowsKnows ==
  ASSUME StreakShape, ReadingTrue, ReadRows
  PROVE  /\ ReadingTrue'
         /\ RecentIsExact => RecentIsExact'
         /\ Sound => ReadingSound'
         /\ Sound /\ UnbrokenIfUndisturbed => UnbrokenIfUndisturbed'
<1>0. UNCHANGED <<now, checks, samples, rollups>> /\ reading.step = "rows"
  BY DEF ReadRows, vars, tables
<1>1. reading \in ReadingSet /\ reading # Idle /\ reading.ok \in BOOLEAN
  BY <1>0, ReadingIs DEF StreakShape
<1>2. /\ samples \subseteq checks /\ now \in Int /\ Shape
      /\ \A c \in checks : c.at \in Int
  BY RowTypes DEF StreakShape, Shape, TypeOK
<1>3. Whole => \A c \in checks : Other(c) => c \notin samples
  BY <1>0 DEF ReadingTrue, NoSample
<1> DEFINE E == RowEnds(reading.ok)
<1>4. ASSUME Sound, Whole, NEW c \in checks, Other(c), NEW l \in Rung, Held(c, l)
      PROVE  \E t \in E : c.at < t
  <2>1. PICK r \in rollups : r.level = l /\ r.bucket = Bucket(c.at, l)
    BY <1>4 DEF Held
  <2>2. BucketEnd(r.bucket, r.level) \in E
    BY <1>1, <1>2, <1>4, <2>1, RowDisagrees DEF Other
  <2>3. c.at < BucketEnd(r.bucket, r.level)
    BY <1>2, <2>1, BucketBounds
  <2> QED
    BY <2>2, <2>3
<1>5. CASE E # {}
  <2>1. answer' = Answer(Greatest(E)) /\ reading' = Idle
    BY <1>5 DEF ReadRows
  <2>2. E \subseteq 0..now
    BY <1>2, RowEndsAre
  <2>3. Greatest(E) \in E /\ \A t \in E : t <= Greatest(E)
    <3>1. E \in SUBSET Int /\ \A t \in E : t <= now
      BY <1>2, <2>2
    <3> HIDE DEF E
    <3> QED
      BY <1>2, <1>5, <3>1, HasGreatest
  <2>4. RecentIsExact'
    <3> SUFFICES ASSUME Whole, NEW c \in checks, Other(c), c.at >= now - SampleRetention
                 PROVE  FALSE
      BY <1>0, <1>1, <2>1, AnswerSays DEF RecentIsExact, Whole
    <3> QED
      BY <1>2, <1>3, Constants DEF Shape, Young
  <2>5. ASSUME Sound
        PROVE  UnbrokenIfUndisturbed'
    <3> SUFFICES ASSUME Whole, NEW c \in checks, Other(c)
                 PROVE  c.at < Greatest(E)
      BY <1>0, <1>1, <2>1, AnswerSays DEF UnbrokenIfUndisturbed, Whole
    <3>1. CASE \E l \in Rung : Held(c, l)
      <4>1. PICK t \in E : c.at < t
        BY <1>4, <2>5, <3>1
      <4> QED
        BY <1>2, <2>2, <2>3, <4>1
    <3>2. CASE ~\E l \in Rung : Held(c, l)
      <4>1. Unheld(c)
        BY <1>3, <3>2 DEF Unheld
      <4>2. PICK r \in rollups : BucketEnd(r.bucket, r.level) = Greatest(E)
        BY <2>3 DEF RowEnds
      <4>3. c.at < BucketStart(r.bucket, r.level)
        BY <1>2, <2>5, <4>1, UnheldIsOld
      <4>4. r.level \in Rung /\ r.bucket \in Int
        BY <1>2, RowTypes DEF Shape
      <4>5. /\ BucketEnd(r.bucket, r.level) = BucketStart(r.bucket, r.level) + Width[r.level]
            /\ BucketStart(r.bucket, r.level) \in Int
        BY <4>4, BucketOrder
      <4>6. Width[r.level] \in Nat
        BY <4>4, Constants
      <4> QED
        BY <1>2, <4>2, <4>3, <4>5, <4>6
    <3> QED
      BY <3>1, <3>2
  <2> QED
    BY <2>1, <2>4, <2>5, NotReading
<1>6. CASE E = {}
  <2>1. reading' = [reading EXCEPT !.step = "oldest"] /\ answer' = answer
    BY <1>6 DEF ReadRows
  <2>2. reading'.step = "oldest" /\ reading'.ok = reading.ok /\ reading'.newest = reading.newest
    BY <1>1, <2>1 DEF ReadingSet
  <2>3. Whole' => Whole
    BY <1>0, <1>1, <2>2 DEF Whole, TimesOf
  <2>4. NewestAgrees => NewestAgrees'
    BY <1>0, <2>2 DEF NewestAgrees, Newest
  <2>5. BrokeIsLast'
    BY <2>2 DEF BrokeIsLast
  <2>6. Whole => NoSample'
    BY <1>0, <1>3, <2>2 DEF NoSample, Other
  <2>7. ReadingTrue'
    BY <2>3, <2>4, <2>5, <2>6 DEF ReadingTrue
  <2>8. ASSUME Sound, Whole
        PROVE  NoRow'
    <3>1. \A c \in checks : Other(c) => Unheld(c)
      BY <1>3, <1>4, <1>6, <2>8 DEF Unheld
    <3> QED
      BY <1>0, <2>2, <3>1 DEF NoRow, Other, Unheld, Held
  <2> QED
    BY <1>0, <2>1, <2>3, <2>7, <2>8, NoNewAnswer DEF ReadingSound
<1> QED
  BY <1>5, <1>6

LEMMA ReadOldestKnows ==
  ASSUME StreakShape, ReadingTrue, ReadOldest
  PROVE  /\ ReadingTrue' /\ ReadingSound'
         /\ RecentIsExact'
         /\ Sound /\ ReadingSound => UnbrokenIfUndisturbed'
<1>0. UNCHANGED <<now, checks, samples, rollups>> /\ reading.step = "oldest"
  BY DEF ReadOldest, vars, tables
<1>1. reading # Idle
  BY <1>0, ReadingIs DEF StreakShape
<1>2. /\ samples \subseteq checks /\ now \in Int /\ Shape
      /\ \A c \in checks : c.at \in Int
  BY RowTypes DEF StreakShape, Shape, TypeOK
<1> DEFINE t == IF OldestEdgeRecord = {} THEN now ELSE Least(OldestEdgeRecord)
<1>3. answer' = Answer(t) /\ reading' = Idle
  BY DEF ReadOldest
<1>4. RecentIsExact'
  <2> SUFFICES ASSUME Whole, NEW c \in checks, Other(c), c.at >= now - SampleRetention
               PROVE  FALSE
    <3> HIDE DEF t
    <3> QED
      BY <1>0, <1>1, <1>3, AnswerSays DEF RecentIsExact, Whole
  <2>1. c \notin samples
    BY <1>0 DEF ReadingTrue, NoSample
  <2> QED
    BY <1>2, <2>1, Constants DEF Shape, Young
<1>5. ASSUME Sound, ReadingSound
      PROVE  UnbrokenIfUndisturbed'
  <2> SUFFICES ASSUME Whole, NEW c \in checks, Other(c)
               PROVE  c.at < t
    <3> HIDE DEF t
    <3> QED
      BY <1>0, <1>1, <1>3, AnswerSays DEF UnbrokenIfUndisturbed, Whole
  <2>1. Unheld(c)
    BY <1>0, <1>5 DEF ReadingSound, NoRow
  <2>2. /\ c.at < now
        /\ \A s \in samples : c.at < s.at
        /\ \A r \in rollups : c.at < BucketStart(r.bucket, r.level)
    BY <1>2, <1>5, <2>1, UnheldIsOld
  <2>3. \A m \in OldestEdgeRecord : c.at < m
    BY <2>2 DEF OldestEdgeRecord
  <2>4. OldestEdgeRecord # {} => Least(OldestEdgeRecord) \in OldestEdgeRecord
    <3>1. OldestEdgeRecord \in SUBSET Nat
      BY <1>2, OldestIs
    <3> QED
      BY <3>1, HasLeast
  <2> QED
    BY <2>2, <2>3, <2>4
<1> QED
  BY <1>3, <1>4, <1>5, NotReading

\* Beside the reader, a check ends the wholeness of the reading, and nothing else the
\* reader knows of is undone.
LEMMA BesideKnows ==
  ASSUME StreakShape, [Next]_vars, UNCHANGED <<now, reading, answer>>
  PROVE  /\ ReadingTrue => ReadingTrue'
         /\ RecentIsExact => RecentIsExact'
         /\ Sound /\ ReadingSound => ReadingSound'
         /\ UnbrokenIfUndisturbed => UnbrokenIfUndisturbed'
<1>0. Shape /\ ReadingShape /\ AnswerShape /\ Idle' = Idle
  BY DEF StreakShape, Idle
<1>1. CASE checks' = checks /\ samples' \subseteq samples
  <2>1. Whole' <=> Whole
    BY <1>0, <1>1 DEF Whole, TimesOf
  <2>2. /\ NewestAgrees => NewestAgrees'
        /\ BrokeIsLast => BrokeIsLast'
        /\ NoSample => NoSample'
    BY <1>1 DEF NewestAgrees, BrokeIsLast, NoSample, Newest, Other
  <2>3. Sound /\ NoRow => NoRow'
    <3> SUFFICES ASSUME Sound, NoRow, reading.step = "oldest", NEW c \in checks, Other(c)
                 PROVE  Unheld(c)'
      BY <1>1 DEF NoRow, Other
    <3>1. Unheld(c)
      BY DEF NoRow
    <3> QED
      BY <1>0, <1>1, <3>1, UnheldStays
  <2> QED
    BY <1>1, <2>1, <2>2, <2>3, NoNewAnswer DEF ReadingTrue, ReadingSound
<1>2. CASE Check
  <2>1. PICK s : checks' = checks \cup {s} /\ s.at = now /\ \A c \in checks : c.at # now
    <3>1. [at |-> now, ok |-> route].at = now
      OBVIOUS
    <3> QED
      BY <1>2, <3>1 DEF Check, Checked
  <2>2. ~Whole'
    <3>1. reading # Idle => reading.newest \subseteq TimesOf
      BY <1>0 DEF ReadingShape, ReadingSet
    <3>2. now \in TimesOf' /\ now \notin TimesOf
      BY <2>1 DEF TimesOf
    <3> QED
      BY <1>0, <3>1, <3>2 DEF Whole
  <2>3. ASSUME answer.found
        PROVE  /\ Seen(answer.newest)' = Seen(answer.newest)
               /\ Against' = Against /\ (Undisturbed' <=> Undisturbed)
    <3>1. answer \in AnswerSet
      BY <1>0, <2>3, IdleIs DEF AnswerShape
    <3>2. answer.newest \subseteq TimesOf
      BY <3>1 DEF AnswerSet
    <3>3. s.at \notin answer.newest
      BY <2>1, <3>2 DEF TimesOf
    <3>4. Seen(answer.newest)' = Seen(answer.newest)
      BY <2>1, <3>3 DEF Seen
    <3> QED
      BY <3>4 DEF Against, Undisturbed
  <2> QED
    BY <2>2, <2>3 DEF ReadingTrue, ReadingSound, RecentIsExact, UnbrokenIfUndisturbed
<1> QED
  BY <1>1, <1>2, Drains

LEMMA StreakInvStep ==
  ASSUME StreakInv, [StreakNext]_streakVars
  PROVE  StreakInv'
<1>0. /\ StreakShape /\ Inv /\ ReadingTrue /\ RecentIsExact
      /\ OneKindOfFault /\ Room => Sound /\ ReadingSound /\ UnbrokenIfUndisturbed
  BY DEF StreakInv, Inv
<1>1. [Next]_vars
  BY StreakSteps
<1>2. StreakShape' /\ Inv'
  BY <1>0, <1>1, StreakShapeStep, InvStep
<1>3. OneKindOfFault' /\ Room' => OneKindOfFault /\ Room
  BY <1>0, <1>1, FaultsGrow DEF StreakShape, Shape
<1>4. SUFFICES /\ ReadingTrue' /\ RecentIsExact'
               /\ Sound /\ ReadingSound /\ UnbrokenIfUndisturbed
                    => ReadingSound' /\ UnbrokenIfUndisturbed'
  BY <1>0, <1>2, <1>3 DEF StreakInv
<1>5. CASE UNCHANGED <<now, reading, answer>>
  BY <1>0, <1>1, <1>5, BesideKnows
<1>6. CASE UNCHANGED <<now, checks, answer>> /\ reading' = Idle
  BY <1>0, <1>6, NotReading, NoNewAnswer
<1>7. CASE UNCHANGED <<checks, reading>> /\ reading = Idle /\ answer' = NoAnswer
  BY <1>7, NotReading, AnswerGone
<1>8. CASE UNCHANGED vars /\ Reads
  <2>0. UNCHANGED <<now, checks>>
    BY <1>8 DEF vars
  <2>1. CASE Ask
    BY <1>0, <2>0, <2>1, AskKnows, NoNewAnswer, AnswerGone
  <2>2. CASE ReadBroke
    BY <1>0, <2>0, <2>2, ReadBrokeKnows, NoNewAnswer
  <2>3. CASE ReadBegan
    BY <1>0, <2>3, ReadBeganKnows
  <2>4. CASE ReadRows
    BY <1>0, <2>4, ReadRowsKnows
  <2>5. CASE ReadOldest
    BY <1>0, <2>5, ReadOldestKnows
  <2> QED
    BY <1>8, <2>1, <2>2, <2>3, <2>4, <2>5 DEF Reads
<1> QED
  BY <1>5, <1>6, <1>7, <1>8, StreakSteps

LEMMA AlwaysStreakInv == StreakSpec => []StreakInv
<1>1. StreakInit => StreakInv
  <2> SUFFICES ASSUME StreakInit PROVE StreakInv
    OBVIOUS
  <2>1. StreakShape /\ Inv
    BY InitShape, InitSound DEF StreakInit, StreakShape, ReadingShape, AnswerShape, Inv
  <2>2. ReadingTrue /\ ReadingSound
    BY DEF StreakInit, ReadingTrue, ReadingSound, Whole
  <2>3. RecentIsExact /\ UnbrokenIfUndisturbed
    BY IdleIs DEF StreakInit, RecentIsExact, UnbrokenIfUndisturbed
  <2> QED
    BY <2>1, <2>2, <2>3 DEF StreakInv
<1>2. StreakInv /\ [StreakNext]_streakVars => StreakInv'
  BY StreakInvStep
<1> QED
  BY <1>1, <1>2, PTL DEF StreakSpec

\* While the last check that disagrees with it is younger than the samples' retention, a
\* run is dated to the instant (EdgeStreak), whatever fails and stops: it begins with the
\* check after that one.
THEOREM RecentAnswersAreExact == StreakSpec => []RecentIsExact
<1>1. StreakInv => RecentIsExact
  BY DEF StreakInv
<1> QED
  BY <1>1, AlwaysStreakInv, PTL

\* No check since a run began contradicts what EdgeStreak answers, though the run's first
\* checks are built and swept, from rung to rung, while the reader goes from query to
\* query: on nodes where no statement fails, or that do not stop and fail no more often
\* than there is room for.
THEOREM AnswersAreUnbroken ==
  ASSUME MaxFailures = 0 \/ (MaxStops = 0 /\ RoomToFail)
  PROVE  StreakSpec => []UnbrokenIfUndisturbed
<1>1. StreakInv => UnbrokenIfUndisturbed
  <2> SUFFICES ASSUME StreakInv PROVE UnbrokenIfUndisturbed
    OBVIOUS
  <2>1. TypeOK /\ failures \in 0..MaxFailures /\ stops \in 0..MaxStops
    BY DEF StreakInv, Inv, Shape, TypeOK
  <2>2. OneKindOfFault
    BY <2>1 DEF OneKindOfFault
  <2>3. RoomToFail \/ failures = 0
    BY <2>1
  <2> QED
    BY <2>1, <2>2, <2>3, RoomIs DEF StreakInv
<1> QED
  BY <1>1, AlwaysStreakInv, PTL
=============================================================================
