------------------------- MODULE CommandPortProofs -------------------------
(***************************************************************************)
(* Proofs about CommandPort, for every set of texts, whatever words,       *)
(* delimiters and numbers are in them.  The first part is about strtok():  *)
(* called again and again it returns the pieces of a text one after the    *)
(* other.                                                                  *)
(***************************************************************************)
EXTENDS CommandPort, FiniteSetTheorems, WellFoundedInduction, TLAPS

----------------------------------------------------------------------------
\* A set of naturals that is not empty has a least element: what a choice of the
\* first place in a text rests on.
LEMMA Least ==
  ASSUME NEW T, T \subseteq Nat, T # {}
  PROVE  \E x \in T : \A y \in T : x <= y
<1>1. PICK x \in T : \A y \in T : ~ (<<y, x>> \in OpToRel(<, Nat))
  BY NatLessThanWellFounded, WFMin, Zenon
<1>2. ASSUME NEW y \in T PROVE x <= y
  <2>1. ~(y < x)
    BY <1>1, Zenon DEF OpToRel
  <2>. QED BY <2>1
<1>. QED BY <1>2

----------------------------------------------------------------------------
(* The places strtok() looks for.                                          *)

IsFind(s, d, n, k) ==
  k \in n..Len(s) + 1 /\ (k > Len(s) \/ s[k] = d) /\ \A j \in n..k - 1 : s[j] # d
IsFirst(s, d, k) ==
  k \in 1..Len(s) + 1 /\ (k > Len(s) \/ s[k] # d) /\ \A j \in 1..k - 1 : s[j] = d

\* There is always one first place with the delimiter.
LEMMA FindSpec ==
  ASSUME NEW W, NEW s \in Seq(W), NEW d, NEW n \in 1..Len(s) + 1
  PROVE  IsFind(s, d, n, Find(s, d, n))
<1> DEFINE T == {k \in n..Len(s) + 1 : k > Len(s) \/ s[k] = d}
<1>1. T \subseteq Nat /\ Len(s) + 1 \in T
  OBVIOUS
<1>2. PICK k \in T : \A j \in T : k <= j
  BY <1>1, Least
<1>3. IsFind(s, d, n, k)
  <2>1. ASSUME NEW j \in n..k - 1 PROVE s[j] # d
    <3>1. j \in n..Len(s) + 1 /\ j < k
      BY <1>2
    <3>2. j \notin T
      BY <1>2, <3>1
    <3> QED BY <3>1, <3>2
  <2> QED BY <1>2, <2>1 DEF IsFind
<1> QED BY <1>3 DEF IsFind, Find

LEMMA FindUnique ==
  ASSUME NEW W, NEW s \in Seq(W), NEW d, NEW n \in 1..Len(s) + 1, NEW k, IsFind(s, d, n, k)
  PROVE  Find(s, d, n) = k
<1>1. IsFind(s, d, n, Find(s, d, n))
  BY FindSpec
<1> DEFINE f == Find(s, d, n)
<1> HIDE DEF f
<1>2. IsFind(s, d, n, f)
  BY <1>1 DEF f
<1>3. f \in Int /\ k \in Int
  BY <1>2 DEF IsFind
<1>4. ~(f < k)
  BY <1>2, <1>3 DEF IsFind
<1>5. ~(k < f)
  BY <1>2, <1>3 DEF IsFind
<1> QED BY <1>3, <1>4, <1>5 DEF f

LEMMA FirstSpec ==
  ASSUME NEW W, NEW s \in Seq(W), NEW d
  PROVE  IsFirst(s, d, First(s, d))
<1> DEFINE T == {k \in 1..Len(s) + 1 : k > Len(s) \/ s[k] # d}
<1>1. T \subseteq Nat /\ Len(s) + 1 \in T
  OBVIOUS
<1>2. PICK k \in T : \A j \in T : k <= j
  BY <1>1, Least
<1>3. IsFirst(s, d, k)
  <2>1. ASSUME NEW j \in 1..k - 1 PROVE s[j] = d
    <3>1. j \in 1..Len(s) + 1 /\ j < k
      BY <1>2
    <3>2. j \notin T
      BY <1>2, <3>1
    <3> QED BY <3>1, <3>2
  <2> QED BY <1>2, <2>1 DEF IsFirst
<1> QED BY <1>3 DEF IsFirst, First

----------------------------------------------------------------------------
(* What is left of a text from a place on.                                 *)

Suffix(s, pos) == SubSeq(s, pos, Len(s))

LEMMA SuffixType ==
  ASSUME NEW W, NEW s \in Seq(W), NEW pos \in 1..Len(s) + 1
  PROVE  /\ Suffix(s, pos) \in Seq(W)
         /\ Len(Suffix(s, pos)) = Len(s) - pos + 1
         /\ \A i \in 1..Len(s) - pos + 1 : Suffix(s, pos)[i] = s[pos + i - 1]
BY DEF Suffix

LEMMA SubSeqOfSuffix ==
  ASSUME NEW W, NEW s \in Seq(W), NEW pos \in 1..Len(s) + 1,
         NEW a \in 1..Len(s) - pos + 2, NEW b \in Int, a - 1 <= b, b <= Len(s) - pos + 1
  PROVE  SubSeq(Suffix(s, pos), a, b) = SubSeq(s, pos + a - 1, pos + b - 1)
<1> DEFINE u == SubSeq(Suffix(s, pos), a, b)
           v == SubSeq(s, pos + a - 1, pos + b - 1)
<1>1. /\ Suffix(s, pos) \in Seq(W) /\ Len(Suffix(s, pos)) = Len(s) - pos + 1
      /\ \A i \in 1..Len(s) - pos + 1 : Suffix(s, pos)[i] = s[pos + i - 1]
  BY SuffixType
<1>2. u \in Seq(W) /\ Len(u) = b - a + 1 /\ \A i \in 1..b - a + 1 : u[i] = Suffix(s, pos)[a + i - 1]
  BY <1>1
<1>3. v \in Seq(W) /\ Len(v) = b - a + 1 /\ \A i \in 1..b - a + 1 : v[i] = s[pos + a - 1 + i - 1]
  OBVIOUS
<1>4. \A i \in 1..b - a + 1 : u[i] = v[i]
  BY <1>1, <1>2, <1>3
<1> HIDE DEF u, v
<1>5. u = v
  BY <1>2, <1>3, <1>4
<1> QED BY <1>5 DEF u, v

\* A place in what is left is a place in the text.
LEMMA FindInSuffix ==
  ASSUME NEW W, NEW s \in Seq(W), NEW d, NEW pos \in 1..Len(s) + 1,
         NEW n \in 1..Len(s) - pos + 2
  PROVE  Find(s, d, pos + n - 1) = pos + Find(Suffix(s, pos), d, n) - 1
<1> DEFINE o == Suffix(s, pos)
           f == Find(o, d, n)
<1>1. /\ o \in Seq(W) /\ Len(o) = Len(s) - pos + 1
      /\ \A i \in 1..Len(s) - pos + 1 : o[i] = s[pos + i - 1]
  BY SuffixType
<1> HIDE DEF o
<1>2. IsFind(o, d, n, f)
  BY <1>1, FindSpec
<1> HIDE DEF f
<1>3. pos + n - 1 \in 1..Len(s) + 1
  OBVIOUS
<1>4. IsFind(s, d, pos + n - 1, pos + f - 1)
  <2>1. f \in Int /\ n <= f /\ f <= Len(o) + 1
    BY <1>1, <1>2 DEF IsFind
  <2>2. f <= Len(o) => s[pos + f - 1] = d
    BY <1>1, <1>2, <2>1 DEF IsFind
  <2>3. ASSUME NEW j \in pos + n - 1 .. pos + f - 1 - 1 PROVE s[j] # d
    <3>1. j - pos + 1 \in n..f - 1 /\ j - pos + 1 \in 1..Len(s) - pos + 1
      BY <1>1, <2>1
    <3>2. o[j - pos + 1] # d
      BY <1>2, <3>1 DEF IsFind
    <3> QED BY <1>1, <3>1, <3>2
  <2> QED BY <1>1, <2>1, <2>2, <2>3 DEF IsFind
<1> QED BY <1>3, <1>4, FindUnique DEF f, o

----------------------------------------------------------------------------
(* The pieces of a text, counted.                                          *)

LEMMA BeginsFinite ==
  ASSUME NEW W, NEW s \in Seq(W), NEW d
  PROVE  /\ IsFiniteSet(Begins(s, d)) /\ Count(s, d) \in Nat
         /\ \A i : IsFiniteSet(Before(s, d, i)) /\ Cardinality(Before(s, d, i)) \in Nat
         /\ \A i : Cardinality(Before(s, d, i)) <= Count(s, d)
<1>1. IsFiniteSet(1..Len(s))
  <2>1. Len(s) \in Int /\ 1 \in Int
    OBVIOUS
  <2> QED BY <2>1, FS_Interval
<1>2. Begins(s, d) \subseteq 1..Len(s) /\ \A i : Before(s, d, i) \subseteq Begins(s, d)
  BY DEF Begins, Before
<1>3. IsFiniteSet(Begins(s, d))
  BY <1>1, <1>2, FS_Subset
<1>4. \A i : IsFiniteSet(Before(s, d, i)) /\ Cardinality(Before(s, d, i)) <= Cardinality(Begins(s, d))
  BY <1>2, <1>3, FS_Subset
<1> QED BY <1>3, <1>4, FS_CardinalityType DEF Count

\* More pieces begin before a later place.
LEMMA BeforeMore ==
  ASSUME NEW W, NEW s \in Seq(W), NEW d, NEW i \in Begins(s, d), NEW j \in Int, i < j
  PROVE  Cardinality(Before(s, d, i)) + 1 <= Cardinality(Before(s, d, j))
<1>1. i \in Int /\ i \notin Before(s, d, i)
  BY DEF Begins, Before
<1>2. Before(s, d, i) \cup {i} \subseteq Before(s, d, j)
  BY <1>1 DEF Before, Begins
<1>3. IsFiniteSet(Before(s, d, i)) /\ IsFiniteSet(Before(s, d, j))
  BY BeginsFinite
<1>4. Cardinality(Before(s, d, i) \cup {i}) = Cardinality(Before(s, d, i)) + 1
  BY <1>1, <1>3, FS_AddElement
<1>5. Cardinality(Before(s, d, i) \cup {i}) <= Cardinality(Before(s, d, j))
  BY <1>2, <1>3, FS_Subset
<1> QED BY <1>4, <1>5

\* The place of a piece is told by the pieces before it.
LEMMA PlaceOf ==
  ASSUME NEW W, NEW s \in Seq(W), NEW d, NEW i \in Begins(s, d),
         NEW n \in Nat, Cardinality(Before(s, d, i)) = n
  PROVE  Place(s, d, n + 1) = i /\ n + 1 <= Count(s, d)
<1> DEFINE p == Place(s, d, n + 1)
<1>1. p \in Begins(s, d) /\ Cardinality(Before(s, d, p)) = n
  BY DEF Place
<1> HIDE DEF p
<1>2. p \in Int /\ i \in Int
  BY <1>1 DEF Begins
<1>3. ~(p < i)
  BY <1>1, <1>2, BeforeMore
<1>4. ~(i < p)
  BY <1>1, <1>2, BeforeMore
<1>5. n + 1 <= Count(s, d)
  <2>1. Len(s) + 1 \in Int /\ i < Len(s) + 1
    BY DEF Begins
  <2>2. n + 1 <= Cardinality(Before(s, d, Len(s) + 1))
    BY <2>1, BeforeMore
  <2>3. Cardinality(Before(s, d, Len(s) + 1)) <= Count(s, d)
    BY BeginsFinite
  <2>4. Cardinality(Before(s, d, Len(s) + 1)) \in Nat /\ Count(s, d) \in Nat
    BY BeginsFinite
  <2> QED BY <2>2, <2>3, <2>4
<1> QED BY <1>2, <1>3, <1>4, <1>5 DEF p

----------------------------------------------------------------------------
(* strtok() returns the next piece.                                        *)

\* A place where strtok() may go on.
Bound(s, d, pos) == pos \in 1..Len(s) + 1 /\ (pos \in 2..Len(s) => s[pos - 1] = d)

\* o is left of s after n pieces.
At(s, d, n, o) ==
  \E pos \in 1..Len(s) + 1 :
    Bound(s, d, pos) /\ o = Suffix(s, pos) /\ Cardinality(Before(s, d, pos)) = n

LEMMA AtStart ==
  ASSUME NEW W, NEW s \in Seq(W), NEW d
  PROVE  At(s, d, 0, s)
<1>1. Bound(s, d, 1) /\ 1 \in 1..Len(s) + 1
  BY DEF Bound
<1>2. Suffix(s, 1) = s
  BY DEF Suffix
<1>3. Before(s, d, 1) = {}
  BY DEF Before, Begins
<1>4. Cardinality(Before(s, d, 1)) = 0
  BY <1>3, FS_EmptySet
<1> QED BY <1>1, <1>2, <1>4 DEF At

\* Without another piece strtok() returns NULL.
LEMMA NoPiece ==
  ASSUME NEW W, NEW s \in Seq(W), NEW d, NEW pos \in 1..Len(s) + 1, Bound(s, d, pos),
         First(Suffix(s, pos), d) = Len(s) - pos + 2
  PROVE  /\ Token(Suffix(s, pos), d) = <<>>
         /\ Before(s, d, pos) = Begins(s, d)
<1> DEFINE o == Suffix(s, pos)
           m == Len(o)
<1>1. /\ o \in Seq(W) /\ m = Len(s) - pos + 1 /\ m \in Nat
      /\ \A i \in 1..Len(s) - pos + 1 : o[i] = s[pos + i - 1]
  BY SuffixType
<1>2. First(o, d) = m + 1
  BY <1>1
<1> HIDE DEF o, m
<1>3. \A j \in 1..m : o[j] = d
  <2>1. IsFirst(o, d, First(o, d))
    BY <1>1, FirstSpec
  <2> QED BY <1>1, <1>2, <2>1 DEF IsFirst
<1>4. Find(o, d, m + 1) = m + 1
  <2>1. m + 1 \in 1..Len(o) + 1
    BY <1>1 DEF m
  <2>2. IsFind(o, d, m + 1, Find(o, d, m + 1))
    BY <1>1, <2>1, FindSpec
  <2> QED BY <1>1, <2>2 DEF IsFind, m
<1>5. \A a, b : a = m + 1 /\ b = m + 1 => SubSeq(o, a, b - 1) = <<>>
  BY <1>1
<1>6. Token(o, d) = <<>>
  BY <1>2, <1>4, <1>5 DEF Token
<1>7. ASSUME NEW i \in Begins(s, d), ~(i < pos) PROVE FALSE
  <2>1. i \in 1..Len(s) /\ s[i] # d
    BY DEF Begins
  <2>2. i - pos + 1 \in 1..m /\ i - pos + 1 \in 1..Len(s) - pos + 1
    BY <1>1, <1>7, <2>1
  <2>3. o[i - pos + 1] = s[i]
    BY <1>1, <2>1, <2>2
  <2> QED BY <1>3, <2>1, <2>2, <2>3
<1>8. Before(s, d, pos) = Begins(s, d)
  BY <1>7 DEF Before
<1> QED BY <1>6, <1>8 DEF o

\* With another piece strtok() returns it, and goes on behind it.
LEMMA OnePiece ==
  ASSUME NEW W, NEW s \in Seq(W), NEW d, NEW pos \in 1..Len(s) + 1, Bound(s, d, pos),
         First(Suffix(s, pos), d) # Len(s) - pos + 2
  PROVE  LET i == pos + First(Suffix(s, pos), d) - 1
             e == Find(s, d, i)
         IN  /\ i \in Begins(s, d) /\ e \in i + 1 .. Len(s) + 1
             /\ Before(s, d, i) = Before(s, d, pos)
             /\ Token(Suffix(s, pos), d) = SubSeq(s, i, e - 1)
             /\ Token(Suffix(s, pos), d) # <<>>
             /\ Rest(Suffix(s, pos), d) = SubSeq(s, e + 1, Len(s))
<1> DEFINE o == Suffix(s, pos)
           m == Len(s) - pos + 1
           f == First(o, d)
           i == pos + f - 1
           e == Find(s, d, i)
           g == Find(o, d, f)
<1>1. /\ o \in Seq(W) /\ Len(o) = m /\ m \in Nat
      /\ \A k \in 1..m : o[k] = s[pos + k - 1]
  <2>1. m \in Nat
    OBVIOUS
  <2> QED BY <2>1, SuffixType
<1>2. pos \in 1..Len(s) + 1
  OBVIOUS
<1>3. IsFirst(o, d, f) /\ f # m + 1
  <2>1. f # m + 1
    BY <1>1
  <2> HIDE DEF o
  <2>2. IsFirst(o, d, f)
    BY <1>1, FirstSpec
  <2> QED BY <2>1, <2>2
<1> HIDE DEF o, f
<1>4. f \in 1..m /\ o[f] # d /\ \A j \in 1..f - 1 : o[j] = d
  BY <1>1, <1>3 DEF IsFirst
<1>5. i \in Begins(s, d)
  <2>1. i \in 1..Len(s) /\ s[i] # d
    BY <1>1, <1>2, <1>4
  <2>2. CASE f = 1
    BY <2>1, <2>2, <1>2 DEF Begins, Bound
  <2>3. CASE f > 1
    <3>1. o[f - 1] = d /\ o[f - 1] = s[pos + (f - 1) - 1]
      BY <1>1, <1>4, <2>3
    <3>2. s[i - 1] = d
      BY <1>2, <1>4, <3>1
    <3> QED BY <2>1, <3>2 DEF Begins
  <2> QED BY <1>4, <2>2, <2>3
<1>6. Before(s, d, i) = Before(s, d, pos)
  <2>1. ASSUME NEW j \in Begins(s, d), j < i, ~(j < pos) PROVE FALSE
    <3>1. j \in 1..Len(s) /\ s[j] # d
      BY DEF Begins
    <3>2. j - pos + 1 \in 1..f - 1 /\ j - pos + 1 \in 1..m
      BY <1>2, <1>4, <2>1, <3>1
    <3>3. o[j - pos + 1] = s[j]
      BY <1>1, <1>2, <3>1, <3>2
    <3> QED BY <1>4, <3>1, <3>2, <3>3
  <2>2. pos <= i
    BY <1>2, <1>4
  <2>3. \A j \in Begins(s, d) : j < pos => j < i
    BY <1>2, <1>4, <2>2 DEF Begins
  <2> QED BY <2>1, <2>3 DEF Before
<1>7. IsFind(s, d, i, e) /\ e \in i + 1 .. Len(s) + 1
  <2>1. i \in 1..Len(s) + 1 /\ s[i] # d /\ i <= Len(s)
    BY <1>5 DEF Begins
  <2>2. IsFind(s, d, i, e)
    BY <2>1, FindSpec
  <2> HIDE DEF e, i
  <2> QED BY <2>1, <2>2 DEF IsFind
<1>8. e = pos + g - 1
  <2>1. f \in 1..Len(s) - pos + 2
    BY <1>2, <1>4
  <2> QED BY <1>2, <2>1, FindInSuffix DEF o
<1>9. g \in f + 1 .. m + 1
  <2>1. f \in 1..Len(o) + 1
    BY <1>1, <1>4
  <2>2. IsFind(o, d, f, g)
    BY <1>1, <2>1, FindSpec
  <2>3. g \in Int /\ e \in Int
    BY <1>7, <2>2 DEF IsFind
  <2> HIDE DEF e, g
  <2> QED BY <1>2, <1>4, <1>7, <1>8, <2>3
<1>10. Token(o, d) = SubSeq(s, i, e - 1) /\ Token(o, d) # <<>>
  <2>1. Token(o, d) = SubSeq(o, f, g - 1)
    BY DEF Token, f
  <2> HIDE DEF g
  <2>2. SubSeq(o, f, g - 1) = SubSeq(s, pos + f - 1, pos + (g - 1) - 1)
    <3>1. f \in 1..Len(s) - pos + 2 /\ g - 1 \in Int /\ f - 1 <= g - 1 /\ g - 1 <= Len(s) - pos + 1
      BY <1>2, <1>4, <1>9
    <3> HIDE DEF m
    <3> QED BY <1>2, <3>1, SubSeqOfSuffix DEF o
  <2>3. SubSeq(o, f, g - 1) # <<>>
    <3>1. Len(SubSeq(o, f, g - 1)) = g - 1 - f + 1
      BY <1>1, <1>4, <1>9
    <3>2. g - 1 - f + 1 > 0
      BY <1>4, <1>9
    <3> HIDE DEF m
    <3>3. g - 1 - f + 1 # 0
      BY <1>1, <1>4, <1>9, <3>2
    <3>4. Len(<<>>) = 0
      OBVIOUS
    <3> QED BY <3>1, <3>3, <3>4
  <2>4. pos + (g - 1) - 1 = e - 1
    BY <1>2, <1>8, <1>9
  <2> QED BY <2>1, <2>2, <2>3, <2>4
<1>11. Rest(o, d) = SubSeq(s, e + 1, Len(s))
  <2>1. Rest(o, d) = SubSeq(o, g + 1, m)
    BY <1>1 DEF Rest, f
  <2> HIDE DEF g, e
  <2>2. (g + 1 \in 1..Len(s) - pos + 2 /\ m \in Int) \/ g = m + 1
    BY <1>2, <1>4, <1>9
  <2>3. CASE g <= m
    <3>1. SubSeq(o, g + 1, m) = SubSeq(s, pos + (g + 1) - 1, pos + m - 1)
      BY <1>1, <1>2, <1>4, <1>9, <2>3, SubSeqOfSuffix DEF o
    <3>2. pos + (g + 1) - 1 = e + 1 /\ pos + m - 1 = Len(s)
      BY <1>2, <1>8, <1>9
    <3> QED BY <2>1, <3>1, <3>2
  <2>4. CASE g = m + 1
    <3>1. e = Len(s) + 1
      BY <1>2, <1>8, <2>4
    <3>2. SubSeq(o, g + 1, m) = <<>>
      BY <1>1, <2>4
    <3>3. SubSeq(s, e + 1, Len(s)) = <<>>
      BY <3>1
    <3> QED BY <2>1, <3>2, <3>3
  <2>5. g <= m \/ g = m + 1
    <3> HIDE DEF m
    <3> QED BY <1>1, <1>4, <1>9
  <2> QED BY <2>3, <2>4, <2>5
<1> HIDE DEF i, e
<1> QED BY <1>5, <1>6, <1>7, <1>10, <1>11 DEF o, f, i, e

LEMMA TokenType ==
  ASSUME NEW W, NEW s \in Seq(W), NEW d
  PROVE  Token(s, d) \in Seq(W) /\ Rest(s, d) \in Seq(W)
<1> DEFINE f == First(s, d)
           g == Find(s, d, f)
<1>1. IsFirst(s, d, f)
  BY FirstSpec
<1> HIDE DEF f
<1>2. f \in 1..Len(s) + 1
  BY <1>1 DEF IsFirst
<1>3. IsFind(s, d, f, g)
  BY <1>2, FindSpec
<1> HIDE DEF g
<1>4. g \in f..Len(s) + 1
  BY <1>3 DEF IsFind
<1>5. SubSeq(s, f, g - 1) \in Seq(W) /\ SubSeq(s, g + 1, Len(s)) \in Seq(W)
  BY <1>2, <1>4
<1> QED BY <1>5 DEF Token, Rest, f, g

\* Called with what is left of a text after n pieces, strtok() returns the
\* piece after them, or NULL when there is none, and leaves what follows.
LEMMA AtNext ==
  ASSUME NEW W, NEW s \in Seq(W), NEW d, NEW n \in Nat, NEW o, At(s, d, n, o)
  PROVE  /\ Token(o, d) = <<>> => n = Count(s, d)
         /\ Token(o, d) # <<>> =>
              /\ n + 1 <= Count(s, d)
              /\ Token(o, d) = Piece(s, d, n + 1)
              /\ Rest(o, d) = After(s, d, n + 1)
              /\ At(s, d, n + 1, Rest(o, d))
<1>1. PICK pos \in 1..Len(s) + 1 :
        Bound(s, d, pos) /\ o = Suffix(s, pos) /\ Cardinality(Before(s, d, pos)) = n
  BY DEF At
<1>2. CASE First(Suffix(s, pos), d) = Len(s) - pos + 2
  BY <1>1, <1>2, NoPiece DEF Count
<1>3. CASE First(Suffix(s, pos), d) # Len(s) - pos + 2
  <2> DEFINE i == pos + First(Suffix(s, pos), d) - 1
             e == Find(s, d, i)
  <2>1. /\ i \in Begins(s, d) /\ e \in i + 1 .. Len(s) + 1
        /\ Before(s, d, i) = Before(s, d, pos)
        /\ Token(o, d) = SubSeq(s, i, e - 1) /\ Token(o, d) # <<>>
        /\ Rest(o, d) = SubSeq(s, e + 1, Len(s))
    BY <1>1, <1>3, OnePiece
  <2> HIDE DEF i
  <2>2. i \in 1..Len(s) /\ IsFind(s, d, i, e)
    BY <2>1, FindSpec DEF Begins
  <2>3. Place(s, d, n + 1) = i /\ n + 1 <= Count(s, d)
    BY <1>1, <2>1, PlaceOf
  <2>4. Token(o, d) = Piece(s, d, n + 1) /\ Rest(o, d) = After(s, d, n + 1)
    BY <2>1, <2>3 DEF Piece, After
  <2> HIDE DEF e
  <2> DEFINE q == IF e <= Len(s) THEN e + 1 ELSE Len(s) + 1
  <2>5. q \in 1..Len(s) + 1 /\ Bound(s, d, q)
    BY <2>1, <2>2 DEF Bound, IsFind
  <2>6. Rest(o, d) = Suffix(s, q)
    <3>1. CASE e <= Len(s)
      BY <2>1, <3>1 DEF Suffix
    <3>2. CASE e = Len(s) + 1
      <4>1. SubSeq(s, e + 1, Len(s)) = <<>> /\ SubSeq(s, Len(s) + 1, Len(s)) = <<>>
        BY <3>2
      <4> QED BY <2>1, <3>2, <4>1 DEF Suffix
    <3>3. e <= Len(s) \/ e = Len(s) + 1
      <4>1. e \in i + 1 .. Len(s) + 1 /\ i \in Int /\ Len(s) \in Int
        BY <2>1, <2>2
      <4> HIDE DEF q
      <4> QED BY <4>1
    <3> QED BY <3>1, <3>2, <3>3
  <2>7. Before(s, d, q) = Before(s, d, i) \cup {i}
    <3>1. ASSUME NEW j \in Begins(s, d), j < q, ~(j < i), j # i PROVE FALSE
      <4>1. j \in 1..Len(s) /\ s[j] # d /\ (j = 1 \/ s[j - 1] = d)
        BY DEF Begins
      <4>2. j \in i + 1 .. e
        BY <2>1, <2>2, <3>1, <4>1
      <4>3. j = e \/ j - 1 \in i .. e - 1
        BY <2>1, <2>2, <4>2
      <4>4. CASE j = e
        BY <2>1, <2>2, <4>1, <4>4 DEF IsFind
      <4>5. CASE j # e
        <5>1. j - 1 \in i .. e - 1 /\ s[j - 1] = d
          BY <2>1, <2>2, <4>1, <4>2, <4>5
        <5> QED BY <2>2, <5>1 DEF IsFind
      <4> QED BY <4>4, <4>5
    <3>2. \A j \in Begins(s, d) : j < i \/ j = i => j < q
      BY <2>1, <2>2 DEF Begins
    <3> HIDE DEF q
    <3> QED BY <2>1, <3>1, <3>2 DEF Before
  <2>8. Cardinality(Before(s, d, q)) = n + 1
    <3>1. IsFiniteSet(Before(s, d, i)) /\ Cardinality(Before(s, d, i)) = n
      BY <1>1, <2>1, BeginsFinite
    <3>2. i \notin Before(s, d, i)
      BY <2>2 DEF Before
    <3> QED BY <2>7, <3>1, <3>2, FS_AddElement
  <2>9. At(s, d, n + 1, Rest(o, d))
    BY <2>5, <2>6, <2>8 DEF At
  <2> QED BY <2>1, <2>3, <2>4, <2>9
<1> QED BY <1>2, <1>3

\* What is left of a text is a text.
LEMMA AtType ==
  ASSUME NEW W, NEW s \in Seq(W), NEW d, NEW n, NEW o, At(s, d, n, o)
  PROVE  o \in Seq(W) /\ n \in Nat /\ n <= Count(s, d)
<1>1. PICK pos \in 1..Len(s) + 1 : o = Suffix(s, pos) /\ Cardinality(Before(s, d, pos)) = n
  BY DEF At
<1> QED BY <1>1, SuffixType, BeginsFinite

\* A text that does not begin with the delimiter begins with a piece.
LEMMA TokenHead ==
  ASSUME NEW W, NEW s \in Seq(W), NEW d, s # <<>>, s[1] # d
  PROVE  Token(s, d) # <<>> /\ Token(s, d)[1] = s[1]
<1>1. Len(s) > 0
  OBVIOUS
<1>2. First(s, d) = 1
  <2>1. IsFirst(s, d, First(s, d))
    BY FirstSpec
  <2> QED BY <1>1, <2>1 DEF IsFirst
<1>3. Find(s, d, 1) \in 2..Len(s) + 1
  <2>1. 1 \in 1..Len(s) + 1
    OBVIOUS
  <2>2. IsFind(s, d, 1, Find(s, d, 1))
    BY <2>1, FindSpec
  <2> QED BY <1>1, <2>2 DEF IsFind
<1>4. Token(s, d) = SubSeq(s, 1, Find(s, d, 1) - 1)
  BY <1>2 DEF Token
<1>5. Len(Token(s, d)) > 0 /\ Token(s, d)[1] = s[1]
  BY <1>3, <1>4
<1> QED BY <1>5

LEMMA AtEnd ==
  ASSUME NEW W, NEW s \in Seq(W), NEW d
  PROVE  At(s, d, Count(s, d), <<>>)
<1>1. Bound(s, d, Len(s) + 1) /\ Len(s) + 1 \in 1..Len(s) + 1
  BY DEF Bound
<1>2. Suffix(s, Len(s) + 1) = <<>>
  BY DEF Suffix
<1>3. Before(s, d, Len(s) + 1) = Begins(s, d)
  BY DEF Before, Begins
<1> QED BY <1>1, <1>2, <1>3 DEF At, Count

\* After NULL nothing is left.
LEMMA NothingLeft ==
  ASSUME NEW W, NEW s \in Seq(W), NEW d, Token(s, d) = <<>>
  PROVE  Rest(s, d) = <<>>
<1> DEFINE f == First(s, d)
           g == Find(s, d, f)
<1>1. IsFirst(s, d, f)
  BY FirstSpec
<1> HIDE DEF f
<1>2. f \in 1..Len(s) + 1 /\ (f <= Len(s) => s[f] # d)
  BY <1>1 DEF IsFirst
<1>3. IsFind(s, d, f, g)
  BY <1>2, FindSpec
<1> HIDE DEF g
<1>4. g \in f..Len(s) + 1 /\ (g <= Len(s) => s[g] = d)
  BY <1>2, <1>3 DEF IsFind
<1>5. SubSeq(s, f, g - 1) = <<>>
  BY DEF Token, f, g
<1>6. g = f
  <2>1. Len(SubSeq(s, f, g - 1)) = g - 1 - f + 1
    BY <1>2, <1>4
  <2>2. Len(<<>>) = 0
    OBVIOUS
  <2>3. g - 1 - f + 1 = 0
    BY <1>5, <2>1, <2>2
  <2> QED BY <1>2, <1>4, <2>3
<1>7. g = Len(s) + 1
  BY <1>2, <1>4, <1>6
<1>8. SubSeq(s, g + 1, Len(s)) = <<>>
  BY <1>7
<1> QED BY <1>8 DEF Rest, f, g

\* The first call.
LEMMA FirstPiece ==
  ASSUME NEW W, NEW s \in Seq(W), NEW d
  PROVE  /\ Token(s, d) = <<>> => Count(s, d) = 0 /\ At(s, d, 0, Rest(s, d))
         /\ Token(s, d) # <<>> =>
              Count(s, d) >= 1 /\ Token(s, d) = Piece(s, d, 1) /\ At(s, d, 1, Rest(s, d))
<1>1. At(s, d, 0, s)
  BY AtStart
<1>2. \A n \in Nat : At(s, d, n, s) =>
        /\ Token(s, d) = <<>> => n = Count(s, d)
        /\ Token(s, d) # <<>> => /\ n + 1 <= Count(s, d) /\ Token(s, d) = Piece(s, d, n + 1)
                                 /\ At(s, d, n + 1, Rest(s, d))
  BY AtNext
<1>3. 0 \in Nat /\ Count(s, d) \in Nat
  BY BeginsFinite
<1>4. Token(s, d) = <<>> => Count(s, d) = 0 /\ At(s, d, 0, Rest(s, d))
  BY <1>1, <1>2, <1>3, AtEnd, NothingLeft
<1> QED BY <1>1, <1>2, <1>3, <1>4

\* A text without the delimiter is a piece.
LEMMA Whole ==
  ASSUME NEW W, NEW s \in Seq(W), NEW d, s # <<>>, Find(s, d, 1) > Len(s)
  PROVE  Count(s, d) = 1 /\ Piece(s, d, 1) = s
<1>1. Find(s, d, 1) = Len(s) + 1 /\ s[1] # d /\ Len(s) > 0
  <2>1. 1 \in 1..Len(s) + 1 /\ Len(s) > 0
    OBVIOUS
  <2>2. IsFind(s, d, 1, Find(s, d, 1))
    BY <2>1, FindSpec
  <2> QED BY <2>1, <2>2 DEF IsFind
<1>2. First(s, d) = 1
  <2>1. IsFirst(s, d, First(s, d))
    BY FirstSpec
  <2> QED BY <1>1, <2>1 DEF IsFirst
<1>3. Token(s, d) = s /\ Rest(s, d) = <<>>
  <2>1. SubSeq(s, 1, Len(s) + 1 - 1) = s /\ SubSeq(s, Len(s) + 1 + 1, Len(s)) = <<>>
    BY <1>1
  <2> QED BY <1>1, <1>2, <2>1 DEF Token, Rest
<1>5. Piece(s, d, 1) = s /\ At(s, d, 1, <<>>)
  BY <1>3, FirstPiece
<1>6. Token(<<>>, d) = <<>>
  <2>1. At(s, d, Count(s, d), <<>>) /\ Count(s, d) \in Nat
    BY AtEnd, BeginsFinite
  <2>2. ~(Count(s, d) + 1 <= Count(s, d))
    BY <2>1
  <2> QED BY <2>1, <2>2, AtNext
<1> QED BY <1>5, <1>6, AtNext

----------------------------------------------------------------------------
(* The inductive invariant.                                                *)

Text == Seq(STRING)
TextOf(n) == Piece(command, "=", n)
Parts == Count(command, "=")

\* Every text is one, and the answer and the operation are empty until the
\* command is done.
TypesInv ==
  /\ p1 \in Text /\ p2 \in Text /\ olds \in Text
  /\ arg_1 \in Seq(Text) /\ arg_2 \in Seq(Text)
Working == {"equals", "equals2", "plus", "plus2", "comma", "comma2", "verify", "sim", "upg"}
WorkInv == pc \in Working => command \in Wellformed
QuietInv == pc \notin {"send", "dead"} => done = NoOperation /\ th_buf = Silence

\* The parts are the pieces between =, and the first begins a name.
PartsInv ==
  /\ pc \in {"equals2", "plus"} => p1 = TextOf(1) /\ p1 # NULL /\ p1[1] # "+" /\ Parts >= 1
  /\ pc = "equals2" => At(command, "=", 1, olds)
  /\ pc \in {"plus", "plus2", "comma"} => p2 = IF Parts < 2 THEN NULL ELSE TextOf(2)
  /\ pc \in {"plus", "plus2", "comma"} /\ Parts >= 2 => p2 # NULL

\* The name is the second piece between +.
NameInv ==
  /\ pc = "plus2" => \E n \in Nat \ {0} :
       /\ At(TextOf(1), "+", n, olds) /\ TextOf(1) \in Text
       /\ Len(arg_1) = IF n < 2 THEN 1 ELSE 2
       /\ n >= 2 => arg_1[2] = Piece(TextOf(1), "+", 2)
  /\ pc \in {"comma", "comma2", "verify"} =>
       Name = NameOf(command) /\ Parts >= 2 /\ TextOf(2) \in Text

\* The arguments a are the first n pieces of t between commas.
FirstArgs(a, t, n) ==
  /\ Len(a) = IF n = 0 THEN 1 ELSE n
  /\ n = 0 => a[1] = NULL /\ Count(t, Comma) = 0
  /\ \A k \in 1..n : a[k] = Piece(t, Comma, k)
ArgsInv ==
  /\ pc = "comma2" => \E n \in Nat :
       /\ At(TextOf(2), Comma, n, olds) /\ FirstArgs(arg_2, TextOf(2), n)
       /\ n > 1 => ~IsSmsWrite
  /\ pc = "verify" => arg_2 = Stored(command)

\* The operation is the one of the command.
OperationInv ==
  /\ pc = "sim" => /\ IsCommand(command) /\ Says[command].name = <<"SIM">>
                   /\ sim = atoi(Says[command].args[1])
  /\ pc = "upg" => /\ IsCommand(command) /\ Says[command].name = <<"UPG">>
                   /\ Name = <<"UPG">> /\ arg_2 = Says[command].args /\ arg_2 # <<>>
                   /\ upg = [op |-> arg_2[1], args |-> Tail(arg_2)]
  /\ pc = "send" => done = Carries(command) /\ th_buf \in Replies(command)

AloneInv == mixed = 0 => PartsInv /\ NameInv /\ ArgsInv /\ OperationInv
IInv == TypeOK /\ TypesInv /\ WorkInv /\ QuietInv /\ AloneInv

----------------------------------------------------------------------------
(* Facts about commands.                                                   *)

LEMMA WellformedText ==
  ASSUME NEW text \in Wellformed
  PROVE  /\ text \in Texts /\ text \in Text /\ text # <<>>
         /\ text[1] # "=" /\ text[1] # "+"
         /\ Says[text].name = NameOf(text) /\ Says[text].args = ArgsOf(text)
<1>1. text \in Texts /\ cmd_verify_tok(text)
  BY DEF Wellformed
<1>2. text \in Text
  BY <1>1, TextsAssumption DEF Text
<1>3. Len(text) > 4 /\ text[1] \in {"$RTR", "$XXX"}
  BY <1>1 DEF cmd_verify_tok
<1>4. text # <<>>
  BY <1>2, <1>3
<1>5. text[1] # "=" /\ text[1] # "+"
  BY <1>3
<1>6. Says[text] = Meaning(text)
  BY DEF Says
<1> QED BY <1>1, <1>2, <1>4, <1>5, <1>6 DEF Meaning

\* A text that is no command is not obeyed.
LEMMA NoCommand ==
  ASSUME NEW text, ~IsCommand(text)
  PROVE  /\ Carries(text) = NoOperation
         /\ text \in Wellformed => Replies(text) = {Answer("invalid", Says[text].name, 0)}
         /\ text \notin Wellformed => Replies(text) = {Answer("invalid", NULL, 0)}
BY DEF Carries, Replies

\* What is accepted is one of the five commands.
LEMMA AcceptedNames ==
  ASSUME NEW name, NEW a, Accepted(name, a)
  PROVE  name \in {<<"SMS">>, <<"SIM">>, <<"RST">>, <<"STS">>, <<"UPG">>}
BY DEF Accepted

LEMMA AcceptedOf ==
  ASSUME NEW a
  PROVE  /\ Accepted(<<"SMS">>, a) = cmd_verify_sms(a)
         /\ Accepted(<<"SIM">>, a) = cmd_verify_sim(a)
         /\ Accepted(<<"RST">>, a) = cmd_verify_rst(a)
         /\ Accepted(<<"STS">>, a) = cmd_verify_sts(a)
         /\ Accepted(<<"UPG">>, a) = cmd_verify_upg(a)
BY DEF Accepted

\* No command has more arguments than there is room for.
LEMMA AtMostTwelve ==
  ASSUME NEW name, NEW a, Len(a) \in Nat, Len(a) > 12
  PROVE  ~Accepted(name, a)
<1>1. Len(a) # 1 /\ Len(a) # 2 /\ Len(a) # 3 /\ Len(a) # 6 /\ ~(Len(a) <= 12)
  <2>1. \A n \in Nat : n > 12 => n # 1 /\ n # 2 /\ n # 3 /\ n # 6 /\ ~(n <= 12)
    OBVIOUS
  <2> QED BY <2>1
<1>2. ~cmd_verify_sms(a) /\ ~cmd_verify_sim(a) /\ ~cmd_verify_rst(a) /\ ~cmd_verify_sts(a)
  BY <1>1 DEF cmd_verify_sms, cmd_verify_sim, cmd_verify_rst, cmd_verify_sts
<1>3. ~cmd_verify_upg(a)
  BY <1>1 DEF cmd_verify_upg, cmd_upg_confg, ARG2_MAX
<1> QED BY <1>2, <1>3, AcceptedNames, AcceptedOf

\* An SMS to be written has a message.
LEMMA WriteNeedsMessage ==
  ASSUME NEW a1, NEW a2, a1[1] = "W"
  PROVE  ~Accepted(<<"SMS">>, <<a1, a2>>)
<1>1. <<a1, a2>>[1] = a1 /\ Len(<<a1, a2>>) = 2
  OBVIOUS
<1>2. a1 # <<"R">> /\ a1 # <<"D">>
  OBVIOUS
<1> HIDE DEF NULL
<1>3. ~cmd_verify_sms(<<a1, a2>>)
  BY <1>1, <1>2 DEF cmd_verify_sms
<1> QED BY <1>3, AcceptedOf

----------------------------------------------------------------------------
LEMMA InitInv == Init => IInv
<1> SUFFICES ASSUME Init PROVE IInv
  OBVIOUS
<1>1. TypeOK
  BY MixedAssumption
     DEF Init, TypeOK, ARG1_MAX, ARG2_MAX, Silence, Answer, NULL, Err, ln_max
<1>2. TypesInv
  <2>1. <<>> \in Text /\ <<>> \in Seq(Text)
    BY DEF Text
  <2> QED BY <2>1 DEF Init, TypesInv, NULL
<1>3. WorkInv /\ QuietInv /\ AloneInv
  BY DEF Init, WorkInv, Working, QuietInv, AloneInv, PartsInv, NameInv, ArgsInv, OperationInv
<1> QED BY <1>1, <1>2, <1>3 DEF IInv

\* Outside the cutting and the operations there is nothing to show.
LEMMA Elsewhere ==
  ASSUME pc' \in {"start", "recv", "deaf", "dead", "equals"}
  PROVE  AloneInv'
BY DEF AloneInv, PartsInv, NameInv, ArgsInv, OperationInv

----------------------------------------------------------------------------
(* The connection.                                                         *)

LEMMA StartStep ==
  ASSUME IInv, Start
  PROVE  IInv'
<1> USE DEF Start, Goto, parts, cmdAll, cmd
<1>1. TypeOK' /\ TypesInv'
  BY DEF IInv, TypeOK, TypesInv
<1>2. WorkInv' /\ QuietInv'
  BY DEF IInv, WorkInv, Working, QuietInv
<1>3. AloneInv'
  <2>1. pc' \in {"start", "recv", "deaf", "dead", "equals"}
    OBVIOUS
  <2> QED BY <2>1, Elsewhere
<1> QED BY <1>1, <1>2, <1>3 DEF IInv

LEMMA RestartStep ==
  ASSUME IInv, Restart
  PROVE  IInv'
<1> USE DEF Restart, Goto, parts, cmdAll, cmd
<1>1. TypeOK' /\ TypesInv'
  BY DEF IInv, TypeOK, TypesInv
<1>2. WorkInv' /\ QuietInv'
  BY DEF IInv, WorkInv, Working, QuietInv
<1>3. AloneInv'
  <2>1. pc' \in {"start", "recv", "deaf", "dead", "equals"}
    OBVIOUS
  <2> QED BY <2>1, Elsewhere
<1> QED BY <1>1, <1>2, <1>3 DEF IInv

\* What the invariant is about is left alone.
LEMMA Frame ==
  ASSUME IInv,
         UNCHANGED <<pc, parts, cmdAll, th_buf, olds, command, done>>,
         UNCHANGED mixed
  PROVE  TypesInv' /\ WorkInv' /\ QuietInv' /\ AloneInv'
<1> USE DEF parts, cmdAll, cmd
<1>1. TypesInv' /\ WorkInv' /\ QuietInv'
  BY DEF IInv, TypesInv, WorkInv, QuietInv
<1>2. mixed = 0 => PartsInv' /\ OperationInv'
  BY DEF IInv, AloneInv, PartsInv, OperationInv, TextOf, Parts, Name
<1>3. mixed = 0 => NameInv'
  BY DEF IInv, AloneInv, NameInv, TextOf, Parts, Name
<1>4. mixed = 0 => ArgsInv'
  BY DEF IInv, AloneInv, ArgsInv, FirstArgs, IsSmsWrite, Name, TextOf, Stored
<1> QED BY <1>1, <1>2, <1>3, <1>4 DEF AloneInv

LEMMA DropStep ==
  ASSUME IInv, Drop
  PROVE  IInv'
<1>1. TypeOK'
  BY DEF IInv, TypeOK, Drop, parts, cmdAll, cmd
<1>2. UNCHANGED <<pc, parts, cmdAll, th_buf, olds, command, done>> /\ UNCHANGED mixed
  BY DEF Drop
<1>3. TypesInv' /\ WorkInv' /\ QuietInv' /\ AloneInv'
  BY <1>2, Frame
<1> QED BY <1>1, <1>3 DEF IInv

LEMMA SendStep ==
  ASSUME IInv, Send
  PROVE  IInv'
<1> USE DEF Send, Goto, parts, cmdAll, cmd
<1>1. TypeOK' /\ TypesInv'
  BY MixedAssumption DEF IInv, TypeOK, TypesInv, Silence, Answer
<1>2. WorkInv' /\ QuietInv'
  BY DEF IInv, WorkInv, Working, QuietInv
<1>3. AloneInv'
  <2>1. pc' \in {"start", "recv", "deaf", "dead", "equals"}
    OBVIOUS
  <2> QED BY <2>1, Elsewhere
<1> QED BY <1>1, <1>2, <1>3 DEF IInv

LEMMA ReceiveStep ==
  ASSUME IInv, NEW text \in Texts, Receive(text)
  PROVE  IInv'
<1> USE DEF Receive, Goto, Invalid, cmd_clean_all
<1>1. TypeOK'
  BY DEF IInv, TypeOK, Answer, ARG1_MAX, ARG2_MAX
<1>2. TypesInv'
  <2>1. <<>> \in Text /\ <<>> \in Seq(Text)
    BY DEF Text
  <2> QED BY <2>1 DEF IInv, TypesInv, NULL
<1>3. WorkInv' /\ QuietInv'
  BY DEF IInv, WorkInv, Working, QuietInv
<1>4. AloneInv'
  <2>1. CASE text \in Wellformed /\ pc' = "equals"
    BY <2>1, Elsewhere
  <2>2. CASE text \notin Wellformed /\ pc' = "send"
    <3>1. done' = NoOperation /\ th_buf' = Answer("invalid", NULL, 0) /\ command' = text
      BY <2>2 DEF IInv, QuietInv
    <3>2. ~IsCommand(text)
      BY <2>2 DEF IsCommand
    <3>3. done' = Carries(text) /\ th_buf' \in Replies(text)
      BY <2>2, <3>1, <3>2, NoCommand
    <3> QED BY <2>2, <3>1, <3>3 DEF AloneInv, PartsInv, NameInv, ArgsInv, OperationInv
  <2> QED BY <2>1, <2>2
<1> QED BY <1>1, <1>2, <1>3, <1>4 DEF IInv

----------------------------------------------------------------------------
(* cmd_split: the parts and the name.                                      *)

LEMMA TextToken ==
  ASSUME NEW s \in Text, NEW d
  PROVE  Token(s, d) \in Text /\ Rest(s, d) \in Text
BY TokenType DEF Text

\* AtNext for texts.
LEMMA NextToken ==
  ASSUME NEW s \in Text, NEW d, NEW n \in Nat, NEW o, At(s, d, n, o)
  PROVE  /\ Token(o, d) = <<>> => n = Count(s, d)
         /\ Token(o, d) # <<>> =>
              /\ n + 1 <= Count(s, d)
              /\ Token(o, d) = Piece(s, d, n + 1)
              /\ Rest(o, d) = After(s, d, n + 1)
              /\ At(s, d, n + 1, Rest(o, d))
BY AtNext DEF Text

LEMMA Appended ==
  ASSUME NEW W, NEW s \in Seq(W), NEW x \in W
  PROVE  /\ Append(s, x) \in Seq(W) /\ Len(Append(s, x)) = Len(s) + 1
         /\ Append(s, x)[Len(s) + 1] = x
         /\ \A i \in 1..Len(s) : Append(s, x)[i] = s[i]
OBVIOUS

LEMMA Equals1Step ==
  ASSUME IInv, Equals1
  PROVE  IInv'
<1> USE DEF Equals1, Goto
<1>1. command \in Wellformed
  BY DEF IInv, WorkInv, Working
<1>2. command \in Text /\ command # <<>> /\ command[1] # "=" /\ command[1] # "+"
  BY <1>1, WellformedText
<1>3. TypeOK'
  BY DEF IInv, TypeOK, cmdAll, cmd
<1>4. TypesInv'
  BY <1>2, TextToken DEF IInv, TypesInv, cmdAll, cmd
<1>5. WorkInv' /\ QuietInv'
  BY <1>1 DEF IInv, WorkInv, QuietInv
<1>6. AloneInv'
  <2>1. Token(command, "=") # <<>> /\ Token(command, "=")[1] = command[1]
    BY <1>2, TokenHead DEF Text
  <2>2. /\ Count(command, "=") >= 1 /\ Token(command, "=") = Piece(command, "=", 1)
        /\ At(command, "=", 1, Rest(command, "="))
    BY <1>2, <2>1, FirstPiece DEF Text
  <2>3. PartsInv'
    BY <1>2, <2>1, <2>2 DEF PartsInv, TextOf, Parts, NULL
  <2>4. NameInv' /\ ArgsInv' /\ OperationInv'
    BY DEF NameInv, ArgsInv, OperationInv
  <2> QED BY <2>3, <2>4 DEF AloneInv
<1> QED BY <1>3, <1>4, <1>5, <1>6 DEF IInv

LEMMA Equals2Step ==
  ASSUME IInv, Equals2
  PROVE  IInv'
<1> USE DEF Equals2, Goto
<1>1. command \in Wellformed
  BY DEF IInv, WorkInv, Working
<1>2. TypeOK'
  BY DEF IInv, TypeOK, cmdAll, cmd
<1>3. TypesInv'
  BY TextToken DEF IInv, TypesInv, cmdAll, cmd
<1>4. WorkInv' /\ QuietInv'
  BY <1>1 DEF IInv, WorkInv, QuietInv
<1>5. AloneInv'
  <2>1. SUFFICES ASSUME mixed = 0 PROVE PartsInv' /\ NameInv' /\ ArgsInv' /\ OperationInv'
    BY DEF AloneInv
  <2>2. /\ p1 = TextOf(1) /\ p1 # NULL /\ p1[1] # "+" /\ Parts >= 1
        /\ At(command, "=", 1, olds)
    BY <2>1 DEF IInv, AloneInv, PartsInv
  <2>3. command \in Text
    BY <1>1, WellformedText
  <2>4. /\ Token(olds, "=") = <<>> => Parts = 1
        /\ Token(olds, "=") # <<>> => Parts >= 2 /\ Token(olds, "=") = TextOf(2)
    <3>1. \A n \in Nat : At(command, "=", n, olds) =>
            /\ Token(olds, "=") = <<>> => n = Count(command, "=")
            /\ Token(olds, "=") # <<>> => /\ n + 1 <= Count(command, "=")
                                         /\ Token(olds, "=") = Piece(command, "=", n + 1)
      BY <2>3, AtNext DEF Text
    <3>2. 1 \in Nat /\ 1 + 1 = 2 /\ Count(command, "=") \in Nat
      BY <2>3, BeginsFinite DEF Text
    <3> QED BY <2>2, <3>1, <3>2 DEF Parts, TextOf
  <2>5. Parts \in Nat
    BY <2>3, BeginsFinite DEF Text, Parts
  <2>6. PartsInv'
    BY <2>2, <2>4, <2>5 DEF PartsInv, TextOf, Parts, NULL
  <2>7. NameInv' /\ ArgsInv' /\ OperationInv'
    BY DEF NameInv, ArgsInv, OperationInv
  <2> QED BY <2>6, <2>7
<1> QED BY <1>2, <1>3, <1>4, <1>5 DEF IInv

LEMMA Plus1Step ==
  ASSUME IInv, Plus1
  PROVE  IInv'
<1> USE DEF Plus1, Goto
<1>1. command \in Wellformed
  BY DEF IInv, WorkInv, Working
<1>2. Token(p1, "+") \in Text /\ Rest(p1, "+") \in Text /\ p1 \in Text
  BY TextToken DEF IInv, TypesInv
<1>3. arg_1' \in Seq(Text) /\ Len(arg_1') = 1
  BY <1>2
<1>4. TypeOK'
  BY <1>3 DEF IInv, TypeOK, parts, ARG1_MAX
<1>5. TypesInv'
  BY <1>2, <1>3 DEF IInv, TypesInv, parts
<1>6. WorkInv' /\ QuietInv'
  BY <1>1 DEF IInv, WorkInv, QuietInv
<1>7. AloneInv'
  <2>1. SUFFICES ASSUME mixed = 0 PROVE PartsInv' /\ NameInv' /\ ArgsInv' /\ OperationInv'
    BY DEF AloneInv
  <2>2. p1 = TextOf(1) /\ p1 # <<>> /\ p1[1] # "+"
    BY <2>1 DEF IInv, AloneInv, PartsInv, NULL
  <2>3. Token(p1, "+") # <<>>
    BY <1>2, <2>2, TokenHead DEF Text
  <2>4. At(p1, "+", 1, Rest(p1, "+"))
    BY <1>2, <2>3, FirstPiece DEF Text
  <2>5. PartsInv'
    BY <2>1 DEF IInv, AloneInv, PartsInv, TextOf, Parts, parts
  <2>6. NameInv'
    <3>1. /\ 1 \in Nat \ {0} /\ At(TextOf(1), "+", 1, olds') /\ TextOf(1) \in Text
          /\ Len(arg_1') = IF 1 < 2 THEN 1 ELSE 2
      BY <1>2, <1>3, <2>2, <2>4
    <3> QED BY <3>1 DEF NameInv, TextOf
  <2>7. ArgsInv' /\ OperationInv'
    BY DEF ArgsInv, OperationInv
  <2> QED BY <2>5, <2>6, <2>7
<1> QED BY <1>4, <1>5, <1>6, <1>7 DEF IInv

LEMMA Plus2Step ==
  ASSUME IInv, Plus2
  PROVE  IInv'
<1> USE DEF Plus2, Goto
<1>1. command \in Wellformed
  BY DEF IInv, WorkInv, Working
<1>2. Token(olds, "+") \in Text /\ Rest(olds, "+") \in Text
  BY TextToken DEF IInv, TypesInv
<1>3. arg_1' \in Seq(Text) /\ Len(arg_1') <= 2
  BY <1>2 DEF IInv, TypeOK, TypesInv, ARG1_MAX
<1>4. TypeOK'
  BY <1>3 DEF IInv, TypeOK, parts, ARG1_MAX
<1>5. TypesInv'
  BY <1>2, <1>3 DEF IInv, TypesInv, parts
<1>6. WorkInv' /\ QuietInv'
  BY <1>1 DEF IInv, WorkInv, QuietInv
<1>7. AloneInv'
  <2>1. SUFFICES ASSUME mixed = 0 PROVE PartsInv' /\ NameInv' /\ ArgsInv' /\ OperationInv'
    BY DEF AloneInv
  <2>2. PICK n \in Nat \ {0} :
          /\ At(TextOf(1), "+", n, olds) /\ TextOf(1) \in Text
          /\ Len(arg_1) = IF n < 2 THEN 1 ELSE 2
          /\ n >= 2 => arg_1[2] = Piece(TextOf(1), "+", 2)
    BY <2>1 DEF IInv, AloneInv, NameInv
  <2>3. At(TextOf(1), "+", n + 1, olds') /\ Token(olds, "+") = Piece(TextOf(1), "+", n + 1)
    <3>1. \A m \in Nat : At(TextOf(1), "+", m, olds) /\ Token(olds, "+") # <<>> =>
            At(TextOf(1), "+", m + 1, Rest(olds, "+")) /\ Token(olds, "+") = Piece(TextOf(1), "+", m + 1)
      <4> DEFINE t == TextOf(1)
      <4>1. t \in Text
        BY <2>2
      <4> HIDE DEF t
      <4>2. \A m \in Nat : At(t, "+", m, olds) /\ Token(olds, "+") # <<>> =>
              At(t, "+", m + 1, Rest(olds, "+")) /\ Token(olds, "+") = Piece(t, "+", m + 1)
        BY <4>1, NextToken
      <4> QED BY <4>2 DEF t
    <3>2. n \in Nat
      OBVIOUS
    <3> QED BY <2>2, <3>1, <3>2 DEF NULL
  <2>4. Len(arg_1') = 2 /\ arg_1'[2] = Piece(TextOf(1), "+", 2)
    <3>1. arg_1 \in Seq(Text)
      BY DEF IInv, TypesInv
    <3>2. CASE n = 1
      <4>1. Len(arg_1) = 1 /\ n + 1 = 2
        BY <2>2, <3>2
      <4>2. Token(olds, "+") = Piece(TextOf(1), "+", 2)
        BY <2>3, <4>1
      <4>3. arg_1' = Append(arg_1, Token(olds, "+"))
        BY <4>1 DEF ARG1_MAX
      <4>4. Len(arg_1') = 2 /\ arg_1'[1 + 1] = Token(olds, "+")
        <5> DEFINE tok == Token(olds, "+")
        <5>1. tok \in Text
          BY <1>2
        <5> HIDE DEF tok
        <5>2. Len(Append(arg_1, tok)) = Len(arg_1) + 1 /\ Append(arg_1, tok)[Len(arg_1) + 1] = tok
          BY <3>1, <5>1, Appended
        <5> QED BY <4>1, <4>3, <5>2 DEF tok
      <4> QED BY <4>2, <4>4
    <3>3. CASE n >= 2
      BY <2>2, <3>1, <3>3 DEF ARG1_MAX
    <3> QED BY <2>2, <3>2, <3>3
  <2>5. PartsInv'
    BY <2>1 DEF IInv, AloneInv, PartsInv, TextOf, Parts, parts
  <2>6. NameInv'
    <3>1. n + 1 \in Nat \ {0} /\ ~(n + 1 < 2)
      OBVIOUS
    <3>2. /\ At(TextOf(1), "+", n + 1, olds') /\ TextOf(1) \in Text
          /\ Len(arg_1') = IF n + 1 < 2 THEN 1 ELSE 2
      BY <2>2, <2>3, <2>4, <3>1
    <3> QED BY <2>4, <3>1, <3>2 DEF NameInv, TextOf
  <2>7. ArgsInv' /\ OperationInv'
    BY DEF ArgsInv, OperationInv
  <2> QED BY <2>5, <2>6, <2>7
<1> QED BY <1>4, <1>5, <1>6, <1>7 DEF IInv

\* The name that is compared is the second piece of the first part.
LEMMA NameFound ==
  ASSUME IInv, mixed = 0, pc = "plus2", Token(olds, "+") = NULL
  PROVE  Name = NameOf(command)
<1>1. PICK n \in Nat \ {0} :
        /\ At(TextOf(1), "+", n, olds) /\ TextOf(1) \in Text
        /\ Len(arg_1) = IF n < 2 THEN 1 ELSE 2
        /\ n >= 2 => arg_1[2] = Piece(TextOf(1), "+", 2)
  BY DEF IInv, AloneInv, NameInv
<1> DEFINE t == TextOf(1)
<1>2. t \in Text /\ At(t, "+", n, olds)
  BY <1>1
<1> HIDE DEF t
<1>3. n = Count(t, "+")
  BY <1>2, NextToken DEF NULL
<1>4. Len(Pieces(t, "+")) = n /\ (n >= 2 => Pieces(t, "+")[2] = Piece(t, "+", 2))
  BY <1>3 DEF Pieces
<1>5. Name = IF n < 2 THEN NULL ELSE Piece(t, "+", 2)
  BY <1>1 DEF Name, t
<1>6. NameOf(command) = IF n < 2 THEN NULL ELSE Piece(t, "+", 2)
  BY <1>4 DEF NameOf, t, TextOf
<1> QED BY <1>5, <1>6

\* Without a second part a text has no arguments and is no command.
LEMMA NoArguments ==
  ASSUME NEW text \in Wellformed, Says[text].args = <<>>
  PROVE  ~IsCommand(text)
BY DEF IsCommand

\* A sequence given by its elements.
LEMMA FromPieces ==
  ASSUME NEW t, NEW d, Count(t, d) \in Nat
  PROVE  /\ Len(Pieces(t, d)) = Count(t, d)
         /\ \A k \in 1..Count(t, d) : Pieces(t, d)[k] = Piece(t, d, k)
         /\ Count(t, d) = 0 => Pieces(t, d) = <<>>
BY DEF Pieces

LEMMA Single ==
  ASSUME NEW W, NEW x \in W
  PROVE  <<x>> \in Seq(W) /\ Len(<<x>>) = 1 /\ <<x>>[1] = x
OBVIOUS

LEMMA OneElement ==
  ASSUME NEW W, NEW a \in Seq(W), Len(a) = 1
  PROVE  a = <<a[1]>> /\ a[1] \in W
OBVIOUS

LEMMA Three ==
  ASSUME NEW W, NEW x \in W, NEW y \in W, NEW z \in W
  PROVE  /\ <<x>> \o <<y, z>> = <<x, y, z>>
         /\ <<x, y, z>> \in Seq(W) /\ Len(<<x, y, z>>) = 3
<1> DEFINE a == <<x>> \o <<y, z>>
<1>1. <<x>> \in Seq(W) /\ Len(<<x>>) = 1 /\ <<x>>[1] = x
  OBVIOUS
<1>2. <<y, z>> \in Seq(W) /\ Len(<<y, z>>) = 2 /\ <<y, z>>[1] = y /\ <<y, z>>[2] = z
  OBVIOUS
<1>3. a \in Seq(W) /\ Len(a) = 3
  BY <1>1, <1>2
<1>4. a[1] = x /\ a[2] = y /\ a[3] = z
  BY <1>1, <1>2
<1>5. <<x, y, z>> \in Seq(W) /\ Len(<<x, y, z>>) = 3
  OBVIOUS
<1>6. \A i \in 1..3 : i = 1 \/ i = 2 \/ i = 3
  OBVIOUS
<1> HIDE DEF a
<1>7. a = <<x, y, z>>
  BY <1>3, <1>4, <1>5, <1>6
<1> QED BY <1>5, <1>7 DEF a

LEMMA HeadTail ==
  ASSUME NEW W, NEW a \in Seq(W), a # <<>>
  PROVE  <<a[1]>> \o Tail(a) = a
OBVIOUS

LEMMA SamePieces ==
  ASSUME NEW W, NEW a \in Seq(W), NEW t, NEW d, Count(t, d) \in Nat, Len(a) = Count(t, d),
         \A k \in 1..Len(a) : a[k] = Piece(t, d, k)
  PROVE  Pieces(t, d) = a
<1>1. a = [k \in 1..Len(a) |-> a[k]]
  OBVIOUS
<1>2. [k \in 1..Len(a) |-> a[k]] = [k \in 1..Len(a) |-> Piece(t, d, k)]
  OBVIOUS
<1> QED BY <1>1, <1>2 DEF Pieces

\* The pieces between commas, as they are stored.
LEMMA StoredPieces ==
  ASSUME command \in Wellformed, ~(Parts < 2), NEW t, t = TextOf(2), Count(t, Comma) \in Nat,
         ~Written(NameOf(command), Pieces(t, Comma))
  PROVE  /\ Says[command].args = Pieces(t, Comma)
         /\ Count(t, Comma) # 0 => Stored(command) = Pieces(t, Comma) /\ Says[command].args # <<>>
         /\ Count(t, Comma) = 0 => Stored(command) = <<NULL>> /\ Says[command].args = <<>>
<1> DEFINE a == Pieces(t, Comma)
<1>1. Says[command].args = a
  BY WellformedText DEF ArgsOf, TextOf, Parts
<1>2. Len(a) = Count(t, Comma) /\ (Count(t, Comma) = 0 => a = <<>>)
  BY FromPieces
<1> HIDE DEF a
<1>3. Len(<<>>) = 0
  OBVIOUS
<1> QED BY <1>1, <1>2, <1>3 DEF Stored, a

LEMMA PlusDoneStep ==
  ASSUME IInv, PlusDone
  PROVE  IInv'
<1> USE DEF PlusDone, Goto, Invalid
<1>1. command \in Wellformed
  BY DEF IInv, WorkInv, Working
<1>2. TypeOK'
  <2>1. Len(arg_2') <= 12
    <3>1. Len(arg_2) <= 12
      BY DEF IInv, TypeOK, ARG2_MAX
    <3>2. Len(<<p2>>) = 1
      OBVIOUS
    <3>3. arg_2' = arg_2 \/ arg_2' = <<p2>>
      BY Zenon
    <3>4. 1 <= 12
      OBVIOUS
    <3> HIDE DEF PlusDone
    <3> QED BY <3>1, <3>2, <3>3, <3>4
  <2>2. pc' \in {"send", "comma", "verify"} /\ th_buf'.kind \in {th_buf.kind, "invalid"}
    BY DEF Answer
  <2> QED BY <2>1, <2>2 DEF IInv, TypeOK, ARG2_MAX
<1>3. TypesInv'
  <2>1. <<>> \in Text
    BY DEF Text
  <2>2. p2 \in Text => <<p2>> \in Seq(Text)
    BY Single
  <2> QED BY <2>1, <2>2 DEF IInv, TypesInv, NULL
<1>4. WorkInv' /\ QuietInv'
  BY <1>1 DEF IInv, WorkInv, QuietInv
<1>5. AloneInv'
  <2>1. SUFFICES ASSUME mixed = 0 PROVE PartsInv' /\ NameInv' /\ ArgsInv' /\ OperationInv'
    BY DEF AloneInv
  <2>2. Name = NameOf(command)
    BY <2>1, NameFound
  <2>3. /\ p2 = IF Parts < 2 THEN NULL ELSE TextOf(2)
        /\ Parts >= 2 => p2 # NULL
        /\ Parts \in Nat /\ p2 \in Text
    <3>1. Parts \in Nat
      BY <1>1, WellformedText, BeginsFinite DEF Parts, Text
    <3> QED BY <2>1, <3>1 DEF IInv, AloneInv, PartsInv, TypesInv
  <2>4. CASE p2 = NULL
    <3>1. Parts < 2
      BY <2>3, <2>4
    <3>2. Says[command].args = <<>> /\ Says[command].name = Name
      BY <1>1, <2>2, <3>1, WellformedText DEF ArgsOf, Parts
    <3>3. ~IsCommand(command)
      BY <1>1, <3>2, NoArguments
    <3>4. done' = NoOperation /\ th_buf' = Answer("invalid", Name, 0) /\ pc' = "send"
      BY <2>4 DEF IInv, QuietInv
    <3>5. done' = Carries(command) /\ th_buf' \in Replies(command)
      BY <1>1, <3>2, <3>3, <3>4, NoCommand
    <3> QED BY <3>4, <3>5 DEF PartsInv, NameInv, ArgsInv, OperationInv
  <2>5. CASE p2 # NULL /\ HasComma(p2)
    <3>1. Parts >= 2 /\ TextOf(2) = p2
      BY <2>3, <2>5
    <3>2. pc' = "comma" /\ UNCHANGED <<arg_1, command, p2>>
      BY <2>5
    <3>3. PartsInv'
      BY <2>3, <2>5, <3>1, <3>2 DEF PartsInv, TextOf, Parts
    <3>4. NameInv'
      BY <2>2, <2>3, <3>1, <3>2 DEF NameInv, TextOf, Parts, Name
    <3> QED BY <3>2, <3>3, <3>4 DEF ArgsInv, OperationInv
  <2>6. CASE p2 # NULL /\ ~HasComma(p2)
    <3>1. Parts >= 2 /\ TextOf(2) = p2
      BY <2>3, <2>6
    <3>2. pc' = "verify" /\ UNCHANGED <<arg_1, command>> /\ arg_2' = <<p2>>
      BY <2>6
    <3>3. PartsInv' /\ OperationInv'
      BY <3>2 DEF PartsInv, OperationInv
    <3>4. NameInv'
      BY <2>2, <2>3, <3>1, <3>2 DEF NameInv, TextOf, Parts, Name
    <3>5. Count(p2, Comma) = 1 /\ Piece(p2, Comma, 1) = p2
      <4>1. Find(p2, Comma, 1) > Len(p2)
        <5> HIDE DEF PlusDone
        <5>1. 1 \in 1..Len(p2) + 1 /\ Len(p2) \in Int
          BY <2>3 DEF Text
        <5> DEFINE f == Find(p2, Comma, 1)
        <5>2. IsFind(p2, Comma, 1, f)
          BY <2>3, <5>1, FindSpec DEF Text
        <5> HIDE DEF f
        <5>a. f \in 1..Len(p2) + 1
          BY <5>2 DEF IsFind
        <5>3. f \in Int
          BY <5>a
        <5>4. ~(f <= Len(p2))
          BY <2>6 DEF HasComma, f
        <5>5. f > Len(p2)
          BY <5>1, <5>3, <5>4
        <5> QED BY <5>5 DEF f
      <4> QED BY <2>3, <2>6, <4>1, Whole DEF Text, NULL
    <3>6. Pieces(p2, Comma) = <<p2>>
      <4>1. <<p2>> \in Seq(Text) /\ Len(<<p2>>) = 1 /\ <<p2>>[1] = p2
        BY <2>3, Single
      <4>2. \A k \in 1..1 : k = 1
        OBVIOUS
      <4>3. \A k \in 1..Len(<<p2>>) : <<p2>>[k] = Piece(p2, Comma, k)
        BY <3>5, <4>1, <4>2
      <4>4. 1 \in Nat
        OBVIOUS
      <4> QED BY <3>5, <4>1, <4>3, <4>4, SamePieces
    <3>7. ~Written(NameOf(command), Pieces(p2, Comma))
      <4>1. Len(<<p2>>) = 1 /\ ~(1 > 1)
        OBVIOUS
      <4> QED BY <3>6, <4>1 DEF Written
    <3>8. 1 \in Nat /\ 1 # 0 /\ ~(Parts < 2)
      BY <2>3, <3>1
    <3>9. Stored(command) = <<p2>>
      BY <1>1, <3>1, <3>5, <3>6, <3>7, <3>8, StoredPieces
    <3>10. ArgsInv'
      BY <3>2, <3>9 DEF ArgsInv, Stored
    <3> QED BY <3>3, <3>4, <3>10
  <2> QED BY <2>4, <2>5, <2>6
<1> QED BY <1>2, <1>3, <1>4, <1>5 DEF IInv

LEMMA Comma1Step ==
  ASSUME IInv, Comma1
  PROVE  IInv'
<1>0. /\ pc = "comma" /\ pc' = "comma2" /\ olds' = Rest(p2, Comma) /\ p2' = NULL
      /\ UNCHANGED <<p1, arg_1, upg, sim, cmd_ex_sts, th_buf, conn, sts, command, mixed, done>>
  BY DEF Comma1, Goto
<1>a. arg_2' = <<Token(p2, Comma)>>
  BY DEF Comma1
<1>1. command \in Wellformed
  BY <1>0 DEF IInv, WorkInv, Working
<1>2. Token(p2, Comma) \in Text /\ Rest(p2, Comma) \in Text /\ p2 \in Text
  BY TextToken DEF IInv, TypesInv
<1>3. arg_2' \in Seq(Text) /\ Len(arg_2') = 1 /\ arg_2'[1] = Token(p2, Comma)
  BY <1>2, <1>a, Single
<1>4. TypeOK'
  <2>0. 1 <= 12
    OBVIOUS
  <2>1. Len(arg_2') <= 12
    BY <1>3, <2>0
  <2> QED BY <1>0, <2>1 DEF IInv, TypeOK, ARG2_MAX
<1>5. TypesInv'
  <2>1. <<>> \in Text
    BY DEF Text
  <2> QED BY <1>0, <1>2, <1>3, <2>1 DEF IInv, TypesInv, NULL
<1>6. WorkInv' /\ QuietInv'
  BY <1>0, <1>1 DEF IInv, WorkInv, QuietInv
<1>7. AloneInv'
  <2>1. SUFFICES ASSUME mixed = 0 PROVE PartsInv' /\ NameInv' /\ ArgsInv' /\ OperationInv'
    BY <1>0 DEF AloneInv
  <2>2. Name = NameOf(command) /\ Parts >= 2 /\ TextOf(2) \in Text
    BY <1>0, <2>1 DEF IInv, AloneInv, NameInv
  <2>3. p2 = TextOf(2)
    <3>1. Parts \in Nat
      BY <1>1, WellformedText, BeginsFinite DEF Parts, Text
    <3> QED BY <1>0, <2>1, <2>2, <3>1 DEF IInv, AloneInv, PartsInv
  <2>4. PartsInv' /\ OperationInv'
    BY <1>0 DEF PartsInv, OperationInv
  <2>5. NameInv'
    BY <1>0, <2>2 DEF NameInv, TextOf, Parts, Name
  <2>6. /\ Token(p2, Comma) = <<>> => Count(p2, Comma) = 0 /\ At(p2, Comma, 0, olds')
        /\ Token(p2, Comma) # <<>> => Token(p2, Comma) = Piece(p2, Comma, 1) /\ At(p2, Comma, 1, olds')
    BY <1>0, <1>2, FirstPiece DEF Text
  <2>7. TextOf(2)' = p2
    BY <1>0, <2>3 DEF TextOf
  <2>8. \E n \in Nat : At(p2, Comma, n, olds') /\ FirstArgs(arg_2', p2, n) /\ ~(n > 1)
    <3>1. CASE Token(p2, Comma) = <<>>
      <4>1. FirstArgs(arg_2', p2, 0)
        <5>1. \A k \in 1..0 : FALSE
          OBVIOUS
        <5> QED BY <1>3, <2>6, <3>1, <5>1 DEF FirstArgs, NULL
      <4>2. 0 \in Nat /\ ~(0 > 1)
        OBVIOUS
      <4> QED BY <2>6, <3>1, <4>1, <4>2
    <3>2. CASE Token(p2, Comma) # <<>>
      <4>1. FirstArgs(arg_2', p2, 1)
        <5>1. \A k \in 1..1 : k = 1
          OBVIOUS
        <5>2. \A k \in 1..1 : arg_2'[k] = Piece(p2, Comma, k)
          BY <1>3, <2>6, <3>2, <5>1
        <5>3. 1 # 0
          OBVIOUS
        <5> QED BY <1>3, <5>2, <5>3 DEF FirstArgs
      <4>2. 1 \in Nat /\ ~(1 > 1)
        OBVIOUS
      <4> QED BY <2>6, <3>2, <4>1, <4>2
    <3> QED BY <3>1, <3>2
  <2>9. ArgsInv'
    BY <1>0, <2>7, <2>8 DEF ArgsInv
  <2> QED BY <2>4, <2>5, <2>9
<1> QED BY <1>4, <1>5, <1>6, <1>7 DEF IInv

\* What is known while the arguments are cut, of the text t they are cut from,
\* in which there are c of them.
Cutting(t, n, c) ==
  /\ t = TextOf(2) /\ t \in Text /\ c = Count(t, Comma)
  /\ At(t, Comma, n, olds) /\ FirstArgs(arg_2, t, n) /\ (n > 1 => ~IsSmsWrite)
  /\ Name = NameOf(command) /\ ~(Parts < 2)
  /\ command \in Wellformed /\ arg_2 \in Seq(Text)

LEMMA CuttingFacts ==
  ASSUME IInv, mixed = 0, pc = "comma2"
  PROVE  \E t : \E n, c \in Nat : Cutting(t, n, c)
<1>1. command \in Wellformed
  BY DEF IInv, WorkInv, Working
<1>2. Name = NameOf(command) /\ Parts >= 2 /\ TextOf(2) \in Text
  BY DEF IInv, AloneInv, NameInv
<1>3. PICK n \in Nat : /\ At(TextOf(2), Comma, n, olds) /\ FirstArgs(arg_2, TextOf(2), n)
                       /\ n > 1 => ~IsSmsWrite
  BY DEF IInv, AloneInv, ArgsInv
<1>4. ~(Parts < 2)
  <2>1. Parts \in Nat
    BY <1>1, WellformedText, BeginsFinite DEF Parts, Text
  <2> QED BY <1>2, <2>1
<1>5. arg_2 \in Seq(Text)
  BY DEF IInv, TypesInv
<1> DEFINE t == TextOf(2)
<1>7. t = TextOf(2) /\ t \in Text /\ At(t, Comma, n, olds) /\ FirstArgs(arg_2, t, n)
  BY <1>2, <1>3
<1> HIDE DEF t
<1>8. PICK c \in Nat : c = Count(t, Comma)
  BY <1>7, BeginsFinite DEF Text
<1>9. Cutting(t, n, c)
  BY <1>1, <1>2, <1>3, <1>4, <1>5, <1>7, <1>8 DEF Cutting
<1> QED BY <1>9

\* What strtok() returns now.
LEMMA CuttingNext ==
  ASSUME NEW t, NEW n \in Nat, NEW c \in Nat, Cutting(t, n, c)
  PROVE  /\ Token(olds, Comma) = <<>> => n = c
         /\ Token(olds, Comma) # <<>> =>
              /\ n + 1 <= c /\ n # 0 /\ Len(arg_2) = n
              /\ Token(olds, Comma) = Piece(t, Comma, n + 1)
              /\ Rest(olds, Comma) = After(t, Comma, n + 1)
              /\ At(t, Comma, n + 1, Rest(olds, Comma))
<1>1. t \in Text /\ At(t, Comma, n, olds)
  BY DEF Cutting
<1>0. c = Count(t, Comma)
  BY DEF Cutting
<1>2. \A m \in Nat : At(t, Comma, m, olds) =>
         /\ Token(olds, Comma) = <<>> => m = Count(t, Comma)
         /\ Token(olds, Comma) # <<>> =>
              /\ m + 1 <= Count(t, Comma)
              /\ Token(olds, Comma) = Piece(t, Comma, m + 1)
              /\ Rest(olds, Comma) = After(t, Comma, m + 1)
              /\ At(t, Comma, m + 1, Rest(olds, Comma))
  BY <1>1, NextToken
<1>3. n + 1 <= c => n # 0 /\ Len(arg_2) = n
  <2>1. Len(arg_2) = (IF n = 0 THEN 1 ELSE n) /\ (n = 0 => c = 0)
    BY DEF Cutting, FirstArgs
  <2> QED BY <2>1
<1> QED BY <1>0, <1>1, <1>2, <1>3

\* The text holds an SMS to be written only if that has been seen.
LEMMA NotWritten ==
  ASSUME NEW t, NEW n \in Nat, NEW c \in Nat, Cutting(t, n, c), n > 1 \/ n = c, n <= c
  PROVE  ~Written(NameOf(command), Pieces(t, Comma))
<1> DEFINE a == Pieces(t, Comma)
<1>0. c = Count(t, Comma)
  BY DEF Cutting
<1>1. (n > 1 => ~IsSmsWrite) /\ Name = NameOf(command)
  BY DEF Cutting
<1>2. Len(a) = c /\ \A k \in 1..c : a[k] = Piece(t, Comma, k)
  BY <1>0, FromPieces
<1>3. \A k \in 1..n : arg_2[k] = Piece(t, Comma, k)
  BY DEF Cutting, FirstArgs
<1> HIDE DEF a
<1>4. CASE n > 1
  <2>1. 1 \in 1..n /\ 1 \in 1..c
    BY <1>1, <1>4
  <2>2. a[1] = arg_2[1]
    <3>1. \A k : k \in 1..n /\ k \in 1..c => a[k] = arg_2[k]
      BY <1>2, <1>3
    <3> QED BY <2>1, <3>1
  <2>3. ~(Name = <<"SMS">> /\ arg_2[1][1] = "W")
    BY <1>1, <1>4 DEF IsSmsWrite
  <2> QED BY <1>1, <2>2, <2>3 DEF Written, a
<1>5. CASE ~(n > 1)
  BY <1>1, <1>2, <1>5 DEF Written, a
<1> QED BY <1>4, <1>5

\* All arguments have been stored.
LEMMA AllStored ==
  ASSUME NEW t, NEW n \in Nat, NEW c \in Nat, Cutting(t, n, c), Token(olds, Comma) = <<>>
  PROVE  arg_2 = Stored(command)
<1>0. c = Count(t, Comma)
  BY DEF Cutting
<1>1. n = c
  BY CuttingNext
<1>a. n <= c
  BY <1>1
<1>2. ~Written(NameOf(command), Pieces(t, Comma))
  BY <1>1, <1>a, NotWritten
<1>3. /\ c # 0 => Stored(command) = Pieces(t, Comma)
      /\ c = 0 => Stored(command) = <<NULL>>
  BY <1>0, <1>2, StoredPieces DEF Cutting
<1>4. FirstArgs(arg_2, t, n) /\ arg_2 \in Seq(Text)
  BY DEF Cutting
<1>5. CASE n = 0
  <2>1. Len(arg_2) = 1 /\ arg_2[1] = NULL
    BY <1>4, <1>5 DEF FirstArgs
  <2>2. arg_2 = <<NULL>>
    BY <1>4, <2>1, OneElement
  <2> QED BY <1>1, <1>3, <1>5, <2>2
<1>6. CASE n # 0
  <2>1. Len(arg_2) = n /\ \A k \in 1..n : arg_2[k] = Piece(t, Comma, k)
    BY <1>4, <1>6 DEF FirstArgs
  <2>2. Pieces(t, Comma) = arg_2
    <3>1. Len(arg_2) = Count(t, Comma) /\ Count(t, Comma) \in Nat
      BY <1>0, <1>1, <2>1
    <3>2. \A k \in 1..Len(arg_2) : arg_2[k] = Piece(t, Comma, k)
      BY <2>1
    <3> QED BY <1>4, <3>1, <3>2, SamePieces
  <2> QED BY <1>1, <1>3, <1>6, <2>2
<1> QED BY <1>5, <1>6

\* There are more than twelve arguments.
LEMMA TooMany ==
  ASSUME NEW t, NEW n \in Nat, NEW c \in Nat, Cutting(t, n, c), Token(olds, Comma) # <<>>, Len(arg_2) = 12
  PROVE  ~IsCommand(command) /\ Says[command].name = Name
<1>0. c = Count(t, Comma)
  BY DEF Cutting
<1>1. n = 12 /\ n + 1 <= c
  BY CuttingNext
<1>2. n > 1 /\ n <= c /\ c > 12
  BY <1>1
<1>3. ~Written(NameOf(command), Pieces(t, Comma))
  BY <1>2, NotWritten
<1>4. Says[command].args = Pieces(t, Comma)
  BY <1>0, <1>3, StoredPieces DEF Cutting
<1>5. Len(Pieces(t, Comma)) = c
  BY <1>0, FromPieces
<1> DEFINE a == Pieces(t, Comma)
<1>6. Len(a) \in Nat /\ Len(a) > 12 /\ Says[command].args = a
  BY <1>2, <1>4, <1>5
<1> HIDE DEF a
<1>7. ~Accepted(Says[command].name, a)
  BY <1>6, AtMostTwelve
<1>8. Says[command].name = Name
  BY WellformedText DEF Cutting
<1> QED BY <1>6, <1>7, <1>8 DEF IsCommand

\* One more argument is stored.
LEMMA OneMore ==
  ASSUME NEW t, NEW n \in Nat, NEW c \in Nat, Cutting(t, n, c), Token(olds, Comma) # <<>>, Token(olds, Comma) \in Text,
         Len(arg_2) = 1 => ~IsSmsWrite,
         arg_2' = Append(arg_2, Token(olds, Comma)), arg_1' = arg_1
  PROVE  FirstArgs(arg_2', t, n + 1) /\ ~IsSmsWrite'
<1> DEFINE tok == Token(olds, Comma)
<1>1. n # 0 /\ Len(arg_2) = n /\ tok \in Text
  BY CuttingNext
<1>0. tok = Piece(t, Comma, n + 1) /\ arg_2 \in Seq(Text)
  BY CuttingNext DEF Cutting
<1>2. arg_2' = Append(arg_2, tok)
  OBVIOUS
<1>3. \A k \in 1..n : arg_2[k] = Piece(t, Comma, k)
  BY DEF Cutting, FirstArgs
<1> HIDE DEF tok
<1>4. /\ Len(arg_2') = Len(arg_2) + 1 /\ arg_2'[Len(arg_2) + 1] = tok
      /\ \A i \in 1..Len(arg_2) : arg_2'[i] = arg_2[i]
  BY <1>0, <1>1, <1>2, Appended
<1>5. Len(arg_2') = n + 1 /\ arg_2'[n + 1] = tok /\ \A i \in 1..n : arg_2'[i] = arg_2[i]
  BY <1>1, <1>4
<1>6. FirstArgs(arg_2', t, n + 1)
  <2>1. n + 1 # 0 /\ \A k \in 1..n + 1 : k \in 1..n \/ k = n + 1
    BY <1>1
  <2>2. \A k \in 1..n + 1 : arg_2'[k] = Piece(t, Comma, k)
    BY <1>0, <1>3, <1>5, <2>1
  <2> QED BY <1>5, <2>1, <2>2 DEF FirstArgs
<1>7. ~IsSmsWrite
  <2>1. n > 1 => ~IsSmsWrite
    BY DEF Cutting
  <2> QED BY <1>1, <2>1
<1>8. arg_2'[1] = arg_2[1]
  <2>1. 1 \in 1..n
    BY <1>1
  <2> QED BY <1>5, <2>1
<1> QED BY <1>6, <1>7, <1>8 DEF IsSmsWrite, Name

\* All that follows the number of an SMS is the message.
LEMMA Message ==
  ASSUME NEW t, NEW n \in Nat, NEW c \in Nat, Cutting(t, n, c), Token(olds, Comma) # <<>>, Len(arg_2) = 1, IsSmsWrite
  PROVE  LET tok == Token(olds, Comma)
             rest == Rest(olds, Comma)
         IN  /\ Says[command].name = Name /\ Name = <<"SMS">> /\ arg_2[1][1] = "W"
             /\ Says[command].args = IF rest = NULL THEN <<arg_2[1], tok>>
                                                    ELSE <<arg_2[1], tok, rest>>
<1> DEFINE a == Pieces(t, Comma)
<1>0. c = Count(t, Comma)
  BY DEF Cutting
<1>1. n = 1 /\ n + 1 <= c
  BY CuttingNext
<1>a. Token(olds, Comma) = Piece(t, Comma, n + 1) /\ Rest(olds, Comma) = After(t, Comma, n + 1)
  BY CuttingNext
<1>2. n + 1 = 2 /\ 1 \in 1..c /\ 2 \in 1..c /\ c > 1
  BY <1>1
<1>3. Token(olds, Comma) = Piece(t, Comma, 2) /\ Rest(olds, Comma) = After(t, Comma, 2)
  BY <1>a, <1>2
<1>4. Len(a) = c /\ a[1] = Piece(t, Comma, 1) /\ a[2] = Piece(t, Comma, 2)
  <2>1. Len(a) = c /\ \A k \in 1..c : a[k] = Piece(t, Comma, k)
    BY <1>0, FromPieces
  <2> HIDE DEF a
  <2> QED BY <1>2, <2>1
<1>5. arg_2[1] = Piece(t, Comma, 1)
  <2>1. \A k \in 1..n : arg_2[k] = Piece(t, Comma, k)
    BY DEF Cutting, FirstArgs
  <2>2. 1 \in 1..n
    BY <1>1
  <2> QED BY <2>1, <2>2
<1>6. /\ Name = NameOf(command) /\ ~(Parts < 2) /\ command \in Wellformed /\ t = TextOf(2)
      /\ Name = <<"SMS">> /\ arg_2[1][1] = "W"
  BY DEF Cutting, IsSmsWrite
<1>7. Written(NameOf(command), a)
  <2> HIDE DEF a
  <2> QED BY <1>2, <1>4, <1>5, <1>6 DEF Written
<1>8. Says[command].name = Name /\ Says[command].args = ArgsOf(command)
  BY <1>6, WellformedText
<1>9. ArgsOf(command) = IF After(t, Comma, 2) = NULL THEN <<a[1], a[2]>>
                                                  ELSE <<a[1], a[2], After(t, Comma, 2)>>
  BY <1>6, <1>7 DEF ArgsOf, TextOf, Parts
<1> HIDE DEF a
<1> QED BY <1>3, <1>4, <1>5, <1>6, <1>8, <1>9

\* A command that is refused: nothing is done and it is refused by its name.
LEMMA Refused ==
  ASSUME IInv, command \in Wellformed, ~IsCommand(command), Says[command].name = Name,
         pc \notin {"send", "dead"}, pc' = "send", th_buf' = Answer("invalid", Name, 0),
         UNCHANGED <<command, done>>
  PROVE  AloneInv'
<1>1. done = NoOperation
  BY DEF IInv, QuietInv
<1>2. done = Carries(command) /\ Answer("invalid", Name, 0) \in Replies(command)
  BY <1>1, NoCommand
<1> QED BY <1>2 DEF AloneInv, PartsInv, NameInv, ArgsInv, OperationInv

LEMMA Comma2Alone ==
  ASSUME IInv, Comma2, mixed = 0
  PROVE  AloneInv'
<1> DEFINE tok == Token(olds, Comma)
           rest == Rest(olds, Comma)
<1>0. /\ pc = "comma2" /\ olds' = rest
      /\ UNCHANGED <<parts, arg_1, upg, sim, cmd_ex_sts, conn, sts, command, mixed, done>>
  BY DEF Comma2
<1>1. PICK t : \E n, c \in Nat : Cutting(t, n, c)
  BY <1>0, CuttingFacts
<1>2. PICK n \in Nat, c \in Nat : Cutting(t, n, c)
  BY <1>1
<1>3. command \in Wellformed /\ t = TextOf(2) /\ Name = NameOf(command) /\ ~(Parts < 2) /\ t \in Text
  BY <1>2 DEF Cutting
<1>4. tok \in Text
  BY TextToken DEF IInv, TypesInv
<1>5. Name' = Name /\ TextOf(2)' = TextOf(2) /\ Parts' = Parts
  BY <1>0 DEF Name, TextOf, Parts
<1>6. Parts >= 2
  <2>1. Parts \in Nat
    BY <1>3, WellformedText, BeginsFinite DEF Parts, Text
  <2> QED BY <1>3, <2>1
<1>7. pc' \in {"comma2", "verify"} => PartsInv' /\ NameInv' /\ OperationInv'
  <2> HIDE DEF tok, rest
  <2>1. pc' \in {"comma2", "verify"} => PartsInv' /\ OperationInv'
    BY DEF PartsInv, OperationInv
  <2>2. NameOf(command)' = NameOf(command)
    BY <1>0 DEF NameOf
  <2>3. pc' \in {"comma2", "verify"} => NameInv'
    BY <1>3, <1>5, <1>6, <2>2 DEF NameInv
  <2> QED BY <2>1, <2>3
<1>8. CASE tok = NULL /\ pc' = "verify" /\ UNCHANGED <<arg_2, th_buf>>
  <2>1. arg_2 = Stored(command)
    BY <1>2, <1>8, AllStored DEF NULL
  <2>2. ArgsInv'
    BY <1>0, <1>8, <2>1 DEF ArgsInv, Stored
  <2> QED BY <1>7, <1>8, <2>2 DEF AloneInv
<1>9. CASE pc' = "dead"
  BY <1>9, Elsewhere
<1>10. CASE tok # NULL /\ Len(arg_2) = ARG2_MAX /\ pc' = "send" /\ th_buf' = Answer("invalid", Name, 0)
  <2>1. ~IsCommand(command) /\ Says[command].name = Name
    BY <1>2, <1>10, TooMany DEF NULL, ARG2_MAX
  <2> QED BY <1>0, <1>3, <1>10, <2>1, Refused
<1>11. CASE /\ tok # NULL /\ (Len(arg_2) = 1 => Name # NULL /\ ~IsSmsWrite)
            /\ arg_2' = Append(arg_2, tok) /\ pc' = pc
  <2>1. FirstArgs(arg_2', t, n + 1) /\ ~IsSmsWrite'
    BY <1>0, <1>2, <1>4, <1>11, OneMore DEF NULL
  <2>2. At(t, Comma, n + 1, olds')
    BY <1>0, <1>2, <1>11, CuttingNext DEF NULL
  <2>3. n + 1 \in Nat
    OBVIOUS
  <2>4. ArgsInv'
    BY <1>0, <1>3, <1>5, <1>11, <2>1, <2>2, <2>3 DEF ArgsInv
  <2> QED BY <1>0, <1>7, <1>11, <2>4 DEF AloneInv
<1>12. CASE /\ tok # NULL /\ Len(arg_2) = 1 /\ IsSmsWrite
            /\ rest # NULL /\ arg_2' = arg_2 \o <<tok, rest>> /\ pc' = "verify"
  <2>1. Says[command].args = <<arg_2[1], tok, rest>>
    BY <1>2, <1>12, Message DEF NULL
  <2>2. Stored(command) = <<arg_2[1], tok, rest>>
    BY <2>1 DEF Stored
  <2>3. arg_2' = <<arg_2[1], tok, rest>>
    <3>1. arg_2 \in Seq(Text) /\ Len(arg_2) = 1
      BY <1>12 DEF IInv, TypesInv
    <3>2. arg_2 = <<arg_2[1]>>
      BY <3>1, OneElement
    <3>3. <<arg_2[1]>> \o <<tok, rest>> = <<arg_2[1], tok, rest>>
      <4>1. tok \in Text /\ rest \in Text
        BY TextToken DEF IInv, TypesInv
      <4>2. arg_2[1] \in Text
        BY <3>1, OneElement
      <4> QED BY <4>1, <4>2, Three
    <3> QED BY <1>12, <3>2, <3>3
  <2>4. ArgsInv'
    BY <1>0, <1>12, <2>2, <2>3 DEF ArgsInv, Stored
  <2> QED BY <1>7, <1>12, <2>4 DEF AloneInv
<1>13. CASE /\ tok # NULL /\ Len(arg_2) = 1 /\ IsSmsWrite
            /\ rest = NULL /\ pc' = "send" /\ th_buf' = Answer("invalid", Name, 0)
  <2>1. /\ Says[command].name = Name /\ Name = <<"SMS">> /\ arg_2[1][1] = "W"
        /\ Says[command].args = <<arg_2[1], tok>>
    BY <1>2, <1>13, Message DEF NULL
  <2>2. ~Accepted(<<"SMS">>, <<arg_2[1], tok>>)
    BY <2>1, WriteNeedsMessage
  <2>3. ~IsCommand(command)
    BY <2>1, <2>2 DEF IsCommand
  <2> QED BY <1>0, <1>3, <1>13, <2>1, <2>3, Refused
<1> QED BY <1>8, <1>9, <1>10, <1>11, <1>12, <1>13 DEF Comma2, Goto, Invalid

LEMMA Comma2Step ==
  ASSUME IInv, Comma2
  PROVE  IInv'
<1> DEFINE tok == Token(olds, Comma)
           rest == Rest(olds, Comma)
<1>0. /\ pc = "comma2" /\ olds' = rest /\ pc' \in {"comma2", "verify", "dead", "send"}
      /\ th_buf' \in {th_buf, Answer("invalid", Name, 0)}
      /\ pc' \notin {"send", "dead"} => th_buf' = th_buf
      /\ UNCHANGED <<parts, arg_1, upg, sim, cmd_ex_sts, conn, sts, command, mixed, done>>
  BY DEF Comma2, Goto, Invalid
<1>1. tok \in Text /\ rest \in Text
  BY TextToken DEF IInv, TypesInv
<1>2. arg_2 \in Seq(Text) /\ Len(arg_2) <= 12
  BY DEF IInv, TypeOK, TypesInv, ARG2_MAX
<1>3. \/ arg_2' = arg_2
      \/ arg_2' = Append(arg_2, tok) /\ (Len(arg_2) < 12 \/ Len(arg_2) = 1)
      \/ arg_2' = arg_2 \o <<tok, rest>> /\ Len(arg_2) = 1
  BY DEF Comma2, ARG2_MAX
<1>4. arg_2' \in Seq(Text) /\ Len(arg_2') <= 12
  <2> HIDE DEF tok, rest
  <2>1. CASE arg_2' = arg_2
    BY <1>2, <2>1
  <2>2. CASE arg_2' = Append(arg_2, tok) /\ (Len(arg_2) < 12 \/ Len(arg_2) = 1)
    <3>1. Append(arg_2, tok) \in Seq(Text) /\ Len(Append(arg_2, tok)) = Len(arg_2) + 1
      BY <1>1, <1>2, Appended
    <3>2. PICK n \in Nat : n = Len(arg_2)
      BY <1>2
    <3>3. Len(arg_2) + 1 <= 12
      <4>1. n < 12 \/ n = 1
        BY <2>2, <3>2
      <4>2. n + 1 <= 12
        BY <4>1
      <4> QED BY <3>2, <4>2
    <3> QED BY <2>2, <3>1, <3>3
  <2>3. CASE arg_2' = arg_2 \o <<tok, rest>> /\ Len(arg_2) = 1
    <3>1. arg_2 = <<arg_2[1]>> /\ arg_2[1] \in Text
      BY <1>2, <2>3, OneElement
    <3>2. /\ <<arg_2[1]>> \o <<tok, rest>> \in Seq(Text)
          /\ Len(<<arg_2[1]>> \o <<tok, rest>>) = 3
      BY <1>1, <3>1, Three
    <3>3. 3 <= 12
      OBVIOUS
    <3> QED BY <2>3, <3>1, <3>2, <3>3
  <2> QED BY <1>3, <2>1, <2>2, <2>3
<1>5. TypeOK'
  <2>1. th_buf'.kind \in {th_buf.kind, "invalid"}
    BY <1>0 DEF Answer
  <2> HIDE DEF tok, rest
  <2> QED BY <1>0, <1>4, <2>1 DEF IInv, TypeOK, parts, ARG2_MAX
<1>6. TypesInv'
  BY <1>0, <1>1, <1>4 DEF IInv, TypesInv, parts
<1>7. WorkInv' /\ QuietInv'
  <2> HIDE DEF tok, rest
  <2> QED BY <1>0 DEF IInv, WorkInv, Working, QuietInv
<1>8. AloneInv'
  BY <1>0, Comma2Alone DEF AloneInv
<1> QED BY <1>5, <1>6, <1>7, <1>8 DEF IInv

----------------------------------------------------------------------------
(* The operations.                                                         *)

\* What each of the commands asks for, and how it is answered.
LEMMA Asked ==
  ASSUME NEW text, IsCommand(text)
  PROVE  LET name == Says[text].name
             a == Says[text].args
         IN  /\ name = <<"SIM">> =>
                  /\ Carries(text) = Operation("sim", <<atoi(a[1])>>)
                  /\ Replies(text) = {Answer("sim", NULL, v) : v \in {Err, 1, 2}}
             /\ name = <<"RST">> =>
                  Carries(text) = Operation("rst", <<>>) /\ Replies(text) = {Silence}
             /\ name = <<"UPG">> /\ a[1] \in {<<"I">>, <<"C">>} =>
                  /\ Carries(text) = Operation("upg", a)
                  /\ Replies(text) = {Answer("upg", name, v) : v \in {0, 1}}
             /\ name = <<"UPG">> /\ a[1] \notin {<<"I">>, <<"C">>} =>
                  /\ Carries(text) = NoOperation
                  /\ Replies(text) = {Answer("upg", name, 0)}
             /\ name \in {<<"SMS">>, <<"STS">>} =>
                  /\ Carries(text) = NoOperation
                  /\ Replies(text) = {Answer("unsupported", name, 0)}
<1> DEFINE name == Says[text].name
           a == Says[text].args
<1>1. text \in Wellformed
  BY DEF IsCommand
<1>2. /\ name = <<"SIM">> => Carries(text) = Operation("sim", <<atoi(a[1])>>)
      /\ name = <<"RST">> => Carries(text) = Operation("rst", <<>>)
      /\ name = <<"UPG">> /\ a[1] \in {<<"I">>, <<"C">>} => Carries(text) = Operation("upg", a)
      /\ name = <<"UPG">> /\ a[1] \notin {<<"I">>, <<"C">>} => Carries(text) = NoOperation
      /\ name \in {<<"SMS">>, <<"STS">>} => Carries(text) = NoOperation
  BY DEF Carries
<1>3. Operation("upg", a) # NoOperation
  BY DEF Operation, NoOperation
<1>4. /\ name = <<"SIM">> => Replies(text) = {Answer("sim", NULL, v) : v \in {Err, 1, 2}}
      /\ name = <<"RST">> => Replies(text) = {Silence}
      /\ name = <<"UPG">> /\ Carries(text) = NoOperation =>
           Replies(text) = {Answer("upg", name, 0)}
      /\ name = <<"UPG">> /\ Carries(text) # NoOperation =>
           Replies(text) = {Answer("upg", name, v) : v \in {0, 1}}
      /\ name \in {<<"SMS">>, <<"STS">>} => Replies(text) = {Answer("unsupported", name, 0)}
  <2> DEFINE C == Carries(text) = NoOperation
             S == {Answer("sim", NULL, v) : v \in {Err, 1, 2}}
             U == {Answer("upg", name, v) : v \in {0, 1}}
  <2>1. Replies(text) = CASE name = <<"SIM">> -> S
                          [] name = <<"RST">> -> {Silence}
                          [] name = <<"UPG">> /\ C -> {Answer("upg", name, 0)}
                          [] name = <<"UPG">> /\ ~C -> U
                          [] OTHER -> {Answer("unsupported", name, 0)}
    BY <1>1, Zenon DEF Replies
  <2> HIDE DEF C, S, U, name
  <2>2. /\ name = <<"SIM">> => Replies(text) = S
        /\ name = <<"RST">> => Replies(text) = {Silence}
        /\ name = <<"UPG">> /\ C => Replies(text) = {Answer("upg", name, 0)}
        /\ name = <<"UPG">> /\ ~C => Replies(text) = U
        /\ name \in {<<"SMS">>, <<"STS">>} => Replies(text) = {Answer("unsupported", name, 0)}
    BY <2>1
  <2> QED BY <2>2 DEF C, S, U
<1> QED BY <1>2, <1>3, <1>4

\* What has been cut up is what the command says.
LEMMA CutUp ==
  ASSUME IInv, mixed = 0, pc = "verify"
  PROVE  /\ command \in Wellformed /\ Says[command].name = Name /\ arg_2 = Stored(command)
         /\ Says[command].args # <<>> => arg_2 = Says[command].args
         /\ Says[command].args = <<>> => arg_2 = <<NULL>>
<1>1. command \in Wellformed
  BY DEF IInv, WorkInv, Working
<1>2. Name = NameOf(command) /\ arg_2 = Stored(command)
  BY DEF IInv, AloneInv, NameInv, ArgsInv
<1> QED BY <1>1, <1>2, WellformedText DEF Stored

\* NULL alone is refused, or ends the process.
LEMMA OnlyNull ==
  ASSUME NEW name, Accepted(name, <<NULL>>)
  PROVE  Lacks(name, <<NULL>>)
<1>1. name \in {<<"SMS">>, <<"SIM">>, <<"RST">>, <<"STS">>, <<"UPG">>}
  BY AcceptedNames
<1>2. ~Accepted(<<"SMS">>, <<NULL>>)
  <2> DEFINE a == <<NULL>>
  <2>1. Len(a) = 1 /\ 1 # 3 /\ 1 # 2
    OBVIOUS
  <2> HIDE DEF a
  <2>2. ~cmd_verify_sms(a)
    BY <2>1 DEF cmd_verify_sms
  <2> QED BY <2>2, AcceptedOf DEF a
<1> QED BY <1>1, <1>2 DEF Lacks

\* A verified command is the one that was received.
LEMMA Obeyed ==
  ASSUME IInv, mixed = 0, NEW name, Verified(name)
  PROVE  IsCommand(command) /\ Says[command].name = name /\ Says[command].args = arg_2
<1>1. pc = "verify" /\ Name = name /\ ~Lacks(name, arg_2) /\ Accepted(name, arg_2)
  BY DEF Verified
<1>2. Says[command].args # <<>>
  BY <1>1, CutUp, OnlyNull
<1> QED BY <1>1, <1>2, CutUp DEF IsCommand

LEMMA RefuseStep ==
  ASSUME IInv, Refuse
  PROVE  IInv'
<1>0. /\ pc = "verify" /\ ~Accepted(Name, arg_2)
      /\ th_buf' = Answer("invalid", Name, 0) /\ pc' = "send"
      /\ UNCHANGED <<parts, cmdAll, cmd_ex_sts, conn, olds, sts, command, mixed, done>>
  BY DEF Refuse, Invalid, Goto
<1>1. TypeOK' /\ TypesInv'
  BY <1>0 DEF IInv, TypeOK, TypesInv, Answer, parts, cmdAll, cmd
<1>2. WorkInv' /\ QuietInv'
  BY <1>0 DEF IInv, WorkInv, Working, QuietInv
<1>3. AloneInv'
  <2>1. ASSUME mixed = 0 PROVE AloneInv'
    <3>1. command \in Wellformed /\ Says[command].name = Name
      BY <1>0, <2>1, CutUp
    <3>2. ~IsCommand(command)
      BY <1>0, <2>1, CutUp DEF IsCommand
    <3> QED BY <1>0, <3>1, <3>2, Refused
  <2> QED BY <1>0, <2>1 DEF AloneInv
<1> QED BY <1>1, <1>2, <1>3 DEF IInv

LEMMA ReadNullStep ==
  ASSUME IInv, ReadNull
  PROVE  IInv'
<1> USE DEF ReadNull, Goto
<1>1. TypeOK' /\ TypesInv'
  BY DEF IInv, TypeOK, TypesInv, parts, cmdAll, cmd
<1>2. WorkInv' /\ QuietInv'
  BY DEF IInv, WorkInv, Working, QuietInv
<1>3. AloneInv'
  <2>1. pc' \in {"start", "recv", "deaf", "dead", "equals"}
    OBVIOUS
  <2> QED BY <2>1, Elsewhere
<1> QED BY <1>1, <1>2, <1>3 DEF IInv

LEMMA NoOpStep ==
  ASSUME IInv, NEW name \in {<<"SMS">>, <<"STS">>}, NoOp(name)
  PROVE  IInv'
<1>0. /\ Verified(name) /\ pc = "verify" /\ Name = name
      /\ cmd_ex_sts' = Err /\ th_buf' = Answer("unsupported", Name, 0) /\ pc' = "send"
      /\ UNCHANGED <<parts, cmdAll, conn, olds, sts, command, mixed, done>>
  BY DEF NoOp, Verified, Goto
<1>1. TypeOK' /\ TypesInv'
  BY <1>0 DEF IInv, TypeOK, TypesInv, Answer, parts, cmdAll, cmd
<1>2. WorkInv' /\ QuietInv'
  BY <1>0 DEF IInv, WorkInv, Working, QuietInv
<1>3. AloneInv'
  <2>1. ASSUME mixed = 0 PROVE OperationInv'
    <3>1. IsCommand(command) /\ Says[command].name = name
      BY <1>0, <2>1, Obeyed
    <3>2. /\ Carries(command) = NoOperation
          /\ Answer("unsupported", name, 0) \in Replies(command)
      BY <3>1, Asked
    <3>3. done = NoOperation
      BY <1>0 DEF IInv, QuietInv
    <3> QED BY <1>0, <3>2, <3>3 DEF OperationInv
  <2> QED BY <1>0, <2>1 DEF AloneInv, PartsInv, NameInv, ArgsInv
<1> QED BY <1>1, <1>2, <1>3 DEF IInv

LEMMA VerifySimStep ==
  ASSUME IInv, VerifySim
  PROVE  IInv'
<1>0. /\ Verified(<<"SIM">>) /\ pc = "verify" /\ Accepted(<<"SIM">>, arg_2)
      /\ sim' = atoi(arg_2[1]) /\ pc' = "sim"
      /\ UNCHANGED <<parts, cmd, upg, cmd_ex_sts, th_buf, conn, olds, sts, command, mixed, done>>
  BY DEF VerifySim, Verified, Goto
<1>1. TypeOK' /\ TypesInv'
  <2>1. atoi(arg_2[1]) \in {1, 2}
    BY <1>0, AcceptedOf DEF cmd_verify_sim
  <2> QED BY <1>0, <2>1 DEF IInv, TypeOK, TypesInv, parts, cmd
<1>2. WorkInv' /\ QuietInv'
  BY <1>0 DEF IInv, WorkInv, Working, QuietInv
<1>3. AloneInv'
  <2>1. ASSUME mixed = 0 PROVE OperationInv'
    BY <1>0, <2>1, Obeyed DEF OperationInv
  <2> QED BY <1>0, <2>1 DEF AloneInv, PartsInv, NameInv, ArgsInv
<1> QED BY <1>1, <1>2, <1>3 DEF IInv

LEMMA OpSimStep ==
  ASSUME IInv, OpSim
  PROVE  IInv'
<1>0. /\ pc = "sim" /\ done' = Operation("sim", <<sim>>)
      /\ th_buf' \in {Answer("sim", NULL, v) : v \in {Err, 1, 2}}
      /\ cmd_ex_sts' = 1 /\ sim' = Err /\ pc' = "send"
      /\ UNCHANGED <<parts, cmd, upg, conn, olds, sts, command, mixed>>
  BY DEF OpSim, Goto
<1>1. TypeOK' /\ TypesInv'
  <2>1. th_buf'.kind = "sim"
    BY <1>0 DEF Answer
  <2> QED BY <1>0, <2>1 DEF IInv, TypeOK, TypesInv, parts, cmd
<1>2. WorkInv' /\ QuietInv'
  BY <1>0 DEF IInv, WorkInv, Working, QuietInv
<1>3. AloneInv'
  <2>1. ASSUME mixed = 0 PROVE OperationInv'
    <3>1. /\ IsCommand(command) /\ Says[command].name = <<"SIM">>
          /\ sim = atoi(Says[command].args[1])
      BY <1>0, <2>1 DEF IInv, AloneInv, OperationInv
    <3>2. done' = Carries(command) /\ th_buf' \in Replies(command)
      BY <1>0, <3>1, Asked
    <3> QED BY <1>0, <3>2 DEF OperationInv
  <2> QED BY <1>0, <2>1 DEF AloneInv, PartsInv, NameInv, ArgsInv
<1> QED BY <1>1, <1>2, <1>3 DEF IInv

LEMMA VerifyUpgStep ==
  ASSUME IInv, VerifyUpg
  PROVE  IInv'
<1>0. /\ Verified(<<"UPG">>) /\ pc = "verify" /\ Name = <<"UPG">>
      /\ upg' = [op |-> arg_2[1], args |-> Tail(arg_2)] /\ pc' = "upg"
      /\ UNCHANGED <<parts, cmd, sim, cmd_ex_sts, th_buf, conn, olds, sts, command, mixed, done>>
  BY DEF VerifyUpg, Verified, Goto
<1>1. TypeOK' /\ TypesInv'
  BY <1>0 DEF IInv, TypeOK, TypesInv, parts, cmd
<1>2. WorkInv' /\ QuietInv'
  BY <1>0 DEF IInv, WorkInv, Working, QuietInv
<1>3. AloneInv'
  <2>1. ASSUME mixed = 0 PROVE OperationInv'
    <3>1. IsCommand(command) /\ Says[command].name = <<"UPG">> /\ Says[command].args = arg_2
      BY <1>0, <2>1, Obeyed
    <3>2. arg_2 # <<>>
      BY <3>1 DEF IsCommand
    <3> QED BY <1>0, <3>1, <3>2 DEF OperationInv, cmd, Name
  <2> QED BY <1>0, <2>1 DEF AloneInv, PartsInv, NameInv, ArgsInv
<1> QED BY <1>1, <1>2, <1>3 DEF IInv

LEMMA OpUpgStep ==
  ASSUME IInv, OpUpg
  PROVE  IInv'
<1>0. /\ pc = "upg" /\ cmd_ex_sts' = 1 /\ upg' = NoUpg /\ pc' = "send"
      /\ UNCHANGED <<parts, cmd, sim, conn, olds, sts, command, mixed>>
  BY DEF OpUpg, Goto
<1>a. \/ /\ upg.op \in {<<"I">>, <<"C">>}
         /\ done' = Operation("upg", <<upg.op>> \o upg.args)
         /\ th_buf' \in {Answer("upg", Name, v) : v \in {0, 1}}
      \/ /\ upg.op \in {<<"P">>, <<"S">>}
         /\ th_buf' = Answer("upg", Name, 0) /\ done' = done
  BY DEF OpUpg
<1>1. TypeOK' /\ TypesInv'
  <2>1. th_buf'.kind = "upg"
    BY <1>a DEF Answer
  <2> QED BY <1>0, <2>1 DEF IInv, TypeOK, TypesInv, parts, cmd
<1>2. WorkInv' /\ QuietInv'
  BY <1>0 DEF IInv, WorkInv, Working, QuietInv
<1>3. AloneInv'
  <2>1. ASSUME mixed = 0 PROVE OperationInv'
    <3>1. /\ IsCommand(command) /\ Says[command].name = <<"UPG">> /\ Name = <<"UPG">>
          /\ arg_2 = Says[command].args /\ arg_2 # <<>>
          /\ upg = [op |-> arg_2[1], args |-> Tail(arg_2)]
      BY <1>0, <2>1 DEF IInv, AloneInv, OperationInv
    <3>2. upg.op = arg_2[1] /\ upg.args = Tail(arg_2)
      BY <3>1
    <3>3. <<arg_2[1]>> \o Tail(arg_2) = arg_2
      BY <3>1, HeadTail DEF IInv, TypesInv
    <3>4. CASE /\ upg.op \in {<<"I">>, <<"C">>}
               /\ done' = Operation("upg", <<upg.op>> \o upg.args)
               /\ th_buf' \in {Answer("upg", Name, v) : v \in {0, 1}}
      <4>1. done' = Carries(command) /\ th_buf' \in Replies(command)
        BY <3>1, <3>2, <3>3, <3>4, Asked
      <4> QED BY <1>0, <4>1 DEF OperationInv
    <3>5. CASE /\ upg.op \in {<<"P">>, <<"S">>}
               /\ th_buf' = Answer("upg", Name, 0) /\ done' = done
      <4>1. arg_2[1] \notin {<<"I">>, <<"C">>}
        BY <3>2, <3>5
      <4>2. done = NoOperation
        BY <1>0 DEF IInv, QuietInv
      <4>3. done' = Carries(command) /\ th_buf' \in Replies(command)
        BY <3>1, <3>5, <4>1, <4>2, Asked
      <4> QED BY <1>0, <4>3 DEF OperationInv
    <3> QED BY <1>a, <3>4, <3>5
  <2> QED BY <1>0, <2>1 DEF AloneInv, PartsInv, NameInv, ArgsInv
<1> QED BY <1>1, <1>2, <1>3 DEF IInv

LEMMA OpRstStep ==
  ASSUME IInv, OpRst
  PROVE  IInv'
<1>0. /\ Verified(<<"RST">>) /\ pc = "verify" /\ done' = Operation("rst", <<>>)
      /\ pc' \in {"dead", "send"} /\ cmd_ex_sts' \in {cmd_ex_sts, 1}
      /\ UNCHANGED <<parts, cmdAll, th_buf, conn, olds, sts, command, mixed>>
  BY DEF OpRst, Verified, Goto
<1>1. TypeOK' /\ TypesInv'
  BY <1>0 DEF IInv, TypeOK, TypesInv, parts, cmdAll, cmd
<1>2. WorkInv' /\ QuietInv'
  BY <1>0 DEF IInv, WorkInv, Working, QuietInv
<1>3. AloneInv'
  <2>1. ASSUME mixed = 0 PROVE OperationInv'
    <3>1. IsCommand(command) /\ Says[command].name = <<"RST">>
      BY <1>0, <2>1, Obeyed
    <3>2. th_buf = Silence
      BY <1>0 DEF IInv, QuietInv
    <3>3. done' = Carries(command) /\ th_buf' \in Replies(command)
      BY <1>0, <3>1, <3>2, Asked
    <3> QED BY <1>0, <3>3 DEF OperationInv
  <2> QED BY <1>0, <2>1 DEF AloneInv, PartsInv, NameInv, ArgsInv
<1> QED BY <1>1, <1>2, <1>3 DEF IInv

----------------------------------------------------------------------------
(* The other thread.                                                       *)

LEMMA StatusStep ==
  ASSUME IInv, Status
  PROVE  IInv'
<1>0. /\ UNCHANGED <<pc, parts, cmdAll, cmd_ex_sts, th_buf, conn, command, done>>
      /\ Mix
  BY DEF Status, SplitFirst, SplitNext
<1>1. olds' \in Text
  <2>1. \A text \in Lines : text \in Text
    BY TextsAssumption DEF Text
  <2> QED BY <2>1, TextToken DEF Status, SplitFirst, SplitNext, IInv, TypesInv
<1>2. sts' \in {Err} \cup 1..ln_max
  <2>1. sts \in {Err} \cup 1..ln_max
    BY DEF IInv, TypeOK
  <2>2. sts' \in {1, Err} \/ (sts # Err /\ sts # ln_max /\ sts' = sts + 1)
    BY DEF Status, SplitFirst, SplitNext
  <2> QED BY <2>1, <2>2 DEF Err, ln_max
<1>3. mixed' \in 0..MaxMixed /\ (mixed' = mixed \/ mixed' # 0)
  BY <1>0, MixedAssumption DEF Mix, IInv, TypeOK
<1>4. TypeOK' /\ TypesInv'
  BY <1>0, <1>1, <1>2, <1>3 DEF IInv, TypeOK, TypesInv, parts, cmdAll, cmd
<1>5. WorkInv' /\ QuietInv'
  BY <1>0 DEF IInv, WorkInv, QuietInv
<1>6. AloneInv'
  <2>1. ASSUME mixed' = 0 PROVE mixed = 0 /\ pc \notin {"equals2", "plus2", "comma2"}
    <3>1. mixed \in Nat
      BY MixedAssumption DEF IInv, TypeOK
    <3> QED BY <1>0, <2>1, <3>1 DEF Mix
  <2>2. ASSUME mixed' = 0 PROVE PartsInv' /\ OperationInv'
    BY <1>0, <2>1, <2>2
       DEF IInv, AloneInv, PartsInv, OperationInv, TextOf, Parts, parts, cmdAll, cmd, Name
  <2>3. ASSUME mixed' = 0 PROVE NameInv'
    BY <1>0, <2>1, <2>3 DEF IInv, AloneInv, NameInv, TextOf, Parts, Name, cmdAll, cmd
  <2>4. ASSUME mixed' = 0 PROVE ArgsInv'
    BY <1>0, <2>1, <2>4 DEF IInv, AloneInv, ArgsInv, Stored, cmdAll, cmd
  <2> QED BY <2>2, <2>3, <2>4 DEF AloneInv
<1> QED BY <1>4, <1>5, <1>6 DEF IInv

----------------------------------------------------------------------------
LEMMA StepInv == IInv /\ [Next]_vars => IInv'
<1> SUFFICES ASSUME IInv, [Next]_vars PROVE IInv'
  OBVIOUS
<1>1. CASE Start \/ Restart \/ Drop \/ Send
  BY <1>1, StartStep, RestartStep, DropStep, SendStep
<1>2. CASE \E text \in Texts : Receive(text)
  BY <1>2, ReceiveStep
<1>3. CASE Split
  BY <1>3, Equals1Step, Equals2Step, Plus1Step, Plus2Step, PlusDoneStep, Comma1Step, Comma2Step
     DEF Split
<1>4. CASE Verify \/ Operate
  BY <1>4, RefuseStep, ReadNullStep, NoOpStep, VerifySimStep, OpSimStep, VerifyUpgStep,
     OpUpgStep, OpRstStep
     DEF Verify, Operate
<1>5. CASE Status
  BY <1>5, StatusStep
<1>6. CASE UNCHANGED vars
  <2>1. UNCHANGED <<pc, parts, cmdAll, th_buf, olds, command, done>> /\ UNCHANGED mixed
    BY <1>6 DEF vars
  <2>2. TypesInv' /\ WorkInv' /\ QuietInv' /\ AloneInv'
    BY <2>1, Frame
  <2>3. TypeOK'
    BY <1>6 DEF vars, IInv, TypeOK, parts, cmdAll, cmd
  <2> QED BY <2>2, <2>3 DEF IInv
<1> QED BY <1>1, <1>2, <1>3, <1>4, <1>5, <1>6 DEF Next

LEMMA Invariance == Spec => []IInv
BY InitInv, StepInv, PTL DEF Spec

\* Every variable of th_port1 keeps its type, and a command never has more
\* arguments than CMD has room for, whatever is received.
THEOREM TypeCorrect == Spec => []TypeOK
<1>1. IInv => TypeOK
  BY DEF IInv
<1> QED BY <1>1, Invariance, PTL

\* cmd_split stores the arguments of the command and nothing else, whatever
\* the words and the delimiters in it, as long as th_port2 leaves strtok()
\* alone in the meantime.
THEOREM Arguments == Spec => []ArgumentsIfAlone
<1>1. IInv => ArgumentsIfAlone
  BY DEF IInv, AloneInv, ArgsInv, ArgumentsIfAlone
<1> QED BY <1>1, Invariance, PTL

\* cmd_verify and cmd_op carry out what the command says, with its own
\* arguments, and nothing for a text that is no command.
THEOREM Operations == Spec => []RightOperation
<1>1. IInv => RightOperation
  BY DEF IInv, AloneInv, OperationInv, RightOperation
<1> QED BY <1>1, Invariance, PTL

\* Every command gets its own answer, whatever was received before it.
THEOREM Answers == Spec => []RightAnswer
<1>1. IInv => RightAnswer
  BY DEF IInv, AloneInv, OperationInv, RightAnswer
<1> QED BY <1>1, Invariance, PTL
=============================================================================
