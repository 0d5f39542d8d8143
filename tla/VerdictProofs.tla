---------------------------- MODULE VerdictProofs -----------------------------
(***************************************************************************)
(* Proofs about the verdicts of DebateEngine, for any number of arguments  *)
(* with any confidences: evaluate() returns a well-formed verdict, however *)
(* its sums are rounded it names a position that no other outweighs, and   *)
(* the verdict of a debate is about all of its arguments.                  *)
(*                                                                         *)
(* These need facts about rounded sums.  RoundedSum is a recursive         *)
(* function; here induction is the choice of a least counterexample        *)
(* (WFMin), a number of addends for which a fact does not hold.            *)
(***************************************************************************)
EXTENDS DebateEngineProofs, FiniteSetTheorems

-----------------------------------------------------------------------------
(* Least and greatest numbers.                                              *)

\* A set of numbers has a least one.
LEMMA LeastNumber ==
    ASSUME NEW T \in SUBSET Nat, T # {}
    PROVE  \E n \in T : \A m \in T : n <= m
  <1> DEFINE R == OpToRel(<, Nat)
  <1>1. \A m, n \in Nat : m < n => <<m, n>> \in R
    BY DEF OpToRel
  <1>2. IsWellFoundedOn(R, Nat)
    BY NatLessThanWellFounded
  <1> HIDE DEF R
  <1>3. PICK n \in T : \A m \in T : ~ (<<m, n>> \in R)
    BY <1>2, WFMin
  <1>4. ASSUME NEW m \in T  PROVE n <= m
    <2>1. m \in Nat /\ n \in Nat /\ ~ (m < n)
      BY <1>1, <1>3
    <2> QED  BY <2>1
  <1> QED  BY <1>4

\* A bounded set of numbers has a greatest one.
LEMMA GreatestNumber ==
    ASSUME NEW T \in SUBSET Nat, T # {}, NEW b \in Nat, \A t \in T : t <= b
    PROVE  \E n \in T : \A m \in T : n >= m
  <1> DEFINE Back == {b - t : t \in T}
  <1>1. Back \in SUBSET Nat /\ Back # {}
    <2>1. \A t \in T : b - t \in Nat
      OBVIOUS
    <2> QED  BY <2>1
  <1>2. PICK k \in Back : \A m \in Back : k <= m
    <2> HIDE DEF Back
    <2> QED  BY <1>1, LeastNumber
  <1>3. PICK n \in T : k = b - n
    BY <1>2
  <1>4. ASSUME NEW m \in T  PROVE n >= m
    <2>1. k <= b - m
      BY <1>2
    <2> QED  BY <1>3, <2>1
  <1> QED  BY <1>4

-----------------------------------------------------------------------------
(* Rounding.                                                                *)

LEMMA DoublesAreNumbers ==
    /\ 0 \in Doubles /\ \A f \in Doubles : f \in Nat
    /\ One \in Nat /\ MaxArguments \in Nat
  <1>1. 0 \in 0 .. MaxArguments /\ 0 * One = 0
    BY BoundsAreNatural, ConfidencesAreDoubles
  <1> QED  BY <1>1, BoundsAreNatural, ConfidencesAreDoubles, DoublesAreDense

\* The double before a number, and the one after it if there is one.
Before(n, lo) == lo \in Doubles /\ lo <= n /\ \A f \in Doubles : f <= n => lo >= f
After(n, hi) == hi \in Doubles /\ hi >= n /\ \A f \in Doubles : f >= n => hi <= f

\* What a number is rounded to, in the three cases of Nearest.
LEMMA NearestIs ==
    ASSUME NEW n \in Nat
    PROVE  \E lo : /\ Before(n, lo)
                   /\ \/ Nearest(n) = lo /\ \A f \in Doubles : f < n
                      \/ \E hi : /\ After(n, hi)
                                 /\ n - lo < hi - n => Nearest(n) = lo
                                 /\ hi - n < n - lo => Nearest(n) = hi
                                 /\ lo = hi => Nearest(n) = hi
                                 /\ n - lo = hi - n /\ lo # hi => Nearest(n) = EvenOf(lo, hi)
  <1> DEFINE below == {f \in Doubles : f <= n}
             above == {f \in Doubles : f >= n}
             lo == Max(below)
             hi == Min(above)
  <1>1. Nearest(n) = IF above = {} \/ n - lo < hi - n THEN lo
                     ELSE IF hi - n < n - lo \/ lo = hi THEN hi ELSE EvenOf(lo, hi)
    BY DEF Nearest
  <1>2. Before(n, lo)
    <2>1. below \in SUBSET Nat /\ below # {} /\ \A f \in below : f <= n
      BY DoublesAreNumbers
    <2>2. \E m \in below : \A f \in below : m >= f
      <3> HIDE DEF below
      <3> QED  BY <2>1, GreatestNumber
    <2>3. lo \in below /\ \A f \in below : lo >= f
      BY <2>2 DEF Max
    <2> HIDE DEF lo
    <2> QED  BY <2>3 DEF Before
  <1>3. CASE above = {}
    <2>1. \A f \in Doubles : f < n
      BY <1>3, DoublesAreNumbers
    <2> QED  BY <1>1, <1>2, <1>3, <2>1
  <1>4. CASE above # {}
    <2>1. After(n, hi)
      <3>1. above \in SUBSET Nat
        BY DoublesAreNumbers
      <3>2. \E m \in above : \A f \in above : m <= f
        <4> HIDE DEF above
        <4> QED  BY <1>4, <3>1, LeastNumber
      <3>3. hi \in above /\ \A f \in above : hi <= f
        BY <3>2 DEF Min
      <3> HIDE DEF hi
      <3> QED  BY <3>3 DEF After
    <2>2. lo \in Nat /\ hi \in Nat
      BY <1>2, <2>1, DoublesAreNumbers DEF Before, After
    <2> HIDE DEF lo, hi, above
    <2>3. /\ n - lo < hi - n => Nearest(n) = lo
          /\ hi - n < n - lo => Nearest(n) = hi
          /\ lo = hi => Nearest(n) = hi
          /\ n - lo = hi - n /\ lo # hi => Nearest(n) = EvenOf(lo, hi)
      BY <1>1, <1>4, <2>2
    <2> QED  BY <1>2, <2>1, <2>3
  <1> QED  BY <1>3, <1>4

\* Rounding yields a double, and leaves a double as it is.
LEMMA NearestType ==
    ASSUME NEW n \in Nat
    PROVE  /\ Nearest(n) \in Doubles /\ Nearest(n) \in Nat
           /\ n \in Doubles => Nearest(n) = n
  <1>1. PICK lo : /\ Before(n, lo)
                  /\ \/ Nearest(n) = lo /\ \A f \in Doubles : f < n
                     \/ \E hi : /\ After(n, hi)
                                /\ n - lo < hi - n => Nearest(n) = lo
                                /\ hi - n < n - lo => Nearest(n) = hi
                                /\ lo = hi => Nearest(n) = hi
                                /\ n - lo = hi - n /\ lo # hi => Nearest(n) = EvenOf(lo, hi)
    BY NearestIs
  <1>2. lo \in Nat
    BY <1>1, DoublesAreNumbers DEF Before
  <1>3. CASE Nearest(n) = lo /\ \A f \in Doubles : f < n
    BY <1>1, <1>2, <1>3 DEF Before
  <1>4. ASSUME NEW hi, After(n, hi),
               n - lo < hi - n => Nearest(n) = lo, hi - n < n - lo => Nearest(n) = hi,
               lo = hi => Nearest(n) = hi,
               n - lo = hi - n /\ lo # hi => Nearest(n) = EvenOf(lo, hi)
        PROVE  /\ Nearest(n) \in Doubles /\ Nearest(n) \in Nat
               /\ n \in Doubles => Nearest(n) = n
    <2>1. hi \in Nat
      BY <1>4, DoublesAreNumbers DEF After
    <2>2. EvenOf(lo, hi) \in {lo, hi}
      BY DEF EvenOf
    <2>3. Nearest(n) \in {lo, hi}
      BY <1>2, <1>4, <2>1, <2>2
    <2>4. n \in Doubles => lo = n /\ hi = n
      BY <1>1, <1>2, <1>4, <2>1 DEF Before, After
    <2> QED  BY <1>1, <1>2, <1>4, <2>1, <2>3, <2>4 DEF Before, After
  <1> QED  BY <1>1, <1>3, <1>4

\* Rounding changes no order.
LEMMA NearestMonotone ==
    ASSUME NEW m \in Nat, NEW n \in Nat, m <= n
    PROVE  Nearest(m) <= Nearest(n)
  <1> DEFINE Rounds(k, lo) ==
        \/ Nearest(k) = lo /\ \A f \in Doubles : f < k
        \/ \E hi : /\ After(k, hi)
                   /\ k - lo < hi - k => Nearest(k) = lo
                   /\ hi - k < k - lo => Nearest(k) = hi
                   /\ lo = hi => Nearest(k) = hi
                   /\ k - lo = hi - k /\ lo # hi => Nearest(k) = EvenOf(lo, hi)
  <1>1. PICK l1 : Before(m, l1) /\ Rounds(m, l1)
    BY NearestIs
  <1>2. PICK l2 : Before(n, l2) /\ Rounds(n, l2)
    BY NearestIs
  <1>3. l1 \in Nat /\ l2 \in Nat /\ l1 \in Doubles /\ l2 \in Doubles /\ l1 <= m /\ l2 <= n
    BY <1>1, <1>2, DoublesAreNumbers DEF Before
  <1>4. Nearest(m) \in Nat /\ Nearest(n) \in Nat
    BY NearestType
  <1>5. \A hi : After(m, hi) => hi \in Nat /\ hi >= m
    BY DoublesAreNumbers DEF After
  <1>6. \A hi : After(n, hi) => hi \in Nat /\ hi >= n
    BY DoublesAreNumbers DEF After
  <1>7. \A lo, hi : EvenOf(lo, hi) \in {lo, hi}
    BY DEF EvenOf
  \* A double in between, or none.
  <1>8. CASE \E f \in Doubles : m <= f /\ f <= n
    <2>1. PICK f \in Doubles : m <= f /\ f <= n
      BY <1>8
    <2>2. f \in Nat
      BY DoublesAreNumbers
    <2>3. f <= Nearest(n)
      <3>1. f <= l2
        BY <1>2, <1>3, <2>1, <2>2 DEF Before
      <3>2. Nearest(n) = l2 \/ \E hi : After(n, hi) /\ Nearest(n) = hi
        BY <1>2, <1>3, <1>6, <1>7
      <3> QED  BY <1>3, <1>6, <2>1, <2>2, <3>1, <3>2
    <2>4. Nearest(m) <= f
      <3>1. \A hi : After(m, hi) => hi <= f
        BY <2>1 DEF After
      <3>2. Nearest(m) = l1 \/ \E hi : After(m, hi) /\ Nearest(m) = hi
        BY <1>1, <1>3, <1>5, <1>7
      <3> QED  BY <1>3, <1>5, <2>1, <2>2, <3>1, <3>2
    <2> QED  BY <1>4, <2>2, <2>3, <2>4
  <1>9. CASE ~ \E f \in Doubles : m <= f /\ f <= n
    <2>1. \A f \in Doubles : f \in Nat /\ (f <= n <=> f <= m) /\ (f >= m <=> f >= n)
      BY <1>9, DoublesAreNumbers
    <2>2. l1 = l2
      BY <1>1, <1>2, <1>3, <2>1 DEF Before
    <2>3. \A hi : After(m, hi) <=> After(n, hi)
      BY <2>1 DEF After
    <2>4. \A f, g : After(m, f) /\ After(m, g) => f = g
      BY DoublesAreNumbers DEF After
    <2>5. l1 <= m /\ l1 < n
      BY <1>3, <1>9
    <2>6. CASE \A f \in Doubles : f < m
      <3>1. Nearest(m) = l1
        BY <1>1, <1>5, <2>6 DEF After
      <3>2. \A hi : ~ After(n, hi)
        BY <1>5, <2>3, <2>6 DEF After
      <3> QED  BY <1>2, <1>3, <2>2, <3>1, <3>2
    <2>7. CASE ~ \A f \in Doubles : f < m
      <3>1. ~ \A f \in Doubles : f < n
        BY <2>1, <2>7
      <3>2. PICK h1 : /\ After(m, h1)
                      /\ m - l1 < h1 - m => Nearest(m) = l1
                      /\ h1 - m < m - l1 => Nearest(m) = h1
                      /\ l1 = h1 => Nearest(m) = h1
                      /\ m - l1 = h1 - m /\ l1 # h1 => Nearest(m) = EvenOf(l1, h1)
        BY <1>1, <2>7
      <3>3. PICK h2 : /\ After(n, h2)
                      /\ n - l2 < h2 - n => Nearest(n) = l2
                      /\ h2 - n < n - l2 => Nearest(n) = h2
                      /\ l2 = h2 => Nearest(n) = h2
                      /\ n - l2 = h2 - n /\ l2 # h2 => Nearest(n) = EvenOf(l2, h2)
        BY <1>2, <3>1
      <3>4. h1 = h2 /\ h1 \in Nat /\ h1 >= n
        BY <1>6, <2>3, <2>4, <3>2, <3>3
      <3>5. EvenOf(l1, h1) \in {l1, h1}
        BY <1>7
      <3> QED  BY <1>3, <1>4, <2>2, <3>2, <3>3, <3>4, <3>5
    <2> QED  BY <2>6, <2>7
  <1> QED  BY <1>8, <1>9

LEMMA PlusIsRounded ==
    ASSUME NEW x \in Doubles, NEW y \in Doubles
    PROVE  Plus[x][y] = Nearest(x + y) /\ x + y \in Nat
  BY DoublesAreNumbers DEF Plus

-----------------------------------------------------------------------------
(* Rounded sums.                                                            *)

\* w is the function that the recursion of RoundedSum defines.
Adds(numbers, n, w) ==
    w = [i \in 0 .. n |-> IF i = 0 THEN 0 ELSE Plus[w[i - 1]][numbers[i]]]

\* There is one for any number of addends.
LEMMA SumIsDefined ==
    ASSUME NEW numbers, NEW n \in Nat
    PROVE  \E w : Adds(numbers, n, w)
  <1> DEFINE Bad == {k \in Nat : ~ \E w : Adds(numbers, k, w)}
  <1> SUFFICES Bad = {}
    OBVIOUS
  <1> SUFFICES ASSUME Bad # {}  PROVE FALSE
    OBVIOUS
  <1>1. PICK k \in Bad : \A m \in Bad : k <= m
    <2> HIDE DEF Bad
    <2> QED  BY LeastNumber DEF Bad
  <1>2. k # 0
    <2> DEFINE w == [i \in 0 .. 0 |-> 0]
    <2>1. Adds(numbers, 0, w)
      BY DEF Adds
    <2> HIDE DEF w
    <2> QED  BY <1>1, <2>1
  <1>3. PICK v : Adds(numbers, k - 1, v)
    BY <1>1, <1>2
  <1> DEFINE w == [i \in 0 .. k |-> IF i = k THEN Plus[v[k - 1]][numbers[k]] ELSE v[i]]
  <1>4. \A i \in 0 .. k :
           w[i] = IF i = 0 THEN 0 ELSE Plus[w[i - 1]][numbers[i]]
    <2> SUFFICES ASSUME NEW i \in 0 .. k
                 PROVE  w[i] = IF i = 0 THEN 0 ELSE Plus[w[i - 1]][numbers[i]]
      OBVIOUS
    <2>1. CASE i = k
      <3>1. k - 1 \in 0 .. k /\ k - 1 # k
        BY <1>1, <1>2
      <3> QED  BY <1>2, <2>1, <3>1
    <2>2. CASE i # k
      <3>1. i \in 0 .. k - 1
        BY <1>1, <2>2
      <3>2. v[i] = IF i = 0 THEN 0 ELSE Plus[v[i - 1]][numbers[i]]
        BY <1>3, <3>1 DEF Adds
      <3>3. i # 0 => i - 1 \in 0 .. k /\ i - 1 # k
        BY <3>1
      <3> QED  BY <2>2, <3>2, <3>3
    <2> QED  BY <2>1, <2>2
  <1>5. w = [i \in 0 .. k |-> w[i]]
    OBVIOUS
  <1> HIDE DEF w
  <1>6. Adds(numbers, k, w)
    BY <1>4, <1>5 DEF Adds
  <1> QED  BY <1>1, <1>6

\* The sums after each addend, of doubles: w is what the loop has added up.
Loop(numbers, n, w) ==
    /\ w[0] = 0
    /\ \A i \in 0 .. n : w[i] \in Doubles /\ w[i] \in Nat
    /\ \A i \in 1 .. n : /\ numbers[i] \in Doubles /\ numbers[i] \in Nat
                         /\ w[i - 1] \in Doubles /\ w[i - 1] \in Nat
                         /\ w[i] = Nearest(w[i - 1] + numbers[i])

LEMMA SumIsLoop ==
    ASSUME NEW numbers, NEW n \in Nat, \A i \in 1 .. n : numbers[i] \in Doubles
    PROVE  \E w : Loop(numbers, n, w) /\ RoundedSum(numbers, n) = w[n]
  <1> DEFINE w == CHOOSE w : Adds(numbers, n, w)
  <1>1. RoundedSum(numbers, n) = w[n]
    BY DEF RoundedSum, Adds
  <1>2. Adds(numbers, n, w)
    BY SumIsDefined
  <1> HIDE DEF w
  <1>3. /\ w[0] = 0
        /\ \A i \in 1 .. n : w[i] = Plus[w[i - 1]][numbers[i]]
    BY <1>2 DEF Adds
  <1> DEFINE Bad == {i \in Nat : i <= n /\ w[i] \notin Doubles}
  <1>4. Bad = {}
    <2> SUFFICES ASSUME Bad # {}  PROVE FALSE
      OBVIOUS
    <2>1. PICK i \in Bad : \A m \in Bad : i <= m
      <3> HIDE DEF Bad
      <3> QED  BY LeastNumber DEF Bad
    <2>2. i # 0
      BY <1>3, DoublesAreNumbers
    <2>3. w[i - 1] \in Doubles /\ i \in 1 .. n
      BY <2>1, <2>2
    <2>4. w[i] \in Doubles
      <3>1. numbers[i] \in Doubles
        BY <2>3
      <3>2. w[i] = Nearest(w[i - 1] + numbers[i]) /\ w[i - 1] + numbers[i] \in Nat
        <4>1. w[i] = Plus[w[i - 1]][numbers[i]]
          BY <1>3, <2>3
        <4> QED  BY <2>3, <3>1, <4>1, PlusIsRounded
      <3> QED  BY <3>2, NearestType
    <2> QED  BY <2>4
  <1>5. \A i \in 0 .. n : w[i] \in Doubles
    BY <1>4
  <1> HIDE DEF Bad
  <1>6. \A i \in 1 .. n : i - 1 \in 0 .. n
    OBVIOUS
  <1>7. Loop(numbers, n, w)
    BY <1>3, <1>5, <1>6, PlusIsRounded, DoublesAreNumbers DEF Loop
  <1> QED  BY <1>1, <1>7

\* Sums never become smaller, and each is at least its last addend.
LEMMA LoopGrows ==
    ASSUME NEW numbers, NEW n \in Nat, NEW w, Loop(numbers, n, w)
    PROVE  /\ \A i \in 1 .. n : w[i - 1] <= w[i] /\ numbers[i] <= w[i]
           /\ \A i, j \in 0 .. n : i <= j => w[i] <= w[j]
  <1>1. ASSUME NEW i \in 1 .. n  PROVE w[i - 1] <= w[i] /\ numbers[i] <= w[i]
    <2> DEFINE x == w[i - 1]
               c == numbers[i]
    <2>1. x \in Doubles /\ c \in Doubles /\ x \in Nat /\ c \in Nat /\ w[i] = Nearest(x + c)
      BY DEF Loop
    <2> HIDE DEF x, c
    <2>2. x + c \in Nat /\ x <= x + c /\ c <= x + c
      BY <2>1
    <2>3. Nearest(x) <= Nearest(x + c) /\ Nearest(c) <= Nearest(x + c)
      BY <2>1, <2>2, NearestMonotone
    <2> QED  BY <2>1, <2>3, NearestType DEF x, c
  <1>2. ASSUME NEW i \in 0 .. n, NEW j \in 0 .. n, i <= j  PROVE w[i] <= w[j]
    <2> DEFINE Bad == {k \in Nat : i <= k /\ k <= n /\ ~ (w[i] <= w[k])}
    <2> SUFFICES Bad = {}
      BY <1>2
    <2> SUFFICES ASSUME Bad # {}  PROVE FALSE
      OBVIOUS
    <2>1. PICK k \in Bad : \A m \in Bad : k <= m
      <3> HIDE DEF Bad
      <3> QED  BY LeastNumber DEF Bad
    <2>2. w[i] \in Nat /\ k \in Nat /\ k <= n
      BY DEF Loop
    <2>3. k # i
      BY <2>1, <2>2
    <2>4. k \in 1 .. n /\ k - 1 \in 0 .. n /\ i <= k - 1 /\ k - 1 \in Nat
      BY <2>2, <2>3
    <2>5. w[i] <= w[k - 1]
      BY <2>1, <2>4
    <2>6. w[k - 1] <= w[k] /\ w[k - 1] \in Nat /\ w[k] \in Nat
      BY <1>1, <2>4 DEF Loop
    <2>7. w[i] <= w[k]
      BY <2>2, <2>5, <2>6
    <2> QED  BY <2>1, <2>7
  <1> QED  BY <1>1, <1>2

\* A sum is a double, and one of n numbers up to 1 is at most n.
LEMMA SumBounds ==
    ASSUME NEW numbers, NEW n \in Nat, \A i \in 1 .. n : numbers[i] \in Doubles
    PROVE  /\ RoundedSum(numbers, n) \in Doubles
           /\ n <= MaxArguments /\ (\A i \in 1 .. n : numbers[i] <= One)
                 => RoundedSum(numbers, n) <= MaxArguments * One
  <1>1. PICK w : Loop(numbers, n, w) /\ RoundedSum(numbers, n) = w[n]
    BY SumIsLoop
  <1>2. RoundedSum(numbers, n) \in Doubles
    BY <1>1 DEF Loop
  <1>3. ASSUME n <= MaxArguments, \A i \in 1 .. n : numbers[i] <= One
        PROVE  RoundedSum(numbers, n) <= MaxArguments * One
    <2> DEFINE Bad == {i \in Nat : i <= n /\ ~ (w[i] <= i * One)}
    <2>1. Bad = {}
      <3> SUFFICES ASSUME Bad # {}  PROVE FALSE
        OBVIOUS
      <3>1. PICK i \in Bad : \A m \in Bad : i <= m
        <4> HIDE DEF Bad
        <4> QED  BY LeastNumber DEF Bad
      <3>2. One \in Nat /\ MaxArguments \in Nat
        BY DoublesAreNumbers
      <3>3. i # 0
        BY <1>1, <3>1, <3>2 DEF Loop
      <3>4. i \in 1 .. n /\ i - 1 \in Nat /\ i \in Nat /\ i \in 0 .. MaxArguments
        BY <1>3, <3>1, <3>2, <3>3
      <3>5. w[i - 1] <= (i - 1) * One
        BY <3>1, <3>4
      <3> DEFINE x == w[i - 1]
                 c == numbers[i]
      <3>6. x \in Nat /\ c \in Nat /\ c <= One /\ w[i] = Nearest(x + c)
        BY <1>1, <1>3, <3>4 DEF Loop
      <3>7. x <= (i - 1) * One
        BY <3>5
      <3> HIDE DEF x, c
      <3>8. i * One \in Nat /\ x + c \in Nat /\ x + c <= i * One
        BY <3>2, <3>4, <3>6, <3>7
      <3>9. Nearest(i * One) = i * One
        BY <3>4, <3>8, DoublesAreDense, NearestType
      <3>10. w[i] <= i * One
        BY <3>6, <3>8, <3>9, NearestMonotone
      <3> QED  BY <3>1, <3>10
    <2>2. w[n] <= n * One
      BY <2>1
    <2>3. n * One <= MaxArguments * One
      BY <1>3, DoublesAreNumbers
    <2>4. w[n] \in Nat
      BY <1>1 DEF Loop
    <2> QED  BY <1>1, <2>2, <2>3, <2>4, DoublesAreNumbers
  <1> QED  BY <1>2, <1>3

\* A sum is at least each addend, and what any two of them add up to.
LEMMA SumHolds ==
    ASSUME NEW numbers, NEW n \in Nat, \A i \in 1 .. n : numbers[i] \in Doubles,
           NEW i \in 1 .. n, NEW j \in 1 .. n, i < j
    PROVE  RoundedSum(numbers, n) >= Nearest(numbers[i] + numbers[j])
  <1>1. PICK w : Loop(numbers, n, w) /\ RoundedSum(numbers, n) = w[n]
    BY SumIsLoop
  <1> DEFINE x == w[j - 1]
             c == numbers[i]
             d == numbers[j]
  <1>2. x \in Nat /\ c \in Nat /\ d \in Nat /\ w[j] = Nearest(x + d)
    BY <1>1 DEF Loop
  <1>3. c <= x
    <2>1. c <= w[i] /\ w[i] <= w[j - 1] /\ w[i] \in Nat
      <3>1. i \in 0 .. n /\ j - 1 \in 0 .. n /\ i <= j - 1
        OBVIOUS
      <3> QED  BY <1>1, <3>1, LoopGrows DEF Loop
    <2> QED  BY <1>2, <2>1
  <1>4. w[j] <= w[n] /\ w[j] \in Nat /\ w[n] \in Nat
    <2>1. j \in 0 .. n /\ n \in 0 .. n /\ j <= n
      OBVIOUS
    <2> QED  BY <1>1, <2>1, LoopGrows DEF Loop
  <1> HIDE DEF x, c, d
  <1>5. c + d \in Nat /\ x + d \in Nat /\ c + d <= x + d
    BY <1>2, <1>3
  <1>6. Nearest(c + d) <= Nearest(x + d) /\ Nearest(c + d) \in Nat
    BY <1>5, NearestMonotone, NearestType
  <1> QED  BY <1>1, <1>2, <1>4, <1>6 DEF c, d

\* A zero can change places with its neighbour.
LEMMA SumOfSwapped ==
    ASSUME NEW numbers, NEW more, NEW n \in Nat, NEW k \in 1 .. n - 1,
           \A i \in 1 .. n : numbers[i] \in Doubles,
           more[k] = numbers[k + 1], more[k + 1] = numbers[k],
           \A i \in 1 .. n : i # k /\ i # k + 1 => more[i] = numbers[i],
           numbers[k] = 0 \/ numbers[k + 1] = 0
    PROVE  RoundedSum(numbers, n) = RoundedSum(more, n)
  <1>1. \A i \in 1 .. n : more[i] \in Doubles
    <2>1. k \in 1 .. n /\ k + 1 \in 1 .. n
      OBVIOUS
    <2> QED  BY <2>1
  <1>2. PICK w : Loop(numbers, n, w) /\ RoundedSum(numbers, n) = w[n]
    BY SumIsLoop
  <1>3. PICK v : Loop(more, n, v) /\ RoundedSum(more, n) = v[n]
    BY <1>1, SumIsLoop
  <1>4. \A x \in Doubles : x \in Nat /\ Nearest(x + 0) = x /\ Nearest(0 + x) = x
    BY DoublesAreNumbers, NearestType
  <1> DEFINE Bad == {i \in Nat : i <= n /\ i # k /\ w[i] # v[i]}
  <1>5. Bad = {}
    <2> SUFFICES ASSUME Bad # {}  PROVE FALSE
      OBVIOUS
    <2>1. PICK i \in Bad : \A m \in Bad : i <= m
      <3> HIDE DEF Bad
      <3> QED  BY LeastNumber DEF Bad
    <2>2. i # 0
      BY <1>2, <1>3 DEF Loop
    <2>3. i \in 1 .. n /\ i # k /\ i - 1 \in Nat /\ w[i] # v[i]
      BY <2>1, <2>2
    <2>4. CASE i = k + 1
      <3> DEFINE x == w[k - 1]
                 c == numbers[k]
                 d == numbers[k + 1]
      <3>1. v[k - 1] = x
        <4>1. k - 1 \in Nat /\ k - 1 <= n /\ k - 1 # k /\ k - 1 < i
          BY <2>4
        <4> QED  BY <2>1, <4>1
      <3>2. k \in 1 .. n /\ k + 1 \in 1 .. n /\ (k + 1) - 1 = k
        OBVIOUS
      <3>3. /\ x \in Doubles /\ c \in Doubles /\ d \in Doubles
            /\ w[k] = Nearest(x + c) /\ w[k + 1] = Nearest(w[k] + d)
        BY <1>2, <3>2 DEF Loop
      <3>4. v[k] = Nearest(x + d) /\ v[k + 1] = Nearest(v[k] + c)
        BY <1>3, <3>1, <3>2 DEF Loop
      <3>5. w[k] \in Doubles /\ v[k] \in Doubles
        BY <1>2, <1>3 DEF Loop
      <3>6. c = 0 \/ d = 0
        OBVIOUS
      <3> HIDE DEF x, c, d
      <3>7. w[k + 1] = v[k + 1]
        BY <1>4, <3>3, <3>4, <3>5, <3>6
      <3> QED  BY <2>3, <2>4, <3>7
    <2>5. CASE i # k + 1
      <3>1. w[i - 1] = v[i - 1]
        BY <2>1, <2>3, <2>5
      <3>2. more[i] = numbers[i]
        BY <2>3, <2>5
      <3> QED  BY <1>2, <1>3, <2>3, <3>1, <3>2 DEF Loop
    <2> QED  BY <2>4, <2>5
  <1>6. w[n] = v[n]
    BY <1>5
  <1> QED  BY <1>2, <1>3, <1>6

-----------------------------------------------------------------------------
(* The weights of positions.                                                *)

\* The arguments of a session have the indices up to their number, and their
\* confidences are doubles up to 1.
LEMMA ArgumentsAreWeighed ==
    ASSUME NEW args \in Seq(Argument)
    PROVE  /\ DOMAIN args = 1 .. Len(args) /\ Len(args) \in Nat
           /\ IsFiniteSet(DOMAIN args)
           /\ \A i \in DOMAIN args : /\ args[i] \in Argument
                                     /\ args[i].confidence \in Doubles
                                     /\ args[i].confidence <= One
  <1>1. DOMAIN args = 1 .. Len(args) /\ Len(args) \in Nat
    BY LenProperties
  <1>2. IsFiniteSet(DOMAIN args)
    BY <1>1, FS_Interval
  <1>3. \A i \in DOMAIN args : args[i] \in Argument
    BY <1>1, ElementOfSeq
  <1> QED  BY <1>1, <1>2, <1>3, ConfidencesAreDoubles DEF Argument

\* What a position adds up, and what all of them together do.
Addends(args, p) ==
    [i \in DOMAIN args |-> IF args[i].position = p THEN args[i].confidence ELSE 0]

Weights(args) ==
    [i \in DOMAIN args |->
        IF \E j \in 1 .. i - 1 : args[j].position = args[i].position
        THEN 0 ELSE Weight(args, args[i].position)]

\* Weights are doubles, and those of a bounded debate are bounded.
LEMMA WeightsAreDoubles ==
    ASSUME NEW args \in Seq(Argument)
    PROVE  /\ \A p : /\ Weight(args, p) \in Doubles /\ Weight(args, p) \in Nat
                     /\ Len(args) <= MaxArguments => Weight(args, p) <= MaxArguments * One
           /\ \A i \in 1 .. Len(args) : Weights(args)[i] \in Doubles
           /\ TotalWeight(args) = RoundedSum(Weights(args), Len(args))
           /\ TotalWeight(args) \in Doubles /\ TotalWeight(args) \in Nat
  <1>1. DOMAIN args = 1 .. Len(args) /\ Len(args) \in Nat
    BY ArgumentsAreWeighed
  <1>2. ASSUME NEW p
        PROVE  /\ Weight(args, p) \in Doubles
               /\ Len(args) <= MaxArguments => Weight(args, p) <= MaxArguments * One
    <2> DEFINE numbers == Addends(args, p)
    <2>1. Weight(args, p) = RoundedSum(numbers, Len(args))
      BY DEF Weight, Addends
    <2>2. \A i \in 1 .. Len(args) : numbers[i] \in Doubles /\ numbers[i] <= One
      BY <1>1, ArgumentsAreWeighed, DoublesAreNumbers DEF Addends
    <2> HIDE DEF numbers
    <2> QED  BY <1>1, <2>1, <2>2, SumBounds
  <1>3. \A i \in 1 .. Len(args) : Weights(args)[i] \in Doubles
    BY <1>1, <1>2, DoublesAreNumbers DEF Weights
  <1>4. TotalWeight(args) = RoundedSum(Weights(args), Len(args))
    BY DEF TotalWeight, Weights
  <1>5. TotalWeight(args) \in Doubles
    BY <1>1, <1>3, <1>4, SumBounds
  <1> QED  BY <1>2, <1>3, <1>4, <1>5, DoublesAreNumbers

\* A position is added to the total where it is first argued.
LEMMA FirstIndex ==
    ASSUME NEW args \in Seq(Argument), NEW p \in PositionsOf(args)
    PROVE  \E i \in 1 .. Len(args) :
              args[i].position = p /\ Weights(args)[i] = Weight(args, p)
  <1> DEFINE T == {i \in DOMAIN args : args[i].position = p}
  <1>1. DOMAIN args = 1 .. Len(args) /\ Len(args) \in Nat
    BY ArgumentsAreWeighed
  <1>2. T \in SUBSET Nat /\ T # {}
    BY <1>1 DEF PositionsOf
  <1>3. PICK i \in T : \A m \in T : i <= m
    <2> HIDE DEF T
    <2> QED  BY <1>2, LeastNumber
  <1>4. ~ \E j \in 1 .. i - 1 : args[j].position = args[i].position
    <2> SUFFICES ASSUME NEW j \in 1 .. i - 1, args[j].position = p  PROVE FALSE
      OBVIOUS
    <2>1. j \in T /\ i \in Nat
      BY <1>1
    <2>2. i <= j
      BY <1>3, <2>1
    <2> QED  BY <2>1, <2>2
  <1>5. Weights(args)[i] = Weight(args, p)
    BY <1>4 DEF Weights
  <1> QED  BY <1>1, <1>5

\* Doubles as large as the weights can be doubled.
LEMMA DoubleOfDouble ==
    ASSUME NEW x \in Doubles, x <= MaxArguments * One
    PROVE  2 * x \in Doubles
  <1>1. PICK largest \in Doubles : /\ 2 * MaxArguments * One <= largest
                                   /\ \A f \in Doubles : 2 * f <= largest => 2 * f \in Doubles
    BY DoublesAreDense
  <1>2. x \in Nat /\ largest \in Nat /\ MaxArguments * One \in Nat
    BY DoublesAreNumbers
  <1>3. 2 * MaxArguments * One = 2 * (MaxArguments * One)
    BY DoublesAreNumbers
  <1>4. 2 * x <= largest
    BY <1>1, <1>2, <1>3
  <1> QED  BY <1>1, <1>4

\* However the sums are rounded, a position with a majority is heavier than any
\* other: the total is at least the rounded sum of the two.
LEMMA MajorityIsHeaviest ==
    ASSUME NEW args \in Seq(Argument), Len(args) <= MaxArguments,
           NEW p \in Majority(args), NEW q \in PositionsOf(args)
    PROVE  Weight(args, q) <= Weight(args, p)
  <1> DEFINE x == Weight(args, p)
             y == Weight(args, q)
             t == TotalWeight(args)
  <1>1. /\ x \in Doubles /\ y \in Doubles /\ x \in Nat /\ y \in Nat /\ t \in Nat
        /\ x <= MaxArguments * One
    BY WeightsAreDoubles
  <1>2. t > 0 /\ Threshold.den * x >= Threshold.num * t /\ p \in PositionsOf(args)
    BY DEF Majority
  <1> SUFFICES ASSUME ~ (y <= x)  PROVE FALSE
    OBVIOUS
  <1>3. t >= Nearest(x + y)
    <2>1. PICK i \in 1 .. Len(args) : args[i].position = p /\ Weights(args)[i] = x
      BY <1>2, FirstIndex
    <2>2. PICK j \in 1 .. Len(args) : args[j].position = q /\ Weights(args)[j] = y
      BY FirstIndex
    <2>3. i # j /\ Len(args) \in Nat
      <3>1. x # y
        BY <1>1
      <3> HIDE DEF x, y
      <3> QED  BY <2>1, <2>2, <3>1, ArgumentsAreWeighed
    <2> DEFINE numbers == Weights(args)
    <2>4. t = RoundedSum(numbers, Len(args)) /\ \A k \in 1 .. Len(args) : numbers[k] \in Doubles
      BY WeightsAreDoubles
    <2>5. numbers[i] = x /\ numbers[j] = y
      BY <2>1, <2>2
    <2> HIDE DEF numbers, x, y, t
    <2>6. CASE i < j
      BY <2>3, <2>4, <2>5, <2>6, SumHolds
    <2>7. CASE j < i
      <3>1. t >= Nearest(y + x)
        BY <2>3, <2>4, <2>5, <2>7, SumHolds
      <3>2. y + x = x + y
        BY <1>1
      <3> QED  BY <3>1, <3>2
    <2> QED  BY <2>3, <2>6, <2>7
  <1> HIDE DEF x, y, t
  <1>4. Nearest(x + y) >= 2 * x
    <2>1. 2 * x \in Nat /\ x + y \in Nat /\ 2 * x <= x + y
      BY <1>1
    <2>2. Nearest(2 * x) <= Nearest(x + y)
      BY <2>1, NearestMonotone
    <2>3. Nearest(2 * x) = 2 * x
      BY <1>1, <2>1, DoubleOfDouble, NearestType
    <2> QED  BY <2>1, <2>2, <2>3, NearestType
  <1>5. t >= 2 * x
    <2>1. Nearest(x + y) \in Nat
      BY <1>1, NearestType
    <2> QED  BY <1>1, <1>3, <1>4, <2>1
  <1>6. Threshold.num * t > Threshold.den * x
    <2> DEFINE num == Threshold.num
               den == Threshold.den
    <2>1. num \in Nat /\ den \in Nat /\ den + 1 <= 2 * num
      BY ThresholdIsMajority
    <2> HIDE DEF num, den
    <2>2. num * t >= num * (2 * x)
      BY <1>1, <1>5, <2>1
    <2>3. num * (2 * x) = (2 * num) * x /\ (2 * num) * x >= (den + 1) * x
      BY <1>1, <2>1
    <2>4. (den + 1) * x = den * x + x /\ den * x \in Nat
      BY <1>1, <2>1
    <2>5. CASE x > 0
      <3>1. num * t \in Nat /\ num * (2 * x) \in Nat
        BY <1>1, <2>1
      <3> QED  BY <1>1, <2>2, <2>3, <2>4, <2>5, <3>1 DEF num, den
    <2>6. CASE x = 0
      <3>1. den * x = 0 /\ num > 0
        BY <2>1, <2>6
      <3>2. num * t > 0
        BY <1>1, <1>2, <2>1, <3>1
      <3> QED  BY <3>1, <3>2 DEF num, den
    <2> QED  BY <1>1, <2>5, <2>6
  <1>7. Threshold.num * t \in Nat /\ Threshold.den * x \in Nat
    BY <1>1, ThresholdIsMajority
  <1> QED  BY <1>2, <1>6, <1>7

\* Among the positions argued there are heaviest ones, of which none outweighs
\* another.
LEMMA SomeIsHeaviest ==
    ASSUME NEW args \in Seq(Argument), args # <<>>, Len(args) <= MaxArguments
    PROVE  /\ Heaviest(args) # {}
           /\ Heaviest(args) = {p \in PositionsOf(args) : \A q \in PositionsOf(args) :
                                                 Weight(args, q) <= Weight(args, p)}
  <1> DEFINE T == {Weight(args, p) : p \in PositionsOf(args)}
             b == MaxArguments * One
             most == Max(T)
  <1>1. T \in SUBSET Nat /\ b \in Nat /\ \A t \in T : t <= b
    BY WeightsAreDoubles, DoublesAreNumbers
  <1>2. T # {}
    <2>1. 1 \in DOMAIN args
      BY ArgumentsAreWeighed, EmptySeq
    <2> QED  BY <2>1 DEF PositionsOf
  <1>3. \E n \in T : \A m \in T : n >= m
    <2> HIDE DEF T, b
    <2> QED  BY <1>1, <1>2, GreatestNumber
  <1>4. most \in T /\ \A m \in T : most >= m
    BY <1>3 DEF Max
  <1>5. Heaviest(args) = {p \in PositionsOf(args) : Weight(args, p) = most}
    BY DEF Heaviest
  <1>6. PICK h \in PositionsOf(args) : most = Weight(args, h)
    BY <1>4
  <1>7. \A q \in PositionsOf(args) : Weight(args, q) <= most /\ Weight(args, q) \in Nat
    BY <1>1, <1>4
  <1> HIDE DEF most
  <1>8. \A p \in PositionsOf(args) :
           Weight(args, p) = most <=>
              \A q \in PositionsOf(args) : Weight(args, q) <= Weight(args, p)
    <2>1. most \in Nat
      BY <1>6, <1>7
    <2> QED  BY <1>6, <1>7, <2>1
  <1> QED  BY <1>5, <1>6, <1>8

\* The position that FirstArgued picks is one of those it is given.
LEMMA FirstArguedIsGiven ==
    ASSUME NEW args \in Seq(Argument), NEW P \in SUBSET PositionsOf(args), P # {}
    PROVE  FirstArgued(args, P) \in P
  <1> DEFINE T == {i \in DOMAIN args : args[i].position \in P}
             First(i) == /\ args[i].position \in P
                         /\ \A j \in DOMAIN args : args[j].position \in P => i <= j
  <1>1. T # {}
    BY DEF PositionsOf
  <1>2. T \in SUBSET Nat
    BY ArgumentsAreWeighed
  <1>3. \E n \in T : \A m \in T : n <= m
    <2> HIDE DEF T
    <2> QED  BY <1>1, <1>2, LeastNumber
  <1>4. \E i \in DOMAIN args : First(i)
    BY <1>3
  <1>5. FirstArgued(args, P) = args[CHOOSE i \in DOMAIN args : First(i)].position
    BY DEF FirstArgued
  <1> HIDE DEF First
  <1>6. First(CHOOSE i \in DOMAIN args : First(i))
    BY <1>4
  <1> QED  BY <1>5, <1>6 DEF First

-----------------------------------------------------------------------------
(* Verdicts.                                                                *)

\* evaluate() ends in one of three ways, and its winner is one of the heaviest
\* positions in each.
LEMMA WinnerIsHeaviest ==
    ASSUME NEW args \in Seq(Argument), args # <<>>, Len(args) <= MaxArguments
    PROVE  /\ Evaluate(args).outcome \in {"consensus", "majority", "tiebreak"}
           /\ Evaluate(args).winningPosition \in Heaviest(args)
           /\ Evaluate(args) = [outcome |-> Evaluate(args).outcome,
                                winningPosition |-> Evaluate(args).winningPosition,
                                votes |-> Votes(args)]
  <1> DEFINE P == PositionsOf(args)
             J == Majority(args)
             H == Heaviest(args)
             decided(outcome, W) ==
                 [outcome |-> outcome, winningPosition |-> FirstArgued(args, W),
                  votes |-> Votes(args)]
  <1>1. Evaluate(args) = IF Cardinality(P) = 1 THEN decided("consensus", P)
                         ELSE IF J # {} THEN decided("majority", J)
                         ELSE decided("tiebreak", H)
    BY DEF Evaluate
  <1>2. H \in SUBSET P /\ H # {}
    BY SomeIsHeaviest
  <1>3. FirstArgued(args, H) \in H
    BY <1>2, FirstArguedIsGiven
  <1>4. J # {} => FirstArgued(args, J) \in H
    <2>1. J \in SUBSET P
      BY DEF Majority
    <2>2. \A p \in J : p \in H
      BY <2>1, MajorityIsHeaviest, SomeIsHeaviest
    <2> HIDE DEF J, H, P
    <2> QED  BY <2>1, <2>2, FirstArguedIsGiven DEF P
  <1>5. Cardinality(P) = 1 => FirstArgued(args, P) \in H
    <2> SUFFICES ASSUME Cardinality(P) = 1  PROVE P = H
      BY <1>3
    <2>1. IsFiniteSet(P)
      <3> DEFINE f == [i \in DOMAIN args |-> args[i].position]
      <3>1. f \in Surjection(DOMAIN args, P)
        BY DEF Surjection, PositionsOf
      <3> QED  BY <3>1, ArgumentsAreWeighed, FS_Surjection
    <2>2. PICK p : P = {p}
      BY <2>1, FS_Singleton
    <2> QED  BY <1>2, <2>2
  <1> HIDE DEF P, H, J
  <1>6. CASE Cardinality(P) = 1
    BY <1>1, <1>5, <1>6 DEF P, H
  <1>7. CASE Cardinality(P) # 1 /\ J # {}
    BY <1>1, <1>4, <1>7 DEF P, H
  <1>8. CASE Cardinality(P) # 1 /\ J = {}
    BY <1>1, <1>3, <1>8 DEF P, H
  <1> QED  BY <1>6, <1>7, <1>8

\* For each agent that has argued there is a latest argument, which is its vote.
LEMMA VotesAreLatest ==
    ASSUME NEW args \in Seq(Argument)
    PROVE  \E A \in SUBSET Participants : Votes(args) \in [A -> Vote]
  <1> DEFINE A == {args[i].agentId : i \in DOMAIN args}
             Latest(i, a) == /\ args[i].agentId = a
                             /\ \A j \in DOMAIN args : args[j].agentId = a => j <= i
             last(a) == CHOOSE i \in DOMAIN args : Latest(i, a)
  <1>1. /\ DOMAIN args = 1 .. Len(args) /\ Len(args) \in Nat
        /\ \A i \in DOMAIN args : args[i] \in Argument
    BY ArgumentsAreWeighed
  <1>2. A \in SUBSET Participants
    BY <1>1 DEF Argument
  <1>3. ASSUME NEW a \in A  PROVE \E i \in DOMAIN args : Latest(i, a)
    <2> DEFINE Back == {Len(args) - i : i \in {i \in DOMAIN args : args[i].agentId = a}}
    <2>1. Back \in SUBSET Nat /\ Back # {}
      BY <1>1
    <2>2. PICK n \in Back : \A m \in Back : n <= m
      <3> HIDE DEF Back
      <3> QED  BY <2>1, LeastNumber
    <2>3. PICK i \in DOMAIN args : args[i].agentId = a /\ n = Len(args) - i
      BY <2>2
    <2>4. ASSUME NEW j \in DOMAIN args, args[j].agentId = a  PROVE j <= i
      <3>1. n <= Len(args) - j
        BY <2>2, <2>4
      <3> QED  BY <1>1, <2>3, <3>1
    <2> QED  BY <2>3, <2>4
  <1>4. Votes(args) = [a \in A |-> [position |-> args[last(a)].position,
                                     confidence |-> args[last(a)].confidence]]
    BY DEF Votes
  <1> HIDE DEF Latest, A
  <1>5. \A a \in A : last(a) \in DOMAIN args
    BY <1>3
  <1> HIDE DEF last
  <1>6. \A a \in A : [position |-> args[last(a)].position,
                       confidence |-> args[last(a)].confidence] \in Vote
    BY <1>1, <1>5 DEF Argument, Vote
  <1>7. Votes(args) \in [A -> Vote]
    BY <1>4, <1>6
  <1> QED  BY <1>2, <1>7

\* evaluate() returns a verdict in every case.
LEMMA ResultIsTyped ==
    ASSUME NEW args \in Seq(Argument), args # <<>>, Len(args) <= MaxArguments
    PROVE  Evaluate(args) \in Verdict
  <1>1. Votes(args) \in UNION {[A -> Vote] : A \in SUBSET Participants}
    BY VotesAreLatest
  <1>2. Evaluate(args).winningPosition \in Positions
    <2>1. PositionsOf(args) \subseteq Positions
      BY ArgumentsAreWeighed DEF PositionsOf, Argument
    <2>2. Heaviest(args) \subseteq PositionsOf(args)
      BY DEF Heaviest
    <2> QED  BY <2>1, <2>2, WinnerIsHeaviest
  <1>3. Evaluate(args).outcome \in {"consensus", "majority", "tiebreak"}
    BY WinnerIsHeaviest
  <1> QED  BY <1>1, <1>2, <1>3, WinnerIsHeaviest DEF Verdict

-----------------------------------------------------------------------------
(* What a session holds besides its verdict.                                *)

\* The vote of an agent is its last argument.
LEMMA VoteIsLast ==
    ASSUME NEW args \in Seq(Argument), NEW i \in DOMAIN args,
           \A j \in DOMAIN args : args[j].agentId = args[i].agentId => j <= i
    PROVE  /\ args[i].agentId \in DOMAIN Votes(args)
           /\ Votes(args)[args[i].agentId] =
                 [position |-> args[i].position, confidence |-> args[i].confidence]
  <1> DEFINE a == args[i].agentId
             Latest(k) == /\ args[k].agentId = a
                          /\ \A j \in DOMAIN args : args[j].agentId = a => j <= k
             last == CHOOSE k \in DOMAIN args : Latest(k)
  <1>1. DOMAIN args = 1 .. Len(args) /\ Len(args) \in Nat
    BY ArgumentsAreWeighed
  <1>2. last \in DOMAIN args /\ Latest(last)
    <2>1. \E k \in DOMAIN args : Latest(k)
      OBVIOUS
    <2> QED  BY <2>1
  <1>3. last = i
    <2>1. last <= i /\ i <= last
      BY <1>2
    <2> HIDE DEF last
    <2> QED  BY <1>1, <1>2, <2>1
  <1>4. /\ a \in DOMAIN Votes(args)
        /\ Votes(args)[a] = [position |-> args[last].position,
                             confidence |-> args[last].confidence]
    BY DEF Votes
  <1> QED  BY <1>3, <1>4

\* There are no more arguments than the bound allows, and a verdict is that of all
\* of them.
Judged(s) ==
    /\ Len(s.arguments) <= MaxArguments
    /\ ~ Active(s) => s.arguments # <<>> /\ s.verdict = Evaluate(s.arguments)

JudgedInv == EngineInv /\ \A d \in DOMAIN sessions : Judged(sessions[d])

LEMMA JudgedInit == Init => JudgedInv
  BY EngineInit DEF JudgedInv, Init

\* Only an active session changes its arguments, and it has no verdict but the
\* one that its new arguments give.
LEMMA AdvanceJudges ==
    ASSUME NEW s \in ProvedSession, Active(s), s.arguments # <<>>,
           Len(s.arguments) <= MaxArguments
    PROVE  Judged(MaybeAdvanceRound(s))
  <1> DEFINE decided == [s EXCEPT !.verdict = Evaluate(s.arguments)]
             next == [s EXCEPT !.currentRound = s.currentRound + 1]
  <1>1. /\ decided.arguments = s.arguments /\ decided.verdict = Evaluate(s.arguments)
        /\ next.verdict = s.verdict /\ next.arguments = s.arguments
    BY DEF ProvedSession
  <1>2. MaybeAdvanceRound(s) \in {s, decided, next}
    BY DEF MaybeAdvanceRound
  <1> HIDE DEF decided, next
  <1> QED  BY <1>1, <1>2 DEF Judged, Active

LEMMA JudgedStep == JudgedInv /\ [Next]_sessions => JudgedInv'
  <1> SUFFICES ASSUME JudgedInv, [Next]_sessions  PROVE JudgedInv'
    OBVIOUS
  <1>1. EngineInv /\ EngineInv' /\ \A d \in DOMAIN sessions : sessions[d] \in ProvedSession
    BY EngineStep DEF JudgedInv, EngineInv
  <1>2. SUFFICES ASSUME NEW d \in DOMAIN sessions'  PROVE Judged(sessions'[d])
    BY <1>1 DEF JudgedInv, Judged, Active
  <1>3. CASE UNCHANGED sessions
    BY <1>2, <1>3 DEF JudgedInv
  <1>4. ASSUME NEW t \in Topics, NEW P \in SUBSET Participants, Initiate(t, P)
        PROVE  Judged(sessions'[d])
    <2> DEFINE new == [taskId |-> t, participants |-> P, arguments |-> <<>>,
                       currentRound |-> 1, verdict |-> NoVerdict]
    <2>1. sessions' = Append(sessions, new)
      BY <1>4 DEF Initiate
    <2>2. Judged(new)
      <3>1. Len(new.arguments) = 0
        OBVIOUS
      <3> QED  BY <3>1, BoundsAreNatural DEF Judged, Active
    <2> HIDE DEF new
    <2>3. sessions'[d] = new \/ (d \in DOMAIN sessions /\ sessions'[d] = sessions[d])
      BY <1>1, <1>2, <2>1 DEF EngineInv
    <2> QED  BY <2>2, <2>3 DEF JudgedInv
  <1>5. ASSUME NEW e \in DOMAIN sessions, NEW a \in Participants,
               NEW p \in Positions, NEW c \in Confidences, SubmitArgument(e, a, p, c)
        PROVE  Judged(sessions'[d])
    <2> DEFINE s == sessions[e]
               argument == [agentId |-> a, position |-> p, confidence |-> c,
                            round |-> s.currentRound]
               longer == [s EXCEPT !.arguments = Append(@, argument)]
    <2>1. s \in ProvedSession /\ Active(s)
      BY <1>1, <1>5 DEF SubmitArgument
    <2>2. /\ longer \in ProvedSession /\ longer.verdict = s.verdict
          /\ longer.arguments # <<>> /\ Len(longer.arguments) <= MaxArguments
      <3>1. argument \in Argument /\ s.arguments \in Seq(Argument)
        BY <2>1 DEF ProvedSession, Argument
      <3>2. Len(s.arguments) < MaxArguments /\ Len(s.arguments) \in Nat
        BY <1>5, <3>1, LenProperties DEF SubmitArgument
      <3> HIDE DEF argument
      <3>3. /\ Append(s.arguments, argument) \in Seq(Argument)
            /\ Append(s.arguments, argument) # <<>>
            /\ Len(Append(s.arguments, argument)) <= MaxArguments
        BY <3>1, <3>2, BoundsAreNatural, AppendProperties
      <3> QED  BY <2>1, <3>3 DEF ProvedSession
    <2>3. sessions' = [sessions EXCEPT ![e] = MaybeAdvanceRound(longer)]
      BY <1>5 DEF SubmitArgument
    <2> HIDE DEF longer, s
    <2>4. Judged(MaybeAdvanceRound(longer))
      BY <2>1, <2>2, AdvanceJudges DEF Active
    <2>5. d \in DOMAIN sessions
          /\ sessions'[d] = IF d = e THEN MaybeAdvanceRound(longer) ELSE sessions[d]
      BY <1>2, <2>3
    <2> QED  BY <2>4, <2>5 DEF JudgedInv
  <1>6. ASSUME NEW E \in SUBSET DOMAIN sessions, Timeout(E)
        PROVE  Judged(sessions'[d])
    <2> DEFINE s == sessions[d]
               decided == [s EXCEPT !.verdict = Evaluate(s.arguments)]
    <2>1. d \in DOMAIN sessions
      BY <1>2, <1>6 DEF Timeout
    <2>2. CASE d \in E /\ Active(s) /\ s.arguments # <<>>
      <3>1. sessions'[d] = decided
        BY <1>6, <2>1, <2>2 DEF Timeout
      <3>2. decided.arguments = s.arguments /\ decided.verdict = Evaluate(s.arguments)
        BY <1>1, <2>1 DEF ProvedSession
      <3> HIDE DEF decided
      <3>3. Len(s.arguments) <= MaxArguments
        BY <2>1 DEF JudgedInv, Judged
      <3> QED  BY <2>2, <3>1, <3>2, <3>3 DEF Judged
    <2>3. CASE ~ (d \in E /\ Active(s) /\ s.arguments # <<>>)
      <3>1. sessions'[d] = s
        BY <1>6, <2>1, <2>3 DEF Timeout
      <3> QED  BY <2>1, <3>1 DEF JudgedInv
    <2> QED  BY <2>2, <2>3
  <1> QED  BY <1>3, <1>4, <1>5, <1>6 DEF Next

\* A verdict is about all that is argued: it names a position that no other
\* outweighs, and the last argument of each agent is its vote.
THEOREM VerdictsCoverAll == Spec => []VerdictsCoverArguments
  <1>1. JudgedInv => VerdictsCoverArguments
    <2> SUFFICES ASSUME JudgedInv, NEW d \in DOMAIN sessions, ~ Active(sessions[d])
                 PROVE  LET s == sessions[d]
                            args == s.arguments
                        IN  /\ s.verdict.winningPosition \in Heaviest(args)
                            /\ \A i \in DOMAIN args :
                                  (\A j \in DOMAIN args :
                                      args[j].agentId = args[i].agentId => j <= i)
                                  => /\ args[i].agentId \in DOMAIN s.verdict.votes
                                     /\ s.verdict.votes[args[i].agentId] =
                                           [position |-> args[i].position,
                                            confidence |-> args[i].confidence]
      BY Zenon DEF VerdictsCoverArguments
    <2> DEFINE args == sessions[d].arguments
    <2>1. /\ args \in Seq(Argument) /\ args # <<>> /\ Len(args) <= MaxArguments
          /\ sessions[d].verdict = Evaluate(args)
      <3>1. Judged(sessions[d]) /\ sessions[d] \in ProvedSession
        BY DEF JudgedInv, EngineInv
      <3> QED  BY <3>1 DEF Judged, ProvedSession
    <2> HIDE DEF args
    <2>2. Evaluate(args).winningPosition \in Heaviest(args)
          /\ Evaluate(args).votes = Votes(args)
      BY <2>1, WinnerIsHeaviest
    <2>3. \A i \in DOMAIN args :
             (\A j \in DOMAIN args : args[j].agentId = args[i].agentId => j <= i)
             => /\ args[i].agentId \in DOMAIN Votes(args)
                /\ Votes(args)[args[i].agentId] =
                      [position |-> args[i].position, confidence |-> args[i].confidence]
      BY <2>1, VoteIsLast
    <2> QED  BY <2>1, <2>2, <2>3, Zenon DEF args
  <1> QED  BY <1>1, JudgedInit, JudgedStep, PTL DEF Spec

\* Every session keeps its type: a verdict always names a position and the vote
\* of each agent that has argued, also when no confidence is above zero.
THEOREM SessionsAreTyped == Spec => []TypeOK
  <1>1. ASSUME JudgedInv, NEW d \in DOMAIN sessions
        PROVE  sessions[d] \in DebateSession
    <2> DEFINE s == sessions[d]
    <2>1. s \in ProvedSession /\ Judged(s)
      BY <1>1 DEF JudgedInv, EngineInv, Good
    <2> HIDE DEF s
    <2>2. s.arguments \in Seq(Argument)
      BY <2>1 DEF ProvedSession
    <2>3. s.verdict \in Verdict \union {NoVerdict}
      BY <2>1, <2>2, ResultIsTyped DEF Judged, Active
    <2>4. s \in DebateSession
      BY <2>1, <2>3 DEF ProvedSession, DebateSession
    <2> QED  BY <2>4 DEF s
  <1>2. JudgedInv => TypeOK
    <2> SUFFICES ASSUME JudgedInv  PROVE sessions \in Seq(DebateSession)
      BY DEF TypeOK
    <2>1. sessions \in Seq(ProvedSession)
      BY DEF JudgedInv, EngineInv
    <2>2. /\ Len(sessions) \in Nat
          /\ sessions = [d \in 1 .. Len(sessions) |-> sessions[d]]
          /\ DOMAIN sessions = 1 .. Len(sessions)
      BY <2>1, LenProperties
    <2>3. sessions \in [1 .. Len(sessions) -> DebateSession]
      BY <1>1, <2>2
    <2> QED  BY <2>2, <2>3, SeqDef
  <1> QED  BY <1>2, JudgedInit, JudgedStep, PTL DEF Spec

-----------------------------------------------------------------------------
(* The order of arguments.                                                  *)

\* Swapping two neighbours moves their arguments and no other.
LEMMA SwapMoves ==
    ASSUME NEW args \in Seq(Argument), NEW k \in 1 .. Len(args) - 1
    PROVE  /\ Swap(args, k) \in Seq(Argument) /\ Swap(args, k) # <<>>
           /\ DOMAIN Swap(args, k) = DOMAIN args /\ Len(Swap(args, k)) = Len(args)
           /\ k \in DOMAIN args /\ k + 1 \in DOMAIN args /\ k # k + 1
           /\ Swap(args, k)[k] = args[k + 1] /\ Swap(args, k)[k + 1] = args[k]
           /\ \A i \in DOMAIN args \ {k, k + 1} : Swap(args, k)[i] = args[i]
  <1>1. /\ DOMAIN args = 1 .. Len(args) /\ Len(args) \in Nat
        /\ \A i \in DOMAIN args : args[i] \in Argument
    BY ArgumentsAreWeighed
  <1>2. k \in 1 .. Len(args) /\ k + 1 \in 1 .. Len(args) /\ k # k + 1
    BY <1>1
  <1> DEFINE once == [args EXCEPT ![k] = args[k + 1]]
             more == [once EXCEPT ![k + 1] = args[k]]
  <1>3. /\ once \in Seq(Argument) /\ Len(once) = Len(args)
        /\ \A i \in 1 .. Len(args) : once[i] = IF i = k THEN args[k + 1] ELSE args[i]
    BY <1>1, <1>2, ExceptSeq
  <1>4. Swap(args, k) = more
    BY DEF Swap
  <1> HIDE DEF once
  <1>5. /\ more \in Seq(Argument) /\ Len(more) = Len(args)
        /\ \A i \in 1 .. Len(args) : more[i] = IF i = k + 1 THEN args[k] ELSE once[i]
    BY <1>1, <1>2, <1>3, ExceptSeq
  <1> HIDE DEF more
  <1>6. DOMAIN more = 1 .. Len(args) /\ more # <<>>
    BY <1>2, <1>5, LenProperties, EmptySeq
  <1> QED  BY <1>1, <1>2, <1>3, <1>4, <1>5, <1>6

\* When neighbours that argue for different positions change places, each
\* position still adds up the same confidences in the same order.
LEMMA SwappedWeights ==
    ASSUME NEW args \in Seq(Argument), NEW k \in 1 .. Len(args) - 1,
           args[k].position # args[k + 1].position
    PROVE  /\ PositionsOf(Swap(args, k)) = PositionsOf(args)
           /\ \A p : Weight(Swap(args, k), p) = Weight(args, p)
  <1> DEFINE more == Swap(args, k)
             D == DOMAIN args
  <1>1. /\ more \in Seq(Argument) /\ DOMAIN more = D /\ k \in D /\ k + 1 \in D
        /\ more[k] = args[k + 1] /\ more[k + 1] = args[k]
        /\ \A i \in D \ {k, k + 1} : more[i] = args[i]
    BY SwapMoves
  <1>2. D = 1 .. Len(args) /\ Len(args) \in Nat /\ Len(more) = Len(args)
    BY SwapMoves, ArgumentsAreWeighed
  <1> HIDE DEF more, D
  <1>3. PositionsOf(more) = PositionsOf(args)
    <2>1. \A i \in D : \E j \in D : more[j].position = args[i].position
      BY <1>1
    <2>2. \A i \in D : \E j \in D : args[j].position = more[i].position
      BY <1>1
    <2>3. ASSUME NEW p \in PositionsOf(more)  PROVE p \in PositionsOf(args)
      <3>1. PICK i \in D : p = more[i].position
        BY <1>1 DEF PositionsOf
      <3> QED  BY <2>2, <3>1 DEF PositionsOf, D
    <2>4. ASSUME NEW p \in PositionsOf(args)  PROVE p \in PositionsOf(more)
      <3>1. PICK i \in D : p = args[i].position
        BY DEF PositionsOf, D
      <3> QED  BY <1>1, <2>1, <3>1 DEF PositionsOf
    <2> QED  BY <2>3, <2>4
  <1>4. ASSUME NEW p  PROVE Weight(more, p) = Weight(args, p)
    <2> DEFINE x == Addends(args, p)
               y == Addends(more, p)
               n == Len(args)
    <2>1. Weight(args, p) = RoundedSum(x, n) /\ Weight(more, p) = RoundedSum(y, n)
      BY <1>2 DEF Weight, Addends
    <2>2. \A i \in 1 .. n : x[i] \in Doubles
      BY <1>2, ArgumentsAreWeighed, DoublesAreNumbers DEF Addends, D
    <2>3. /\ y[k] = x[k + 1] /\ y[k + 1] = x[k]
          /\ \A i \in 1 .. n : i # k /\ i # k + 1 => y[i] = x[i]
      BY <1>1, <1>2 DEF Addends, D
    <2>4. x[k] = 0 \/ x[k + 1] = 0
      BY <1>1 DEF Addends, D
    <2>5. n \in Nat /\ k \in 1 .. n - 1
      BY <1>2
    <2> HIDE DEF x, y, n
    <2>6. RoundedSum(x, n) = RoundedSum(y, n)
      BY <2>2, <2>3, <2>4, <2>5, SumOfSwapped
    <2> QED  BY <2>1, <2>6
  <1> QED  BY <1>3, <1>4 DEF more

\* However sums are rounded, the order in which arguments for different positions
\* arrive changes the winner only among the positions that weigh most.
THEOREM RivalsOrderDecidesOnlyTies == Spec => []RivalsOrderDecidesTiesOnly
  <1>1. ASSUME JudgedInv, NEW d \in DOMAIN sessions,
               NEW k \in 1 .. Len(sessions[d].arguments) - 1,
               sessions[d].arguments[k].position # sessions[d].arguments[k + 1].position
        PROVE  LET args == sessions[d].arguments
               IN  {Evaluate(args).winningPosition,
                    Evaluate(Swap(args, k)).winningPosition} \subseteq Heaviest(args)
    <2> DEFINE args == sessions[d].arguments
               more == Swap(args, k)
    <2>1. args \in Seq(Argument) /\ Len(args) <= MaxArguments
      BY <1>1 DEF JudgedInv, EngineInv, Good, ProvedSession, Judged
    <2>2. k \in 1 .. Len(args) - 1 /\ args[k].position # args[k + 1].position
      BY <1>1
    <2> HIDE DEF args
    <2>3. /\ more \in Seq(Argument) /\ more # <<>> /\ args # <<>>
          /\ Len(more) <= MaxArguments
      <3>1. /\ k \in DOMAIN args /\ more \in Seq(Argument) /\ more # <<>>
            /\ Len(more) = Len(args)
        BY <2>1, <2>2, SwapMoves
      <3>2. args # <<>>
        BY <3>1
      <3> QED  BY <2>1, <3>1, <3>2
    <2>4. PositionsOf(more) = PositionsOf(args) /\ \A p : Weight(more, p) = Weight(args, p)
      BY <2>1, <2>2, SwappedWeights
    <2> HIDE DEF more
    <2>5. Heaviest(more) = Heaviest(args)
      BY <2>4 DEF Heaviest
    <2>6. {Evaluate(args).winningPosition, Evaluate(more).winningPosition}
              \subseteq Heaviest(args)
      BY <2>1, <2>3, <2>5, WinnerIsHeaviest
    <2> QED  BY <2>6 DEF args, more
  <1>2. JudgedInv => RivalsOrderDecidesTiesOnly
    BY <1>1 DEF RivalsOrderDecidesTiesOnly
  <1> QED  BY <1>2, JudgedInit, JudgedStep, PTL DEF Spec
=============================================================================
