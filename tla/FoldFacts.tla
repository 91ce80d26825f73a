------------------------------ MODULE FoldFacts ------------------------------
(***************************************************************************)
(* What a fold over a sequence computes, for any step.  The step and the   *)
(* formula to prove are constants: a module that uses a fold instantiates  *)
(* this one with its own, and cites the facts by name.  It uses no more    *)
(* modules than it must, because every instance has their facts again.     *)
(***************************************************************************)
EXTENDS Naturals, Sequences, WellFoundedInduction

CONSTANTS
  Step(_, _, _),   \* parameter, value so far, next element
  Base(_),         \* the value for the empty sequence
  Elements,        \* the set of the elements
  Holds(_, _, _)   \* what is to hold of parameter, sequence and value

Last(s) == CHOOSE i \in s : \A j \in s : i >= j

\* FoldLeft of SequencesExt, with what it is defined by written out.
Fold(c, seq) ==
  LET iter[s \in SUBSET (DOMAIN seq)] ==
        IF s = {} THEN Base(c) ELSE Step(c, iter[s \ {Last(s)}], seq[Last(s)])
  IN  iter[DOMAIN seq]

-----------------------------------------------------------------------------
\* The recursive function that the fold is defined by, on subsets of 1..n.
IsIter(c, seq, n, g) ==
  g = [s \in SUBSET (1..n) |->
         IF s = {} THEN Base(c) ELSE Step(c, g[s \ {Last(s)}], seq[Last(s)])]

\* A nonempty set of numbers up to n has a least element outside a set of
\* good ones: induction without an operator parameter.
LEMMA LeastNumber ==
  ASSUME NEW T, T \subseteq Nat, T # {}
  PROVE  \E n \in T : \A m \in T : m >= n
<1>1. PICK n \in T : \A m \in T : ~(<<m, n>> \in OpToRel(<, Nat))
  BY NatLessThanWellFounded, WFMin
<1>2. \A m \in T : ~(m < n)
  BY <1>1 DEF OpToRel
<1> QED
  BY <1>2

\* The last of a nonempty set of positions.
LEMMA LastOfPositions ==
  ASSUME NEW n \in Nat, NEW s, s \subseteq 1..n, s # {}
  PROVE  Last(s) \in s /\ \A m \in s : m <= Last(s)
<1> DEFINE T == {n - i : i \in s}
<1>1. T \subseteq Nat /\ T # {}
  <2>1. \A i \in s : n - i \in Nat
    OBVIOUS
  <2>2. PICK i \in s : TRUE
    OBVIOUS
  <2>3. n - i \in T
    BY <2>2
  <2> QED
    BY <2>1, <2>3
<1>2. PICK t \in T : \A m \in T : m >= t
  <2> HIDE DEF T
  <2> QED
    BY <1>1, LeastNumber
<1>3. PICK i \in s : t = n - i
  OBVIOUS
<1>4. ASSUME NEW m \in s
      PROVE  i >= m
  <2>1. n - m \in T
    OBVIOUS
  <2>2. n - m >= n - i
    BY <1>2, <1>3, <2>1
  <2>3. m \in Nat /\ i \in Nat
    OBVIOUS
  <2> QED
    BY <2>2, <2>3
<1> QED
  BY <1>3, <1>4 DEF Last

\* An interval without its last number is an interval.
LEMMA Intervals ==
  ASSUME NEW k \in Nat, k # 0
  PROVE  1..k # {} /\ Last(1..k) = k /\ (1..k) \ {k} = 1..(k - 1)
<1> DEFINE s == 1..k
<1>1. k \in s
  OBVIOUS
<1>2. \A i : i \in s <=> i \in Nat /\ 1 <= i /\ i <= k
  OBVIOUS
<1>3. \A i : i \in 1..(k - 1) <=> i \in Nat /\ 1 <= i /\ i <= k - 1
  OBVIOUS
<1>4. \A i \in Nat : i <= k /\ i # k <=> i <= k - 1
  OBVIOUS
<1>5. s \subseteq 1..k
  OBVIOUS
<1> HIDE DEF s
<1>6. Last(s) \in s /\ \A i \in s : i <= Last(s)
  BY <1>1, <1>5, LastOfPositions
<1>7. Last(s) = k
  BY <1>1, <1>2, <1>6
<1>8. s \ {k} = 1..(k - 1)
  BY <1>2, <1>3, <1>4
<1> QED
  BY <1>1, <1>7, <1>8 DEF s

\* The function exists.
LEMMA IterExists ==
  ASSUME NEW c, NEW seq
  PROVE  \A n \in Nat : \E g : IsIter(c, seq, n, g)
<1> DEFINE T == {n \in Nat : ~\E g : IsIter(c, seq, n, g)}
<1>1. SUFFICES ASSUME T # {} PROVE FALSE
  OBVIOUS
<1>2. PICK n \in T : \A m \in T : m >= n
  BY <1>1, LeastNumber
<1>3. CASE n = 0
  <2> DEFINE g == [s \in SUBSET (1..n) |-> Base(c)]
  <2>1. \A s \in SUBSET (1..n) : s = {}
    BY <1>3
  <2>2. IsIter(c, seq, n, g)
    BY <2>1 DEF IsIter
  <2> QED
    BY <2>2
<1>4. CASE n # 0
  <2>1. n - 1 \in Nat /\ n - 1 < n /\ n - 1 \notin T
    BY <1>2, <1>4
  <2>2. PICK g : IsIter(c, seq, n - 1, g)
    BY <2>1
  <2> DEFINE val(s) == IF s = {} THEN Base(c)
                       ELSE Step(c, g[s \ {Last(s)}], seq[Last(s)])
             h == [s \in SUBSET (1..n) |-> val(s)]
  <2>3. \A s \in SUBSET (1..(n - 1)) : g[s] = val(s)
    BY <2>2 DEF IsIter
  <2>4. ASSUME NEW s \in SUBSET (1..n), s # {}
        PROVE  s \ {Last(s)} \in SUBSET (1..(n - 1))
    <3>1. Last(s) \in 1..n /\ \A m \in s : m <= Last(s) /\ m \in 1..n
      BY <2>4, LastOfPositions
    <3>2. SUFFICES ASSUME NEW m \in s, m # Last(s) PROVE m \in 1..(n - 1)
      OBVIOUS
    <3>3. m \in Nat /\ 1 <= m /\ m <= n /\ m <= Last(s) /\ Last(s) <= n /\ Last(s) \in Nat
      BY <3>1
    <3> QED
      BY <3>2, <3>3
  <2>5. SUBSET (1..(n - 1)) \subseteq SUBSET (1..n)
    BY <2>1
  <2> HIDE DEF val
  <2>6. \A s \in SUBSET (1..n) : s # {} => h[s \ {Last(s)}] = g[s \ {Last(s)}]
    BY <2>3, <2>4, <2>5
  <2>7. \A s \in SUBSET (1..n) :
          val(s) = IF s = {} THEN Base(c) ELSE Step(c, h[s \ {Last(s)}], seq[Last(s)])
    BY <2>6 DEF val
  <2> QED
    BY <2>7 DEF IsIter
<1> QED
  BY <1>3, <1>4

\* The fold is its value for all positions.
LEMMA FoldIsIter ==
  ASSUME NEW c, NEW seq \in Seq(Elements)
  PROVE  \E g : IsIter(c, seq, Len(seq), g) /\ Fold(c, seq) = g[1..Len(seq)]
<1>1. DOMAIN seq = 1..Len(seq) /\ Len(seq) \in Nat
  OBVIOUS
<1> DEFINE n == Len(seq)
           g == CHOOSE g : IsIter(c, seq, n, g)
<1>2. IsIter(c, seq, n, g)
  BY <1>1, IterExists
<1>3. Fold(c, seq) = g[1..n]
  BY <1>1 DEF Fold, IsIter
<1> QED
  BY <1>2, <1>3

\* Two sequences that begin alike fold alike that far.
LEMMA SameIter ==
  ASSUME NEW c, NEW f, NEW h, NEW m \in Nat, NEW n \in Nat, m <= n,
         \A i \in 1..m : f[i] = h[i],
         NEW g1, IsIter(c, f, m, g1), NEW g2, IsIter(c, h, n, g2)
  PROVE  g1[1..m] = g2[1..m]
<1> DEFINE T == {k \in 0..m : g1[1..k] # g2[1..k]}
<1>1. SUFFICES ASSUME T # {} PROVE FALSE
  OBVIOUS
<1>2. PICK k \in T : \A j \in T : j >= k
  <2>1. T \subseteq Nat
    OBVIOUS
  <2> HIDE DEF T
  <2> QED
    BY <1>1, <2>1, LeastNumber
<1>3. k \in 0..m /\ 1..k \in SUBSET (1..m) /\ 1..k \in SUBSET (1..n)
  OBVIOUS
<1>4. CASE k = 0
  <2>1. 1..k = {}
    BY <1>4
  <2> QED
    BY <1>3, <2>1 DEF IsIter
<1>5. CASE k # 0
  <2>1. k - 1 \in 0..m /\ g1[1..(k - 1)] = g2[1..(k - 1)]
    BY <1>2, <1>3, <1>5
  <2>2. 1..k # {} /\ Last(1..k) = k /\ (1..k) \ {k} = 1..(k - 1)
    <3>1. k \in Nat /\ k # 0
      BY <1>3, <1>5
    <3> QED
      BY <3>1, Intervals
  <2>5. /\ g1[1..k] = Step(c, g1[1..(k - 1)], f[k])
        /\ g2[1..k] = Step(c, g2[1..(k - 1)], h[k])
    <3> DEFINE J == 1..k
    <3>1. /\ J \in SUBSET (1..m) /\ J \in SUBSET (1..n)
          /\ J # {} /\ Last(J) = k /\ J \ {k} = 1..(k - 1)
      BY <1>3, <2>2
    <3> HIDE DEF J
    <3>2. g1[J] = Step(c, g1[J \ {Last(J)}], f[Last(J)])
      BY <3>1 DEF IsIter
    <3>3. g2[J] = Step(c, g2[J \ {Last(J)}], h[Last(J)])
      BY <3>1 DEF IsIter
    <3> QED
      BY <3>1, <3>2, <3>3 DEF J
  <2>6. k \in 1..m
    BY <1>3, <1>5
  <2> QED
    BY <1>2, <2>1, <2>5, <2>6
<1> QED
  BY <1>4, <1>5

-----------------------------------------------------------------------------
\* The fold of the empty sequence.
THEOREM FoldEmpty ==
  \A c : Fold(c, << >>) = Base(c)
<1> TAKE c
<1>1. << >> \in Seq(Elements) /\ Len(<< >>) = 0 /\ 1..0 = {}
  OBVIOUS
<1>2. PICK g : IsIter(c, << >>, Len(<< >>), g) /\ Fold(c, << >>) = g[1..Len(<< >>)]
  BY <1>1, FoldIsIter
<1> QED
  BY <1>1, <1>2 DEF IsIter

\* One more element is one more step.
THEOREM FoldAppend ==
  \A c : \A seq \in Seq(Elements) : \A e \in Elements :
    Fold(c, Append(seq, e)) = Step(c, Fold(c, seq), e)
<1> TAKE c
<1> TAKE seq \in Seq(Elements)
<1> TAKE e \in Elements
<1> DEFINE n == Len(seq)
           ext == Append(seq, e)
<1>1. /\ ext \in Seq(Elements) /\ Len(ext) = n + 1 /\ n \in Nat
      /\ \A i \in 1..n : seq[i] = ext[i]
      /\ ext[n + 1] = e
  OBVIOUS
<1>2. PICK g1 : IsIter(c, seq, n, g1) /\ Fold(c, seq) = g1[1..n]
  BY FoldIsIter
<1> HIDE DEF ext, n
<1>3. PICK g2 : IsIter(c, ext, n + 1, g2) /\ Fold(c, ext) = g2[1..(n + 1)]
  BY <1>1, FoldIsIter
<1>4. g1[1..n] = g2[1..n]
  BY <1>1, <1>2, <1>3, SameIter
<1>5. n + 1 \in Nat /\ n + 1 # 0 /\ (n + 1) - 1 = n
  BY <1>1
<1>6. 1..(n + 1) # {} /\ Last(1..(n + 1)) = n + 1 /\ (1..(n + 1)) \ {n + 1} = 1..n
  BY <1>5, Intervals
<1>7. g2[1..(n + 1)] = Step(c, g2[1..n], ext[n + 1])
  BY <1>3, <1>6 DEF IsIter
<1> QED
  BY <1>1, <1>2, <1>3, <1>4, <1>7 DEF ext

\* A sequence that is not empty is one element longer than another.
LEMMA SplitLast ==
  ASSUME NEW seq \in Seq(Elements), Len(seq) # 0
  PROVE  \E front \in Seq(Elements), e \in Elements :
           seq = Append(front, e) /\ Len(front) = Len(seq) - 1
<1> DEFINE n == Len(seq)
           front == [i \in 1..(n - 1) |-> seq[i]]
<1>1. n \in Nat /\ n # 0 /\ seq[n] \in Elements
  OBVIOUS
<1>2. front \in Seq(Elements) /\ Len(front) = n - 1
      /\ \A i \in 1..(n - 1) : front[i] = seq[i]
  <2>1. n - 1 \in Nat /\ \A i \in 1..(n - 1) : seq[i] \in Elements
    BY <1>1
  <2> QED
    BY <2>1
<1> HIDE DEF front
<1> DEFINE ext == Append(front, seq[n])
<1>3. ext = seq
  <2>1. /\ ext \in Seq(Elements) /\ Len(ext) = n
        /\ \A i \in 1..(n - 1) : ext[i] = front[i]
        /\ ext[n] = seq[n]
    BY <1>1, <1>2
  <2>2. \A i \in 1..n : ext[i] = seq[i]
    BY <1>1, <1>2, <2>1
  <2> HIDE DEF ext
  <2> QED
    BY <2>1, <2>2
<1> QED
  BY <1>1, <1>2, <1>3

\* What holds at the start and survives every step holds of the fold.
THEOREM FoldInduction ==
  ASSUME \A c : Holds(c, << >>, Base(c)),
         \A c : \A seq \in Seq(Elements) : \A e \in Elements :
           Holds(c, seq, Fold(c, seq))
             => Holds(c, Append(seq, e), Step(c, Fold(c, seq), e))
  PROVE  \A c : \A seq \in Seq(Elements) : Holds(c, seq, Fold(c, seq))
<1> TAKE c
<1> DEFINE T == {n \in Nat : \E seq \in Seq(Elements) :
                    Len(seq) = n /\ ~Holds(c, seq, Fold(c, seq))}
<1>1. T = {}
  <2>1. SUFFICES ASSUME T # {} PROVE FALSE
    OBVIOUS
  <2>2. PICK n \in T : \A m \in T : m >= n
    <3>1. T \subseteq Nat
      OBVIOUS
    <3> HIDE DEF T
    <3> QED
      BY <2>1, <3>1, LeastNumber
  <2>3. PICK seq \in Seq(Elements) : Len(seq) = n /\ ~Holds(c, seq, Fold(c, seq))
    OBVIOUS
  <2>4. CASE n = 0
    <3>1. seq = << >>
      BY <2>3, <2>4
    <3> QED
      BY <2>3, <3>1, FoldEmpty
  <2>5. CASE n # 0
    <3>1. PICK front \in Seq(Elements), e \in Elements :
            seq = Append(front, e) /\ Len(front) = n - 1
      BY <2>3, <2>5, SplitLast
    <3>2. n - 1 \in Nat /\ n - 1 < n
      BY <2>5
    <3>3. Holds(c, front, Fold(c, front))
      BY <2>2, <3>1, <3>2
    <3> QED
      BY <2>3, <3>1, <3>3, FoldAppend
  <2> QED
    BY <2>4, <2>5
<1> QED
  BY <1>1
=============================================================================
