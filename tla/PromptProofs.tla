----------------------------- MODULE PromptProofs -----------------------------
(***************************************************************************)
(* What is put into prompts and what is made of the answers.               *)
(*                                                                         *)
(* First how group_pending_reviews fills its batches, for every queue and  *)
(* every limit; then what a finished adjudication keeps, for every number  *)
(* of chunks, cases and merges.                                            *)
(***************************************************************************)
EXTENDS CaseAdjudication, PromptPacking,
        FiniteSetTheorems, FunctionTheorems, SequenceTheorems, TLAPS

-----------------------------------------------------------------------------
(* The jobs that may be queued, and the chunks and batches made of them.   *)

Jobs == {[unit |-> n, path |-> kind.path, method |-> kind.method, chars |-> kind.chars] :
           n \in Nat, kind \in JobKinds}

\* parse_method_batch_size leaves at least one.
Sized == batchSize \in Nat \ {0} /\ maxChars \in Nat

\* The chunks so far, with the one that is being filled.
WholeChunks(c) == IF c.current = << >> THEN c.chunks ELSE Append(c.chunks, c.current)

ChunkState(c) ==
  /\ c = [chunks |-> c.chunks, current |-> c.current, file |-> c.file, estimate |-> c.estimate]
  /\ c.chunks \in Seq(Seq(Jobs)) /\ c.current \in Seq(Jobs)

NoChunks == [chunks |-> << >>, current |-> << >>, file |-> NoFile, estimate |-> 0]

\* What may be sent: no more methods than the batch size, and if there
\* are several, within the limit and no file review.
Fits(batch) ==
  /\ Len(batch) <= batchSize
  /\ Len(batch) > 1 => /\ BatchEstimate(batch) <= maxChars
                       /\ \A j \in DOMAIN batch : batch[j].method

AllFit(groups) == \A k \in DOMAIN groups : groups[k] # << >> /\ Fits(groups[k])

\* The chunk that is being filled is of methods of one file, and its estimate
\* is that of a batch.
CurrentFits(c) ==
  /\ c.current = << >> => c.estimate = 0
  /\ c.current # << >> =>
       /\ Len(c.current) < batchSize
       /\ c.estimate = BatchEstimate(c.current)
       /\ Fits(c.current)
       /\ \A j \in DOMAIN c.current : c.current[j].method /\ c.current[j].path = c.file

ChunksFit(c, seq) ==
  /\ ChunkState(c) /\ CurrentFits(c) /\ AllFit(c.chunks)
  /\ FlattenSeq(WholeChunks(c)) = seq

FitFold == INSTANCE FoldFacts WITH
  Step <- LAMBDA c, x, e : ChunkStep(x, e, batchSize, maxChars),
  Base <- LAMBDA c : NoChunks,
  Elements <- Jobs,
  Holds <- LAMBDA c, seq, x : ChunksFit(x, seq)

Flat == INSTANCE FoldFacts WITH
  Step <- LAMBDA c, x, e : x \o e,
  Base <- LAMBDA c : << >>,
  Elements <- Seq(Jobs),
  Holds <- LAMBDA c, seq, x : x \in Seq(Jobs)

Est == INSTANCE FoldFacts WITH
  Step <- LAMBDA b, sum, i :
            SaturatingAdd(sum, Estimate(b[i], \A j \in 1..(i - 1) : b[j].path # b[i].path)),
  Base <- LAMBDA b : 0,
  Elements <- Nat,
  Holds <- LAMBDA b, seq, x : TRUE

LEMMA JobsTyped ==
  /\ UsizeMax \in Nat
  /\ \A job \in Jobs : job.method \in BOOLEAN /\ job.chars \in Nat /\ SharedChars[job.path] \in Nat
  BY PackingAssumption DEF Jobs

LEMMA NothingYet ==
  Len(<< >>) = 0 /\ << >> \in Seq(Seq(Jobs)) /\ << >> \in Seq(Jobs)
  OBVIOUS

-----------------------------------------------------------------------------
(* Sequences one after the other.                                          *)

\* The recursive function that FlattenSeq is defined by.
IsFlat(ss, g) ==
  g = [i \in 1..Len(ss) |-> IF i = 1 THEN ss[i] ELSE g[i - 1] \o ss[i]]

UpTo(ss, i) == [j \in 1..i |-> ss[j]]

LEMMA PrefixGrows ==
  ASSUME NEW ss \in Seq(Seq(Jobs)), NEW i \in 1..Len(ss)
  PROVE  /\ UpTo(ss, i) \in Seq(Seq(Jobs)) /\ UpTo(ss, i - 1) \in Seq(Seq(Jobs))
         /\ UpTo(ss, i) = Append(UpTo(ss, i - 1), ss[i])
         /\ ss[i] \in Seq(Jobs) /\ UpTo(ss, 0) = << >> /\ UpTo(ss, Len(ss)) = ss
<1> DEFINE n == Len(ss)
           f == UpTo(ss, i - 1)
<1>1. n \in Nat /\ i \in Nat /\ i - 1 \in Nat /\ DOMAIN ss = 1..n
      /\ \A j \in 1..n : ss[j] \in Seq(Jobs)
  OBVIOUS
<1>2. \A j \in 1..i : j \in 1..n
  BY <1>1
<1>3. \A j \in 1..(i - 1) : j \in 1..i
  BY <1>1
<1>4. f \in Seq(Seq(Jobs)) /\ Len(f) = i - 1 /\ \A j \in 1..(i - 1) : f[j] = ss[j]
  BY <1>1, <1>2, <1>3 DEF UpTo
<1>5. UpTo(ss, i) \in Seq(Seq(Jobs)) /\ Len(UpTo(ss, i)) = i /\ \A j \in 1..i : UpTo(ss, i)[j] = ss[j]
  BY <1>1, <1>2 DEF UpTo
<1> HIDE DEF f
<1> DEFINE a == Append(f, ss[i])
<1>6. /\ a \in Seq(Seq(Jobs)) /\ Len(a) = i
      /\ a[i] = ss[i]
      /\ \A j \in 1..(i - 1) : a[j] = f[j]
  BY <1>1, <1>4, AppendProperties
<1> HIDE DEF a
<1>7. \A j \in 1..i : j = i \/ j \in 1..(i - 1)
  BY <1>1
<1>8. UpTo(ss, i) = a
  <2> DEFINE w == UpTo(ss, i)
  <2>1. w \in Seq(Seq(Jobs)) /\ Len(w) = i /\ \A j \in 1..i : w[j] = ss[j]
    BY <1>5
  <2>2. \A j \in 1..i : a[j] = ss[j]
    BY <1>4, <1>6, <1>7
  <2> HIDE DEF w
  <2>3. w = a
    BY <1>6, <2>1, <2>2, SeqEqual
  <2> QED
    BY <2>3 DEF w
<1>9. UpTo(ss, 0) = << >> /\ UpTo(ss, n) = ss
  BY <1>1 DEF UpTo
<1> QED
  BY <1>1, <1>4, <1>5, <1>8, <1>9 DEF a, f

\* FlattenSeq is a fold.
LEMMA FlattenIsFold ==
  ASSUME NEW ss \in Seq(Seq(Jobs))
  PROVE  FlattenSeq(ss) = Flat!Fold(0, ss)
<1> DEFINE n == Len(ss)
           h == [i \in 1..n |-> Flat!Fold(0, UpTo(ss, i))]
           g == CHOOSE g : IsFlat(ss, g)
<1>0. n \in Nat
  OBVIOUS
<1>1. CASE n = 0
  <2>1. ss = << >>
    BY <1>1
  <2> QED
    BY <1>1, <2>1, Flat!FoldEmpty DEF FlattenSeq
<1>2. CASE n # 0
  <2>1. \A i \in 1..n : Flat!Fold(0, UpTo(ss, i)) = Flat!Fold(0, UpTo(ss, i - 1)) \o ss[i]
    <3> TAKE i \in 1..n
    <3>1. /\ UpTo(ss, i) = Append(UpTo(ss, i - 1), ss[i])
          /\ UpTo(ss, i - 1) \in Seq(Seq(Jobs)) /\ ss[i] \in Seq(Jobs)
      BY PrefixGrows
    <3> DEFINE f == UpTo(ss, i - 1)
    <3> HIDE DEF f
    <3>2. Flat!Fold(0, Append(f, ss[i])) = Flat!Fold(0, f) \o ss[i]
      BY <3>1, Flat!FoldAppend DEF f
    <3> QED
      BY <3>1, <3>2 DEF f
  <2>2. Flat!Fold(0, UpTo(ss, 0)) = << >>
    <3>1. UpTo(ss, 0) = << >>
      BY DEF UpTo
    <3> QED
      BY <3>1, Flat!FoldEmpty
  <2>3. ASSUME NEW i \in 1..n
        PROVE  h[i] = IF i = 1 THEN ss[i] ELSE h[i - 1] \o ss[i]
    <3>1. CASE i = 1
      <4>1. i - 1 = 0
        BY <3>1
      <4>2. h[i] = << >> \o ss[i] /\ ss[i] \in Seq(Jobs)
        BY <2>1, <2>2, <4>1, PrefixGrows
      <4> QED
        BY <3>1, <4>2, ConcatEmptySeq
    <3>2. CASE i # 1
      <4>1. i - 1 \in 1..n
        BY <1>0, <3>2
      <4> QED
        BY <2>1, <3>2, <4>1
    <3> QED
      BY <3>1, <3>2
  <2>4. IsFlat(ss, h)
    <3>1. h = [i \in 1..n |-> h[i]]
      OBVIOUS
    <3> HIDE DEF h
    <3> QED
      BY <2>3, <3>1 DEF IsFlat
  <2> HIDE DEF h
  <2>5. IsFlat(ss, g)
    BY <2>4
  <2>6. FlattenSeq(ss) = g[n]
    BY <1>0, <1>2 DEF FlattenSeq, IsFlat
  <2> HIDE DEF g
  <2>7. g[n] = h[n]
    <3> DEFINE T == {i \in 1..n : g[i] # h[i]}
    <3>1. SUFFICES ASSUME T # {} PROVE FALSE
      BY <1>0, <1>2
    <3>2. PICK i \in T : \A j \in T : j >= i
      <4>1. T \subseteq Nat
        OBVIOUS
      <4> HIDE DEF T
      <4> QED
        BY <3>1, <4>1, Flat!LeastNumber
    <3>3. i \in 1..n /\ g[i] # h[i]
      OBVIOUS
    <3>4. g[i] = IF i = 1 THEN ss[i] ELSE g[i - 1] \o ss[i]
      BY <2>5, <3>3 DEF IsFlat
    <3>5. CASE i = 1
      BY <2>3, <3>3, <3>4, <3>5
    <3>6. CASE i # 1
      <4>1. i - 1 \in 1..n /\ ~(i - 1 >= i)
        BY <1>0, <3>3, <3>6
      <4>2. g[i - 1] = h[i - 1]
        BY <3>2, <4>1
      <4> QED
        BY <2>3, <3>3, <3>4, <3>6, <4>2
    <3> QED
      BY <3>5, <3>6
  <2>8. h[n] = Flat!Fold(0, ss)
    <3>1. n \in 1..n
      BY <1>0, <1>2
    <3> QED
      BY <3>1, PrefixGrows DEF h
  <2> QED
    BY <2>6, <2>7, <2>8
<1> QED
  BY <1>1, <1>2

LEMMA FlattenAppend ==
  ASSUME NEW ss \in Seq(Seq(Jobs)), NEW s \in Seq(Jobs)
  PROVE  /\ FlattenSeq(ss) \in Seq(Jobs) /\ FlattenSeq(<< >>) = << >>
         /\ FlattenSeq(Append(ss, s)) = FlattenSeq(ss) \o s
<1>1. \A q \in Seq(Seq(Jobs)), e \in Seq(Jobs) :
        Flat!Fold(0, q) \in Seq(Jobs) => Flat!Fold(0, q) \o e \in Seq(Jobs)
  BY ConcatProperties
<1>2. << >> \in Seq(Jobs) /\ << >> \in Seq(Seq(Jobs)) /\ Append(ss, s) \in Seq(Seq(Jobs))
  BY AppendProperties
<1>3. \A q \in Seq(Seq(Jobs)) : Flat!Fold(0, q) \in Seq(Jobs)
  BY <1>2, ConcatProperties, Flat!FoldInduction
<1> QED
  BY <1>2, <1>3, FlattenIsFold, Flat!FoldEmpty, Flat!FoldAppend, ZenonT(40)

-----------------------------------------------------------------------------
(* What the prompt of a batch is estimated at.                             *)

Numbers(n) == [i \in 1..n |-> i]

LEMMA EstimateIsFold ==
  ASSUME NEW b
  PROVE  BatchEstimate(b) = Est!Fold(b, [i \in DOMAIN b |-> i])
  BY DEF BatchEstimate, FoldLeftDomain, Est!Fold, FoldLeft, MapThenFoldSet, Max, Est!Last

LEMMA NumbersGrow ==
  ASSUME NEW n \in Nat
  PROVE  /\ Numbers(n) \in Seq(Nat) /\ n + 1 \in Nat /\ Numbers(0) = << >>
         /\ Numbers(n + 1) = Append(Numbers(n), n + 1)
<1> DEFINE s == Numbers(n)
           t == Numbers(n + 1)
<1>1. s \in Seq(Nat) /\ Len(s) = n /\ \A i \in 1..n : s[i] = i
  BY DEF Numbers
<1>2. t \in Seq(Nat) /\ Len(t) = n + 1 /\ \A i \in 1..(n + 1) : t[i] = i
  BY DEF Numbers
<1>3. Numbers(0) = << >>
  BY DEF Numbers
<1> HIDE DEF s, t
<1> DEFINE a == Append(s, n + 1)
<1>4. /\ a \in Seq(Nat) /\ Len(a) = n + 1 /\ a[n + 1] = n + 1
      /\ \A i \in 1..n : a[i] = i
  BY <1>1, AppendProperties
<1> HIDE DEF a
<1>5. \A i \in 1..(n + 1) : i = n + 1 \/ i \in 1..n
  OBVIOUS
<1>6. t = a
  BY <1>2, <1>4, <1>5, SeqEqual
<1> QED
  BY <1>1, <1>3, <1>6 DEF s, t, a

\* Batches that begin alike are estimated alike that far.
LEMMA SameEstimate ==
  ASSUME NEW b, NEW d, NEW n \in Nat, \A i \in 1..n : b[i] = d[i]
  PROVE  Est!Fold(b, Numbers(n)) = Est!Fold(d, Numbers(n))
<1> DEFINE T == {k \in 0..n : Est!Fold(b, Numbers(k)) # Est!Fold(d, Numbers(k))}
<1>1. SUFFICES ASSUME T # {} PROVE FALSE
  OBVIOUS
<1>2. PICK k \in T : \A j \in T : j >= k
  <2>1. T \subseteq Nat
    OBVIOUS
  <2> HIDE DEF T
  <2> QED
    BY <1>1, <2>1, Est!LeastNumber
<1>3. k \in 0..n /\ Est!Fold(b, Numbers(k)) # Est!Fold(d, Numbers(k))
  OBVIOUS
<1>4. CASE k = 0
  BY <1>3, <1>4, NumbersGrow, Est!FoldEmpty
<1>5. CASE k # 0
  <2>1. k - 1 \in 0..n /\ ~(k - 1 >= k) /\ k - 1 \in Nat /\ (k - 1) + 1 = k /\ k \in Nat
    BY <1>3, <1>5
  <2>2. Est!Fold(b, Numbers(k - 1)) = Est!Fold(d, Numbers(k - 1))
    BY <1>2, <2>1
  <2>3. Numbers(k) = Append(Numbers(k - 1), k) /\ Numbers(k - 1) \in Seq(Nat)
    BY <2>1, NumbersGrow
  <2> DEFINE first(c) == \A j \in 1..(k - 1) : c[j].path # c[k].path
  <2>4. /\ Est!Fold(b, Numbers(k)) = SaturatingAdd(Est!Fold(b, Numbers(k - 1)), Estimate(b[k], first(b)))
        /\ Est!Fold(d, Numbers(k)) = SaturatingAdd(Est!Fold(d, Numbers(k - 1)), Estimate(d[k], first(d)))
    <3>1. \A c : Est!Fold(c, Append(Numbers(k - 1), k))
                   = SaturatingAdd(Est!Fold(c, Numbers(k - 1)), Estimate(c[k], first(c)))
      BY <2>1, <2>3, Est!FoldAppend
    <3> QED
      BY <2>3, <3>1
  <2>5. b[k] = d[k] /\ (first(b) <=> first(d))
    <3>1. k \in 1..n /\ \A j \in 1..(k - 1) : j \in 1..n
      BY <1>3, <1>5
    <3> QED
      BY <3>1
  <2>6. Estimate(b[k], first(b)) = Estimate(d[k], first(d))
    <3> HIDE DEF first
    <3> QED
      BY <2>5 DEF Estimate
  <2> QED
    BY <1>3, <2>2, <2>4, <2>6
<1> QED
  BY <1>4, <1>5

LEMMA EstimateEmpty == BatchEstimate(<< >>) = 0
<1>1. [i \in DOMAIN << >> |-> i] = << >>
  OBVIOUS
<1> QED
  BY <1>1, EstimateIsFold, Est!FoldEmpty

LEMMA EstimateAppend ==
  ASSUME NEW b \in Seq(Jobs), NEW e \in Jobs
  PROVE  BatchEstimate(Append(b, e))
           = SaturatingAdd(BatchEstimate(b), Estimate(e, e.path \notin CacheKeys(b)))
<1> DEFINE n == Len(b)
           ext == Append(b, e)
           first == \A j \in 1..n : ext[j].path # ext[n + 1].path
<1>1. /\ n \in Nat /\ DOMAIN b = 1..n /\ DOMAIN ext = 1..(n + 1)
      /\ ext[n + 1] = e
      /\ \A i \in 1..n : ext[i] = b[i]
  BY AppendProperties
<1> HIDE DEF n, ext
<1>2. /\ BatchEstimate(b) = Est!Fold(b, Numbers(n))
      /\ BatchEstimate(ext) = Est!Fold(ext, Numbers(n + 1))
  BY <1>1, EstimateIsFold DEF Numbers
<1>3. /\ Numbers(n + 1) = Append(Numbers(n), n + 1) /\ Numbers(n) \in Seq(Nat)
      /\ n + 1 \in Nat /\ (n + 1) - 1 = n
  BY <1>1, NumbersGrow
<1>4. BatchEstimate(ext) = SaturatingAdd(Est!Fold(ext, Numbers(n)), Estimate(ext[n + 1], first))
  <2>1. \A c : Est!Fold(c, Append(Numbers(n), n + 1))
                 = SaturatingAdd(Est!Fold(c, Numbers(n)),
                     Estimate(c[n + 1], \A j \in 1..((n + 1) - 1) : c[j].path # c[n + 1].path))
    BY <1>3, Est!FoldAppend
  <2> QED
    BY <1>2, <1>3, <2>1
<1>5. Est!Fold(ext, Numbers(n)) = Est!Fold(b, Numbers(n))
  BY <1>1, SameEstimate
<1>6. first <=> e.path \notin CacheKeys(b)
  BY <1>1 DEF CacheKeys
<1>7. Estimate(ext[n + 1], first) = Estimate(e, e.path \notin CacheKeys(b))
  <2> HIDE DEF first
  <2> QED
    BY <1>1, <1>6 DEF Estimate
<1> QED
  BY <1>2, <1>4, <1>5, <1>7 DEF ext

\* A saturating sum is in range and not below its first part.
LEMMA Saturates ==
  ASSUME NEW x \in 0..UsizeMax, NEW job \in Jobs, NEW shared \in BOOLEAN
  PROVE  /\ SaturatingAdd(x, Estimate(job, shared)) \in 0..UsizeMax
         /\ SaturatingAdd(x, Estimate(job, shared)) >= x
<1> DEFINE y == Estimate(job, shared)
<1>1. y \in Nat
  <2>1. UsizeMax \in Nat /\ job.chars \in Nat /\ SharedChars[job.path] \in Nat
    BY JobsTyped DEF Sized
  <2> QED
    BY <2>1 DEF Estimate
<1> HIDE DEF y
<1>2. UsizeMax \in Nat
  BY JobsTyped DEF Sized
<1> QED
  BY <1>1, <1>2 DEF SaturatingAdd, y

LEMMA EstimateBounds ==
  \A b \in Seq(Jobs) : BatchEstimate(b) \in 0..UsizeMax
<1> DEFINE T == {n \in Nat : \E b \in Seq(Jobs) : Len(b) = n /\ BatchEstimate(b) \notin 0..UsizeMax}
<1>1. SUFFICES ASSUME T # {} PROVE FALSE
  OBVIOUS
<1>2. PICK n \in T : \A m \in T : m >= n
  <2>1. T \subseteq Nat
    OBVIOUS
  <2> HIDE DEF T
  <2> QED
    BY <1>1, <2>1, FitFold!LeastNumber
<1>3. PICK b \in Seq(Jobs) : Len(b) = n /\ BatchEstimate(b) \notin 0..UsizeMax
  OBVIOUS
<1>4. CASE n = 0
  <2>1. b = << >> /\ UsizeMax \in Nat
    BY <1>3, <1>4, JobsTyped DEF Sized
  <2> QED
    BY <1>3, <2>1, EstimateEmpty
<1>5. CASE n # 0
  <2>1. PICK front \in Seq(Jobs), e \in Jobs : b = Append(front, e) /\ Len(front) = n - 1
    BY <1>3, <1>5, FitFold!SplitLast
  <2>2. n - 1 \in Nat /\ ~(n - 1 >= n)
    BY <1>3, <1>5
  <2>3. n - 1 \notin T
    BY <1>2, <2>2
  <2>4. BatchEstimate(front) \in 0..UsizeMax
    BY <2>1, <2>2, <2>3
  <2> DEFINE shared == e.path \notin CacheKeys(front)
  <2>5. BatchEstimate(b) = SaturatingAdd(BatchEstimate(front), Estimate(e, shared)) /\ shared \in BOOLEAN
    BY <2>1, EstimateAppend
  <2> HIDE DEF shared
  <2> QED
    BY <1>3, <2>4, <2>5, Saturates
<1> QED
  BY <1>4, <1>5

\* More methods make no shorter prompt.
LEMMA EstimateGrows ==
  \A b, d \in Seq(Jobs) : BatchEstimate(b \o d) >= BatchEstimate(b)
<1> SUFFICES ASSUME NEW b \in Seq(Jobs)
             PROVE  \A d \in Seq(Jobs) : BatchEstimate(b \o d) >= BatchEstimate(b)
  OBVIOUS
<1> DEFINE T == {n \in Nat : \E d \in Seq(Jobs) :
                    Len(d) = n /\ ~(BatchEstimate(b \o d) >= BatchEstimate(b))}
<1>0. BatchEstimate(b) \in Nat /\ UsizeMax \in Nat
  BY EstimateBounds, JobsTyped DEF Sized
<1>1. SUFFICES ASSUME T # {} PROVE FALSE
  OBVIOUS
<1>2. PICK n \in T : \A m \in T : m >= n
  <2>1. T \subseteq Nat
    OBVIOUS
  <2> HIDE DEF T
  <2> QED
    BY <1>1, <2>1, FitFold!LeastNumber
<1>3. PICK d \in Seq(Jobs) : Len(d) = n /\ ~(BatchEstimate(b \o d) >= BatchEstimate(b))
  OBVIOUS
<1>4. CASE n = 0
  <2>1. d = << >>
    BY <1>3, <1>4
  <2>2. b \o d = b
    BY <2>1, ConcatEmptySeq
  <2> QED
    BY <1>0, <1>3, <2>2
<1>5. CASE n # 0
  <2>1. PICK front \in Seq(Jobs), e \in Jobs : d = Append(front, e) /\ Len(front) = n - 1
    BY <1>3, <1>5, FitFold!SplitLast
  <2>2. n - 1 \in Nat /\ ~(n - 1 >= n)
    BY <1>3, <1>5
  <2>3. n - 1 \notin T
    BY <1>2, <2>2
  <2>4. BatchEstimate(b \o front) >= BatchEstimate(b)
    BY <2>1, <2>2, <2>3
  <2> DEFINE whole == b \o front
             shared == e.path \notin CacheKeys(whole)
  <2>5. whole \in Seq(Jobs) /\ b \o d = Append(whole, e)
    <3>1. d = front \o <<e>> /\ <<e>> \in Seq(Jobs)
      BY <2>1, AppendIsConcat
    <3>2. whole \in Seq(Jobs)
      BY ConcatProperties
    <3>3. (b \o front) \o <<e>> = b \o (front \o <<e>>)
      BY <3>1, ConcatAssociative, SMTT(30)
    <3>4. Append(whole, e) = whole \o <<e>>
      BY <3>2, AppendIsConcat
    <3> QED
      BY <3>1, <3>2, <3>3, <3>4
  <2>6. BatchEstimate(whole) >= BatchEstimate(b)
    BY <2>4
  <2> HIDE DEF whole
  <2>7. BatchEstimate(b \o d) = SaturatingAdd(BatchEstimate(whole), Estimate(e, shared)) /\ shared \in BOOLEAN
    BY <2>5, EstimateAppend
  <2>8. BatchEstimate(whole) \in 0..UsizeMax
    BY <2>5, EstimateBounds
  <2> HIDE DEF shared
  <2>9. /\ BatchEstimate(b \o d) \in 0..UsizeMax
        /\ BatchEstimate(b \o d) >= BatchEstimate(whole)
    BY <2>7, <2>8, Saturates
  <2> QED
    BY <1>0, <1>3, <2>6, <2>8, <2>9
<1> QED
  BY <1>4, <1>5

-----------------------------------------------------------------------------
(* The first pass and the limits.                                          *)

\* What a step of the first loop works with.
Begun(c, e)  == IF JoinsCurrent(c, e, batchSize, maxChars) THEN c.current ELSE << >>
Before(c, e) == IF JoinsCurrent(c, e, batchSize, maxChars) THEN c.chunks ELSE WholeChunks(c)
Grown(c, e)  == Append(Begun(c, e), e)

Estimated(c, e) ==
  SaturatingAdd(IF JoinsCurrent(c, e, batchSize, maxChars) THEN c.estimate ELSE 0,
                Estimate(e, Begun(c, e) = << >>))

Closes(c, e) == Len(Grown(c, e)) >= batchSize \/ ~e.method

LEMMA ChunkStepShape ==
  ASSUME NEW c, ChunkState(c), NEW e \in Jobs, c.current = << >> => c.estimate = 0
  PROVE  ChunkStep(c, e, batchSize, maxChars) =
           IF Closes(c, e)
             THEN [chunks |-> Append(Before(c, e), Grown(c, e)), current |-> << >>,
                   file |-> NoFile, estimate |-> 0]
             ELSE [chunks |-> Before(c, e), current |-> Grown(c, e),
                   file |-> MethodFilePath(e), estimate |-> Estimated(c, e)]
<1> DEFINE joins == JoinsCurrent(c, e, batchSize, maxChars)
           flushed == IF joins THEN c
                      ELSE [c EXCEPT !.chunks = IF c.current = << >> THEN @
                                                ELSE Append(@, c.current),
                                     !.current = << >>,
                                     !.estimate = IF c.current = << >> THEN @ ELSE 0]
           grown == [flushed EXCEPT
                       !.file = MethodFilePath(e),
                       !.estimate = SaturatingAdd(@, Estimate(e, flushed.current = << >>)),
                       !.current = Append(@, e)]
           next == IF Len(grown.current) >= batchSize \/ ~e.method
                   THEN [chunks |-> Append(grown.chunks, grown.current), current |-> << >>,
                         file |-> NoFile, estimate |-> 0]
                   ELSE grown
<1>1. ChunkStep(c, e, batchSize, maxChars) = next
  BY DEF ChunkStep
<1>2. c = [chunks |-> c.chunks, current |-> c.current, file |-> c.file, estimate |-> c.estimate]
  BY DEF ChunkState
<1>3. Begun(c, e) = IF joins THEN c.current ELSE << >>
  BY DEF Begun
<1>4. Before(c, e) = IF joins THEN c.chunks ELSE WholeChunks(c)
  BY DEF Before
<1>5. Estimated(c, e) = SaturatingAdd(IF joins THEN c.estimate ELSE 0, Estimate(e, Begun(c, e) = << >>))
  BY DEF Estimated
<1> HIDE DEF joins
<1>6. flushed = [chunks |-> Before(c, e), current |-> Begun(c, e), file |-> c.file,
                 estimate |-> IF joins THEN c.estimate ELSE 0]
  <2>1. CASE joins
    BY <1>2, <1>3, <1>4, <2>1
  <2>2. CASE ~joins
    BY <1>2, <1>3, <1>4, <2>2 DEF WholeChunks
  <2> QED
    BY <2>1, <2>2
<1> HIDE DEF flushed
<1>7. /\ flushed.chunks = Before(c, e) /\ flushed.current = Begun(c, e)
      /\ flushed.estimate = IF joins THEN c.estimate ELSE 0
  BY <1>6
<1> DEFINE file == MethodFilePath(e)
           estimate == SaturatingAdd(flushed.estimate, Estimate(e, flushed.current = << >>))
<1>8. estimate = Estimated(c, e)
  BY <1>5, <1>7
<1>9. grown = [flushed EXCEPT !.file = file, !.estimate = estimate, !.current = Append(@, e)]
  BY <1>7
<1> HIDE DEF grown, file, estimate
<1>10. grown = [chunks |-> Before(c, e), current |-> Append(Begun(c, e), e), file |-> file,
                estimate |-> estimate]
  BY <1>6, <1>9
<1>11. grown = [chunks |-> Before(c, e), current |-> Grown(c, e), file |-> MethodFilePath(e),
                estimate |-> Estimated(c, e)]
  BY <1>8, <1>10 DEF Grown, file
<1>12. grown.chunks = Before(c, e) /\ grown.current = Grown(c, e)
  BY <1>11
<1> QED
  BY <1>1, <1>11, <1>12 DEF Closes

LEMMA FitAppend ==
  ASSUME NEW groups \in Seq(Seq(Jobs)), AllFit(groups),
         NEW piece \in Seq(Jobs), piece # << >>, Fits(piece)
  PROVE  AllFit(Append(groups, piece))
<1> DEFINE all == Append(groups, piece)
           n == Len(groups)
<1>1. /\ n \in Nat /\ DOMAIN groups = 1..n /\ DOMAIN all = 1..(n + 1)
      /\ all[n + 1] = piece
      /\ \A k \in 1..n : all[k] = groups[k]
  BY AppendProperties
<1> HIDE DEF all, n
<1>2. \A k \in DOMAIN all : k = n + 1 \/ (k \in DOMAIN groups /\ all[k] = groups[k])
  <2>1. \A k \in 1..(n + 1) : k = n + 1 \/ k \in 1..n
    BY <1>1
  <2> QED
    BY <1>1, <2>1
<1>3. AllFit(all)
  BY <1>1, <1>2 DEF AllFit
<1> QED
  BY <1>3 DEF all

\* The chunk that a job comes to fits, and is estimated like a batch.
LEMMA GrownFits ==
  ASSUME Sized, NEW c, NEW seq \in Seq(Jobs), ChunksFit(c, seq), NEW e \in Jobs
  PROVE  /\ Before(c, e) \in Seq(Seq(Jobs)) /\ AllFit(Before(c, e))
         /\ Grown(c, e) \in Seq(Jobs) /\ Grown(c, e) # << >> /\ Fits(Grown(c, e))
         /\ FlattenSeq(Append(Before(c, e), Grown(c, e))) = Append(seq, e)
         /\ Estimated(c, e) = BatchEstimate(Grown(c, e))
         /\ e.method => \A j \in DOMAIN Grown(c, e) :
                          Grown(c, e)[j].method /\ Grown(c, e)[j].path = MethodFilePath(e)
<1> DEFINE joins == JoinsCurrent(c, e, batchSize, maxChars)
           before == Before(c, e)
           prev == Begun(c, e)
           last == Grown(c, e)
           n == Len(prev)
<1>1. /\ c.chunks \in Seq(Seq(Jobs)) /\ c.current \in Seq(Jobs) /\ CurrentFits(c) /\ AllFit(c.chunks)
      /\ FlattenSeq(WholeChunks(c)) = seq
  BY DEF ChunksFit, ChunkState
<1>2. batchSize \in Nat /\ batchSize >= 1 /\ UsizeMax \in Nat /\ maxChars \in Nat
  BY JobsTyped DEF Sized
<1>3. joins => /\ prev = c.current /\ before = c.chunks /\ c.current # << >>
               /\ e.method /\ e.path = c.file
               /\ SaturatingAdd(c.estimate, Estimate(e, FALSE)) <= maxChars
  BY DEF Begun, Before, JoinsCurrent
<1>4. ~joins => prev = << >> /\ before = WholeChunks(c)
  BY DEF Begun, Before
<1>5. Estimated(c, e) = SaturatingAdd(IF joins THEN c.estimate ELSE 0, Estimate(e, prev = << >>))
  BY DEF Estimated
<1> HIDE DEF joins, prev
<1>6. << >> \in Seq(Jobs) /\ Len(<< >>) = 0 /\ << >> \in Seq(Seq(Jobs)) /\ <<e>> \in Seq(Jobs)
  OBVIOUS
<1>7. prev \in Seq(Jobs)
  BY <1>1, <1>3, <1>4, <1>6
<1>8. last = Append(prev, e)
  BY DEF Grown, prev
<1> HIDE DEF last, before
<1>9. /\ n \in Nat /\ last \in Seq(Jobs) /\ last # << >> /\ Len(last) = n + 1
      /\ DOMAIN prev = 1..n /\ DOMAIN last = 1..(n + 1)
      /\ last[n + 1] = e
      /\ \A j \in 1..n : last[j] = prev[j]
  BY <1>7, <1>8, AppendProperties
<1>10. before \in Seq(Seq(Jobs)) /\ AllFit(before) /\ FlattenSeq(before) \o prev = seq
  <2>1. CASE joins
    <3>1. WholeChunks(c) = Append(before, prev)
      BY <1>3, <2>1 DEF WholeChunks
    <3>2. FlattenSeq(Append(before, prev)) = FlattenSeq(before) \o prev
      BY <1>1, <1>3, <1>7, <2>1, FlattenAppend
    <3> QED
      BY <1>1, <1>3, <2>1, <3>1, <3>2
  <2>2. CASE ~joins /\ c.current = << >>
    <3>1. before = c.chunks
      BY <1>4, <2>2 DEF WholeChunks
    <3>2. FlattenSeq(before) \o prev = seq
      <4>1. FlattenSeq(before) = seq /\ seq \o << >> = seq
        BY <1>1, <1>4, <2>2, ConcatEmptySeq
      <4> QED
        BY <1>4, <2>2, <4>1
    <3> QED
      BY <1>1, <3>1, <3>2
  <2>3. CASE ~joins /\ c.current # << >>
    <3>1. before = Append(c.chunks, c.current) /\ Fits(c.current)
      BY <1>1, <1>4, <2>3 DEF WholeChunks, CurrentFits
    <3>2. before \in Seq(Seq(Jobs)) /\ AllFit(before)
      BY <1>1, <2>3, <3>1, FitAppend, AppendProperties
    <3>3. FlattenSeq(before) = seq /\ seq \o << >> = seq
      BY <1>1, <1>4, <2>3, ConcatEmptySeq
    <3> QED
      BY <1>4, <2>3, <3>2, <3>3
  <2> QED
    BY <2>1, <2>2, <2>3
<1>11. FlattenSeq(Append(before, last)) = Append(seq, e)
  <2>1. FlattenSeq(Append(before, last)) = FlattenSeq(before) \o last /\ FlattenSeq(before) \in Seq(Jobs)
    BY <1>9, <1>10, FlattenAppend
  <2> DEFINE flat == FlattenSeq(before)
  <2> HIDE DEF flat
  <2>2. last = prev \o <<e>>
    BY <1>7, <1>8, AppendIsConcat
  <2>3. flat \o (prev \o <<e>>) = (flat \o prev) \o <<e>>
    BY <1>6, <1>7, <2>1, ConcatAssociative DEF flat
  <2>4. Append(seq, e) = seq \o <<e>>
    BY AppendIsConcat
  <2> QED
    BY <1>10, <2>1, <2>2, <2>3, <2>4 DEF flat
<1>12. joins => /\ n >= 1 /\ n < batchSize /\ c.estimate = BatchEstimate(prev)
                /\ \A j \in 1..n : prev[j].method /\ prev[j].path = c.file
  <2>1. SUFFICES ASSUME joins
                 PROVE  /\ n >= 1 /\ n < batchSize /\ c.estimate = BatchEstimate(prev)
                        /\ \A j \in 1..n : prev[j].method /\ prev[j].path = c.file
    OBVIOUS
  <2>2. prev # << >> /\ Len(prev) < batchSize /\ c.estimate = BatchEstimate(prev)
        /\ \A j \in DOMAIN prev : prev[j].method /\ prev[j].path = c.file
    BY <1>1, <1>3, <2>1 DEF CurrentFits
  <2>3. n # 0
    BY <1>7, <2>2
  <2> QED
    BY <1>9, <2>2, <2>3
<1>13. ~joins => n = 0
  BY <1>4, <1>6
<1>14. BatchEstimate(last) = Estimated(c, e)
  <2>1. BatchEstimate(last) = SaturatingAdd(BatchEstimate(prev), Estimate(e, e.path \notin CacheKeys(prev)))
    BY <1>7, <1>8, EstimateAppend
  <2>2. e.path \notin CacheKeys(prev) <=> prev = << >>
    <3>1. CASE joins
      <4>1. 1 \in 1..n /\ prev[1].path = e.path
        BY <1>3, <1>9, <1>12, <3>1
      <4>2. e.path \in CacheKeys(prev) /\ prev # << >>
        BY <1>3, <1>9, <3>1, <4>1 DEF CacheKeys
      <4> QED
        BY <4>2
    <3>2. CASE ~joins
      <4>1. prev = << >> /\ DOMAIN << >> = {}
        BY <1>4, <3>2
      <4> QED
        BY <4>1 DEF CacheKeys
    <3> QED
      BY <3>1, <3>2
  <2>3. BatchEstimate(prev) = IF joins THEN c.estimate ELSE 0
    BY <1>4, <1>12, EstimateEmpty
  <2>4. Estimate(e, e.path \notin CacheKeys(prev)) = Estimate(e, prev = << >>)
    BY <2>2 DEF Estimate
  <2> QED
    BY <1>5, <2>1, <2>3, <2>4
<1>15. Fits(last)
  <2>1. Len(last) <= batchSize
    BY <1>2, <1>9, <1>12, <1>13
  <2>2. ASSUME Len(last) > 1
        PROVE  BatchEstimate(last) <= maxChars /\ \A j \in DOMAIN last : last[j].method
    <3>1. joins
      BY <1>9, <1>13, <2>2
    <3>2. Estimate(e, prev = << >>) = Estimate(e, FALSE)
      BY <1>3, <3>1 DEF Estimate
    <3>3. BatchEstimate(last) <= maxChars
      BY <1>3, <1>5, <1>14, <3>1, <3>2
    <3>4. \A j \in 1..(n + 1) : last[j].method
      BY <1>3, <1>9, <1>12, <3>1
    <3> QED
      BY <1>9, <3>3, <3>4
  <2> QED
    BY <2>1, <2>2 DEF Fits
<1>16. ASSUME e.method
       PROVE  \A j \in 1..(n + 1) : last[j].method /\ last[j].path = MethodFilePath(e)
  <2>1. MethodFilePath(e) = e.path
    BY <1>16 DEF MethodFilePath
  <2> TAKE j \in 1..(n + 1)
  <2>2. CASE j = n + 1
    BY <1>9, <1>16, <2>1, <2>2
  <2>3. CASE j # n + 1
    <3>1. j \in 1..n /\ n # 0
      BY <1>9, <2>3
    <3>2. joins
      BY <1>13, <3>1
    <3> QED
      BY <1>3, <1>9, <1>12, <2>1, <3>1, <3>2
  <2> QED
    BY <2>2, <2>3
<1> QED
  BY <1>9, <1>10, <1>11, <1>14, <1>15, <1>16 DEF before, last

LEMMA ChunkStepFits ==
  ASSUME Sized, NEW c, NEW seq \in Seq(Jobs), ChunksFit(c, seq), NEW e \in Jobs
  PROVE  ChunksFit(ChunkStep(c, e, batchSize, maxChars), Append(seq, e))
<1> DEFINE next == ChunkStep(c, e, batchSize, maxChars)
           before == Before(c, e)
           last == Grown(c, e)
           file == MethodFilePath(e)
           estimate == Estimated(c, e)
<1>1. next = IF Closes(c, e)
             THEN [chunks |-> Append(before, last), current |-> << >>, file |-> NoFile, estimate |-> 0]
             ELSE [chunks |-> before, current |-> last, file |-> file, estimate |-> estimate]
  BY ChunkStepShape DEF ChunksFit, CurrentFits
<1>2. /\ before \in Seq(Seq(Jobs)) /\ AllFit(before)
      /\ last \in Seq(Jobs) /\ last # << >> /\ Fits(last)
      /\ FlattenSeq(Append(before, last)) = Append(seq, e)
      /\ estimate = BatchEstimate(last)
      /\ e.method => \A j \in DOMAIN last : last[j].method /\ last[j].path = file
  BY GrownFits
<1>3. Closes(c, e) <=> Len(last) >= batchSize \/ ~e.method
  BY DEF Closes
<1> HIDE DEF next, before, last, file, estimate
<1>4. CASE Closes(c, e)
  <2>1. next = [chunks |-> Append(before, last), current |-> << >>, file |-> NoFile, estimate |-> 0]
    BY <1>1, <1>4
  <2>2. Append(before, last) \in Seq(Seq(Jobs)) /\ << >> \in Seq(Jobs) /\ AllFit(Append(before, last))
    BY <1>2, FitAppend, AppendProperties
  <2>3. /\ next.chunks = Append(before, last) /\ next.current = << >> /\ next.estimate = 0
        /\ next = [chunks |-> next.chunks, current |-> next.current, file |-> next.file,
                   estimate |-> next.estimate]
    BY <2>1
  <2>4. CurrentFits(next) /\ ChunkState(next) /\ AllFit(next.chunks)
    BY <2>2, <2>3 DEF CurrentFits, ChunkState
  <2>5. FlattenSeq(WholeChunks(next)) = Append(seq, e)
    BY <1>2, <2>3 DEF WholeChunks
  <2> QED
    BY <2>4, <2>5 DEF ChunksFit, next
<1>5. CASE ~Closes(c, e)
  <2>1. next = [chunks |-> before, current |-> last, file |-> file, estimate |-> estimate]
    BY <1>1, <1>5
  <2>2. /\ next.chunks = before /\ next.current = last /\ next.estimate = estimate /\ next.file = file
        /\ next = [chunks |-> next.chunks, current |-> next.current, file |-> next.file,
                   estimate |-> next.estimate]
    BY <2>1
  <2>3. Len(last) < batchSize /\ e.method
    <3>1. Len(last) \in Nat /\ batchSize \in Nat
      BY <1>2, JobsTyped DEF Sized
    <3> QED
      BY <1>3, <1>5, <3>1, JobsTyped DEF Sized
  <2>4. CurrentFits(next) /\ ChunkState(next) /\ AllFit(next.chunks)
    BY <1>2, <2>2, <2>3 DEF CurrentFits, ChunkState
  <2>5. FlattenSeq(WholeChunks(next)) = Append(seq, e)
    BY <1>2, <2>2 DEF WholeChunks
  <2> QED
    BY <2>4, <2>5 DEF ChunksFit, next
<1> QED
  BY <1>4, <1>5

(* The chunks are the queue, cut into pieces within the limits.            *)
LEMMA ChunksAreFit ==
  ASSUME Sized, NEW seq \in Seq(Jobs)
  PROVE  /\ FileChunks(seq, batchSize, maxChars) \in Seq(Seq(Jobs))
         /\ AllFit(FileChunks(seq, batchSize, maxChars))
         /\ FlattenSeq(FileChunks(seq, batchSize, maxChars)) = seq
<1>1. ChunksFit(NoChunks, << >>)
  <2>1. /\ WholeChunks(NoChunks) = << >> /\ NoChunks.current = << >> /\ NoChunks.estimate = 0
        /\ NoChunks.chunks = << >>
    BY DEF WholeChunks, NoChunks
  <2>2. DOMAIN << >> = {}
    OBVIOUS
  <2>3. AllFit(NoChunks.chunks)
    BY <2>1, <2>2 DEF AllFit
  <2>4. CurrentFits(NoChunks)
    BY <2>1 DEF CurrentFits
  <2>5. ChunkState(NoChunks)
    BY NothingYet DEF ChunkState, NoChunks
  <2>6. FlattenSeq(<< >>) = << >>
    BY DEF FlattenSeq
  <2> QED
    BY <2>1, <2>3, <2>4, <2>5, <2>6 DEF ChunksFit
<1>2. \A q \in Seq(Jobs), e \in Jobs : \A x : ChunksFit(x, q)
        => ChunksFit(ChunkStep(x, e, batchSize, maxChars), Append(q, e))
  BY ChunkStepFits
<1>3. ChunksFit(FitFold!Fold(0, seq), seq)
  BY <1>1, <1>2, FitFold!FoldInduction
<1>4. FileChunks(seq, batchSize, maxChars) = WholeChunks(FitFold!Fold(0, seq))
  BY DEF FileChunks, WholeChunks, NoChunks, FitFold!Fold, FoldLeft, MapThenFoldSet, Max, FitFold!Last
<1> DEFINE c == FitFold!Fold(0, seq)
<1> HIDE DEF c
<1>5. WholeChunks(c) \in Seq(Seq(Jobs)) /\ AllFit(WholeChunks(c))
  <2>1. ChunksFit(c, seq)
    BY <1>3 DEF c
  <2>2. /\ c.chunks \in Seq(Seq(Jobs)) /\ c.current \in Seq(Jobs) /\ AllFit(c.chunks)
        /\ c.current # << >> => Fits(c.current)
    BY <2>1 DEF ChunksFit, ChunkState, CurrentFits
  <2>3. CASE c.current = << >>
    BY <2>2, <2>3 DEF WholeChunks
  <2>4. CASE c.current # << >>
    BY <2>2, <2>4, FitAppend, AppendProperties DEF WholeChunks
  <2> QED
    BY <2>3, <2>4
<1> QED
  BY <1>3, <1>4, <1>5 DEF ChunksFit, c

-----------------------------------------------------------------------------
(* The second pass and the limits.                                         *)

\* The batches so far, with the one that is being packed.
WholeBatches(p) == IF p.packed = << >> THEN p.grouped ELSE Append(p.grouped, p.packed)

PackState(p) ==
  /\ p = [grouped |-> p.grouped, packed |-> p.packed]
  /\ p.grouped \in Seq(Seq(Jobs)) /\ p.packed \in Seq(Jobs)

NoBatches == [grouped |-> << >>, packed |-> << >>]

Chunk == Seq(Jobs) \ {<< >>}

AllMethods(batch) == \A j \in DOMAIN batch : batch[j].method

TooMuch(b, d) == Len(b \o d) > batchSize \/ BatchEstimate(b \o d) > maxChars

\* Two batches that could not have been one.
Separate(b, d) == AllMethods(b \o d) => TooMuch(b, d)

Neighbours(groups) == \A i \in 1..(Len(groups) - 1) : Separate(groups[i], groups[i + 1])

LEMMA MethodsOfBoth ==
  ASSUME NEW b \in Seq(Jobs), NEW d \in Seq(Jobs)
  PROVE  AllMethods(b \o d) <=> AllMethods(b) /\ AllMethods(d)
<1> DEFINE both == b \o d
           m == Len(b)
           n == Len(d)
<1>1. /\ m \in Nat /\ n \in Nat /\ DOMAIN both = 1..(m + n) /\ DOMAIN b = 1..m /\ DOMAIN d = 1..n
      /\ \A i \in 1..(m + n) : both[i] = IF i <= m THEN b[i] ELSE d[i - m]
  BY ConcatProperties
<1> HIDE DEF both, m, n
<1>2. /\ \A i \in 1..m : i \in 1..(m + n) /\ both[i] = b[i]
      /\ \A i \in 1..n : i + m \in 1..(m + n) /\ both[i + m] = d[i]
      /\ \A i \in 1..(m + n) : (i \in 1..m /\ both[i] = b[i]) \/ (i - m \in 1..n /\ both[i] = d[i - m])
  <2>1. \A i \in 1..m : i \in 1..(m + n) /\ both[i] = b[i]
    BY <1>1
  <2>2. ASSUME NEW i \in 1..n
        PROVE  i + m \in 1..(m + n) /\ both[i + m] = d[i]
    <3>1. i + m \in 1..(m + n) /\ ~(i + m <= m) /\ (i + m) - m = i
      BY <1>1
    <3> QED
      BY <1>1, <3>1
  <2>3. ASSUME NEW i \in 1..(m + n)
        PROVE  (i \in 1..m /\ both[i] = b[i]) \/ (i - m \in 1..n /\ both[i] = d[i - m])
    BY <1>1
  <2> QED
    BY <2>1, <2>2, <2>3
<1> QED
  BY <1>1, <1>2 DEF AllMethods, both

\* A batch that is too much stays so.
LEMMA MoreIsTooMuch ==
  ASSUME Sized, NEW b \in Seq(Jobs), NEW d \in Seq(Jobs), NEW e \in Seq(Jobs), Separate(b, d)
  PROVE  Separate(b, d \o e)
<1>1. SUFFICES ASSUME AllMethods(b \o (d \o e))
               PROVE  TooMuch(b, d \o e)
  BY DEF Separate
<1>2. d \o e \in Seq(Jobs) /\ b \o d \in Seq(Jobs) /\ (b \o d) \o e = b \o (d \o e)
  BY ConcatProperties, ConcatAssociative
<1>3. TooMuch(b, d)
  BY <1>1, <1>2, MethodsOfBoth DEF Separate
<1> DEFINE small == b \o d
           large == b \o (d \o e)
<1>4. Len(large) >= Len(small) /\ Len(large) \in Nat /\ Len(small) \in Nat
  <2>1. Len(small \o e) = Len(small) + Len(e) /\ Len(e) \in Nat /\ Len(small) \in Nat
    BY <1>2, ConcatProperties
  <2> QED
    BY <1>2, <2>1
<1>5. BatchEstimate(large) >= BatchEstimate(small) /\ BatchEstimate(large) \in Nat
      /\ BatchEstimate(small) \in Nat
  <2>1. small \in Seq(Jobs) /\ large \in Seq(Jobs) /\ large = small \o e
    BY <1>2, ConcatProperties
  <2> HIDE DEF small, large
  <2>2. UsizeMax \in Nat
    BY JobsTyped DEF Sized
  <2>3. BatchEstimate(small) \in 0..UsizeMax /\ BatchEstimate(large) \in 0..UsizeMax
    BY <2>1, EstimateBounds
  <2> QED
    BY <2>1, <2>2, <2>3, EstimateGrows
<1>6. batchSize \in Nat /\ maxChars \in Nat
  BY JobsTyped DEF Sized
<1>7. Len(small) > batchSize \/ BatchEstimate(small) > maxChars
  BY <1>3 DEF TooMuch
<1> HIDE DEF small, large
<1>8. Len(large) > batchSize \/ BatchEstimate(large) > maxChars
  BY <1>4, <1>5, <1>6, <1>7
<1> QED
  BY <1>8 DEF TooMuch, large

LEMMA NeighboursAppend ==
  ASSUME NEW groups \in Seq(Seq(Jobs)), NEW piece \in Seq(Jobs)
  PROVE  Neighbours(Append(groups, piece)) <=>
           /\ Neighbours(groups)
           /\ groups # << >> => Separate(groups[Len(groups)], piece)
<1> DEFINE all == Append(groups, piece)
           n == Len(groups)
<1>1. /\ n \in Nat /\ Len(all) = n + 1 /\ (n + 1) - 1 = n
      /\ all[n + 1] = piece
      /\ groups # << >> <=> n # 0
      /\ \A k \in 1..n : all[k] = groups[k]
  BY AppendProperties, EmptySeq
<1> HIDE DEF all, n
<1>2. Neighbours(all) <=> \A i \in 1..n : Separate(all[i], all[i + 1])
  BY <1>1 DEF Neighbours
<1>3. Neighbours(groups) <=> \A i \in 1..(n - 1) : Separate(all[i], all[i + 1])
  <2>1. \A i \in 1..(n - 1) : i \in 1..n /\ i + 1 \in 1..n
    BY <1>1
  <2>2. \A i \in 1..(n - 1) : all[i] = groups[i] /\ all[i + 1] = groups[i + 1]
    BY <1>1, <2>1
  <2> QED
    BY <2>2 DEF Neighbours, n
<1>4. \A i \in 1..n : i = n \/ i \in 1..(n - 1)
  BY <1>1
<1>5. \A i \in 1..(n - 1) : i \in 1..n
  BY <1>1
<1>6. n # 0 => n \in 1..n /\ all[n] = groups[n]
  BY <1>1
<1>7. n = 0 => 1..n = {}
  BY <1>1
<1>8. Neighbours(all) <=> Neighbours(groups) /\ (groups # << >> => Separate(groups[n], piece))
  BY <1>1, <1>2, <1>3, <1>4, <1>5, <1>6, <1>7
<1> QED
  BY <1>8 DEF all, n

FitChunk == {chunk \in Chunk : Fits(chunk)}

\* Behind a batch that is closed for being full stands what did not fit;
\* nothing is packed only at the start and behind a file review.
PacksFit(p, chunks) ==
  /\ PackState(p) /\ AllFit(p.grouped)
  /\ p.packed # << >> => Fits(p.packed) /\ AllMethods(p.packed)
  /\ FlattenSeq(WholeBatches(p)) = FlattenSeq(chunks)
  /\ Neighbours(WholeBatches(p))
  /\ p.packed = << >> /\ p.grouped # << >> => ~AllMethods(p.grouped[Len(p.grouped)])

LEMMA PackStepFits ==
  ASSUME Sized, NEW p, NEW chunks \in Seq(FitChunk), PacksFit(p, chunks), NEW chunk \in FitChunk
  PROVE  PacksFit(PackStep(p, chunk, batchSize, maxChars), Append(chunks, chunk))
<1> DEFINE next == PackStep(p, chunk, batchSize, maxChars)
           whole == WholeBatches(p)
           alone == ~chunk[1].method
           full == TooMuch(p.packed, chunk)
           both == p.packed \o chunk
<1>1. /\ p.grouped \in Seq(Seq(Jobs)) /\ p.packed \in Seq(Jobs)
      /\ p = [grouped |-> p.grouped, packed |-> p.packed]
      /\ chunk \in Seq(Jobs) /\ chunk # << >> /\ Fits(chunk)
      /\ AllFit(p.grouped) /\ Neighbours(whole) /\ FlattenSeq(whole) = FlattenSeq(chunks)
      /\ p.packed # << >> => Fits(p.packed) /\ AllMethods(p.packed)
      /\ p.packed = << >> /\ p.grouped # << >> => ~AllMethods(p.grouped[Len(p.grouped)])
  BY DEF PacksFit, PackState, FitChunk, Chunk
<1>2. Len(chunk) \in Nat /\ Len(chunk) # 0 /\ DOMAIN chunk = 1..Len(chunk)
  BY <1>1, EmptySeq
<1>3. AllMethods(chunk) <=> ~alone
  <2>1. CASE Len(chunk) > 1
    <3>1. AllMethods(chunk) /\ 1 \in DOMAIN chunk
      BY <1>1, <1>2, <2>1 DEF Fits, AllMethods
    <3> QED
      BY <3>1 DEF AllMethods
  <2>2. CASE ~(Len(chunk) > 1)
    <3>1. \A j : j \in DOMAIN chunk <=> j = 1
      BY <1>2, <2>2
    <3> QED
      BY <3>1 DEF AllMethods
  <2> QED
    BY <2>1, <2>2
<1>4. /\ alone => next = [grouped |-> Append(whole, chunk), packed |-> << >>]
      /\ ~alone /\ full => next = [grouped |-> whole, packed |-> chunk]
      /\ ~alone /\ ~full => next = [p EXCEPT !.packed = both]
  <2> DEFINE wide == \/ Len(p.packed) + Len(chunk) > batchSize
                     \/ BatchEstimate(p.packed \o chunk) > maxChars
  <2>1. next = CASE alone -> [grouped |-> Append(whole, chunk), packed |-> << >>]
                 [] ~alone /\ wide -> [grouped |-> whole, packed |-> chunk]
                 [] OTHER -> [p EXCEPT !.packed = @ \o chunk]
    BY DEF PackStep, WholeBatches
  <2>2. wide <=> full
    <3>1. Len(both) = Len(p.packed) + Len(chunk)
      BY <1>1, ConcatProperties
    <3> QED
      BY <3>1 DEF TooMuch
  <2> HIDE DEF alone, full, next, wide, whole
  <2> QED
    BY <2>1, <2>2
<1> HIDE DEF next, alone, full
<1>5. whole \in Seq(Seq(Jobs)) /\ AllFit(whole)
  <2>1. CASE p.packed = << >>
    BY <1>1, <2>1 DEF WholeBatches
  <2>2. CASE p.packed # << >>
    BY <1>1, <2>2, FitAppend, AppendProperties DEF WholeBatches
  <2> QED
    BY <2>1, <2>2
<1>6. FlattenSeq(Append(chunks, chunk)) = FlattenSeq(whole) \o chunk
  <2>1. chunks \in Seq(Seq(Jobs))
    <3>1. FitChunk \subseteq Seq(Jobs)
      BY DEF FitChunk, Chunk
    <3> QED
      BY <3>1, SeqMonotonic
  <2> QED
    BY <1>1, <2>1, FlattenAppend
<1>7. FlattenSeq(Append(whole, chunk)) = FlattenSeq(Append(chunks, chunk))
  BY <1>1, <1>5, <1>6, FlattenAppend
<1>8. << >> \in Seq(Jobs) /\ << >> \in Seq(Seq(Jobs))
  BY NothingYet

\* The batch that is closed and the chunk behind it.
<1>9. ASSUME alone \/ full
      PROVE  Neighbours(Append(whole, chunk))
  <2>1. SUFFICES ASSUME whole # << >>
                 PROVE  Separate(whole[Len(whole)], chunk)
    BY <1>1, <1>5, NeighboursAppend
  <2>2. whole[Len(whole)] \in Seq(Jobs)
    BY <1>5, <2>1, EmptySeq, ElementOfSeq
  <2>3. CASE alone
    BY <1>1, <1>3, <2>2, <2>3, MethodsOfBoth DEF Separate
  <2>4. CASE full /\ p.packed = << >>
    <3>1. ~AllMethods(whole[Len(whole)])
      BY <1>1, <2>1, <2>4 DEF WholeBatches
    <3> QED
      BY <1>1, <2>2, <3>1, MethodsOfBoth DEF Separate
  <2>5. CASE full /\ p.packed # << >>
    <3>1. whole = Append(p.grouped, p.packed)
      BY <2>5 DEF WholeBatches
    <3>2. whole[Len(whole)] = p.packed
      BY <1>1, <3>1, AppendProperties
    <3> QED
      BY <2>5, <3>2 DEF Separate, full
  <2> QED
    BY <1>9, <2>3, <2>4, <2>5
<1> HIDE DEF whole
<1>10. CASE alone
  <2>1. next = [grouped |-> Append(whole, chunk), packed |-> << >>]
    BY <1>4, <1>10
  <2> DEFINE groups == Append(whole, chunk)
  <2>2. groups \in Seq(Seq(Jobs)) /\ AllFit(groups) /\ groups[Len(groups)] = chunk
    BY <1>1, <1>5, FitAppend, AppendProperties
  <2>3. Neighbours(groups) /\ FlattenSeq(groups) = FlattenSeq(Append(chunks, chunk))
    BY <1>7, <1>9, <1>10
  <2> HIDE DEF groups
  <2>4. next.grouped = groups /\ next.packed = << >>
    BY <2>1 DEF groups
  <2>5. WholeBatches(next) = groups
    BY <2>4 DEF WholeBatches
  <2>6. PackState(next)
    BY <1>8, <2>1, <2>2, <2>4 DEF PackState, groups
  <2> QED
    BY <1>3, <1>10, <2>2, <2>3, <2>4, <2>5, <2>6 DEF PacksFit, next
<1>11. CASE ~alone /\ full
  <2>1. next = [grouped |-> whole, packed |-> chunk]
    BY <1>4, <1>11
  <2>2. next.grouped = whole /\ next.packed = chunk
    BY <2>1
  <2>3. WholeBatches(next) = Append(whole, chunk)
    BY <1>1, <2>2 DEF WholeBatches
  <2>4. PackState(next)
    BY <1>1, <1>5, <2>1, <2>2 DEF PackState
  <2>5. Neighbours(Append(whole, chunk))
    BY <1>9, <1>11
  <2> QED
    BY <1>1, <1>3, <1>5, <1>7, <1>11, <2>2, <2>3, <2>4, <2>5 DEF PacksFit, next
<1>12. CASE ~alone /\ ~full
  <2>1. next = [grouped |-> p.grouped, packed |-> both]
    BY <1>1, <1>4, <1>12
  <2>2. /\ both \in Seq(Jobs) /\ both # << >> /\ Len(both) = Len(p.packed) + Len(chunk)
        /\ p.packed = << >> => both = chunk
    BY <1>1, ConcatProperties, ConcatEqualIffEmpty, ConcatEmptySeq, SMTT(30)
  <2>3. AllMethods(both)
    <3>1. CASE p.packed = << >>
      BY <1>3, <1>12, <2>2, <3>1
    <3>2. CASE p.packed # << >>
      BY <1>1, <1>3, <1>12, <3>2, MethodsOfBoth
    <3> QED
      BY <3>1, <3>2
  <2>4. Fits(both)
    <3>1. batchSize \in Nat /\ maxChars \in Nat /\ UsizeMax \in Nat
      BY JobsTyped DEF Sized
    <3>2. Len(both) \in Nat /\ BatchEstimate(both) \in Nat
      <4>1. both \in Seq(Jobs)
        BY <2>2
      <4> HIDE DEF both
      <4>2. BatchEstimate(both) \in 0..UsizeMax
        BY <4>1, EstimateBounds
      <4> QED
        BY <3>1, <4>1, <4>2
    <3>3. ~(Len(both) > batchSize) /\ ~(BatchEstimate(both) > maxChars)
      BY <1>12 DEF TooMuch, full
    <3> HIDE DEF both
    <3> QED
      BY <2>3, <3>1, <3>2, <3>3 DEF Fits, AllMethods
  <2>5. FlattenSeq(Append(p.grouped, both)) = FlattenSeq(Append(chunks, chunk))
    <3>1. CASE p.packed = << >>
      <4>1. whole = p.grouped
        BY <3>1 DEF whole, WholeBatches
      <4> QED
        BY <1>7, <2>2, <3>1, <4>1
    <3>2. CASE p.packed # << >>
      <4>1. whole = Append(p.grouped, p.packed)
        BY <3>2 DEF whole, WholeBatches
      <4> DEFINE flat == FlattenSeq(p.grouped)
      <4>2. /\ flat \in Seq(Jobs) /\ FlattenSeq(whole) = flat \o p.packed
            /\ FlattenSeq(Append(p.grouped, both)) = flat \o both
        BY <1>1, <2>2, <4>1, FlattenAppend
      <4> HIDE DEF flat
      <4> DEFINE packed == p.packed
      <4>3. flat \in Seq(Jobs) /\ packed \in Seq(Jobs) /\ chunk \in Seq(Jobs) /\ both = packed \o chunk
        BY <1>1, <4>2
      <4> HIDE DEF packed, both
      <4>4. (flat \o packed) \o chunk = flat \o (packed \o chunk)
        BY <4>3, ConcatAssociative, SMTT(30)
      <4> QED
        BY <1>6, <4>2, <4>3, <4>4 DEF packed
    <3> QED
      BY <3>1, <3>2
  <2>6. Neighbours(Append(p.grouped, both))
    <3>1. Neighbours(p.grouped) /\ (p.grouped # << >> => Separate(p.grouped[Len(p.grouped)], both))
      <4>1. CASE p.packed = << >>
        <5>1. Neighbours(p.grouped)
          BY <1>1, <4>1 DEF whole, WholeBatches
        <5>2. ASSUME p.grouped # << >>
              PROVE  Separate(p.grouped[Len(p.grouped)], both)
          <6>1. p.grouped[Len(p.grouped)] \in Seq(Jobs)
            BY <1>1, <5>2, EmptySeq, ElementOfSeq
          <6> QED
            BY <1>1, <2>2, <4>1, <5>2, <6>1, MethodsOfBoth DEF Separate
        <5> QED
          BY <5>1, <5>2
      <4>2. CASE p.packed # << >>
        <5>1. Neighbours(Append(p.grouped, p.packed))
          BY <1>1, <4>2 DEF whole, WholeBatches
        <5>2. Neighbours(p.grouped) /\ (p.grouped # << >> => Separate(p.grouped[Len(p.grouped)], p.packed))
          BY <1>1, <5>1, NeighboursAppend
        <5>3. ASSUME p.grouped # << >>
              PROVE  Separate(p.grouped[Len(p.grouped)], both)
          <6>1. p.grouped[Len(p.grouped)] \in Seq(Jobs)
            BY <1>1, <5>3, EmptySeq, ElementOfSeq
          <6> QED
            BY <1>1, <5>2, <5>3, <6>1, MoreIsTooMuch
        <5> QED
          BY <5>2, <5>3
      <4> QED
        BY <4>1, <4>2
    <3> QED
      BY <1>1, <2>2, <3>1, NeighboursAppend
  <2> HIDE DEF both
  <2>7. next.grouped = p.grouped /\ next.packed = both
    BY <2>1
  <2>8. WholeBatches(next) = Append(p.grouped, both)
    BY <2>2, <2>7 DEF WholeBatches
  <2>9. PackState(next)
    BY <1>1, <2>1, <2>2, <2>7 DEF PackState
  <2> QED
    BY <1>1, <2>2, <2>3, <2>4, <2>5, <2>6, <2>7, <2>8, <2>9 DEF PacksFit, next
<1> QED
  BY <1>10, <1>11, <1>12

FitPacks == INSTANCE FoldFacts WITH
  Step <- LAMBDA c, x, e : PackStep(x, e, batchSize, maxChars),
  Base <- LAMBDA c : NoBatches,
  Elements <- FitChunk,
  Holds <- LAMBDA c, seq, x : PacksFit(x, seq)

(***************************************************************************)
(* group_pending_reviews, for every queue: its batches one after the other *)
(* are the queue, every one is within the batch size and the prompt limit, *)
(* and no two neighbours of methods, of whatever files, would have fitted  *)
(* in one.                                                                 *)
(***************************************************************************)
THEOREM BatchesAreFit ==
  ASSUME Sized, NEW seq \in Seq(Jobs)
  PROVE  LET groups == GroupPendingReviews(seq, batchSize, maxChars)
         IN  FlattenSeq(groups) = seq /\ AllFit(groups) /\ Neighbours(groups)
<1> DEFINE chunks == FileChunks(seq, batchSize, maxChars)
           p == FitPacks!Fold(0, chunks)
<1>1. chunks \in Seq(FitChunk) /\ FlattenSeq(chunks) = seq
  <2>1. chunks \in Seq(Seq(Jobs)) /\ AllFit(chunks) /\ FlattenSeq(chunks) = seq
    BY ChunksAreFit
  <2> HIDE DEF chunks
  <2>2. \A k \in DOMAIN chunks : chunks[k] \in FitChunk
    BY <2>1 DEF AllFit, FitChunk, Chunk
  <2> QED
    BY <2>1, <2>2
<1>2. GroupPendingReviews(seq, batchSize, maxChars) = WholeBatches(p)
  BY DEF GroupPendingReviews, WholeBatches, NoBatches, FitPacks!Fold, FoldLeft,
         MapThenFoldSet, Max, FitPacks!Last
<1> HIDE DEF chunks
<1>3. PacksFit(NoBatches, << >>)
  <2>1. WholeBatches(NoBatches) = << >> /\ NoBatches.grouped = << >> /\ NoBatches.packed = << >>
    BY DEF WholeBatches, NoBatches
  <2>2. DOMAIN << >> = {} /\ Len(<< >>) = 0 /\ 1..(0 - 1) = {}
    OBVIOUS
  <2>3. PackState(NoBatches)
    BY NothingYet DEF PackState, NoBatches
  <2>4. AllFit(<< >>) /\ Neighbours(<< >>)
    BY <2>2 DEF AllFit, Neighbours
  <2> QED
    BY <2>1, <2>3, <2>4 DEF PacksFit
<1>4. \A q \in Seq(FitChunk), e \in FitChunk : \A x : PacksFit(x, q)
        => PacksFit(PackStep(x, e, batchSize, maxChars), Append(q, e))
  BY PackStepFits
<1>5. PacksFit(p, chunks)
  BY <1>1, <1>3, <1>4, FitPacks!FoldInduction
<1> HIDE DEF p
<1>6. AllFit(WholeBatches(p))
  <2>1. /\ p.grouped \in Seq(Seq(Jobs)) /\ p.packed \in Seq(Jobs) /\ AllFit(p.grouped)
        /\ p.packed # << >> => Fits(p.packed)
    BY <1>5 DEF PacksFit, PackState
  <2>2. CASE p.packed = << >>
    BY <2>1, <2>2 DEF WholeBatches
  <2>3. CASE p.packed # << >>
    BY <2>1, <2>3, FitAppend DEF WholeBatches
  <2> QED
    BY <2>2, <2>3
<1> QED
  BY <1>1, <1>2, <1>5, <1>6 DEF PacksFit

Packable == pending \in Seq(Jobs) /\ Sized

LEMMA AlwaysPackable == PackSpec => []Packable
<1>1. PackInit => Packable
  <2> SUFFICES ASSUME PackInit PROVE Packable
    OBVIOUS
  <2>1. \A n \in Nat : ClampBatchSize(n) \in Nat \ {0}
    BY DEF ClampBatchSize
  <2> QED
    BY <2>1, NothingYet, PackingAssumption DEF PackInit, Packable, Sized
<1>2. Packable /\ [PackNext]_packing => Packable'
  <2> SUFFICES ASSUME Packable, [PackNext]_packing PROVE Packable'
    OBVIOUS
  <2>1. CASE UNCHANGED <<pending, batchSize, maxChars>>
    BY <2>1 DEF Packable, Sized
  <2>2. ASSUME NEW kind \in JobKinds, PushJob(Job(kind)) PROVE Packable'
    <3>1. Len(pending) + 1 \in Nat
      BY DEF Packable
    <3>2. Job(kind) \in Jobs
      BY <3>1 DEF Job, Jobs
    <3> QED
      BY <2>2, <3>2, AppendProperties DEF PushJob, Packable, Sized
  <2> QED
    BY <2>1, <2>2 DEF PackNext, PushCase, packing
<1> QED
  BY <1>1, <1>2, PTL DEF PackSpec

(***************************************************************************)
(* Whatever is queued, in whatever order and of whatever sizes, for every  *)
(* batch size and prompt limit: group_pending_reviews keeps the order, the *)
(* limits, and makes no more requests than they ask for.                   *)
(***************************************************************************)
THEOREM BatchesAlwaysFit == PackSpec => []BatchesFit
<1>1. Packable => BatchesFit
  <2> SUFFICES ASSUME Packable PROVE BatchesFit
    OBVIOUS
  <2> DEFINE groups == GroupPendingReviews(pending, batchSize, maxChars)
  <2>1. FlattenSeq(groups) = pending /\ AllFit(groups) /\ Neighbours(groups)
    BY BatchesAreFit DEF Packable
  <2>2. Grouped = groups
    BY DEF Grouped
  <2> HIDE DEF groups
  <2>3. OrderedPartition
    BY <2>1, <2>2 DEF OrderedPartition, AllFit
  <2>4. WithinLimits
    BY <2>1, <2>2 DEF WithinLimits, AllFit, Fits
  <2>5. NeighboursDoNotFit
    BY <2>1, <2>2 DEF NeighboursDoNotFit, Neighbours, Separate, TooMuch, AllMethods
  <2> QED
    BY <2>3, <2>4, <2>5 DEF BatchesFit
<1> QED
  BY <1>1, AlwaysPackable, PTL

-----------------------------------------------------------------------------
(* Which cases are decided together.                                       *)

Around(found) ==
  {j \in DOMAIN cases : \E k \in found : Adjacent(cases, calls, k, j)}

Rounds == INSTANCE FoldFacts WITH
  Step <- LAMBDA i, found, n : found \cup Around(found),
  Base <- LAMBDA i : {i},
  Elements <- Nat,
  Holds <- LAMBDA i, seq, found : TRUE

\* The recursive function that Group is defined by.
IsSearch(i, g) ==
  g = [n \in Nat |-> IF n = 0 THEN {i} ELSE g[n - 1] \cup Around(g[n - 1])]

LEMMA SearchExists ==
  ASSUME NEW i
  PROVE  \E g : IsSearch(i, g)
<1> DEFINE g == [n \in Nat |-> Rounds!Fold(i, Numbers(n))]
<1>1. g[0] = {i}
  <2>1. Numbers(0) = << >> /\ 0 \in Nat
    BY NumbersGrow
  <2> QED
    BY <2>1, Rounds!FoldEmpty
<1>2. ASSUME NEW n \in Nat, n # 0
      PROVE  g[n] = g[n - 1] \cup Around(g[n - 1])
  <2>1. n - 1 \in Nat /\ (n - 1) + 1 = n
    BY <1>2
  <2>2. Numbers(n - 1) \in Seq(Nat) /\ Numbers(n) = Append(Numbers(n - 1), n)
    BY <2>1, NumbersGrow
  <2> DEFINE f == Rounds!Fold(i, Numbers(n - 1))
  <2>3. Rounds!Fold(i, Append(Numbers(n - 1), n)) = f \cup Around(f)
    BY <2>2, Rounds!FoldAppend
  <2> QED
    BY <2>1, <2>2, <2>3
<1>3. g = [n \in Nat |-> g[n]]
  OBVIOUS
<1> HIDE DEF g
<1>4. IsSearch(i, g)
  BY <1>1, <1>2, <1>3 DEF IsSearch
<1> QED
  BY <1>4

LEMMA GroupIsSearched ==
  ASSUME NEW i
  PROVE  \E g : IsSearch(i, g) /\ Group(cases, calls, i) = g[Len(cases)]
<1> DEFINE g == CHOOSE g : IsSearch(i, g)
<1>1. IsSearch(i, g)
  BY SearchExists
<1>2. Group(cases, calls, i) = g[Len(cases)]
  BY DEF Group, IsSearch, Around
<1> QED
  BY <1>1, <1>2

\* A set of cases that no relation leaves.
Closed(found) == Around(found) \subseteq found

LEMMA SearchSteps ==
  ASSUME NEW i, NEW g, IsSearch(i, g), NEW n \in Nat
  PROVE  g[0] = {i} /\ g[n + 1] = g[n] \cup Around(g[n])
<1>1. n + 1 \in Nat /\ n + 1 # 0 /\ (n + 1) - 1 = n
  OBVIOUS
<1> QED
  BY <1>1 DEF IsSearch

\* The search stays among the cases, and in every closed set it begins in.
LEMMA SearchStays ==
  ASSUME NEW i \in DOMAIN cases, NEW g, IsSearch(i, g),
         NEW A, i \in A, Closed(A)
  PROVE  \A n \in Nat : g[n] \subseteq A \cap DOMAIN cases /\ i \in g[n]
<1> DEFINE T == {n \in Nat : ~(g[n] \subseteq A \cap DOMAIN cases /\ i \in g[n])}
<1>1. SUFFICES ASSUME T # {} PROVE FALSE
  OBVIOUS
<1>2. PICK n \in T : \A m \in T : m >= n
  <2>1. T \subseteq Nat
    OBVIOUS
  <2> HIDE DEF T
  <2> QED
    BY <1>1, <2>1, Rounds!LeastNumber
<1>3. n \in Nat /\ ~(g[n] \subseteq A \cap DOMAIN cases /\ i \in g[n])
  OBVIOUS
<1>4. CASE n = 0
  <2>1. g[0] = {i}
    BY SearchSteps, <1>3
  <2> QED
    BY <1>3, <1>4, <2>1
<1>5. CASE n # 0
  <2>1. n - 1 \in Nat /\ ~(n - 1 >= n) /\ (n - 1) + 1 = n
    BY <1>3, <1>5
  <2>2. g[n - 1] \subseteq A \cap DOMAIN cases /\ i \in g[n - 1]
    <3>1. n - 1 \notin T
      <4> HIDE DEF T
      <4> QED
        BY <1>2, <2>1
    <3> QED
      BY <2>1, <3>1
  <2>3. g[n] = g[n - 1] \cup Around(g[n - 1])
    <3>1. g[(n - 1) + 1] = g[n - 1] \cup Around(g[n - 1])
      BY <2>1, SearchSteps
    <3> QED
      BY <2>1, <3>1
  <2>4. Around(g[n - 1]) \subseteq Around(A) /\ Around(A) \subseteq DOMAIN cases
    BY <2>2 DEF Around
  <2> QED
    BY <1>3, <2>2, <2>3, <2>4 DEF Closed
<1> QED
  BY <1>4, <1>5

\* A round that finds nothing new is the last; until then there is one more
\* case in every round, so that there are as many rounds as there are cases.
LEMMA SearchGrows ==
  ASSUME NEW S, cases \in Seq(S),
         NEW i \in DOMAIN cases, NEW g, IsSearch(i, g)
  PROVE  \A n \in Nat : Closed(g[n]) \/ Cardinality(g[n]) > n
<1> DEFINE T == {n \in Nat : ~(Closed(g[n]) \/ Cardinality(g[n]) > n)}
           all == DOMAIN cases
<1>1. SUFFICES ASSUME T # {} PROVE FALSE
  OBVIOUS
<1>2. PICK n \in T : \A m \in T : m >= n
  <2>1. T \subseteq Nat
    OBVIOUS
  <2> HIDE DEF T
  <2> QED
    BY <1>1, <2>1, Rounds!LeastNumber
<1>3. n \in Nat /\ ~Closed(g[n]) /\ ~(Cardinality(g[n]) > n)
  OBVIOUS
<1>4. IsFiniteSet(all) /\ Closed(all)
  <2>1. all = 1..Len(cases) /\ Len(cases) \in Nat
    OBVIOUS
  <2> QED
    BY <2>1, FS_Interval DEF Closed, Around
<1> HIDE DEF all
<1>5. ASSUME NEW m \in Nat
      PROVE  g[m] \subseteq all /\ IsFiniteSet(g[m]) /\ Cardinality(g[m]) \in Nat
  <2>1. g[m] \subseteq all
    BY <1>4, SearchStays DEF all
  <2> QED
    BY <1>4, <2>1, FS_Subset, FS_CardinalityType
<1>6. CASE n = 0
  <2>1. g[n] = {i}
    BY <1>6, SearchSteps
  <2>2. Cardinality({i}) = 1
    BY FS_Singleton
  <2> QED
    BY <1>3, <1>6, <2>1, <2>2
<1>7. CASE n # 0
  <2> DEFINE A == g[n - 1]
  <2>1. n - 1 \in Nat /\ ~(n - 1 >= n) /\ (n - 1) + 1 = n
    BY <1>3, <1>7
  <2>2. Closed(A) \/ Cardinality(A) > n - 1
    <3>1. n - 1 \notin T
      <4> HIDE DEF T
      <4> QED
        BY <1>2, <2>1
    <3> QED
      BY <2>1, <3>1
  <2>3. g[n] = A \cup Around(A)
    <3>1. g[(n - 1) + 1] = A \cup Around(A)
      <4> DEFINE m == n - 1
      <4>1. m \in Nat
        BY <2>1
      <4> HIDE DEF m, T
      <4>2. g[m + 1] = g[m] \cup Around(g[m])
        BY <4>1, SearchSteps, ZenonT(40)
      <4> QED
        BY <4>2 DEF m
    <3> QED
      BY <2>1, <3>1
  <2> HIDE DEF A
  <2>4. CASE Closed(A)
    <3>1. g[n] = A
      BY <2>3, <2>4 DEF Closed
    <3> QED
      BY <1>3, <2>4, <3>1
  <2>5. CASE ~Closed(A) /\ Cardinality(A) > n - 1
    <3>1. PICK j \in Around(A) : j \notin A
      BY <2>5 DEF Closed
    <3>2. A \cup {j} \in SUBSET g[n]
      BY <2>3, <3>1
    <3>3. IsFiniteSet(A) /\ Cardinality(A) \in Nat /\ IsFiniteSet(g[n]) /\ Cardinality(g[n]) \in Nat
      BY <1>3, <1>5, <2>1 DEF A
    <3>4. Cardinality(A \cup {j}) = Cardinality(A) + 1
      BY <3>1, <3>3, FS_AddElement
    <3>5. Cardinality(A \cup {j}) <= Cardinality(g[n])
      BY <3>2, <3>3, FS_Subset
    <3> QED
      BY <1>3, <2>5, <3>3, <3>4, <3>5
  <2> QED
    BY <2>2, <2>4, <2>5
<1> QED
  BY <1>6, <1>7

(***************************************************************************)
(* What the search from a case finds is a group of the cases: it has that  *)
(* case, no relation leads out of it, and no smaller set is like this.     *)
(***************************************************************************)
LEMMA GroupIsConnected ==
  ASSUME NEW S, cases \in Seq(S), NEW i \in DOMAIN cases
  PROVE  LET group == Group(cases, calls, i)
         IN  /\ group \subseteq DOMAIN cases /\ i \in group
             /\ Closed(group)
             /\ \A A : i \in A /\ Closed(A) => group \subseteq A
<1>1. PICK g : IsSearch(i, g) /\ Group(cases, calls, i) = g[Len(cases)]
  BY GroupIsSearched
<1> DEFINE n == Len(cases)
           all == DOMAIN cases
<1>2. n \in Nat /\ all = 1..n /\ Closed(all) /\ IsFiniteSet(all) /\ Cardinality(all) = n
  <2>1. n \in Nat /\ all = 1..n
    OBVIOUS
  <2>2. IsFiniteSet(1..n) /\ Cardinality(1..n) = n
    <3> HIDE DEF n
    <3> QED
      BY <2>1, FS_Interval
  <2> QED
    BY <2>1, <2>2 DEF Closed, Around
<1> HIDE DEF n, all
<1>3. g[n] \subseteq all /\ i \in g[n]
  BY <1>1, <1>2, SearchStays DEF all
<1>4. \A A : i \in A /\ Closed(A) => g[n] \subseteq A
  BY <1>1, <1>2, SearchStays
<1>5. Closed(g[n])
  <2>1. Closed(g[n]) \/ Cardinality(g[n]) > n
    BY <1>1, <1>2, SearchGrows
  <2>2. Cardinality(g[n]) <= n /\ Cardinality(g[n]) \in Nat
    BY <1>2, <1>3, FS_Subset, FS_CardinalityType
  <2> QED
    BY <1>2, <2>1, <2>2
<1> QED
  BY <1>1, <1>3, <1>4, <1>5 DEF n, all

\* The groups of two cases are the same or have no case in common.
LEMMA GroupsAreApart ==
  ASSUME NEW S, cases \in Seq(S), NEW i \in DOMAIN cases, NEW j \in DOMAIN cases,
         Group(cases, calls, i) \cap Group(cases, calls, j) # {}
  PROVE  Group(cases, calls, i) = Group(cases, calls, j)
<1> DEFINE G(k) == Group(cases, calls, k)
<1>1. ASSUME NEW k \in DOMAIN cases, NEW l \in G(k)
      PROVE  G(l) = G(k)
  <2>1. l \in DOMAIN cases /\ Closed(G(k))
    BY GroupIsConnected
  <2>2. G(l) \subseteq G(k)
    BY <2>1, GroupIsConnected
  <2>3. k \in G(l)
    <3> DEFINE rest == DOMAIN cases \ G(l)
    <3>1. Closed(G(l)) /\ l \in G(l)
      BY <2>1, GroupIsConnected
    <3>2. \A a, b : Adjacent(cases, calls, a, b) => Adjacent(cases, calls, b, a)
      BY DEF Adjacent
    <3>3. Closed(rest)
      <4> HIDE DEF G
      <4> QED
        BY <3>1, <3>2 DEF Closed, Around
    <3>4. k \in rest => G(k) \subseteq rest
      BY <3>3, GroupIsConnected
    <3> QED
      BY <1>1, <3>1, <3>4
  <2>4. G(k) \subseteq G(l)
    <3>1. Closed(G(l))
      BY <2>1, GroupIsConnected
    <3> QED
      BY <2>3, <3>1, GroupIsConnected
  <2> QED
    BY <2>2, <2>4
<1>2. PICK l : l \in G(i) /\ l \in G(j)
  OBVIOUS
<1>3. G(l) = G(i) /\ G(l) = G(j)
  BY <1>1, <1>2
<1> QED
  BY <1>3
-----------------------------------------------------------------------------
(* The groups, one after the other, are the cases.                         *)

\* A finite set of numbers that is not empty has a greatest element.
LEMMA GreatestOfFinite ==
  ASSUME NEW A, A \subseteq Nat, IsFiniteSet(A), A # {}
  PROVE  \E b \in A : \A a \in A : a <= b
<1> DEFINE Topped(B) == B = {} \/ \E b \in B : \A a \in B : a <= b
           T == {n \in Nat : \E B \in SUBSET A : Cardinality(B) = n /\ ~Topped(B)}
<1>1. SUFFICES ASSUME T # {} PROVE FALSE
  <2>1. A \in SUBSET A /\ Cardinality(A) \in Nat
    BY FS_CardinalityType
  <2>2. T = {} => Topped(A)
    BY <2>1
  <2> QED
    BY <2>2
<1>2. PICK n \in T : \A m \in T : m >= n
  <2>1. T \subseteq Nat
    OBVIOUS
  <2> HIDE DEF T
  <2> QED
    BY <1>1, <2>1, Rounds!LeastNumber
<1>3. PICK B \in SUBSET A : Cardinality(B) = n /\ ~Topped(B)
  OBVIOUS
<1>4. IsFiniteSet(B) /\ n \in Nat /\ B # {}
  BY <1>3, FS_Subset
<1>5. PICK x \in B : TRUE
  BY <1>4
<1> DEFINE C == B \ {x}
<1>6. Cardinality(C) = n - 1 /\ n - 1 \in Nat /\ C \in SUBSET A
  <2>1. Cardinality(C) = Cardinality(B) - 1
    BY <1>4, <1>5, FS_RemoveElement
  <2>2. n # 0
    BY <1>3, <1>4, FS_EmptySet
  <2> QED
    BY <1>3, <1>4, <2>1, <2>2
<1>7. Topped(C)
  <2>1. n - 1 \notin T
    <3> HIDE DEF T
    <3> QED
      BY <1>2, <1>4, <1>6
  <2> HIDE DEF C, Topped
  <2> QED
    BY <1>6, <2>1
<1>8. x \in Nat /\ \A a \in B : a \in Nat /\ (a = x \/ a \in C)
  BY <1>5
<1>9. CASE C = {}
  BY <1>3, <1>5, <1>8, <1>9
<1>10. CASE C # {}
  <2>1. PICK b \in C : \A a \in C : a <= b
    BY <1>7, <1>10
  <2>2. b \in B /\ b \in Nat
    BY <1>8
  <2>3. CASE x <= b
    BY <1>3, <1>8, <2>1, <2>2, <2>3
  <2>4. CASE b <= x
    <3>1. \A a \in B : a <= x
      BY <1>8, <2>1, <2>2, <2>4
    <3> QED
      BY <1>3, <1>5, <3>1
  <2> QED
    BY <1>8, <2>2, <2>3, <2>4
<1> QED
  BY <1>9, <1>10

\* A finite set of numbers can be put in order.
LEMMA OrderExists ==
  ASSUME NEW S, S \subseteq Nat, IsFiniteSet(S)
  PROVE  \E s \in [1..Cardinality(S) -> S] :
           \A i, j \in 1..Cardinality(S) : i < j => s[i] < s[j]
<1> DEFINE Ordered(A) == \E s \in [1..Cardinality(A) -> A] :
                           \A i, j \in 1..Cardinality(A) : i < j => s[i] < s[j]
           T == {n \in Nat : \E A \in SUBSET S : Cardinality(A) = n /\ ~Ordered(A)}
<1>1. SUFFICES ASSUME T # {} PROVE FALSE
  <2>1. S \in SUBSET S /\ Cardinality(S) \in Nat
    BY FS_CardinalityType
  <2>2. T = {} => Ordered(S)
    BY <2>1
  <2> QED
    BY <2>2
<1>2. PICK n \in T : \A m \in T : m >= n
  <2>1. T \subseteq Nat
    OBVIOUS
  <2> HIDE DEF T
  <2> QED
    BY <1>1, <2>1, Rounds!LeastNumber
<1>3. PICK A \in SUBSET S : Cardinality(A) = n /\ ~Ordered(A)
  OBVIOUS
<1>4. IsFiniteSet(A) /\ n \in Nat
  BY FS_Subset
<1>5. CASE A = {}
  <2>1. Cardinality(A) = 0 /\ 1..0 = {}
    BY <1>5, FS_EmptySet
  <2>2. << >> \in [1..Cardinality(A) -> A]
    BY <2>1
  <2> QED
    BY <1>3, <2>1, <2>2
<1>6. CASE A # {}
  <2>1. \E b \in A : \A a \in A : a <= b
    <3> QED
      BY <1>4, <1>6, GreatestOfFinite
  <2>2. PICK b \in A : \A a \in A : a <= b
    BY <2>1
  <2> DEFINE B == A \ {b}
  <2>3. Cardinality(B) = n - 1 /\ n - 1 \in Nat /\ B \in SUBSET S
    <3>1. Cardinality(B) = Cardinality(A) - 1
      BY <1>4, <2>2, FS_RemoveElement
    <3>2. n # 0
      BY <1>3, <1>4, <1>6, FS_EmptySet
    <3> QED
      BY <1>3, <1>4, <3>1, <3>2
  <2>4. Ordered(B)
    <3>1. n - 1 \notin T
      <4> HIDE DEF T
      <4> QED
        BY <1>2, <1>4, <2>3
    <3> HIDE DEF B, Ordered
    <3> QED
      BY <2>3, <3>1
  <2>5. PICK s \in [1..(n - 1) -> B] : \A i, j \in 1..(n - 1) : i < j => s[i] < s[j]
    BY <2>3, <2>4
  <2> DEFINE t == [i \in 1..n |-> IF i = n THEN b ELSE s[i]]
  <2>6. \A i \in 1..n : i = n \/ i \in 1..(n - 1)
    BY <1>4
  <2>7. t \in [1..n -> A]
    BY <2>5, <2>6
  <2>8. ASSUME NEW i \in 1..n, NEW j \in 1..n, i < j
        PROVE  t[i] < t[j]
    <3>1. i \in 1..(n - 1) /\ t[i] = s[i] /\ s[i] \in A /\ s[i] # b /\ s[i] \in Nat /\ b \in Nat
      <4>1. i \in 1..(n - 1)
        BY <1>4, <2>8
      <4>2. i # n
        BY <1>4, <4>1
      <4>3. t[i] = s[i] /\ s[i] \in B
        BY <2>5, <4>1, <4>2
      <4> QED
        BY <4>1, <4>3
    <3>2. CASE j = n
      BY <2>2, <3>1, <3>2
    <3>3. CASE j # n
      BY <2>5, <2>6, <2>8, <3>1, <3>3
    <3> QED
      BY <3>2, <3>3
  <2> HIDE DEF t
  <2> QED
    BY <1>3, <2>7, <2>8
<1> QED
  BY <1>5, <1>6

\* A finite set of numbers in its order has every number once.
LEMMA AscendingOrder ==
  ASSUME NEW S, S \subseteq Nat, IsFiniteSet(S)
  PROVE  /\ Ascending(S) \in Seq(S) /\ Len(Ascending(S)) = Cardinality(S)
         /\ \A m \in S : \E k \in 1..Len(Ascending(S)) : Ascending(S)[k] = m
         /\ \A k, l \in 1..Len(Ascending(S)) : Ascending(S)[k] = Ascending(S)[l] => k = l
<1> DEFINE n == Cardinality(S)
           s == Ascending(S)
<1>1. n \in Nat
  BY FS_CardinalityType
<1>2. s \in [1..n -> S] /\ \A i, j \in 1..n : i < j => s[i] < s[j]
  BY OrderExists DEF Ascending
<1> HIDE DEF s
<1>3. ASSUME NEW i \in 1..n, NEW j \in 1..n, i # j
      PROVE  s[i] # s[j]
  <2>1. s[i] \in Nat /\ s[j] \in Nat
    <3> HIDE DEF n
    <3> QED
      BY <1>2
  <2>2. i < j \/ j < i
    BY <1>1, <1>3
  <2> QED
    BY <1>2, <2>1, <2>2
<1>4. s \in Injection(1..n, S)
  <2> HIDE DEF n
  <2> QED
    BY <1>2, <1>3 DEF Injection, IsInjective
<1>5. Cardinality(1..n) = n
  BY <1>1, FS_Interval
<1>6. s \in Surjection(1..n, S)
  BY <1>1, <1>4, <1>5, FS_Injection
<1>7. \A m \in S : \E i \in 1..n : s[i] = m
  <2> HIDE DEF n
  <2> QED
    BY <1>6 DEF Surjection
<1>8. s \in Seq(S) /\ Len(s) = n
  <2> HIDE DEF n
  <2> QED
    BY <1>1, <1>2
<1> QED
  BY <1>3, <1>7, <1>8 DEF s

\* Sequences of cases, and such that are neither empty nor have a case twice.
Indices == DOMAIN cases

Once(seq) == \A k, l \in 1..Len(seq) : seq[k] = seq[l] => k = l

Has(seq, i) == \E k \in 1..Len(seq) : seq[k] = i

\* Sequences of which no two have a case in common.
Apart(seqs) ==
  /\ \A n \in 1..Len(seqs) : Once(seqs[n])
  /\ \A n, m \in 1..Len(seqs) : \A i : Has(seqs[n], i) /\ Has(seqs[m], i) => n = m

(***************************************************************************)
(* case_relationship_components: every case is in one group and once; the  *)
(* cases of a group are all those that relations lead to.                  *)
(***************************************************************************)
THEOREM ComponentsPartition ==
  ASSUME NEW S, cases \in Seq(S)
  PROVE  LET groups == Components(cases, calls)
         IN  /\ groups \in Seq(Seq(Indices))
             /\ \A n \in 1..Len(groups) : groups[n] # << >>
             /\ Apart(groups)
             /\ \A i \in Indices : \E n \in 1..Len(groups) : Has(groups[n], i)
             /\ \A n \in 1..Len(groups) : \A i :
                  Has(groups[n], i) => \A j : Has(groups[n], j) <=> j \in Group(cases, calls, i)
<1> DEFINE G(i) == Group(cases, calls, i)
           F == {i \in Indices : \A j \in G(i) : i <= j}
           firsts == Ascending(F)
           groups == [n \in DOMAIN firsts |-> Ascending(G(firsts[n]))]
<1>1. Components(cases, calls) = groups
  BY DEF Components, Indices
<1>2. Indices \subseteq Nat /\ IsFiniteSet(Indices)
  <2>1. Indices = 1..Len(cases) /\ Len(cases) \in Nat
    BY DEF Indices
  <2> QED
    BY <2>1, FS_Interval
<1>3. \A i \in Indices : G(i) \subseteq Indices /\ i \in G(i)
  BY GroupIsConnected DEF Indices
<1>4. \A i, j \in Indices : G(i) \cap G(j) # {} => G(i) = G(j)
  BY GroupsAreApart DEF Indices
<1> HIDE DEF G
<1>5. F \subseteq Indices /\ F \subseteq Nat /\ IsFiniteSet(F)
  BY <1>2, FS_Subset
<1> DEFINE n == Len(firsts)
<1>6. /\ firsts \in Seq(F) /\ n \in Nat /\ DOMAIN firsts = 1..n
      /\ \A m \in F : \E k \in 1..n : firsts[k] = m
      /\ \A k, l \in 1..n : firsts[k] = firsts[l] => k = l
      /\ \A k \in 1..n : firsts[k] \in F
  <2> HIDE DEF F
  <2>1. /\ firsts \in Seq(F)
        /\ \A m \in F : \E k \in 1..n : firsts[k] = m
        /\ \A k, l \in 1..n : firsts[k] = firsts[l] => k = l
    BY <1>5, AscendingOrder
  <2> HIDE DEF firsts
  <2> QED
    BY <2>1
<1> HIDE DEF firsts, n
<1>7. /\ groups = [k \in 1..n |-> Ascending(G(firsts[k]))]
      /\ \A k \in 1..n : groups[k] = Ascending(G(firsts[k]))
  BY <1>6
<1> HIDE DEF groups
<1>8. ASSUME NEW k \in 1..n
      PROVE  /\ groups[k] \in Seq(Indices) /\ groups[k] # << >>
             /\ Once(groups[k])
             /\ \A i : Has(groups[k], i) <=> i \in G(firsts[k])
             /\ firsts[k] \in Indices
  <2> DEFINE A == G(firsts[k])
             s == Ascending(A)
  <2>1. firsts[k] \in Indices
    BY <1>5, <1>6
  <2>2. A \subseteq Indices /\ firsts[k] \in A /\ A \subseteq Nat /\ IsFiniteSet(A)
    BY <1>2, <1>3, <2>1, FS_Subset
  <2> HIDE DEF A
  <2>3. /\ s \in Seq(A)
        /\ \A m \in A : \E l \in 1..Len(s) : s[l] = m
        /\ Once(s)
    BY <2>2, AscendingOrder DEF Once
  <2> HIDE DEF s
  <2>4. \A l \in 1..Len(s) : s[l] \in A
    BY <2>3
  <2>5. \A i : Has(s, i) <=> i \in A
    BY <2>3, <2>4 DEF Has
  <2>6. s \in Seq(Indices)
    <3>1. s \in Seq(A)
      BY <2>3
    <3>2. \A l \in 1..Len(s) : s[l] \in Indices
      BY <2>2, <2>4
    <3> QED
      BY <3>1, <3>2
  <2>7. s # << >>
    <3>1. PICK l \in 1..Len(s) : s[l] = firsts[k]
      BY <2>2, <2>3
    <3> QED
      BY <3>1
  <2> QED
    BY <1>7, <2>1, <2>3, <2>5, <2>6, <2>7 DEF s, A
<1>9. groups \in Seq(Seq(Indices)) /\ Len(groups) = n
  <2>1. n \in Nat /\ \A k \in 1..n : groups[k] \in Seq(Indices)
    BY <1>6, <1>8
  <2>2. groups = [k \in 1..n |-> groups[k]]
    BY <1>7
  <2> QED
    BY <2>1, <2>2
<1>10. ASSUME NEW k \in 1..n, NEW l \in 1..n, NEW i, Has(groups[k], i), Has(groups[l], i)
       PROVE  k = l
  <2>1. G(firsts[k]) = G(firsts[l])
    BY <1>4, <1>8, <1>10
  <2>2. firsts[k] \in F /\ firsts[l] \in F /\ firsts[k] \in G(firsts[k]) /\ firsts[l] \in G(firsts[l])
    BY <1>3, <1>6, <1>8
  <2>3. firsts[k] <= firsts[l] /\ firsts[l] <= firsts[k] /\ firsts[k] \in Nat /\ firsts[l] \in Nat
    BY <1>5, <2>1, <2>2
  <2>4. firsts[k] = firsts[l]
    BY <2>3
  <2> QED
    BY <1>6, <2>4
<1>11. ASSUME NEW i \in Indices
       PROVE  \E k \in 1..n : Has(groups[k], i)
  <2>1. PICK f \in G(i) : \A m \in G(i) : m >= f
    <3>1. G(i) \subseteq Nat /\ G(i) # {}
      BY <1>2, <1>3
    <3> QED
      BY <3>1, Rounds!LeastNumber
  <2>2. f \in Indices /\ f \in Nat /\ G(f) = G(i)
    BY <1>2, <1>3, <1>4
  <2>3. f \in F
    BY <1>2, <1>3, <2>1, <2>2
  <2>4. PICK k \in 1..n : firsts[k] = f
    BY <1>6, <2>3
  <2> QED
    BY <1>3, <1>8, <2>2, <2>4
<1>12. ASSUME NEW k \in 1..n, NEW i, Has(groups[k], i)
       PROVE  G(i) = G(firsts[k])
  BY <1>3, <1>4, <1>8, <1>12
<1> QED
  BY <1>1, <1>8, <1>9, <1>10, <1>11, <1>12 DEF Apart, G
-----------------------------------------------------------------------------
(* How the groups are put into chunks.                                     *)

\* The cases as they are listed, with their sizes.
Cases == {[units |-> kind.units, chars |-> kind.chars, semantics |-> meaning] :
            kind \in CaseKinds, meaning \in {<<Own>>} \cup {<<Own, n>> : n \in Nat}}

Splittable == cases \in Seq(Cases) /\ maxChars \in Nat

Chars == INSTANCE FoldFacts WITH
  Step <- LAMBDA c, sum, i : sum + cases[i].chars,
  Base <- LAMBDA c : FixedChars,
  Elements <- Indices,
  Holds <- LAMBDA c, seq, sum : sum \in Nat

Fitting(seq) == PromptChars(cases, seq) <= maxChars

\* A prompt is within the limit or above it.
LEMMA PromptIsMeasured ==
  ASSUME Splittable, NEW seq \in Seq(Indices)
  PROVE  /\ Fitting(seq) <=> ~(PromptChars(cases, seq) > maxChars)
         /\ Fitting(seq) \in BOOLEAN /\ (PromptChars(cases, seq) > maxChars) \in BOOLEAN
<1>1. PromptChars(cases, seq) = Chars!Fold(0, seq)
  BY DEF PromptChars, Chars!Fold, FoldLeft, MapThenFoldSet, Max, Chars!Last
<1>2. FixedChars \in Nat /\ \A i \in Indices : cases[i].chars \in Nat
  <2>1. \A case \in Cases : case.chars \in Nat
    BY PackingAssumption DEF Cases
  <2>2. \A i \in Indices : cases[i] \in Cases
    BY DEF Splittable, Indices
  <2> QED
    BY <2>1, <2>2, PackingAssumption
<1>3. Chars!Fold(0, seq) \in Nat
  BY <1>2, Chars!FoldInduction
<1> QED
  BY <1>1, <1>3 DEF Fitting, Splittable

Of(seq) == {i \in Indices : Has(seq, i)}

\* What is known of the chunks so far and the one that is being filled: no
\* case is in two places, and several are together only if they fit.
Splits(s) ==
  /\ s = [chunks |-> s.chunks, current |-> s.current, error |-> s.error]
  /\ s.error = FALSE
  /\ s.chunks \in Seq(Seq(Indices)) /\ s.current \in Seq(Indices)
  /\ Apart(s.chunks) /\ Once(s.current)
  /\ \A n \in 1..Len(s.chunks) :
       /\ \A i : ~(Has(s.chunks[n], i) /\ Has(s.current, i))
       /\ Len(s.chunks[n]) > 1 => Fitting(s.chunks[n])
  /\ Len(s.current) > 1 => Fitting(s.current)

Placed(s) ==
  {i \in Indices : Has(s.current, i) \/ \E n \in 1..Len(s.chunks) : Has(s.chunks[n], i)}

\* These cases are in one chunk.
Together(s, seq) ==
  \/ Of(seq) \subseteq Of(s.current)
  \/ \E n \in 1..Len(s.chunks) : Of(seq) \subseteq Of(s.chunks[n])

\* What a step may do that places the cases of a sequence.
Places(s, seq, t) ==
  /\ Splits(t) /\ Placed(t) = Placed(s) \cup Of(seq)
  /\ \A group : Together(s, group) => Together(t, group)

Fresh(s, seq) == Once(seq) /\ Of(seq) \cap Placed(s) = {}

\* The cases of two sequences, one behind the other.
LEMMA HasBoth ==
  ASSUME NEW seq \in Seq(Indices), NEW more \in Seq(Indices)
  PROVE  /\ seq \o more \in Seq(Indices)
         /\ \A i : Has(seq \o more, i) <=> Has(seq, i) \/ Has(more, i)
         /\ \A i : Has(seq, i) => i \in Indices
         /\ Once(seq) /\ Once(more) /\ (\A i : ~(Has(seq, i) /\ Has(more, i)))
              => Once(seq \o more)
<1> DEFINE m == Len(seq)
           n == Len(more)
           both == seq \o more
<1>1. /\ m \in Nat /\ n \in Nat
      /\ both \in Seq(Indices) /\ Len(both) = m + n
      /\ \A k \in 1..(m + n) : both[k] = IF k <= m THEN seq[k] ELSE more[k - m]
  BY ConcatProperties
<1>2. /\ \A k \in 1..m : k \in 1..(m + n) /\ both[k] = seq[k]
      /\ \A k \in 1..n : k + m \in 1..(m + n) /\ both[k + m] = more[k]
      /\ \A k \in 1..(m + n) : k \in 1..m \/ (k - m \in 1..n /\ both[k] = more[k - m])
  <2> HIDE DEF m, n, both
  <2>1. ASSUME NEW k \in 1..n
        PROVE  k + m \in 1..(m + n) /\ both[k + m] = more[k]
    <3>1. k + m \in 1..(m + n) /\ ~(k + m <= m) /\ (k + m) - m = k
      BY <1>1
    <3> QED
      BY <1>1, <3>1
  <2>2. \A k \in 1..m : k \in 1..(m + n) /\ both[k] = seq[k]
    BY <1>1
  <2>3. \A k \in 1..(m + n) : k \in 1..m \/ (k - m \in 1..n /\ both[k] = more[k - m])
    BY <1>1
  <2> QED
    BY <2>1, <2>2, <2>3
<1>3. \A k \in 1..m : seq[k] \in Indices
  OBVIOUS
<1> HIDE DEF m, n, both
<1>4. \A i : Has(both, i) <=> Has(seq, i) \/ Has(more, i)
  BY <1>1, <1>2, ZenonT(40) DEF Has, m, n
<1>5. ASSUME Once(seq), Once(more), \A i : ~(Has(seq, i) /\ Has(more, i))
      PROVE  Once(both)
  <2>1. \A k \in 1..m, l \in 1..n : seq[k] # more[l]
    BY <1>5 DEF Has, m, n
  <2>2. SUFFICES ASSUME NEW k \in 1..(m + n), NEW l \in 1..(m + n), both[k] = both[l]
                 PROVE  k = l
    BY <1>1 DEF Once
  <2>3. CASE k \in 1..m /\ l \in 1..m
    BY <1>2, <1>5, <2>2, <2>3 DEF Once, m
  <2>4. CASE k \in 1..m /\ l \notin 1..m
    BY <1>2, <2>1, <2>2, <2>4
  <2>5. CASE k \notin 1..m /\ l \in 1..m
    BY <1>2, <2>1, <2>2, <2>5
  <2>6. CASE k \notin 1..m /\ l \notin 1..m
    <3>1. k - m \in 1..n /\ l - m \in 1..n /\ more[k - m] = more[l - m]
      BY <1>2, <2>2, <2>6
    <3>2. k - m = l - m
      BY <1>5, <3>1 DEF Once, n
    <3> QED
      BY <1>1, <3>2
  <2> QED
    BY <2>3, <2>4, <2>5, <2>6
<1> QED
  BY <1>1, <1>3, <1>4, <1>5 DEF Has, m, n, both

\* Cases go behind those of the chunk that is being filled.
LEMMA ChunkGrows ==
  ASSUME NEW s, Splits(s), NEW seq \in Seq(Indices), Fresh(s, seq),
         Len(s.current \o seq) > 1 => Fitting(s.current \o seq)
  PROVE  Places(s, seq, [s EXCEPT !.current = @ \o seq])
<1> DEFINE both == s.current \o seq
           t == [s EXCEPT !.current = @ \o seq]
<1>1. /\ s = [chunks |-> s.chunks, current |-> s.current, error |-> s.error]
      /\ s.error = FALSE /\ s.chunks \in Seq(Seq(Indices)) /\ s.current \in Seq(Indices)
      /\ Apart(s.chunks) /\ Once(s.current)
      /\ \A n \in 1..Len(s.chunks) :
           /\ \A i : ~(Has(s.chunks[n], i) /\ Has(s.current, i))
           /\ Len(s.chunks[n]) > 1 => Fitting(s.chunks[n])
  BY DEF Splits
<1>2. t = [chunks |-> s.chunks, current |-> both, error |-> s.error]
      /\ t.chunks = s.chunks /\ t.current = both /\ t.error = FALSE
  <2>1. s = [chunks |-> s.chunks, current |-> s.current, error |-> s.error]
    BY <1>1
  <2> HIDE DEF both
  <2>2. [s EXCEPT !.current = both] = [chunks |-> s.chunks, current |-> both, error |-> s.error]
    BY <2>1
  <2> QED
    BY <1>1, <2>2 DEF both
<1>3. /\ both \in Seq(Indices)
      /\ \A i : Has(both, i) <=> Has(s.current, i) \/ Has(seq, i)
      /\ \A i : Has(seq, i) => i \in Indices
  BY <1>1, HasBoth
<1>4. \A i : Has(seq, i) => /\ ~Has(s.current, i)
                            /\ \A n \in 1..Len(s.chunks) : ~Has(s.chunks[n], i)
  BY <1>3 DEF Fresh, Of, Placed
<1>5. Once(both)
  BY <1>1, <1>4, HasBoth DEF Fresh
<1> HIDE DEF t, both
<1>6. Splits(t)
  BY <1>1, <1>2, <1>3, <1>4, <1>5 DEF Splits, both
<1>7. Placed(t) = Placed(s) \cup Of(seq)
  BY <1>2, <1>3 DEF Placed, Of
<1>8. \A group : Together(s, group) => Together(t, group)
  BY <1>2, <1>3 DEF Together, Of
<1> QED
  BY <1>6, <1>7, <1>8 DEF Places, t

\* The chunk that was being filled is put with the others.
LEMMA ChunkEnds ==
  ASSUME NEW s, Splits(s)
  PROVE  Places(s, << >>, [chunks |-> Append(s.chunks, s.current), current |-> << >>, error |-> FALSE])
<1> DEFINE t == [chunks |-> Append(s.chunks, s.current), current |-> << >>, error |-> FALSE]
           n == Len(s.chunks)
<1>1. /\ s = [chunks |-> s.chunks, current |-> s.current, error |-> s.error]
      /\ s.error = FALSE /\ s.chunks \in Seq(Seq(Indices)) /\ s.current \in Seq(Indices)
      /\ Apart(s.chunks) /\ Once(s.current)
      /\ \A k \in 1..n :
           /\ \A i : ~(Has(s.chunks[k], i) /\ Has(s.current, i))
           /\ Len(s.chunks[k]) > 1 => Fitting(s.chunks[k])
      /\ Len(s.current) > 1 => Fitting(s.current)
  BY DEF Splits
<1>2. /\ t.chunks = Append(s.chunks, s.current) /\ t.current = << >> /\ t.error = FALSE
      /\ t = [chunks |-> t.chunks, current |-> t.current, error |-> t.error]
  OBVIOUS
<1>3. /\ << >> \in Seq(Indices) /\ Once(<< >>) /\ \A i : ~Has(<< >>, i)
      /\ Len(<< >>) = 0 /\ Of(<< >>) = {}
  BY DEF Once, Has, Of
<1>4. /\ t.chunks \in Seq(Seq(Indices)) /\ Len(t.chunks) = n + 1 /\ n \in Nat
      /\ t.chunks[n + 1] = s.current
      /\ \A k \in 1..n : t.chunks[k] = s.chunks[k]
  BY <1>1, <1>2, AppendProperties
<1> HIDE DEF t, n
<1>5. \A k : k \in 1..(n + 1) <=> k \in 1..n \/ k = n + 1
  BY <1>4
<1>6. Apart(t.chunks)
  <2>1. \A k \in 1..(n + 1) : Once(t.chunks[k])
    BY <1>1, <1>4, <1>5 DEF Apart, n
  <2>2. ASSUME NEW k \in 1..(n + 1), NEW l \in 1..(n + 1), NEW i,
               Has(t.chunks[k], i), Has(t.chunks[l], i)
        PROVE  k = l
    <3>1. CASE k \in 1..n /\ l \in 1..n
      BY <1>1, <1>4, <2>2, <3>1 DEF Apart, n
    <3>2. CASE k = n + 1 \/ l = n + 1
      BY <1>1, <1>4, <1>5, <2>2, <3>2
    <3> QED
      BY <1>5, <3>1, <3>2
  <2> QED
    BY <1>4, <2>1, <2>2 DEF Apart
<1>7. Splits(t)
  <2>1. \A k \in 1..(n + 1) : Len(t.chunks[k]) > 1 => Fitting(t.chunks[k])
    BY <1>1, <1>4, <1>5
  <2> QED
    BY <1>2, <1>3, <1>4, <1>6, <2>1 DEF Splits
<1>8. Placed(t) = Placed(s) \cup Of(<< >>)
  BY <1>2, <1>3, <1>4, <1>5 DEF Placed, n
<1>9. \A group : Together(s, group) => Together(t, group)
  BY <1>3, <1>4, <1>5 DEF Together, n
<1> QED
  BY <1>7, <1>8, <1>9 DEF Places, t
\* A new chunk is begun with these cases.
LEMMA ChunkBegins ==
  ASSUME NEW s, Splits(s), NEW seq \in Seq(Indices), Fresh(s, seq),
         Len(seq) > 1 => Fitting(seq)
  PROVE  Places(s, seq, [chunks |-> Append(s.chunks, s.current), current |-> seq, error |-> FALSE])
<1> DEFINE e == [chunks |-> Append(s.chunks, s.current), current |-> << >>, error |-> FALSE]
<1>1. Splits(e) /\ Placed(e) = Placed(s) /\ \A group : Together(s, group) => Together(e, group)
  <2>1. Places(s, << >>, e)
    BY ChunkEnds
  <2>2. Of(<< >>) = {}
    BY DEF Of, Has
  <2> HIDE DEF e
  <2> QED
    BY <2>1, <2>2 DEF Places
<1>2. e.current \o seq = seq
  BY ConcatEmptySeq
<1>3. [e EXCEPT !.current = @ \o seq]
        = [chunks |-> Append(s.chunks, s.current), current |-> seq, error |-> FALSE]
  <2>1. e = [chunks |-> e.chunks, current |-> e.current, error |-> e.error]
    OBVIOUS
  <2>4. e.chunks = Append(s.chunks, s.current) /\ e.error = FALSE
    OBVIOUS
  <2>2. [e EXCEPT !.current = @ \o seq] = [e EXCEPT !.current = seq]
    BY <1>2
  <2> HIDE DEF e
  <2>3. [e EXCEPT !.current = seq] = [chunks |-> e.chunks, current |-> seq, error |-> e.error]
    BY <2>1
  <2> QED
    BY <2>2, <2>3, <2>4
<1>4. Fresh(e, seq)
  BY <1>1 DEF Fresh
<1> HIDE DEF e
<1>5. Places(e, seq, [e EXCEPT !.current = @ \o seq])
  BY <1>1, <1>2, <1>4, ChunkGrows
<1> QED
  BY <1>1, <1>3, <1>5 DEF Places

-----------------------------------------------------------------------------
(* A group that is too long is cut, a case at a time.                      *)

\* The cut of a group after its first cases.
Cut(s, seq, t) ==
  Splits(s) /\ Fresh(s, seq) => t.error = TRUE \/ Places(s, seq, t)

Cuts == INSTANCE FoldFacts WITH
  Step <- LAMBDA s, t, i : CutStep(cases, maxChars, t, i),
  Base <- LAMBDA s : s,
  Elements <- Indices,
  Holds <- Cut

\* One more case.
LEMMA FreshAppend ==
  ASSUME NEW s, NEW seq \in Seq(Indices), NEW i \in Indices, Fresh(s, Append(seq, i))
  PROVE  /\ Fresh(s, seq) /\ i \notin Of(seq) /\ i \notin Placed(s)
         /\ Of(Append(seq, i)) = Of(seq) \cup {i}
         /\ <<i>> \in Seq(Indices) /\ Of(<<i>>) = {i} /\ Once(<<i>>) /\ Len(<<i>>) = 1
<1> DEFINE n == Len(seq)
           more == Append(seq, i)
<1>1. /\ n \in Nat /\ Len(more) = n + 1 /\ more[n + 1] = i
      /\ \A k \in 1..n : more[k] = seq[k]
  BY AppendProperties
<1> HIDE DEF n, more
<1>2. \A k : k \in 1..(n + 1) <=> k \in 1..n \/ k = n + 1
  BY <1>1
<1>3. n + 1 \notin 1..n
  BY <1>1
<1>4. Of(more) = Of(seq) \cup {i}
  BY <1>1, <1>2 DEF Of, Has, n
<1>5. Once(seq) /\ i \notin Of(seq)
  BY <1>1, <1>2, <1>3 DEF Fresh, Once, Of, Has, n, more
<1>6. <<i>> \in Seq(Indices) /\ Len(<<i>>) = 1 /\ <<i>>[1] = i
  OBVIOUS
<1>7. Of(<<i>>) = {i} /\ Once(<<i>>)
  <2> DEFINE one == <<i>>
  <2>1. 1..Len(one) = {1} /\ one[1] = i
    BY <1>6
  <2> HIDE DEF one
  <2>2. Of(one) = {i} /\ Once(one)
    BY <2>1 DEF Of, Has, Once
  <2> QED
    BY <2>2 DEF one
<1> QED
  BY <1>4, <1>5, <1>6, <1>7 DEF Fresh, more

LEMMA CutStepPlaces ==
  ASSUME Splittable, NEW s, NEW seq \in Seq(Indices), NEW i \in Indices, NEW t, Cut(s, seq, t)
  PROVE  Cut(s, Append(seq, i), CutStep(cases, maxChars, t, i))
<1> SUFFICES ASSUME Splits(s), Fresh(s, Append(seq, i)),
                    CutStep(cases, maxChars, t, i).error # TRUE
             PROVE  Places(s, Append(seq, i), CutStep(cases, maxChars, t, i))
  BY DEF Cut
<1> DEFINE next == CutStep(cases, maxChars, t, i)
           one == <<i>>
<1>1. /\ Fresh(s, seq) /\ i \notin Of(seq) /\ i \notin Placed(s)
      /\ Of(Append(seq, i)) = Of(seq) \cup {i}
      /\ one \in Seq(Indices) /\ Of(one) = {i} /\ Once(one) /\ Len(one) = 1
  BY FreshAppend
<1>2. CASE t.error = TRUE
  <2>1. next = t
    BY <1>2 DEF CutStep
  <2> QED
    BY <1>2, <2>1
<1>3. CASE t.error # TRUE
  <2>1. Places(s, seq, t)
    BY <1>1, <1>3 DEF Cut
  <2>2. Splits(t) /\ t.current \in Seq(Indices) /\ t.error = FALSE
    BY <2>1 DEF Places, Splits
  <2> DEFINE more == Append(t.current, i)
  <2>3. more \in Seq(Indices) /\ t.current \o one = more
    BY <2>2, AppendProperties, AppendIsConcat
  <2>4. Fresh(t, one)
    BY <1>1, <2>1 DEF Fresh, Places
  <2> SUFFICES Places(t, one, next)
    BY <1>1, <2>1 DEF Places
  <2> HIDE DEF one, more
  <2>5. CASE Fitting(more)
    <3>1. next = [t EXCEPT !.current = more]
      BY <2>2, <2>3, <2>5, PromptIsMeasured DEF CutStep, Fitting, more
    <3> QED
      BY <1>1, <2>2, <2>3, <2>4, <2>5, <3>1, ChunkGrows, ZenonT(40)
  <2>6. CASE ~Fitting(more)
    <3>1. next = IF t.current = << >>
                   THEN [t EXCEPT !.error = TRUE]
                   ELSE [chunks |-> Append(t.chunks, t.current), current |-> one, error |-> FALSE]
      BY <2>2, <2>3, <2>6, PromptIsMeasured DEF CutStep, Fitting, more, one
    <3>2. t.current # << >>
      <4>1. [t EXCEPT !.error = TRUE].error = TRUE
        BY <2>2 DEF Splits
      <4> HIDE DEF next
      <4> QED
        BY <3>1, <4>1 DEF next
    <3>3. Len(one) > 1 => Fitting(one)
      BY <1>1
    <3>4. Places(t, one, [chunks |-> Append(t.chunks, t.current), current |-> one, error |-> FALSE])
      BY <1>1, <2>2, <2>4, <3>3, ChunkBegins
    <3> QED
      BY <3>1, <3>2, <3>4
  <2> QED
    BY <2>5, <2>6
<1> QED
  BY <1>2, <1>3

LEMMA CutPlaces ==
  ASSUME Splittable, NEW s, Splits(s), NEW seq \in Seq(Indices), Fresh(s, seq)
  PROVE  LET end == FoldLeft(LAMBDA t, i : CutStep(cases, maxChars, t, i), s, seq)
         IN  end.error = TRUE \/ Places(s, seq, end)
<1>1. \A c : Cut(c, << >>, c)
  <2>1. Of(<< >>) = {}
    BY DEF Of, Has
  <2> QED
    BY <2>1 DEF Cut, Places
<1>2. \A c : \A q \in Seq(Indices) : \A i \in Indices :
        Cut(c, q, Cuts!Fold(c, q))
          => Cut(c, Append(q, i), CutStep(cases, maxChars, Cuts!Fold(c, q), i))
  BY CutStepPlaces
<1>3. \A c : \A q \in Seq(Indices) : Cut(c, q, Cuts!Fold(c, q))
  BY <1>1, <1>2, Cuts!FoldInduction
<1>4. FoldLeft(LAMBDA t, i : CutStep(cases, maxChars, t, i), s, seq) = Cuts!Fold(s, seq)
  BY DEF Cuts!Fold, FoldLeft, MapThenFoldSet, Max, Cuts!Last
<1> QED
  BY <1>3, <1>4 DEF Cut
-----------------------------------------------------------------------------
(* The groups, one after the other.                                        *)

\* The chunks of the first groups, or an error, for which one of them is to blame.
GroupsSplit(seq, s) ==
  Apart(seq) =>
    \/ s.error = TRUE /\ \E n \in 1..Len(seq) : ~Fitting(seq[n])
    \/ /\ Splits(s)
       /\ \A i : i \in Placed(s) <=> \E n \in 1..Len(seq) : Has(seq[n], i)
       /\ \A n \in 1..Len(seq) : Fitting(seq[n]) => Together(s, seq[n])

NoneSplit == [chunks |-> << >>, current |-> << >>, error |-> FALSE]

Splitting == INSTANCE FoldFacts WITH
  Step <- LAMBDA c, s, group : SplitStep(cases, maxChars, s, group),
  Base <- LAMBDA c : NoneSplit,
  Elements <- Seq(Indices),
  Holds <- LAMBDA c, seq, s : GroupsSplit(seq, s)

LEMMA SplitStepPlaces ==
  ASSUME Splittable, NEW s, Splits(s), NEW group \in Seq(Indices), Fresh(s, group)
  PROVE  LET next == SplitStep(cases, maxChars, s, group)
         IN  \/ next.error = TRUE /\ ~Fitting(group)
             \/ Places(s, group, next) /\ (Fitting(group) => Together(next, group))
<1> DEFINE next == SplitStep(cases, maxChars, s, group)
           both == s.current \o group
<1>1. s.current \in Seq(Indices) /\ s.error = FALSE
  BY DEF Splits
<1>2. both \in Seq(Indices) /\ Of(group) \subseteq Of(both)
  BY <1>1, HasBoth DEF Of
<1> HIDE DEF both
<1>3. CASE Fitting(both)
  <2>1. next = [s EXCEPT !.current = both]
    BY <1>1, <1>2, <1>3, PromptIsMeasured DEF SplitStep, Fitting, both
  <2>2. Places(s, group, next)
    BY <1>3, <2>1, ChunkGrows DEF both
  <2>3. next.current = both
    BY <2>1 DEF Splits
  <2> HIDE DEF next
  <2> QED
    BY <1>2, <2>2, <2>3 DEF Together, next
<1>4. CASE ~Fitting(both)
  <2> DEFINE cut == FoldLeft(LAMBDA t, i : CutStep(cases, maxChars, t, i), s, group)
             begun == [chunks |-> Append(s.chunks, s.current), current |-> group,
                       error |-> PromptChars(cases, group) > maxChars]
  <2>1. next = IF s.current = << >> THEN cut ELSE begun
    BY <1>1, <1>2, <1>4, PromptIsMeasured DEF SplitStep, Fitting, both
  <2>2. CASE s.current = << >>
    <3>1. ~Fitting(group)
      <4>1. both = group
        BY <2>2, ConcatEmptySeq DEF both
      <4> QED
        BY <1>4, <4>1
    <3>2. cut.error = TRUE \/ Places(s, group, cut)
      BY CutPlaces
    <3> HIDE DEF cut, next
    <3> QED
      BY <2>1, <2>2, <3>1, <3>2 DEF next
  <2>3. CASE s.current # << >>
    <3>1. next = begun
      BY <2>1, <2>3
    <3>2. CASE Fitting(group)
      <4>1. (PromptChars(cases, group) > maxChars) = FALSE
        BY <3>2, PromptIsMeasured
      <4>2. begun = [chunks |-> Append(s.chunks, s.current), current |-> group, error |-> FALSE]
        BY <4>1
      <4>3. Places(s, group, begun)
        BY <3>2, <4>2, ChunkBegins
      <4>4. begun.current = group
        OBVIOUS
      <4> HIDE DEF begun, next
      <4> QED
        BY <3>1, <4>3, <4>4 DEF Together, next
    <3>3. CASE ~Fitting(group)
      <4>1. (PromptChars(cases, group) > maxChars) = TRUE
        BY <3>3, PromptIsMeasured
      <4>2. begun.error = (PromptChars(cases, group) > maxChars)
        OBVIOUS
      <4> HIDE DEF begun, next
      <4> QED
        BY <3>1, <3>3, <4>1, <4>2 DEF next
    <3> QED
      BY <3>2, <3>3
  <2> QED
    BY <2>2, <2>3
<1> QED
  BY <1>3, <1>4

LEMMA NextGroupSplits ==
  ASSUME Splittable, NEW seq \in Seq(Seq(Indices)), NEW group \in Seq(Indices),
         NEW s, GroupsSplit(seq, s)
  PROVE  GroupsSplit(Append(seq, group), SplitStep(cases, maxChars, s, group))
<1> DEFINE next == SplitStep(cases, maxChars, s, group)
           more == Append(seq, group)
           n == Len(seq)
<1>1. /\ n \in Nat /\ Len(more) = n + 1 /\ more[n + 1] = group
      /\ \A k \in 1..n : more[k] = seq[k]
  BY AppendProperties
<1> HIDE DEF n, more
<1>2. \A k : k \in 1..(n + 1) <=> k \in 1..n \/ k = n + 1
  BY <1>1
<1>3. n + 1 \notin 1..n
  BY <1>1
<1> SUFFICES ASSUME Apart(more)
             PROVE  \/ next.error = TRUE /\ \E k \in 1..(n + 1) : ~Fitting(more[k])
                    \/ /\ Splits(next)
                       /\ \A i : i \in Placed(next) <=> \E k \in 1..(n + 1) : Has(more[k], i)
                       /\ \A k \in 1..(n + 1) : Fitting(more[k]) => Together(next, more[k])
  BY <1>1 DEF GroupsSplit, more
<1>4. /\ \A k \in 1..(n + 1) : Once(more[k])
      /\ \A k, l \in 1..(n + 1) : \A i : Has(more[k], i) /\ Has(more[l], i) => k = l
  BY <1>1 DEF Apart
<1>5. Apart(seq)
  BY <1>1, <1>2, <1>4 DEF Apart, n
<1>6. Once(group) /\ \A k \in 1..n : \A i : ~(Has(seq[k], i) /\ Has(group, i))
  BY <1>1, <1>2, <1>3, <1>4
<1>7. \A i : Has(group, i) => i \in Indices
  BY DEF Has
<1>8. CASE s.error = TRUE
  <2>1. next = s
    BY <1>8 DEF SplitStep
  <2>2. ~Splits(s)
    BY <1>8 DEF Splits
  <2>3. \E k \in 1..n : ~Fitting(seq[k])
    BY <1>5, <2>2 DEF GroupsSplit, n
  <2> HIDE DEF next
  <2> QED
    BY <1>1, <1>2, <1>8, <2>1, <2>3
<1>9. CASE s.error # TRUE
  <2>1. /\ Splits(s)
        /\ \A i : i \in Placed(s) <=> \E k \in 1..n : Has(seq[k], i)
        /\ \A k \in 1..n : Fitting(seq[k]) => Together(s, seq[k])
    BY <1>5, <1>9 DEF GroupsSplit, n
  <2>2. Fresh(s, group)
    BY <1>6, <2>1 DEF Fresh, Of
  <2>3. \/ next.error = TRUE /\ ~Fitting(group)
        \/ Places(s, group, next) /\ (Fitting(group) => Together(next, group))
    BY <2>1, <2>2, SplitStepPlaces
  <2> HIDE DEF next
  <2>4. CASE next.error = TRUE /\ ~Fitting(group)
    BY <1>1, <1>2, <2>4
  <2>5. CASE Places(s, group, next) /\ (Fitting(group) => Together(next, group))
    <3>1. \A i : i \in Placed(next) <=> i \in Placed(s) \/ Has(group, i)
      BY <1>7, <2>5 DEF Places, Of
    <3>2. \A i : i \in Placed(next) <=> \E k \in 1..(n + 1) : Has(more[k], i)
      BY <1>1, <1>2, <2>1, <3>1
    <3>3. \A k \in 1..(n + 1) : Fitting(more[k]) => Together(next, more[k])
      BY <1>1, <1>2, <2>1, <2>5 DEF Places
    <3> QED
      BY <2>5, <3>2, <3>3 DEF Places
  <2> QED
    BY <2>3, <2>4, <2>5
<1> QED
  BY <1>8, <1>9

LEMMA AllGroupsSplit ==
  ASSUME Splittable, NEW seq \in Seq(Seq(Indices))
  PROVE  GroupsSplit(seq, FoldLeft(LAMBDA s, group : SplitStep(cases, maxChars, s, group),
                                   NoneSplit, seq))
<1>1. GroupsSplit(<< >>, NoneSplit)
  <2>1. Len(<< >>) = 0 /\ 1..0 = {} /\ << >> \in Seq(Indices) /\ << >> \in Seq(Seq(Indices))
    OBVIOUS
  <2>2. /\ NoneSplit.chunks = << >> /\ NoneSplit.current = << >> /\ NoneSplit.error = FALSE
        /\ NoneSplit = [chunks |-> NoneSplit.chunks, current |-> NoneSplit.current,
                        error |-> NoneSplit.error]
    BY DEF NoneSplit
  <2>3. Apart(<< >>) /\ Once(<< >>) /\ \A i : ~Has(<< >>, i)
    BY <2>1 DEF Apart, Once, Has
  <2>4. Splits(NoneSplit)
    BY <2>1, <2>2, <2>3 DEF Splits
  <2>5. Placed(NoneSplit) = {}
    BY <2>1, <2>2, <2>3 DEF Placed
  <2> QED
    BY <2>1, <2>4, <2>5 DEF GroupsSplit
<1>2. \A c : \A q \in Seq(Seq(Indices)) : \A group \in Seq(Indices) :
        GroupsSplit(q, Splitting!Fold(c, q))
          => GroupsSplit(Append(q, group), SplitStep(cases, maxChars, Splitting!Fold(c, q), group))
  BY NextGroupSplits
<1>3. \A c : \A q \in Seq(Seq(Indices)) : GroupsSplit(q, Splitting!Fold(c, q))
  BY <1>1, <1>2, Splitting!FoldInduction
<1>4. FoldLeft(LAMBDA s, group : SplitStep(cases, maxChars, s, group), NoneSplit, seq)
        = Splitting!Fold(0, seq)
  BY DEF Splitting!Fold, FoldLeft, MapThenFoldSet, Max, Splitting!Last
<1> QED
  BY <1>3, <1>4
\* The chunks that are sent, or an error.
LEMMA SplitSends ==
  ASSUME Splittable
  PROVE  LET groups == Components(cases, calls)
         IN  \/ Split.error = TRUE /\ \E n \in 1..Len(groups) : ~Fitting(groups[n])
             \/ /\ Split.error = FALSE
                /\ Split.chunks \in Seq(Seq(Indices)) /\ Apart(Split.chunks)
                /\ \A i \in Indices : \E n \in 1..Len(Split.chunks) : Has(Split.chunks[n], i)
                /\ \A n \in 1..Len(Split.chunks) :
                     Len(Split.chunks[n]) > 1 => Fitting(Split.chunks[n])
                /\ \A g \in 1..Len(groups) : Fitting(groups[g]) =>
                     \E n \in 1..Len(Split.chunks) : Of(groups[g]) \subseteq Of(Split.chunks[n])
<1> DEFINE groups == Components(cases, calls)
           end == FoldLeft(LAMBDA s, group : SplitStep(cases, maxChars, s, group), NoneSplit, groups)
           all == IF end.current = << >> THEN end.chunks ELSE Append(end.chunks, end.current)
<1>1. /\ groups \in Seq(Seq(Indices)) /\ Apart(groups)
      /\ \A n \in 1..Len(groups) : groups[n] # << >>
      /\ \A i \in Indices : \E n \in 1..Len(groups) : Has(groups[n], i)
  BY ComponentsPartition DEF Splittable
<1>2. Split.error = end.error /\ Split.chunks = all
  BY DEF Split, SplitCases, NoneSplit
<1> HIDE DEF groups
<1>3. GroupsSplit(groups, end)
  BY <1>1, AllGroupsSplit
<1> HIDE DEF end, all
<1>4. CASE end.error = TRUE /\ \E n \in 1..Len(groups) : ~Fitting(groups[n])
  BY <1>2, <1>4 DEF groups
<1>5. CASE /\ Splits(end)
           /\ \A i : i \in Placed(end) <=> \E n \in 1..Len(groups) : Has(groups[n], i)
           /\ \A n \in 1..Len(groups) : Fitting(groups[n]) => Together(end, groups[n])
  <2>1. PICK t : /\ Splits(t) /\ t.chunks = all /\ t.current = << >> /\ Placed(t) = Placed(end)
                 /\ \A group : Together(end, group) => Together(t, group)
    <3>1. CASE end.current = << >>
      BY <1>5, <3>1 DEF all
    <3>2. CASE end.current # << >>
      <4> DEFINE t == [chunks |-> Append(end.chunks, end.current), current |-> << >>,
                       error |-> FALSE]
      <4>1. Places(end, << >>, t)
        BY <1>5, ChunkEnds
      <4>2. Of(<< >>) = {}
        BY DEF Of, Has
      <4>3. t.chunks = all /\ t.current = << >>
        BY <3>2 DEF all
      <4> HIDE DEF t
      <4> QED
        BY <4>1, <4>2, <4>3 DEF Places
    <3> QED
      BY <3>1, <3>2
  <2>2. /\ all \in Seq(Seq(Indices)) /\ Apart(all) /\ end.error = FALSE
        /\ \A n \in 1..Len(all) : Len(all[n]) > 1 => Fitting(all[n])
    BY <1>5, <2>1 DEF Splits
  <2>3. ~\E i : Has(<< >>, i)
    BY DEF Has
  <2>4. ASSUME NEW i \in Indices
        PROVE  \E n \in 1..Len(all) : Has(all[n], i)
    BY <1>1, <1>5, <2>1, <2>3 DEF Placed
  <2>5. ASSUME NEW g \in 1..Len(groups), Fitting(groups[g])
        PROVE  \E n \in 1..Len(all) : Of(groups[g]) \subseteq Of(all[n])
    <3>1. groups[g] \in Seq(Indices) /\ groups[g] # << >>
      BY <1>1
    <3>2. groups[g][1] \in Of(groups[g])
      BY <3>1 DEF Of, Has
    <3>3. Of(<< >>) = {}
      BY <2>3 DEF Of
    <3>4. Together(t, groups[g])
      BY <1>5, <2>1, <2>5
    <3> QED
      BY <2>1, <3>2, <3>3, <3>4 DEF Together
  <2> QED
    BY <1>2, <2>2, <2>4, <2>5 DEF groups
<1> QED
  BY <1>1, <1>3, <1>4, <1>5 DEF GroupsSplit

(***************************************************************************)
(* split_adjudication_cases, for any cases, any calls and any limit: when  *)
(* it succeeds, every case is in one chunk and once, related cases that    *)
(* fit are in one, and several cases are together only where they fit; it  *)
(* fails only over a group that does not fit.                              *)
(***************************************************************************)
THEOREM SplitKeepsRelatedCases == Splittable => ChunksKeepRelatedCases
<1> SUFFICES ASSUME Splittable PROVE ChunksKeepRelatedCases
  OBVIOUS
<1> DEFINE groups == Components(cases, calls)
           chunks == Split.chunks
<1>1. groups \in Seq(Seq(Indices)) /\ DOMAIN groups = 1..Len(groups)
  <2>1. groups \in Seq(Seq(Indices))
    BY ComponentsPartition DEF Splittable
  <2> HIDE DEF groups
  <2> QED
    BY <2>1
<1>2. CASE Split.error = TRUE /\ \E n \in 1..Len(groups) : ~Fitting(groups[n])
  BY <1>1, <1>2 DEF ChunksKeepRelatedCases, Fitting
<1>3. CASE /\ Split.error = FALSE
           /\ chunks \in Seq(Seq(Indices)) /\ Apart(chunks)
           /\ \A i \in Indices : \E n \in 1..Len(chunks) : Has(chunks[n], i)
           /\ \A n \in 1..Len(chunks) : Len(chunks[n]) > 1 => Fitting(chunks[n])
           /\ \A g \in 1..Len(groups) : Fitting(groups[g]) =>
                \E n \in 1..Len(chunks) : Of(groups[g]) \subseteq Of(chunks[n])
  <2> HIDE DEF groups, chunks
  <2>1. DOMAIN chunks = 1..Len(chunks) /\ \A n \in 1..Len(chunks) : chunks[n] \in Seq(Indices)
    BY <1>3
  <2>2. ASSUME NEW seq \in Seq(Indices)
        PROVE  /\ Range(seq) = Of(seq)
               /\ \A i : i \in Range(seq) <=> Has(seq, i)
               /\ IsInjective(seq) <=> Once(seq)
    <3>1. DOMAIN seq = 1..Len(seq) /\ \A k \in 1..Len(seq) : seq[k] \in Indices
      OBVIOUS
    <3> QED
      BY <3>1 DEF Range, Of, Has, IsInjective, Once
  <2>3. ASSUME NEW i \in DOMAIN cases
        PROVE  Cardinality({n \in DOMAIN chunks : i \in Range(chunks[n])}) = 1
    <3>1. PICK n \in 1..Len(chunks) : Has(chunks[n], i)
      BY <1>3 DEF Indices
    <3>2. \A m \in 1..Len(chunks) : i \in Range(chunks[m]) <=> m = n
      BY <1>3, <2>1, <2>2, <3>1 DEF Apart
    <3>3. {m \in DOMAIN chunks : i \in Range(chunks[m])} = {n}
      BY <2>1, <3>2
    <3>4. Cardinality({n}) = 1
      BY FS_Singleton
    <3> QED
      BY <3>3, <3>4
  <2>4. \A n \in DOMAIN chunks :
          /\ IsInjective(chunks[n])
          /\ Len(chunks[n]) > 1 => PromptChars(cases, chunks[n]) <= maxChars
    BY <1>3, <2>1, <2>2 DEF Apart, Fitting
  <2>5. \A g \in DOMAIN groups : PromptChars(cases, groups[g]) <= maxChars =>
          \E n \in DOMAIN chunks : Range(groups[g]) \subseteq Range(chunks[n])
    <3> SUFFICES ASSUME NEW g \in 1..Len(groups), Fitting(groups[g])
                 PROVE  \E n \in DOMAIN chunks : Range(groups[g]) \subseteq Range(chunks[n])
      BY <1>1 DEF Fitting
    <3>1. Range(groups[g]) = Of(groups[g])
      BY <1>1, <2>2
    <3>2. PICK n \in 1..Len(chunks) : Of(groups[g]) \subseteq Of(chunks[n])
      BY <1>3
    <3>3. Range(chunks[n]) = Of(chunks[n])
      BY <2>1, <2>2
    <3> QED
      BY <2>1, <3>1, <3>2, <3>3
  <2> QED
    BY <1>3, <2>3, <2>4, <2>5 DEF ChunksKeepRelatedCases, groups, chunks
<1> QED
  BY <1>2, <1>3, SplitSends

LEMMA AlwaysSplittable == PackSpec => []Splittable
<1>1. PackInit => Splittable
  BY PackingAssumption DEF PackInit, Splittable
<1>2. Splittable /\ [PackNext]_packing => Splittable'
  <2> SUFFICES ASSUME Splittable, [PackNext]_packing PROVE Splittable'
    OBVIOUS
  <2>1. CASE UNCHANGED <<cases, maxChars>>
    BY <2>1 DEF Splittable
  <2>2. ASSUME NEW kind \in CaseKinds, PushCase(Case(kind)) PROVE Splittable'
    <3>1. Len(cases) + 1 \in Nat
      BY DEF Splittable
    <3>2. Case(kind) \in Cases
      <4> DEFINE meaning == IF kind.common THEN <<Own>> ELSE <<Own, Len(cases) + 1>>
      <4>1. meaning \in {<<Own>>} \cup {<<Own, n>> : n \in Nat}
        BY <3>1
      <4>2. Case(kind) = [units |-> kind.units, chars |-> kind.chars, semantics |-> meaning]
        BY DEF Case
      <4> HIDE DEF meaning
      <4> QED
        BY <4>1, <4>2 DEF Cases
    <3> QED
      BY <2>2, <3>2, AppendProperties DEF PushCase, Splittable
  <2> QED
    BY <2>1, <2>2 DEF PackNext, PushJob, packing
<1> QED
  BY <1>1, <1>2, PTL DEF PackSpec

(***************************************************************************)
(* Whatever cases there are, in whatever order, of whatever sizes and      *)
(* however related, for every prompt limit: no request is too long while   *)
(* it could be shorter, and related cases that fit are decided in one.     *)
(***************************************************************************)
THEOREM ChunksAlwaysKeepRelatedCases == PackSpec => []ChunksKeepRelatedCases
<1> QED
  BY SplitKeepsRelatedCases, AlwaysSplittable, PTL

-----------------------------------------------------------------------------
(* Adjudication: the ledgers that are applied.                             *)

\* A ledger that is applied: a decision for each of some cases, none unsafe.
Sound(d) ==
  /\ \E ids \in SUBSET CaseIds : IsFiniteSet(ids) /\ d \in Decisions(ids)
  /\ ~Unsafe(d)

\* The cases before any merge, and what a sequence of merges makes of them: a
\* case has the evidence and the weakest proof of those that went to it.
ById(d) == [c \in DOMAIN d |-> Initial(c, d)]

Gone(d, seq, c) == {seq[i] : i \in {i \in 1..Len(seq) : MergeTarget(seq[i], d) = c}}

WeakestOf(ids, p) == (\E c \in ids : p = ProofLevel[c]) /\ \A c \in ids : p <= ProofLevel[c]

Open(d, c) == d[c].decision = "unresolved"

Merged(d, seq, byId) ==
  Sound(d) /\ (\A i \in 1..Len(seq) : seq[i] \in Merging(d)) =>
      /\ DOMAIN byId = DOMAIN d
      /\ \A c \in DOMAIN d :
           LET from == {c} \cup Gone(d, seq, c)
           IN  /\ byId[c].proof \in Nat /\ WeakestOf(from, byId[c].proof)
               /\ byId[c] = [id |-> c, unresolved |-> Open(d, c),
                              evidence |-> UNION {Evidence[m] : m \in from},
                              proof |-> byId[c].proof]

F == INSTANCE FoldFacts WITH
       Step <- MergeInto, Base <- ById, Elements <- CaseIds, Holds <- Merged

-----------------------------------------------------------------------------
\* The walk along the merges, to the n-th case.
IsWalk(c, d, n, g) ==
  g = [i \in 0..n |->
         IF i = 0 THEN c
         ELSE IF d[g[i - 1]].decision = "merge" THEN d[g[i - 1]].into ELSE g[i - 1]]

LEMMA WalkExists ==
  ASSUME NEW c, NEW d
  PROVE  \A n \in Nat : \E g : IsWalk(c, d, n, g)
<1> DEFINE T == {n \in Nat : ~\E g : IsWalk(c, d, n, g)}
<1>1. SUFFICES ASSUME T # {} PROVE FALSE
  OBVIOUS
<1>2. PICK n \in T : \A m \in T : m >= n
  <2>1. T \subseteq Nat
    OBVIOUS
  <2> HIDE DEF T
  <2> QED
    BY <1>1, <2>1, F!LeastNumber
<1>3. n \in Nat /\ ~\E g : IsWalk(c, d, n, g)
  OBVIOUS
<1>4. CASE n = 0
  <2>1. IsWalk(c, d, n, [i \in 0..n |-> c])
    BY <1>4 DEF IsWalk
  <2> QED
    BY <1>3, <2>1
<1>5. CASE n # 0
  <2>1. n - 1 \in Nat /\ n - 1 \notin T
    BY <1>2, <1>3, <1>5
  <2>2. PICK g : IsWalk(c, d, n - 1, g)
    BY <2>1
  <2> DEFINE next(i) == IF d[g[i - 1]].decision = "merge" THEN d[g[i - 1]].into ELSE g[i - 1]
             h == [i \in 0..n |-> IF i = 0 THEN c ELSE next(i)]
  <2>3. \A i \in 0..(n - 1) : g[i] = IF i = 0 THEN c ELSE next(i)
    BY <2>2 DEF IsWalk
  <2>4. \A i \in 0..(n - 1) : h[i] = g[i]
    <3> HIDE DEF next
    <3> QED
      BY <1>3, <2>3
  <2>5. \A i \in 0..n : i # 0 => i - 1 \in 0..(n - 1)
    BY <1>3
  <2>6. \A i \in 0..n : i # 0 => h[i - 1] = g[i - 1]
    BY <2>4, <2>5
  <2>7. h = [i \in 0..n |->
               IF i = 0 THEN c
               ELSE IF d[h[i - 1]].decision = "merge" THEN d[h[i - 1]].into ELSE h[i - 1]]
    <3>1. \A i \in 0..n : (IF i = 0 THEN c ELSE next(i)) =
               IF i = 0 THEN c
               ELSE IF d[h[i - 1]].decision = "merge" THEN d[h[i - 1]].into ELSE h[i - 1]
      <4> HIDE DEF h
      <4> QED
        BY <2>6
    <3> QED
      BY <3>1
  <2> QED
    BY <1>3, <2>7 DEF IsWalk
<1> QED
  BY <1>4, <1>5

LEMMA TargetIsWalked ==
  ASSUME NEW c, NEW d, Cardinality(DOMAIN d) \in Nat
  PROVE  \E g : /\ IsWalk(c, d, Cardinality(DOMAIN d), g)
                /\ MergeTarget(c, d) = g[Cardinality(DOMAIN d)]
<1> DEFINE n == Cardinality(DOMAIN d)
           g == CHOOSE g : IsWalk(c, d, n, g)
<1>1. IsWalk(c, d, n, g)
  BY WalkExists
<1>2. MergeTarget(c, d) = g[n]
  BY DEF MergeTarget, IsWalk
<1> QED
  BY <1>1, <1>2

\* A walk stays among the cases, steps along the merges, and stays where it
\* comes to a case that does not merge.
LEMMA WalkSteps ==
  ASSUME NEW ids, NEW d \in Decisions(ids), NEW c \in ids, NEW n \in Nat,
         NEW g, IsWalk(c, d, n, g)
  PROVE  /\ g[0] = c
         /\ \A i \in 0..n : g[i] \in ids
         /\ \A i \in 0..n : i # n =>
              /\ d[g[i]].decision = "merge" => g[i + 1] = d[g[i]].into
              /\ d[g[i]].decision # "merge" => g[i + 1] = g[i]
<1>1. g[0] = c
  BY DEF IsWalk
<1>2. \A i \in 0..n : i # n =>
        /\ d[g[i]].decision = "merge" => g[i + 1] = d[g[i]].into
        /\ d[g[i]].decision # "merge" => g[i + 1] = g[i]
  <2> TAKE i \in 0..n
  <2> HAVE i # n
  <2>1. i + 1 \in 0..n /\ i + 1 # 0 /\ (i + 1) - 1 = i
    OBVIOUS
  <2>2. g[i + 1] = IF d[g[(i + 1) - 1]].decision = "merge"
                     THEN d[g[(i + 1) - 1]].into ELSE g[(i + 1) - 1]
    BY <2>1 DEF IsWalk
  <2> QED
    BY <2>1, <2>2
<1>3. \A i \in 0..n : g[i] \in ids
  <2> DEFINE T == {i \in 0..n : g[i] \notin ids}
  <2>1. SUFFICES ASSUME T # {} PROVE FALSE
    OBVIOUS
  <2>2. PICK i \in T : \A j \in T : j >= i
    <3>1. T \subseteq Nat
      OBVIOUS
    <3> HIDE DEF T
    <3> QED
      BY <2>1, <3>1, F!LeastNumber
  <2>3. i \in 0..n /\ i # 0 /\ g[i] \notin ids
    BY <1>1
  <2>4. i - 1 \in 0..n /\ i - 1 # n /\ (i - 1) + 1 = i /\ g[i - 1] \in ids
    BY <2>2, <2>3
  <2>5. d[g[i - 1]].decision = "merge" => d[g[i - 1]].into \in ids
    BY <2>4 DEF Decisions
  <2> QED
    BY <1>2, <2>3, <2>4, <2>5
<1> QED
  BY <1>1, <1>2, <1>3

LEMMA WalkStays ==
  ASSUME NEW ids, NEW d \in Decisions(ids), NEW c \in ids, NEW n \in Nat,
         NEW g, IsWalk(c, d, n, g), NEW i \in 0..n, d[g[i]].decision # "merge"
  PROVE  \A j \in i..n : g[j] = g[i]
<1> DEFINE T == {j \in i..n : g[j] # g[i]}
<1>1. SUFFICES ASSUME T # {} PROVE FALSE
  OBVIOUS
<1>2. PICK j \in T : \A k \in T : k >= j
  <2>1. T \subseteq Nat
    OBVIOUS
  <2> HIDE DEF T
  <2> QED
    BY <1>1, <2>1, F!LeastNumber
<1>3. j \in i..n /\ j # i /\ g[j] # g[i]
  OBVIOUS
<1>4. j - 1 \in i..n /\ j - 1 \in 0..n /\ j - 1 # n /\ (j - 1) + 1 = j /\ g[j - 1] = g[i]
  BY <1>2, <1>3
<1>5. g[(j - 1) + 1] = g[j - 1]
  BY <1>4, WalkSteps
<1> QED
  BY <1>3, <1>4, <1>5

\* The chains of merges that end in a case are the walks that do.
LEMMA AbsorbedByTarget ==
  ASSUME NEW ids, IsFiniteSet(ids), NEW d \in Decisions(ids),
         NEW c \in ids, d[c].decision # "merge"
  PROVE  Absorbed(d, c) = {m \in Merging(d) : MergeTarget(m, d) = c}
<1> DEFINE n == Cardinality(ids)
<1>1. DOMAIN d = ids /\ n \in Nat
  BY FS_CardinalityType DEF Decisions
<1>2. ASSUME NEW m \in Absorbed(d, c)
      PROVE  m \in Merging(d) /\ MergeTarget(m, d) = c
  <2>1. PICK k \in 1..n : \E chain \in [0..k -> ids] :
          /\ chain[0] = m /\ chain[k] = c
          /\ \A i \in 0..(k - 1) : /\ d[chain[i]].decision = "merge"
                                   /\ d[chain[i]].into = chain[i + 1]
    BY <1>1 DEF Absorbed
  <2>2. PICK chain \in [0..k -> ids] :
          /\ chain[0] = m /\ chain[k] = c
          /\ \A i \in 0..(k - 1) : /\ d[chain[i]].decision = "merge"
                                   /\ d[chain[i]].into = chain[i + 1]
    BY <2>1
  <2>3. k \in Nat /\ 1 <= k /\ k <= n /\ m \in ids /\ 0 \in 0..(k - 1) /\ k \in 0..n
    BY <1>1, <2>2
  <2>4. d[m].decision = "merge"
    BY <2>2, <2>3
  <2>5. PICK g : IsWalk(m, d, n, g) /\ MergeTarget(m, d) = g[n]
    BY <1>1, TargetIsWalked
  <2> DEFINE T == {i \in 0..k : g[i] # chain[i]}
  <2>6. T = {}
    <3>1. SUFFICES ASSUME T # {} PROVE FALSE
      OBVIOUS
    <3>2. PICK i \in T : \A j \in T : j >= i
      <4>1. T \subseteq Nat
        OBVIOUS
      <4> HIDE DEF T
      <4> QED
        BY <3>1, <4>1, F!LeastNumber
    <3>3. i \in 0..k /\ g[i] # chain[i]
      OBVIOUS
    <3>4. i # 0
      BY <1>1, <2>2, <2>3, <2>5, <3>3, WalkSteps
    <3>5. /\ i - 1 \in 0..k /\ i - 1 \in 0..(k - 1) /\ i - 1 \in 0..n /\ i - 1 # n
          /\ (i - 1) + 1 = i /\ i - 1 \notin T
      <4>1. k \in Nat /\ n \in Nat /\ i \in Nat /\ 0 < i /\ i <= k /\ k <= n
        BY <1>1, <2>3, <3>3, <3>4
      <4>2. ~(i - 1 >= i)
        BY <4>1
      <4>3. i - 1 \notin T
        <5> HIDE DEF T
        <5> QED
          BY <3>2, <4>2
      <4> QED
        BY <4>1, <4>3
    <3>6. g[i - 1] = chain[i - 1]
      BY <3>5
    <3>7. d[chain[i - 1]].decision = "merge" /\ d[chain[i - 1]].into = chain[i]
      BY <2>2, <3>5
    <3>8. d[g[i - 1]].decision = "merge" => g[(i - 1) + 1] = d[g[i - 1]].into
      BY <1>1, <2>3, <2>5, <3>5, WalkSteps
    <3> QED
      BY <3>3, <3>5, <3>6, <3>7, <3>8
  <2>7. g[k] = c
    BY <2>2, <2>3, <2>6
  <2>8. \A j \in k..n : g[j] = g[k]
    BY <1>1, <2>3, <2>5, <2>7, WalkStays
  <2>9. g[n] = c
    BY <1>1, <2>3, <2>7, <2>8
  <2> QED
    BY <1>1, <2>3, <2>4, <2>5, <2>9 DEF Merging
<1>3. ASSUME NEW m \in Merging(d), MergeTarget(m, d) = c
      PROVE  m \in Absorbed(d, c)
  <2>1. m \in ids /\ d[m].decision = "merge"
    BY <1>1 DEF Merging
  <2>2. PICK g : IsWalk(m, d, n, g) /\ g[n] = c
    BY <1>1, <1>3, TargetIsWalked
  <2> DEFINE T == {i \in 0..n : g[i] = c}
  <2>3. PICK k \in T : \A j \in T : j >= k
    <3>1. T \subseteq Nat /\ n \in T
      BY <1>1, <2>2
    <3> HIDE DEF T
    <3> QED
      BY <3>1, F!LeastNumber
  <2>4. k \in 0..n /\ g[k] = c
    OBVIOUS
  <2>5. /\ g[0] = m /\ \A i \in 0..n : g[i] \in ids
        /\ \A i \in 0..n : i # n =>
             /\ d[g[i]].decision = "merge" => g[i + 1] = d[g[i]].into
             /\ d[g[i]].decision # "merge" => g[i + 1] = g[i]
    BY <1>1, <2>1, <2>2, WalkSteps
  <2>6. k # 0
    BY <2>1, <2>4, <2>5
  <2>7. ASSUME NEW i \in 0..(k - 1)
        PROVE  d[g[i]].decision = "merge" /\ d[g[i]].into = g[i + 1]
    <3>1. i \in 0..n /\ i # n /\ n \in i..n /\ i \notin T
      BY <1>1, <2>3, <2>4
    <3>2. ASSUME d[g[i]].decision # "merge" PROVE FALSE
      <4>1. \A j \in i..n : g[j] = g[i]
        BY <1>1, <2>1, <2>2, <3>1, <3>2, WalkStays
      <4> QED
        BY <2>2, <3>1, <4>1
    <3> QED
      BY <2>5, <3>1, <3>2
  <2> DEFINE chain == [i \in 0..k |-> g[i]]
  <2>8. chain \in [0..k -> ids] /\ chain[0] = m /\ chain[k] = c
    <3>1. k \in Nat /\ n \in Nat /\ k <= n
      BY <1>1, <2>4
    <3>2. 0 \in 0..k /\ k \in 0..k /\ \A i \in 0..k : i \in 0..n
      BY <3>1
    <3> QED
      BY <2>4, <2>5, <3>2
  <2>9. \A i \in 0..(k - 1) : d[chain[i]].decision = "merge" /\ d[chain[i]].into = chain[i + 1]
    <3>1. \A i \in 0..(k - 1) : chain[i] = g[i] /\ chain[i + 1] = g[i + 1]
      BY <2>4
    <3> HIDE DEF chain
    <3> QED
      BY <2>7, <3>1
  <2> HIDE DEF chain
  <2>10. k \in 1..n
    BY <1>1, <2>4, <2>6
  <2> QED
    BY <1>1, <2>1, <2>8, <2>9, <2>10 DEF Absorbed
<1>4. Absorbed(d, c) \subseteq ids
  BY <1>1 DEF Absorbed
<1> QED
  BY <1>2, <1>3

-----------------------------------------------------------------------------
\* merge_sources holds the merged cases, each once.
LEMMA SourcesAreMerged ==
  ASSUME NEW ids, ids \subseteq Nat, IsFiniteSet(ids), NEW d \in Decisions(ids)
  PROVE  /\ MergeSources(d) \in Seq(Merging(d))
         /\ Merging(d) \subseteq ids
         /\ \A m \in Merging(d) : \E i \in 1..Len(MergeSources(d)) : MergeSources(d)[i] = m
<1>1. Merging(d) \subseteq ids
  BY DEF Merging, Decisions
<1>2. Merging(d) \subseteq Nat /\ IsFiniteSet(Merging(d))
  BY <1>1, FS_Subset
<1>3. MergeSources(d) = Ascending(Merging(d))
  BY DEF MergeSources, Ascending
<1> QED
  BY <1>1, <1>2, <1>3, AscendingOrder

-----------------------------------------------------------------------------
\* A merged case goes to one that is kept, of the same semantics.
LEMMA TargetIsKept ==
  ASSUME NEW d, Sound(d), NEW m \in Merging(d)
  PROVE  /\ MergeTarget(m, d) \in DOMAIN d
         /\ d[MergeTarget(m, d)].decision = "keep"
         /\ Semantics[m] = Semantics[MergeTarget(m, d)]
<1>1. PICK ids \in SUBSET CaseIds : IsFiniteSet(ids) /\ d \in Decisions(ids)
  BY DEF Sound
<1>2. DOMAIN d = ids /\ m \in ids /\ Cardinality(ids) \in Nat
  BY <1>1, FS_CardinalityType DEF Decisions, Merging
<1>3. PICK g : IsWalk(m, d, Cardinality(ids), g) /\ MergeTarget(m, d) = g[Cardinality(ids)]
  BY <1>2, TargetIsWalked
<1>4. \A i \in 0..Cardinality(ids) : g[i] \in ids
  BY <1>1, <1>2, <1>3, WalkSteps
<1>5. MergeTarget(m, d) \in ids
  BY <1>2, <1>3, <1>4
<1> QED
  BY <1>2, <1>5 DEF Sound, Unsafe

LEMMA GoneAfterAppend ==
  ASSUME NEW d, NEW S, NEW seq \in Seq(S), NEW e \in S, NEW c
  PROVE  Gone(d, Append(seq, e), c)
           = Gone(d, seq, c) \cup (IF MergeTarget(e, d) = c THEN {e} ELSE {})
<1> DEFINE ext == Append(seq, e)
           n == Len(seq)
<1>1. n \in Nat /\ Len(ext) = n + 1 /\ ext[n + 1] = e /\ \A i \in 1..n : ext[i] = seq[i]
  OBVIOUS
<1> HIDE DEF ext
<1>2. \A i \in 1..(n + 1) : i \in 1..n \/ i = n + 1
  BY <1>1
<1>3. \A i \in 1..n : i \in 1..(n + 1)
  BY <1>1
<1>4. n + 1 \in 1..(n + 1)
  BY <1>1
<1> HIDE DEF n
<1>5. Gone(d, ext, c) = {ext[i] : i \in {i \in 1..(n + 1) : MergeTarget(ext[i], d) = c}}
  BY <1>1 DEF Gone, n
<1>6. Gone(d, seq, c) = {seq[i] : i \in {i \in 1..n : MergeTarget(seq[i], d) = c}}
  BY DEF Gone, n
<1>7. \A x : x \in Gone(d, ext, c) <=> \E i \in 1..(n + 1) : MergeTarget(ext[i], d) = c /\ x = ext[i]
  BY <1>5
<1>8. \A x : x \in Gone(d, seq, c) <=> \E i \in 1..n : MergeTarget(seq[i], d) = c /\ x = seq[i]
  BY <1>6
<1>9. \A x : x \in Gone(d, ext, c) <=> x \in Gone(d, seq, c) \/ (MergeTarget(e, d) = c /\ x = e)
  BY <1>1, <1>2, <1>3, <1>4, <1>7, <1>8
<1> QED
  BY <1>9 DEF ext

\* The fold of apply_case_adjudications.
LEMMA FoldOfMerges ==
  ASSUME NEW d, NEW seq
  PROVE  FoldLeft(LAMBDA byId, c : MergeInto(d, byId, c), ById(d), seq) = F!Fold(d, seq)
  BY DEF F!Fold, FoldLeft, MapThenFoldSet, Max, F!Last

\* Before any merge every case has what it came with.
LEMMA MergedAtFirst ==
  ASSUME AdjudicationAssumption, NEW d
  PROVE  Merged(d, << >>, ById(d))
<1> SUFFICES ASSUME Sound(d) PROVE Merged(d, << >>, ById(d))
  BY DEF Merged
<1>1. DOMAIN d \subseteq CaseIds
  BY DEF Sound, Decisions
<1>2. DOMAIN ById(d) = DOMAIN d
  BY DEF ById
<1>3. ASSUME NEW c \in DOMAIN d
      PROVE  /\ Gone(d, << >>, c) = {}
             /\ ById(d)[c] = [id |-> c, unresolved |-> Open(d, c),
                              evidence |-> Evidence[c], proof |-> ProofLevel[c]]
             /\ ProofLevel[c] \in Nat
  <2>1. 1..Len(<< >>) = {}
    OBVIOUS
  <2>2. Gone(d, << >>, c) = {}
    BY <2>1 DEF Gone
  <2>3. ById(d)[c] = [id |-> c, unresolved |-> Open(d, c),
                      evidence |-> Evidence[c], proof |-> ProofLevel[c]]
    BY DEF ById, Initial, Open
  <2>4. ProofLevel[c] \in Nat
    BY <1>1 DEF AdjudicationAssumption
  <2> QED
    BY <2>2, <2>3, <2>4
<1>4. ASSUME NEW c \in DOMAIN d
      PROVE  LET from == {c} \cup Gone(d, << >>, c)
             IN  /\ ById(d)[c].proof \in Nat /\ WeakestOf(from, ById(d)[c].proof)
                 /\ ById(d)[c] = [id |-> c, unresolved |-> Open(d, c),
                                  evidence |-> UNION {Evidence[m] : m \in from},
                                  proof |-> ById(d)[c].proof]
  <2>1. {c} \cup Gone(d, << >>, c) = {c} /\ UNION {Evidence[m] : m \in {c}} = Evidence[c]
    BY <1>3
  <2>2. ById(d)[c] = [id |-> c, unresolved |-> Open(d, c),
                      evidence |-> Evidence[c], proof |-> ProofLevel[c]]
    BY <1>3
  <2>3. ById(d)[c].proof = ProofLevel[c]
    BY <2>2
  <2>4. ProofLevel[c] \in Nat
    BY <1>3
  <2>5. WeakestOf({c}, ProofLevel[c])
    BY <2>4 DEF WeakestOf
  <2> QED
    BY <2>1, <2>2, <2>3, <2>4, <2>5
<1> QED
  BY <1>2, <1>4 DEF Merged

\* A merge adds the evidence of the source to that of its target.
LEMMA MergedAfterStep ==
  ASSUME AdjudicationAssumption, NEW d, NEW seq \in Seq(CaseIds), NEW e \in CaseIds,
         NEW byId, Merged(d, seq, byId)
  PROVE  Merged(d, Append(seq, e), MergeInto(d, byId, e))
<1> DEFINE ext == Append(seq, e)
<1>1. SUFFICES ASSUME Sound(d), \A i \in 1..Len(ext) : ext[i] \in Merging(d)
               PROVE  Merged(d, ext, MergeInto(d, byId, e))
  BY DEF Merged
<1>2. e \in Merging(d) /\ \A i \in 1..Len(seq) : seq[i] \in Merging(d)
  <2>1. /\ Len(ext) = Len(seq) + 1 /\ Len(seq) \in Nat /\ ext[Len(seq) + 1] = e
        /\ \A i \in 1..Len(seq) : ext[i] = seq[i]
    OBVIOUS
  <2> HIDE DEF ext
  <2>2. Len(seq) + 1 \in 1..Len(ext) /\ \A i \in 1..Len(seq) : i \in 1..Len(ext)
    BY <2>1
  <2> QED
    BY <1>1, <2>1, <2>2
<1> DEFINE t == MergeTarget(e, d)
           from(c) == {c} \cup Gone(d, seq, c)
           into == MergeInto(d, byId, e)
<1>3. t \in DOMAIN d /\ d[t].decision = "keep" /\ e \in DOMAIN d /\ d[e].decision = "merge"
  BY <1>1, <1>2, TargetIsKept DEF Merging
<1>4. /\ DOMAIN byId = DOMAIN d
      /\ \A c \in DOMAIN d :
           /\ byId[c].proof \in Nat /\ WeakestOf(from(c), byId[c].proof)
           /\ byId[c] = [id |-> c, unresolved |-> Open(d, c),
                          evidence |-> UNION {Evidence[m] : m \in from(c)},
                          proof |-> byId[c].proof]
  BY <1>1, <1>2 DEF Merged
<1>5. from(e) = {e}
  <2>1. ASSUME NEW i \in 1..Len(seq), MergeTarget(seq[i], d) = e
        PROVE  FALSE
    BY <1>1, <1>2, <1>3, <2>1, TargetIsKept
  <2>2. Gone(d, seq, e) = {}
    BY <2>1 DEF Gone
  <2> QED
    BY <2>2
<1> HIDE DEF t, ext, from
<1>6. \A c : {c} \cup Gone(d, ext, c) = IF c = t THEN from(c) \cup {e} ELSE from(c)
  <2>1. \A c : Gone(d, ext, c) = Gone(d, seq, c) \cup (IF t = c THEN {e} ELSE {})
    BY GoneAfterAppend DEF ext, t
  <2> QED
    BY <2>1 DEF from
<1>7. into = [byId EXCEPT ![t] = MergeCase(@, byId[e])]
  BY DEF MergeInto, t
<1> HIDE DEF into
<1>8. DOMAIN into = DOMAIN d
  BY <1>4, <1>7
<1>9. ASSUME NEW c \in DOMAIN d
      PROVE  LET all == {c} \cup Gone(d, ext, c)
             IN  /\ into[c].proof \in Nat /\ WeakestOf(all, into[c].proof)
                 /\ into[c] = [id |-> c, unresolved |-> Open(d, c),
                               evidence |-> UNION {Evidence[m] : m \in all},
                               proof |-> into[c].proof]
  <2>1. CASE c # t
    BY <1>4, <1>6, <1>7, <2>1
  <2>2. CASE c = t
    <3> DEFINE least == IF byId[e].proof < byId[t].proof THEN byId[e].proof
                                                          ELSE byId[t].proof
    <3>1. /\ byId[e].proof \in Nat /\ byId[t].proof \in Nat
          /\ WeakestOf({e}, byId[e].proof) /\ WeakestOf(from(t), byId[t].proof)
      BY <1>3, <1>4, <1>5
    <3>2. \A m \in from(t) : ProofLevel[m] \in Nat
      <4>1. from(t) \subseteq CaseIds
        <5>1. t \in CaseIds
          BY <1>1, <1>3 DEF Sound, Decisions
        <5>2. Gone(d, seq, t) \subseteq CaseIds
          BY DEF Gone
        <5> QED
          BY <5>1, <5>2 DEF from
      <4> QED
        BY <4>1 DEF AdjudicationAssumption
    <3>3. least \in Nat /\ WeakestOf(from(t) \cup {e}, least)
      <4>1. least \in Nat /\ least <= byId[e].proof /\ least <= byId[t].proof
            /\ (least = byId[e].proof \/ least = byId[t].proof)
        BY <3>1
      <4>2. byId[e].proof = ProofLevel[e]
        BY <3>1 DEF WeakestOf
      <4> HIDE DEF least
      <4>3. \E m \in from(t) \cup {e} : least = ProofLevel[m]
        BY <3>1, <4>1, <4>2 DEF WeakestOf
      <4>4. \A m \in from(t) \cup {e} : least <= ProofLevel[m]
        BY <3>1, <3>2, <4>1, <4>2 DEF WeakestOf
      <4> QED
        BY <4>1, <4>3, <4>4 DEF WeakestOf
    <3>4. into[t] = [byId[t] EXCEPT !.evidence = @ \cup byId[e].evidence, !.proof = least]
      BY <1>3, <1>4, <1>7 DEF MergeCase
    <3>5. byId[e].evidence = Evidence[e]
      <4>1. UNION {Evidence[m] : m \in {e}} = Evidence[e]
        OBVIOUS
      <4>2. byId[e] = [id |-> e, unresolved |-> Open(d, e),
                        evidence |-> UNION {Evidence[m] : m \in from(e)},
                        proof |-> byId[e].proof]
        BY <1>3, <1>4
      <4>3. byId[e].evidence = UNION {Evidence[m] : m \in from(e)}
        BY <4>2
      <4> QED
        BY <1>5, <4>1, <4>3
    <3> HIDE DEF least
    <3>6. into[t] = [id |-> t, unresolved |-> Open(d, t),
                     evidence |-> (UNION {Evidence[m] : m \in from(t)}) \cup Evidence[e],
                     proof |-> least]
      <4>1. byId[t] = [id |-> t, unresolved |-> Open(d, t),
                        evidence |-> UNION {Evidence[m] : m \in from(t)},
                        proof |-> byId[t].proof]
        BY <1>3, <1>4
      <4> DEFINE old == UNION {Evidence[m] : m \in from(t)}
                 p == byId[t].proof
      <4> HIDE DEF old, p
      <4>2. byId[t] = [id |-> t, unresolved |-> Open(d, t), evidence |-> old, proof |-> p]
        BY <4>1 DEF old, p
      <4> DEFINE u == Open(d, t)
                 x == old \cup Evidence[e]
                 y == [byId[t] EXCEPT !.evidence = x, !.proof = least]
      <4>3. byId[t].evidence \cup byId[e].evidence = x
        BY <3>5, <4>2
      <4>4. into[t] = y
        <5>1. into[t] = [byId[t] EXCEPT !.evidence = byId[t].evidence \cup byId[e].evidence,
                                         !.proof = least]
          BY <3>4
        <5> HIDE DEF x
        <5> QED
          BY <4>3, <5>1
      <4> HIDE DEF u, x
      <4>5. y \in [id : {t}, unresolved : {u}, evidence : {x}, proof : {least}]
        <5> DEFINE r == byId[t]
        <5>1. r \in [id : {t}, unresolved : {u}, evidence : {old}, proof : {p}]
          BY <4>2 DEF u
        <5> HIDE DEF r
        <5>2. [r EXCEPT !.evidence = x, !.proof = least]
                \in [id : {t}, unresolved : {u}, evidence : {x}, proof : {least}]
          BY <5>1
        <5> QED
          BY <5>2 DEF r
      <4> HIDE DEF y
      <4>6. y = [id |-> t, unresolved |-> u, evidence |-> x, proof |-> least]
        BY <4>5
      <4> QED
        BY <4>4, <4>6 DEF old, u, x
    <3>7. (UNION {Evidence[m] : m \in from(t)}) \cup Evidence[e]
            = UNION {Evidence[m] : m \in from(t) \cup {e}}
      OBVIOUS
    <3>8. into[t].proof = least
      BY <3>6
    <3> QED
      BY <1>6, <2>2, <3>3, <3>6, <3>7, <3>8
  <2> QED
    BY <2>1, <2>2
<1> QED
  BY <1>8, <1>9 DEF Merged, into, ext

-----------------------------------------------------------------------------
LEMMA CasesAreNumbers ==
  ASSUME AdjudicationAssumption
  PROVE  /\ CaseIds \subseteq Nat
         /\ ChunkNumbers = 1..Len(Chunks) /\ Len(Chunks) \in Nat /\ Len(Chunks) > 0
         /\ \A k \in ChunkNumbers : IsFiniteSet(Chunks[k]) /\ Chunks[k] \in SUBSET CaseIds
<1>1. Chunks \in Seq(SUBSET Nat) /\ Chunks # << >>
  BY DEF AdjudicationAssumption
<1>2. ChunkNumbers = 1..Len(Chunks) /\ Len(Chunks) \in Nat /\ Len(Chunks) > 0
  BY <1>1 DEF ChunkNumbers
<1>3. \A k \in ChunkNumbers : Chunks[k] \subseteq Nat
  BY <1>1, <1>2
<1>4. CaseIds = UNION {Chunks[k] : k \in ChunkNumbers}
  BY DEF CaseIds, Range, ChunkNumbers
<1> QED
  BY <1>2, <1>3, <1>4 DEF AdjudicationAssumption

\* All merges carried out.
LEMMA MergedAtLast ==
  ASSUME AdjudicationAssumption, NEW d, Sound(d)
  PROVE  /\ Merged(d, MergeSources(d), F!Fold(d, MergeSources(d)))
         /\ \A i \in 1..Len(MergeSources(d)) : MergeSources(d)[i] \in Merging(d)
         /\ \A m \in Merging(d) : \E i \in 1..Len(MergeSources(d)) : MergeSources(d)[i] = m
<1>1. \A x : Merged(x, << >>, ById(x))
  BY MergedAtFirst
<1>2. \A x : \A seq \in Seq(CaseIds) : \A e \in CaseIds :
        Merged(x, seq, F!Fold(x, seq))
          => Merged(x, Append(seq, e), MergeInto(x, F!Fold(x, seq), e))
  BY MergedAfterStep
<1>3. \A x : \A seq \in Seq(CaseIds) : Merged(x, seq, F!Fold(x, seq))
  BY <1>1, <1>2, F!FoldInduction
<1>4. PICK ids \in SUBSET CaseIds : IsFiniteSet(ids) /\ d \in Decisions(ids)
  BY DEF Sound
<1>5. /\ MergeSources(d) \in Seq(Merging(d)) /\ Merging(d) \subseteq ids
      /\ \A m \in Merging(d) : \E i \in 1..Len(MergeSources(d)) : MergeSources(d)[i] = m
  BY <1>4, CasesAreNumbers, SourcesAreMerged
<1>6. MergeSources(d) \in Seq(CaseIds)
  BY <1>4, <1>5
<1> QED
  BY <1>3, <1>5, <1>6

\* The cases that went to a case that does not merge are those it absorbed.
LEMMA GoneIsAbsorbed ==
  ASSUME AdjudicationAssumption, NEW d, Sound(d),
         NEW c \in DOMAIN d, d[c].decision # "merge"
  PROVE  Gone(d, MergeSources(d), c) = Absorbed(d, c)
<1>1. PICK ids \in SUBSET CaseIds : IsFiniteSet(ids) /\ d \in Decisions(ids)
  BY DEF Sound
<1>2. DOMAIN d = ids
  BY <1>1 DEF Decisions
<1>3. Absorbed(d, c) = {m \in Merging(d) : MergeTarget(m, d) = c}
  BY <1>1, <1>2, AbsorbedByTarget
<1> DEFINE s == MergeSources(d)
<1>4. /\ \A i \in 1..Len(s) : s[i] \in Merging(d)
      /\ \A m \in Merging(d) : \E i \in 1..Len(s) : s[i] = m
  BY MergedAtLast
<1> HIDE DEF s
<1>5. Gone(d, s, c) = {m \in Merging(d) : MergeTarget(m, d) = c}
  BY <1>4 DEF Gone
<1> QED
  BY <1>3, <1>5 DEF s

\* What a ledger keeps of its cases, as the property has it.
Decided(d, c) ==
  [id |-> c,
   unresolved |-> d[c].decision = "unresolved",
   evidence |-> UNION {Evidence[m] : m \in {c} \cup Absorbed(d, c)},
   proof |-> Min({ProofLevel[m] : m \in {c} \cup Absorbed(d, c)})]

\* apply_case_adjudications keeps what was decided.
LEMMA AppliedIsDecided ==
  ASSUME AdjudicationAssumption, NEW d, Sound(d)
  PROVE  Applied(d) = {Decided(d, c) : c \in {c \in DOMAIN d :
                                          d[c].decision \in {"keep", "unresolved"}}}
<1> DEFINE merged == F!Fold(d, MergeSources(d))
           Stays == {c \in DOMAIN d : d[c].decision \in {"keep", "unresolved"}}
<1>1. Applied(d) = {merged[c] : c \in Stays}
  <2>1. FoldLeft(LAMBDA byId, c : MergeInto(d, byId, c), ById(d), MergeSources(d)) = merged
    BY FoldOfMerges
  <2> QED
    BY <2>1 DEF Applied, ById
<1>2. Merged(d, MergeSources(d), merged)
      /\ \A i \in 1..Len(MergeSources(d)) : MergeSources(d)[i] \in Merging(d)
  BY MergedAtLast
<1> HIDE DEF merged
<1>3. ASSUME NEW c \in Stays
      PROVE  merged[c] = Decided(d, c)
  <2> DEFINE from == {c} \cup Absorbed(d, c)
             p == merged[c].proof
  <2>1. Gone(d, MergeSources(d), c) = Absorbed(d, c)
    BY GoneIsAbsorbed
  <2>2. /\ p \in Nat /\ WeakestOf(from, p)
        /\ merged[c] = [id |-> c, unresolved |-> Open(d, c),
                        evidence |-> UNION {Evidence[m] : m \in from}, proof |-> p]
    BY <1>2, <2>1 DEF Merged
  <2>3. from \subseteq CaseIds
    BY DEF Sound, Decisions, Absorbed
  <2>4. \A m \in from : ProofLevel[m] \in Nat
    BY <2>3 DEF AdjudicationAssumption
  <2> HIDE DEF from, p
  <2>5. Min({ProofLevel[m] : m \in from}) = p
    <3> DEFINE L == {ProofLevel[m] : m \in from}
    <3>1. L \subseteq Nat /\ p \in L /\ \A q \in L : p <= q
      BY <2>2, <2>4 DEF WeakestOf
    <3> HIDE DEF L
    <3>2. \A q \in L : (\A r \in L : q <= r) => q = p
      BY <2>2, <3>1
    <3>3. Min(L) = p
      BY <3>1, <3>2 DEF Min
    <3> QED
      BY <3>3 DEF L
  <2> QED
    BY <2>2, <2>5 DEF Decided, from, Open
<1> QED
  BY <1>1, <1>3

-----------------------------------------------------------------------------
\* An answer that parses decides every case.
LEMMA LedgersDecide ==
  ASSUME NEW k \in ChunkNumbers, NEW ledger \in Ledgers[k]
  PROVE  ledger \in Decisions(Chunks[k])
<1> DEFINE ids == Chunks[k]
<1>1. PICK answer \in Answers(ids) : Parses(answer, ids) /\ ledger = Parsed(answer)
  BY DEF Ledgers
<1>2. \A i \in DOMAIN answer : answer[i] \in Item(ids)
  BY <1>1 DEF Answers
<1> HIDE DEF ids
<1>3. {answer[i].id : i \in DOMAIN answer} = ids
  BY <1>1 DEF Parses
<1> DEFINE at_(c) == CHOOSE i \in DOMAIN answer : answer[i].id = c
<1>4. ASSUME NEW c \in ids
      PROVE  at_(c) \in DOMAIN answer /\ answer[at_(c)].id = c
  BY <1>3
<1>5. ledger = [c \in ids |-> [decision |-> answer[at_(c)].decision, into |-> answer[at_(c)].into]]
  BY <1>1, <1>3 DEF Parsed
<1> HIDE DEF at_
<1>6. ASSUME NEW c \in ids
      PROVE  LET a == answer[at_(c)]
             IN  /\ a.decision \in Plain \cup {"merge"}
                 /\ a.into \in ids \cup {None}
                 /\ IF a.decision = "merge" THEN a.into \in ids \ {c} ELSE a.into = None
  <2>1. answer[at_(c)] \in Item(ids) /\ answer[at_(c)].id = c
    BY <1>2, <1>4
  <2>2. answer[at_(c)].decision = "merge" => answer[at_(c)].into \in ids \ {c}
    BY <1>1, <1>4 DEF Parses
  <2>3. \/ answer[at_(c)].decision \in Plain /\ answer[at_(c)].into = None
        \/ answer[at_(c)].decision = "merge"
    BY <2>1 DEF Item
  <2>4. "merge" \notin Plain
    BY DEF Plain
  <2> QED
    BY <2>2, <2>3, <2>4
<1>7. ledger \in [ids -> [decision : Plain \cup {"merge"}, into : ids \cup {None}]]
  BY <1>5, <1>6
<1>8. \A c \in ids : IF ledger[c].decision = "merge" THEN ledger[c].into \in ids \ {c}
                                                    ELSE ledger[c].into = None
  BY <1>5, <1>6
<1> QED
  BY <1>7, <1>8 DEF Decisions, ids

\* The first n chunks are decided and applied, and nothing else is kept.
AppliedUpTo(n) ==
  /\ \A k \in 1..n : journaled[k] \in Decisions(Chunks[k]) /\ ~Unsafe(journaled[k])
  /\ kept = UNION {Applied(journaled[k]) : k \in 1..n}

IInv ==
  /\ phase \in Ended \cup {"next", "apply"}
  /\ at \in ChunkNumbers
  /\ journaled = [k \in ChunkNumbers |-> journaled[k]]
  /\ \A k \in ChunkNumbers : journaled[k] # None => journaled[k] \in Decisions(Chunks[k])
  /\ phase = "apply" => decisions = journaled[at] /\ decisions \in Decisions(Chunks[at])
  /\ phase \in {"next", "apply"} => AppliedUpTo(at - 1)
  /\ phase = "done" => AppliedUpTo(Len(Chunks))
  /\ \A case \in kept : case.id \in CaseIds

LEMMA InitIsDecided == AdjudicationAssumption /\ Init => IInv
<1> SUFFICES ASSUME AdjudicationAssumption, Init PROVE IInv
  OBVIOUS
<1>1. 1 \in ChunkNumbers
  BY CasesAreNumbers
<1> QED
  BY <1>1 DEF Init, IInv, Ended

\* The chunks before the current one do not change when its decisions do.
LEMMA SameUpTo ==
  ASSUME AdjudicationAssumption, IInv, AppliedUpTo(at - 1), kept' = kept,
         \A k \in ChunkNumbers : k # at => journaled'[k] = journaled[k]
  PROVE  /\ \A k \in 1..(at - 1) : /\ journaled'[k] \in Decisions(Chunks[k])
                                   /\ ~Unsafe(journaled'[k])
         /\ kept' = UNION {Applied(journaled'[k]) : k \in 1..(at - 1)}
<1>1. \A k \in 1..(at - 1) : k \in ChunkNumbers /\ k # at
  BY CasesAreNumbers DEF IInv
<1>2. \A k \in 1..(at - 1) : journaled'[k] = journaled[k]
  BY <1>1
<1>3. {Applied(journaled'[k]) : k \in 1..(at - 1)} = {Applied(journaled[k]) : k \in 1..(at - 1)}
  BY <1>2
<1> QED
  BY <1>2, <1>3 DEF AppliedUpTo

\* Applying a chunk adds what it keeps, whose ids are those of its cases.
LEMMA ApplyAdds ==
  ASSUME AdjudicationAssumption, IInv, Apply
  PROVE  /\ \A k \in 1..at : journaled'[k] \in Decisions(Chunks[k]) /\ ~Unsafe(journaled'[k])
         /\ kept' = UNION {Applied(journaled'[k]) : k \in 1..at}
         /\ \A case \in kept' : case.id \in CaseIds
<1>1. /\ at \in Nat /\ at \in ChunkNumbers /\ at >= 1
      /\ Chunks[at] \in SUBSET CaseIds /\ IsFiniteSet(Chunks[at])
  BY CasesAreNumbers DEF IInv
<1>2. /\ decisions = journaled[at] /\ decisions \in Decisions(Chunks[at]) /\ ~Unsafe(decisions)
      /\ AppliedUpTo(at - 1) /\ kept' = kept \cup Applied(decisions) /\ journaled' = journaled
  BY DEF IInv, Apply
<1>3. Sound(decisions)
  BY <1>1, <1>2 DEF Sound
<1>4. \A k \in 1..at : k \in 1..(at - 1) \/ k = at
  BY <1>1
<1>5. \A k \in 1..(at - 1) : k \in 1..at
  BY <1>1
<1>6. at \in 1..at
  BY <1>1
<1>7. UNION {Applied(journaled[k]) : k \in 1..at}
        = (UNION {Applied(journaled[k]) : k \in 1..(at - 1)}) \cup Applied(journaled[at])
  <2>1. \A x : (\E k \in 1..at : x \in Applied(journaled[k])) <=>
               (\E k \in 1..(at - 1) : x \in Applied(journaled[k])) \/ x \in Applied(journaled[at])
    BY <1>4, <1>5, <1>6
  <2> QED
    BY <2>1
<1>8. \A case \in Applied(decisions) : case.id \in CaseIds
  <2>1. Applied(decisions) = {Decided(decisions, c) : c \in {c \in DOMAIN decisions :
                                decisions[c].decision \in {"keep", "unresolved"}}}
    BY <1>3, AppliedIsDecided
  <2>2. DOMAIN decisions \subseteq CaseIds
    BY <1>1, <1>2 DEF Decisions
  <2>3. \A c : Decided(decisions, c).id = c
    BY DEF Decided
  <2> QED
    BY <2>1, <2>2, <2>3
<1>9. \A k \in 1..at : journaled[k] \in Decisions(Chunks[k]) /\ ~Unsafe(journaled[k])
  BY <1>2, <1>4 DEF AppliedUpTo
<1>10. kept' = UNION {Applied(journaled[k]) : k \in 1..at}
  BY <1>2, <1>7 DEF AppliedUpTo
<1>11. \A case \in kept' : case.id \in CaseIds
  BY <1>2, <1>8 DEF IInv
<1> QED
  BY <1>2, <1>9, <1>10, <1>11

LEMMA NextIsDecided == AdjudicationAssumption /\ IInv /\ [Next]_vars => IInv'
<1> SUFFICES ASSUME AdjudicationAssumption, IInv, [Next]_vars PROVE IInv'
  OBVIOUS
<1> USE DEF Ended
<1>1. /\ phase \in Ended \cup {"next", "apply"} /\ at \in ChunkNumbers
      /\ journaled = [k \in ChunkNumbers |-> journaled[k]]
      /\ \A k \in ChunkNumbers : journaled[k] # None => journaled[k] \in Decisions(Chunks[k])
      /\ \A case \in kept : case.id \in CaseIds
  BY DEF IInv
<1>2. ASSUME UNCHANGED <<journaled, kept>>, at' \in ChunkNumbers,
             phase' \in {"idle", "paused", "failed"}
      PROVE  IInv'
  BY <1>1, <1>2 DEF IInv
<1>3. ASSUME NEW l \in Limits, StartRun(l)
      PROVE  IInv'
  <2>1. /\ journaled' = journaled /\ kept' = {} /\ at' = 1 /\ phase' = "next"
    BY <1>3 DEF StartRun
  <2>2. 1 \in ChunkNumbers /\ 1..(1 - 1) = {}
    BY CasesAreNumbers
  <2>3. AppliedUpTo(at - 1)'
    BY <2>1, <2>2 DEF AppliedUpTo
  <2> QED
    BY <1>1, <2>1, <2>2, <2>3 DEF IInv
<1>4. CASE Reuse
  <2>1. /\ phase = "next" /\ phase' = "apply" /\ decisions' = journaled[at]
        /\ journaled[at] # None /\ UNCHANGED <<journaled, at, kept>>
    BY <1>4 DEF Reuse
  <2>2. AppliedUpTo(at - 1)'
    BY <2>1 DEF IInv, AppliedUpTo
  <2> QED
    BY <1>1, <2>1, <2>2 DEF IInv
<1>5. CASE Pause
  BY <1>1, <1>2, <1>5 DEF Pause
<1>6. CASE AnswerRejected
  BY <1>1, <1>2, <1>6 DEF AnswerRejected
<1>7. ASSUME NEW ledger \in Ledgers[at]
      PROVE  /\ ledger \in Decisions(Chunks[at])
             /\ \A j : j = [journaled EXCEPT ![at] = ledger] =>
                  /\ j = [k \in ChunkNumbers |-> j[k]] /\ j[at] = ledger
                  /\ \A k \in ChunkNumbers : k # at => j[k] = journaled[k]
                  /\ \A k \in ChunkNumbers : j[k] # None => j[k] \in Decisions(Chunks[k])
  <2>1. ledger \in Decisions(Chunks[at])
    BY <1>1, <1>7, LedgersDecide
  <2>2. SUFFICES ASSUME NEW j, j = [journaled EXCEPT ![at] = ledger]
                 PROVE  /\ j = [k \in ChunkNumbers |-> j[k]] /\ j[at] = ledger
                        /\ \A k \in ChunkNumbers : k # at => j[k] = journaled[k]
                        /\ \A k \in ChunkNumbers : j[k] # None => j[k] \in Decisions(Chunks[k])
    BY <2>1
  <2>3. /\ j = [k \in ChunkNumbers |-> j[k]] /\ j[at] = ledger
        /\ \A k \in ChunkNumbers : k # at => j[k] = journaled[k]
    BY <1>1, <2>2
  <2> QED
    BY <1>1, <2>1, <2>3
<1>8. ASSUME NEW ledger \in Ledgers[at], AnswerParsed(ledger)
      PROVE  IInv'
  <2>1. /\ phase = "next" /\ phase' = "apply" /\ decisions' = ledger
        /\ journaled' = [journaled EXCEPT ![at] = ledger] /\ at' = at /\ kept' = kept
    BY <1>8 DEF AnswerParsed, Asking
  <2>2. /\ ledger \in Decisions(Chunks[at]) /\ journaled'[at] = ledger
        /\ journaled' = [k \in ChunkNumbers |-> journaled'[k]]
        /\ \A k \in ChunkNumbers : k # at => journaled'[k] = journaled[k]
        /\ \A k \in ChunkNumbers : journaled'[k] # None => journaled'[k] \in Decisions(Chunks[k])
    <3> DEFINE j == journaled'
    <3>1. j = [journaled EXCEPT ![at] = ledger]
      BY <2>1
    <3> HIDE DEF j
    <3>2. /\ ledger \in Decisions(Chunks[at]) /\ j[at] = ledger
          /\ j = [k \in ChunkNumbers |-> j[k]]
          /\ \A k \in ChunkNumbers : k # at => j[k] = journaled[k]
          /\ \A k \in ChunkNumbers : j[k] # None => j[k] \in Decisions(Chunks[k])
      <4>1. ledger \in Decisions(Chunks[at])
        BY <1>7
      <4>2. \A i : i = [journaled EXCEPT ![at] = ledger] =>
              /\ i = [k \in ChunkNumbers |-> i[k]] /\ i[at] = ledger
              /\ \A k \in ChunkNumbers : k # at => i[k] = journaled[k]
              /\ \A k \in ChunkNumbers : i[k] # None => i[k] \in Decisions(Chunks[k])
        BY <1>7
      <4> QED
        BY <4>1, <4>2, <3>1
    <3> QED
      BY <3>2 DEF j
  <2>3. AppliedUpTo(at - 1)
    BY <2>1 DEF IInv
  <2>4. AppliedUpTo(at - 1)'
    BY <2>1, <2>2, <2>3, SameUpTo DEF AppliedUpTo
  <2> QED
    BY <1>1, <2>1, <2>2, <2>4 DEF IInv
<1>9. ASSUME NEW ledger \in Ledgers[at], RecordFails(ledger)
      PROVE  IInv'
  <2>1. /\ phase' = "failed" /\ at' = at /\ kept' = kept
        /\ (journaled' = journaled \/ journaled' = [journaled EXCEPT ![at] = ledger])
    BY <1>9 DEF RecordFails
  <2>2. /\ journaled' = [k \in ChunkNumbers |-> journaled'[k]]
        /\ \A k \in ChunkNumbers : journaled'[k] # None => journaled'[k] \in Decisions(Chunks[k])
    BY <1>1, <1>7, <2>1
  <2> QED
    BY <1>1, <2>1, <2>2 DEF IInv
<1>10. CASE Apply
  <2>1. /\ \A k \in 1..at : journaled'[k] \in Decisions(Chunks[k]) /\ ~Unsafe(journaled'[k])
        /\ kept' = UNION {Applied(journaled'[k]) : k \in 1..at}
        /\ \A case \in kept' : case.id \in CaseIds
    BY <1>10, ApplyAdds
  <2>2. journaled' = journaled
    BY <1>10 DEF Apply
  <2>3. CASE at = Len(Chunks)
    <3>1. phase' = "done" /\ at' = at
      BY <1>10, <2>3 DEF Apply
    <3>2. AppliedUpTo(Len(Chunks))'
      BY <2>1, <2>3 DEF AppliedUpTo
    <3> QED
      BY <1>1, <2>1, <2>2, <3>1, <3>2 DEF IInv
  <2>4. CASE at # Len(Chunks)
    <3>1. phase' = "next" /\ at' = at + 1
      BY <1>10, <2>4 DEF Apply
    <3>2. at + 1 \in ChunkNumbers /\ (at + 1) - 1 = at
      BY <1>1, <2>4, CasesAreNumbers
    <3>3. AppliedUpTo(at - 1)'
      BY <2>1, <3>1, <3>2 DEF AppliedUpTo
    <3> QED
      BY <1>1, <2>1, <2>2, <3>1, <3>2, <3>3 DEF IInv
  <2> QED
    BY <2>3, <2>4
<1>11. CASE ApplyFails
  BY <1>1, <1>2, <1>11 DEF ApplyFails
<1>12. CASE Crash
  <2>1. phase' = "idle" /\ at' = 1 /\ kept' = {} /\ journaled' = journaled
    BY <1>12 DEF Crash
  <2>2. 1 \in ChunkNumbers
    BY CasesAreNumbers
  <2> QED
    BY <1>1, <2>1, <2>2 DEF IInv
<1>13. CASE UNCHANGED vars
  BY <1>13 DEF vars, IInv, AppliedUpTo
<1> QED
  BY <1>3, <1>4, <1>5, <1>6, <1>8, <1>9, <1>10, <1>11, <1>12, <1>13 DEF Next

\* What is kept is what the chunks so far decided, in every state of a run.
THEOREM AdjudicationInvariant == Spec => []IInv
<1>1. AdjudicationAssumption
  BY AdjudicationAssumption
<1> QED
  BY <1>1, InitIsDecided, NextIsDecided, PTL DEF Spec

\* What is journaled is a complete ledger of decisions about the chunk
\* (parse_case_adjudications).
THEOREM AdjudicationTyped == Spec => []TypeOK
<1>1. IInv => TypeOK
  BY DEF IInv, TypeOK, Decisions
<1> QED
  BY <1>1, AdjudicationInvariant, PTL

\* A finished adjudication keeps what the ledgers decided, whatever the merges,
\* and loses no case that was not discarded (apply_case_adjudications).
THEOREM AdjudicationApplied == Spec => []DecisionsAreApplied
<1>1. AdjudicationAssumption
  BY AdjudicationAssumption
<1>2. AdjudicationAssumption /\ IInv => DecisionsAreApplied
  <2> SUFFICES ASSUME AdjudicationAssumption, IInv, phase = "done"
               PROVE  KeptIsWhatWasDecided /\ NoCaseVanishes
    BY DEF DecisionsAreApplied
  <2>1. ASSUME NEW k \in ChunkNumbers
        PROVE  /\ journaled[k] \in Decisions(Chunks[k]) /\ Sound(journaled[k])
               /\ DOMAIN journaled[k] = Chunks[k] /\ IsFiniteSet(Chunks[k])
    <3>1. journaled[k] \in Decisions(Chunks[k]) /\ ~Unsafe(journaled[k])
      BY CasesAreNumbers DEF IInv, AppliedUpTo
    <3> QED
      BY <3>1, CasesAreNumbers DEF Sound, Decisions
  <2>2. ASSUME NEW k \in ChunkNumbers
        PROVE  Applied(journaled[k])
                 = {Decided(journaled[k], c) :
                      c \in {c \in Chunks[k] : journaled[k][c].decision \in {"keep", "unresolved"}}}
    BY <2>1, AppliedIsDecided
  <2>3. kept = UNION {Applied(journaled[k]) : k \in ChunkNumbers}
    BY CasesAreNumbers DEF IInv, AppliedUpTo
  <2>4. kept = UNION {{Decided(journaled[k], c) :
                         c \in {c \in Chunks[k] : journaled[k][c].decision \in {"keep", "unresolved"}}} :
                      k \in ChunkNumbers}
    <3> DEFINE Kept(k) == {Decided(journaled[k], c) :
                             c \in {c \in Chunks[k] :
                                      journaled[k][c].decision \in {"keep", "unresolved"}}}
    <3>1. \A k \in ChunkNumbers : Applied(journaled[k]) = Kept(k)
      BY <2>2
    <3>2. kept = UNION {Kept(k) : k \in ChunkNumbers}
      <4> HIDE DEF Kept
      <4> QED
        BY <2>3, <3>1
    <3> QED
      BY <3>2
  <2>5. KeptIsWhatWasDecided
    BY <2>4 DEF KeptIsWhatWasDecided, Decided
  <2>6. ASSUME NEW k \in ChunkNumbers, NEW c \in Chunks[k], journaled[k][c].decision # "discard"
        PROVE  \E case \in kept : /\ Evidence[c] \subseteq case.evidence
                                  /\ Semantics[case.id] = Semantics[c]
    <3> DEFINE d == journaled[k]
    <3>1. d[c].decision \in {"keep", "unresolved", "merge"}
      BY <2>1, <2>6 DEF Decisions, Plain
    <3> HIDE DEF d
    <3>2. ASSUME NEW t \in Chunks[k], d[t].decision \in {"keep", "unresolved"},
                 c \in {t} \cup Absorbed(d, t), Semantics[t] = Semantics[c]
          PROVE  \E case \in kept : /\ Evidence[c] \subseteq case.evidence
                                    /\ Semantics[case.id] = Semantics[c]
      <4>1. Decided(d, t) \in kept
        BY <2>2, <2>3, <3>2 DEF d
      <4>2. Decided(d, t).id = t
            /\ Decided(d, t).evidence = UNION {Evidence[m] : m \in {t} \cup Absorbed(d, t)}
        BY DEF Decided
      <4>3. Evidence[c] \subseteq UNION {Evidence[m] : m \in {t} \cup Absorbed(d, t)}
        BY <3>2
      <4> QED
        BY <3>2, <4>1, <4>2, <4>3
    <3>3. CASE d[c].decision \in {"keep", "unresolved"}
      BY <3>2, <3>3
    <3>4. CASE d[c].decision = "merge"
      <4>1. /\ d \in Decisions(Chunks[k]) /\ Sound(d) /\ DOMAIN d = Chunks[k]
            /\ IsFiniteSet(Chunks[k])
        BY <2>1 DEF d
      <4>2. c \in Merging(d)
        BY <3>4, <4>1 DEF Merging
      <4> DEFINE t == MergeTarget(c, d)
      <4>3. t \in Chunks[k] /\ d[t].decision = "keep" /\ Semantics[c] = Semantics[t]
        BY <4>1, <4>2, TargetIsKept
      <4>4. Absorbed(d, t) = {m \in Merging(d) : MergeTarget(m, d) = t}
        BY <4>1, <4>3, AbsorbedByTarget
      <4>5. c \in Absorbed(d, t)
        BY <4>2, <4>4
      <4> QED
        BY <3>2, <4>3, <4>5
    <3> QED
      BY <3>1, <3>3, <3>4
  <2> QED
    BY <2>5, <2>6 DEF NoCaseVanishes
<1> QED
  BY <1>1, <1>2, AdjudicationInvariant, PTL

-----------------------------------------------------------------------------
(* What a finished adjudication kept is what the journal says of all chunks, *)
(* and then nothing is asked any more.                                       *)

Whole == UNION {Applied(journaled[k]) : k \in ChunkNumbers}

OutcomeInv ==
  /\ outcome # None => /\ outcome = Whole
                       /\ \A k \in ChunkNumbers : journaled[k] # None
  /\ phase = "done" => kept = outcome

LEMMA NextKeepsOutcome ==
  AdjudicationAssumption /\ NoLedgerAssumption /\ IInv /\ IInv' /\ OutcomeInv /\ [Next]_vars
    => OutcomeInv'
<1> SUFFICES ASSUME AdjudicationAssumption, NoLedgerAssumption, IInv, IInv', OutcomeInv,
                    [Next]_vars
             PROVE  OutcomeInv'
  OBVIOUS
<1>1. ASSUME UNCHANGED <<journaled, outcome>>, phase' # "done"
      PROVE  OutcomeInv'
  BY <1>1 DEF OutcomeInv, Whole
<1>2. ASSUME Asking, UNCHANGED outcome, phase' # "done"
      PROVE  OutcomeInv'
  <2>1. outcome = None
    BY <1>2 DEF OutcomeInv, IInv, Asking
  <2> QED
    BY <1>2, <2>1 DEF OutcomeInv
<1>3. CASE Apply
  <2>1. journaled' = journaled
    BY <1>3 DEF Apply
  <2>2. CASE at = Len(Chunks)
    <3>1. phase' = "done" /\ outcome' = IF outcome = None THEN kept' ELSE outcome
      BY <1>3, <2>2 DEF Apply
    <3>2. kept' = Whole' /\ \A k \in ChunkNumbers : journaled'[k] # None
      <4>1. AppliedUpTo(Len(Chunks))' /\ ChunkNumbers = 1..Len(Chunks)
        BY <3>1, CasesAreNumbers DEF IInv
      <4> QED
        BY <4>1 DEF AppliedUpTo, Whole, NoLedgerAssumption
    <3>3. Whole' = Whole
      BY <2>1 DEF Whole
    <3> QED
      BY <3>1, <3>2, <3>3 DEF OutcomeInv
  <2>3. CASE at # Len(Chunks)
    BY <1>1, <1>3, <2>1, <2>3 DEF Apply
  <2> QED
    BY <2>2, <2>3
<1>4. ASSUME NEW ledger, AnswerParsed(ledger) \/ RecordFails(ledger)
      PROVE  OutcomeInv'
  BY <1>2, <1>4 DEF AnswerParsed, RecordFails
<1>5. CASE (\E l \in Limits : StartRun(l)) \/ Reuse \/ Pause \/ AnswerRejected \/ ApplyFails
           \/ Crash
  BY <1>1, <1>5 DEF StartRun, Reuse, Pause, AnswerRejected, ApplyFails, Crash
<1>6. CASE UNCHANGED vars
  BY <1>6 DEF vars, OutcomeInv, Whole
<1> QED
  BY <1>3, <1>4, <1>5, <1>6 DEF Next

\* Every run that finishes keeps what the first one kept, whatever came between
\* (run_case_adjudication).
THEOREM AdjudicationResumesTheSame == Spec => []ResumeKeepsOutcome
<1>1. AdjudicationAssumption /\ NoLedgerAssumption
  BY AdjudicationAssumption, NoLedgerAssumption
<1>2. Init => OutcomeInv
  BY DEF Init, OutcomeInv
<1>3. OutcomeInv => ResumeKeepsOutcome
  BY DEF OutcomeInv, ResumeKeepsOutcome
<1> QED
  BY <1>1, <1>2, <1>3, NextKeepsOutcome, AdjudicationInvariant, PTL DEF Spec
=============================================================================
