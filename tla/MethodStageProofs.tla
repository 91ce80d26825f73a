-------------------------- MODULE MethodStageProofs --------------------------
(***************************************************************************)
(* The method-review stage for every repository, chain of scans and runs,  *)
(* batch size, prompt limit, concurrency and budget, and any number of     *)
(* failing appends, crashes and provider failures.                         *)
(*                                                                         *)
(* First what grouping does to the jobs, then what every step keeps of the *)
(* run's own state; with that, every step of the stage is a step of the    *)
(* journal and a step of the keyed scheduler, so that what is proved of    *)
(* the two holds of the stage.                                             *)
(***************************************************************************)
EXTENDS MethodStage, ReviewJournalProofs, FiniteSetTheorems, TLAPS

-----------------------------------------------------------------------------
(* Grouping.                                                               *)

\* The methods of a sequence of chunks, or of batches.
UnitsIn(groups) == UNION {{groups[k][i].unit : i \in DOMAIN groups[k]} : k \in DOMAIN groups}

\* No method is in two places.
Apart(groups) ==
  \A k, l \in DOMAIN groups : \A i \in DOMAIN groups[k], j \in DOMAIN groups[l] :
    groups[k][i].unit = groups[l][j].unit => k = l /\ i = j

Filled(groups) ==
  /\ groups \in Seq(Seq(Jobs))
  /\ \A k \in DOMAIN groups : groups[k] # << >>

\* The groups hold the same methods as the pieces, in no more groups.
Grouping(pieces, groups) ==
  /\ Filled(groups)
  /\ Len(groups) <= Len(pieces)
  /\ UnitsIn(groups) = UnitsIn(pieces)
  /\ Apart(pieces) => Apart(groups)

\* An extended sequence is one, and is not empty.
LEMMA NotEmpty ==
  ASSUME NEW S, NEW s \in Seq(S), NEW x \in S
  PROVE  Append(s, x) \in Seq(S) /\ Append(s, x) # << >>
  BY AppendProperties

LEMMA AppendedUnits ==
  ASSUME NEW groups \in Seq(Seq(Jobs)), NEW piece \in Seq(Jobs)
  PROVE  /\ UnitsIn(Append(groups, piece))
              = UnitsIn(groups) \cup {piece[i].unit : i \in DOMAIN piece}
         /\ Apart(Append(groups, piece)) =>
              /\ Apart(groups)
              /\ \A i, j \in DOMAIN piece : piece[i].unit = piece[j].unit => i = j
              /\ \A i \in DOMAIN piece : piece[i].unit \notin UnitsIn(groups)
<1> DEFINE all == Append(groups, piece)
           n == Len(groups)
<1>1. /\ n \in Nat /\ DOMAIN groups = 1..n /\ DOMAIN all = 1..(n + 1)
      /\ \A k \in 1..n : all[k] = groups[k]
      /\ all[n + 1] = piece
  BY AppendProperties
<1> HIDE DEF all, n
<1>2. /\ \A k \in DOMAIN groups : k \in DOMAIN all /\ all[k] = groups[k]
      /\ n + 1 \in DOMAIN all /\ n + 1 \notin DOMAIN groups /\ all[n + 1] = piece
      /\ \A k \in DOMAIN all : k = n + 1 \/ k \in DOMAIN groups
  BY <1>1
<1>3. UnitsIn(all) = UnitsIn(groups) \cup {piece[i].unit : i \in DOMAIN piece}
  BY <1>2 DEF UnitsIn
<1>4. ASSUME Apart(all)
      PROVE  /\ Apart(groups)
             /\ \A i, j \in DOMAIN piece : piece[i].unit = piece[j].unit => i = j
             /\ \A i \in DOMAIN piece : piece[i].unit \notin UnitsIn(groups)
  BY <1>2, <1>4 DEF Apart, UnitsIn
<1> QED
  BY <1>3, <1>4 DEF all

\* A new piece becomes a group of its own ...
LEMMA GroupAdded ==
  ASSUME NEW groups, Filled(groups), NEW piece \in Seq(Jobs), piece # << >>,
         NEW pieces \in Seq(Seq(Jobs)), Grouping(pieces, groups)
  PROVE  Grouping(Append(pieces, piece), Append(groups, piece))
<1> DEFINE all == Append(groups, piece)
           n == Len(groups)
<1>1. /\ n \in Nat /\ DOMAIN groups = 1..n /\ DOMAIN all = 1..(n + 1)
      /\ all \in Seq(Seq(Jobs)) /\ Len(all) = n + 1
      /\ \A k \in 1..n : all[k] = groups[k]
      /\ all[n + 1] = piece
  BY AppendProperties DEF Filled
<1>2. Len(Append(pieces, piece)) = Len(pieces) + 1 /\ Len(pieces) \in Nat
  BY AppendProperties
<1>3. UnitsIn(all) = UnitsIn(Append(pieces, piece))
  BY AppendedUnits DEF Grouping, Filled
<1>4. ASSUME Apart(Append(pieces, piece))
      PROVE  Apart(all)
  <2>1. /\ Apart(groups)
        /\ \A i, j \in DOMAIN piece : piece[i].unit = piece[j].unit => i = j
        /\ \A i \in DOMAIN piece : piece[i].unit \notin UnitsIn(groups)
    BY <1>4, AppendedUnits DEF Grouping
  <2> HIDE DEF all, n
  <2>2. /\ \A k \in DOMAIN groups : all[k] = groups[k]
        /\ all[n + 1] = piece
        /\ \A k \in DOMAIN all : k = n + 1 \/ k \in DOMAIN groups
    BY <1>1
  <2> QED
    BY <2>1, <2>2 DEF Apart, UnitsIn
<1>5. \A k \in DOMAIN all : all[k] # << >>
  BY <1>1 DEF Filled
<1> QED
  BY <1>1, <1>2, <1>3, <1>4, <1>5 DEF Grouping, Filled

\* ... or joins the last one.
LEMMA GroupExtended ==
  ASSUME NEW front \in Seq(Seq(Jobs)), NEW last \in Seq(Jobs), Filled(Append(front, last)),
         NEW piece \in Seq(Jobs), piece # << >>,
         NEW pieces \in Seq(Seq(Jobs)), Grouping(pieces, Append(front, last))
  PROVE  Grouping(Append(pieces, piece), Append(front, last \o piece))
<1> DEFINE old == Append(front, last)
           joined_ == last \o piece
           all == Append(front, joined_)
           n == Len(front)
<1>1. /\ joined_ \in Seq(Jobs) /\ Len(joined_) = Len(last) + Len(piece)
      /\ Len(last) \in Nat /\ Len(piece) \in Nat /\ Len(piece) # 0
      /\ DOMAIN joined_ = 1..(Len(last) + Len(piece))
      /\ DOMAIN last = 1..Len(last) /\ DOMAIN piece = 1..Len(piece)
      /\ \A i \in 1..(Len(last) + Len(piece)) :
           joined_[i] = IF i <= Len(last) THEN last[i] ELSE piece[i - Len(last)]
  BY ConcatProperties
<1> HIDE DEF joined_
<1>2. /\ n \in Nat /\ DOMAIN front = 1..n /\ DOMAIN all = 1..(n + 1) /\ DOMAIN old = 1..(n + 1)
      /\ all \in Seq(Seq(Jobs)) /\ Len(all) = n + 1 /\ Len(old) = n + 1
      /\ \A k \in 1..n : all[k] = front[k] /\ old[k] = front[k]
      /\ all[n + 1] = joined_ /\ old[n + 1] = last
  BY <1>1, AppendProperties
<1>3. Len(Append(pieces, piece)) = Len(pieces) + 1 /\ Len(pieces) \in Nat
  BY AppendProperties
<1>4. {joined_[i].unit : i \in DOMAIN joined_}
        = {last[i].unit : i \in DOMAIN last} \cup {piece[i].unit : i \in DOMAIN piece}
  <2>1. \A i \in DOMAIN last : i \in DOMAIN joined_ /\ joined_[i] = last[i]
    BY <1>1
  <2>2. \A i \in DOMAIN piece : Len(last) + i \in DOMAIN joined_
                               /\ joined_[Len(last) + i] = piece[i]
    <3> DEFINE m == Len(last)
    <3> HIDE DEF m
    <3>1. SUFFICES ASSUME NEW i \in DOMAIN piece
                   PROVE  m + i \in DOMAIN joined_ /\ joined_[m + i] = piece[i]
      BY DEF m
    <3>2. m \in Nat /\ i \in 1..Len(piece) /\ Len(piece) \in Nat
      BY <1>1 DEF m
    <3>3. m + i \in 1..(m + Len(piece)) /\ ~(m + i <= m) /\ (m + i) - m = i
      BY <3>2
    <3> QED
      BY <1>1, <3>3 DEF m
  <2>3. \A i \in DOMAIN joined_ :
          \/ i \in DOMAIN last /\ joined_[i] = last[i]
          \/ i - Len(last) \in DOMAIN piece /\ joined_[i] = piece[i - Len(last)]
    BY <1>1
  <2> QED
    BY <2>1, <2>2, <2>3
<1>5. UnitsIn(all) = UnitsIn(Append(pieces, piece))
  <2>1. UnitsIn(all) = UnitsIn(front) \cup {joined_[i].unit : i \in DOMAIN joined_}
    BY <1>1, AppendedUnits
  <2>2. UnitsIn(old) = UnitsIn(front) \cup {last[i].unit : i \in DOMAIN last}
    BY AppendedUnits
  <2>3. UnitsIn(Append(pieces, piece))
          = UnitsIn(pieces) \cup {piece[i].unit : i \in DOMAIN piece}
    BY AppendedUnits
  <2> QED
    BY <1>4, <2>1, <2>2, <2>3 DEF Grouping
<1>6. ASSUME Apart(Append(pieces, piece))
      PROVE  Apart(all)
  <2>1. /\ Apart(old)
        /\ \A i, j \in DOMAIN piece : piece[i].unit = piece[j].unit => i = j
        /\ \A i \in DOMAIN piece : piece[i].unit \notin UnitsIn(old)
    BY <1>6, AppendedUnits DEF Grouping
  <2>2. /\ \A i \in DOMAIN joined_ :
             \/ i \in DOMAIN last /\ joined_[i] = last[i]
             \/ i - Len(last) \in DOMAIN piece /\ joined_[i] = piece[i - Len(last)]
                /\ i \notin DOMAIN last
    BY <1>1
  <2>3. \A i, j \in DOMAIN joined_ : i - Len(last) = j - Len(last) => i = j
    BY <1>1
  <2> HIDE DEF all, n, old
  <2>4. /\ \A k \in DOMAIN all : k = n + 1 \/ k \in DOMAIN front
        /\ \A k \in DOMAIN front : k \in DOMAIN old /\ all[k] = old[k] /\ k # n + 1
        /\ n + 1 \in DOMAIN old /\ all[n + 1] = joined_ /\ old[n + 1] = last
    BY <1>2, SMTT(30)
  <2>5. \A k \in DOMAIN old : \A i \in DOMAIN old[k] : old[k][i].unit \in UnitsIn(old)
    BY DEF UnitsIn
  <2>6. SUFFICES ASSUME NEW k \in DOMAIN all, NEW l \in DOMAIN all,
                        NEW i \in DOMAIN all[k], NEW j \in DOMAIN all[l],
                        all[k][i].unit = all[l][j].unit
                 PROVE  k = l /\ i = j
    BY DEF Apart
  <2>7. CASE k \in DOMAIN front /\ l \in DOMAIN front
    BY <2>1, <2>4, <2>6, <2>7 DEF Apart
  <2>8. CASE k = n + 1 /\ l = n + 1
    <3>1. i \in DOMAIN joined_ /\ j \in DOMAIN joined_ /\ joined_[i].unit = joined_[j].unit
      BY <2>4, <2>6, <2>8
    <3>2. CASE i \in DOMAIN last /\ j \in DOMAIN last
      BY <2>1, <2>2, <2>4, <2>8, <3>1, <3>2 DEF Apart
    <3>3. CASE i \notin DOMAIN last /\ j \notin DOMAIN last
      BY <2>1, <2>2, <2>3, <2>8, <3>1, <3>3
    <3>4. CASE i \in DOMAIN last /\ j \notin DOMAIN last
      BY <2>1, <2>2, <2>4, <2>5, <3>1, <3>4
    <3>5. CASE i \notin DOMAIN last /\ j \in DOMAIN last
      BY <2>1, <2>2, <2>4, <2>5, <3>1, <3>5
    <3> QED
      BY <3>2, <3>3, <3>4, <3>5
  <2>9. CASE k \in DOMAIN front /\ l = n + 1
    <3>1. k \in DOMAIN old /\ i \in DOMAIN old[k] /\ old[k][i].unit = joined_[j].unit
          /\ j \in DOMAIN joined_
      BY <2>4, <2>6, <2>9
    <3>2. j \in DOMAIN last /\ joined_[j] = last[j]
      BY <2>1, <2>2, <2>5, <3>1
    <3> QED
      BY <2>1, <2>4, <2>9, <3>1, <3>2 DEF Apart
  <2>10. CASE l \in DOMAIN front /\ k = n + 1
    <3>1. l \in DOMAIN old /\ j \in DOMAIN old[l] /\ old[l][j].unit = joined_[i].unit
          /\ i \in DOMAIN joined_
      BY <2>4, <2>6, <2>10
    <3>2. i \in DOMAIN last /\ joined_[i] = last[i]
      BY <2>1, <2>2, <2>5, <3>1
    <3> QED
      BY <2>1, <2>4, <2>10, <3>1, <3>2 DEF Apart
  <2> QED
    BY <2>4, <2>7, <2>8, <2>9, <2>10
<1>7. \A k \in DOMAIN all : all[k] # << >>
  <2>1. joined_ # << >>
    BY <1>1
  <2>2. \A k \in DOMAIN old : old[k] # << >>
    BY DEF Filled
  <2> HIDE DEF all, n, old
  <2>3. /\ n \in Nat /\ DOMAIN all = 1..(n + 1) /\ DOMAIN old = 1..(n + 1)
        /\ \A k \in 1..n : all[k] = old[k]
        /\ all[n + 1] = joined_
    BY <1>2
  <2>4. \A k \in 1..(n + 1) : k = n + 1 \/ k \in 1..n
    BY <2>3
  <2> QED
    BY <2>1, <2>2, <2>3, <2>4
<1>8. Len(old) <= Len(pieces)
  BY DEF Grouping
<1> QED
  BY <1>2, <1>3, <1>5, <1>6, <1>7, <1>8 DEF Grouping, Filled, joined_

\* The chunks so far, with the one that is being filled.
WholeChunks(c) == IF c.current = << >> THEN c.chunks ELSE Append(c.chunks, c.current)

ChunkState(c) ==
  /\ c = [chunks |-> c.chunks, current |-> c.current, file |-> c.file, estimate |-> c.estimate]
  /\ c.chunks \in Seq(Seq(Jobs)) /\ c.current \in Seq(Jobs)

\* A queue, as pieces of one job.
Pieces(seq) == [i \in DOMAIN seq |-> <<seq[i]>>]

NoChunks == [chunks |-> << >>, current |-> << >>, file |-> NoFile, estimate |-> 0]

ChunkFold == INSTANCE FoldFacts WITH
  Step <- LAMBDA c, x, e : ChunkStep(x, e, BatchSize, MaxPromptChars),
  Base <- LAMBDA c : NoChunks,
  Elements <- Jobs,
  Holds <- LAMBDA c, seq, x : ChunkState(x) /\ Grouping(Pieces(seq), WholeChunks(x))

LEMMA ChunksAreAFold ==
  ASSUME NEW seq
  PROVE  FileChunks(seq, BatchSize, MaxPromptChars) = WholeChunks(ChunkFold!Fold(0, seq))
  BY DEF FileChunks, WholeChunks, NoChunks, ChunkFold!Fold, FoldLeft, MapThenFoldSet, Max, ChunkFold!Last

LEMMA PiecesOf ==
  ASSUME NEW seq \in Seq(Jobs), NEW e \in Jobs
  PROVE  /\ Pieces(seq) \in Seq(Seq(Jobs)) /\ Len(Pieces(seq)) = Len(seq)
         /\ Pieces(Append(seq, e)) = Append(Pieces(seq), <<e>>)
         /\ <<e>> \in Seq(Jobs) /\ <<e>> # << >> /\ Append(<< >>, e) = <<e>>
<1> DEFINE n == Len(seq)
           ext == Append(seq, e)
<1>1. /\ n \in Nat /\ DOMAIN seq = 1..n /\ DOMAIN ext = 1..(n + 1)
      /\ \A i \in 1..n : ext[i] = seq[i] /\ seq[i] \in Jobs
      /\ ext[n + 1] = e
  BY AppendProperties
<1> HIDE DEF ext, n
<1>2. \A job \in Jobs : <<job>> \in Seq(Jobs)
  OBVIOUS
<1>3. /\ Pieces(seq) \in Seq(Seq(Jobs)) /\ Len(Pieces(seq)) = n
      /\ \A i \in 1..n : Pieces(seq)[i] = <<seq[i]>>
  <2>1. Pieces(seq) = [i \in 1..n |-> <<seq[i]>>]
    BY <1>1 DEF Pieces
  <2>2. \A i \in 1..n : <<seq[i]>> \in Seq(Jobs)
    BY <1>1, <1>2
  <2> QED
    BY <1>1, <2>1, <2>2
<1>4. /\ Append(Pieces(seq), <<e>>) = [i \in 1..(n + 1) |-> IF i = n + 1 THEN <<e>> ELSE <<seq[i]>>]
  <2> DEFINE p == Pieces(seq)
  <2>1. p \in Seq(Seq(Jobs)) /\ Len(p) = n
    BY <1>3
  <2>2. <<e>> \in Seq(Jobs)
    BY <1>2
  <2> HIDE DEF p
  <2>3. Append(p, <<e>>) = [i \in 1..(n + 1) |-> IF i = n + 1 THEN <<e>> ELSE p[i]]
    BY <1>1, <2>1, <2>2
  <2>4. \A i \in 1..(n + 1) : i # n + 1 => i \in 1..n
    BY <1>1
  <2> QED
    BY <1>3, <2>3, <2>4 DEF p
<1>5. Pieces(ext) = [i \in 1..(n + 1) |-> IF i = n + 1 THEN <<e>> ELSE <<seq[i]>>]
  <2>1. \A i \in 1..(n + 1) : i # n + 1 => i \in 1..n
    BY <1>1
  <2> QED
    BY <1>1, <2>1 DEF Pieces
<1>6. <<e>> # << >> /\ Append(<< >>, e) = <<e>>
  OBVIOUS
<1>7. Pieces(ext) = Append(Pieces(seq), <<e>>)
  BY <1>4, <1>5
<1> QED
  BY <1>2, <1>3, <1>6, <1>7 DEF ext, n

\* One turn of the first loop adds the job to the last chunk or to a new one.
LEMMA ChunkStepGroups ==
  ASSUME NEW c, ChunkState(c), NEW e \in Jobs, NEW b, NEW m,
         NEW pieces \in Seq(Seq(Jobs)), Grouping(pieces, WholeChunks(c))
  PROVE  /\ ChunkState(ChunkStep(c, e, b, m))
         /\ Grouping(Append(pieces, <<e>>), WholeChunks(ChunkStep(c, e, b, m)))
<1> DEFINE joins == JoinsCurrent(c, e, b, m)
           flushed == IF joins THEN c
                      ELSE [c EXCEPT !.chunks = IF c.current = << >> THEN @
                                                ELSE Append(@, c.current),
                                     !.current = << >>,
                                     !.estimate = IF c.current = << >> THEN @ ELSE 0]
           grown == [flushed EXCEPT
                       !.file = MethodFilePath(e),
                       !.estimate = SaturatingAdd(@, Estimate(e, flushed.current = << >>)),
                       !.current = Append(@, e)]
           closes == Len(grown.current) >= b \/ ~e.method
           next == IF closes
                   THEN [chunks |-> Append(grown.chunks, grown.current), current |-> << >>,
                         file |-> NoFile, estimate |-> 0]
                   ELSE grown
<1>1. ChunkStep(c, e, b, m) = next
  BY DEF ChunkStep
<1>2. PICK file, estimate : c = [chunks |-> c.chunks, current |-> c.current,
                                 file |-> file, estimate |-> estimate]
  BY DEF ChunkState
<1>3. c.chunks \in Seq(Seq(Jobs)) /\ c.current \in Seq(Jobs)
  BY DEF ChunkState
<1>4. joins => c.current # << >>
  BY DEF JoinsCurrent
<1> HIDE DEF joins
<1>5. PICK f1, e1 : flushed = [chunks |-> IF joins THEN c.chunks ELSE WholeChunks(c),
                               current |-> IF joins THEN c.current ELSE << >>,
                               file |-> f1, estimate |-> e1]
  BY <1>2 DEF WholeChunks
<1> HIDE DEF flushed
<1> DEFINE f2 == MethodFilePath(e)
           e2 == SaturatingAdd(e1, Estimate(e, flushed.current = << >>))
<1>6. grown = [chunks |-> IF joins THEN c.chunks ELSE WholeChunks(c),
               current |-> Append(IF joins THEN c.current ELSE << >>, e),
               file |-> f2, estimate |-> e2]
  <2> HIDE DEF f2
  <2>1. /\ flushed.chunks = IF joins THEN c.chunks ELSE WholeChunks(c)
        /\ flushed.current = IF joins THEN c.current ELSE << >>
        /\ flushed.file = f1 /\ flushed.estimate = e1
    BY <1>5
  <2>2. grown = [flushed EXCEPT !.file = f2, !.estimate = e2, !.current = Append(@, e)]
    BY <2>1 DEF f2
  <2> HIDE DEF grown, e2
  <2> QED
    BY <1>5, <2>2
<1> HIDE DEF f2, e2
<1> DEFINE base == IF joins THEN c.chunks ELSE WholeChunks(c)
           last == Append(IF joins THEN c.current ELSE << >>, e)
<1>7. grown.chunks = base /\ grown.current = last
      /\ grown = [chunks |-> base, current |-> last, file |-> grown.file, estimate |-> grown.estimate]
  BY <1>6
<1> HIDE DEF grown, closes
<1>8. base \in Seq(Seq(Jobs)) /\ last \in Seq(Jobs) /\ last # << >>
  <2>1. WholeChunks(c) \in Seq(Seq(Jobs))
    BY DEF Grouping, Filled
  <2>2. Append(c.current, e) \in Seq(Jobs) /\ Append(c.current, e) # << >>
    <3>1. c.current \in Seq(Jobs)
      BY <1>3
    <3> QED
      BY ONLY <3>1, e \in Jobs, NotEmpty
  <2>3. Append(<< >>, e) = <<e>> /\ <<e>> \in Seq(Jobs) /\ <<e>> # << >>
    OBVIOUS
  <2> QED
    BY <1>3, <2>1, <2>2, <2>3
<1> HIDE DEF base, last
<1>9. ChunkState(next)
  <2>1. CASE closes
    <3>1. next = [chunks |-> Append(base, last), current |-> << >>, file |-> NoFile, estimate |-> 0]
      BY <1>7, <2>1
    <3>2. Append(base, last) \in Seq(Seq(Jobs)) /\ << >> \in Seq(Jobs)
      BY <1>8
    <3> HIDE DEF next
    <3> QED
      BY <3>1, <3>2 DEF ChunkState
  <2>2. CASE ~closes
    <3>1. next = grown
      BY <2>2
    <3> HIDE DEF next
    <3> QED
      BY <1>7, <1>8, <3>1 DEF ChunkState
  <2> QED
    BY <2>1, <2>2
<1>10. WholeChunks(next) = Append(base, last)
  <2>1. CASE closes
    BY <1>7, <2>1 DEF WholeChunks
  <2>2. CASE ~closes
    BY <1>7, <1>8, <2>2 DEF WholeChunks
  <2> QED
    BY <2>1, <2>2
<1>11. Grouping(Append(pieces, <<e>>), Append(base, last))
  <2>1. <<e>> \in Seq(Jobs) /\ <<e>> # << >>
    OBVIOUS
  <2>2. CASE joins
    <3>1. base = c.chunks /\ last = c.current \o <<e>>
      BY <1>3, <2>2, AppendIsConcat DEF base, last
    <3>2. WholeChunks(c) = Append(c.chunks, c.current)
      BY <1>4, <2>2 DEF WholeChunks
    <3>3. Filled(WholeChunks(c))
      BY DEF Grouping
    <3> QED
      BY <1>3, <2>1, <3>1, <3>2, <3>3, GroupExtended
  <2>3. CASE ~joins
    <3>1. base = WholeChunks(c) /\ last = <<e>>
      BY <2>3 DEF base, last
    <3>2. Filled(WholeChunks(c))
      BY DEF Grouping
    <3> QED
      BY <2>1, <3>1, <3>2, GroupAdded
  <2> QED
    BY <2>2, <2>3
<1> QED
  BY <1>1, <1>9, <1>10, <1>11

\* No chunk of the empty queue.
LEMMA NoGroups ==
  /\ Filled(<< >>) /\ UnitsIn(<< >>) = {} /\ Apart(<< >>)
  /\ Len(<< >>) = 0 /\ << >> \in Seq(Seq(Jobs)) /\ << >> \in Seq(Jobs)
<1>1. DOMAIN << >> = {} /\ << >> \in Seq(Seq(Jobs)) /\ Len(<< >>) = 0 /\ << >> \in Seq(Jobs)
  OBVIOUS
<1> QED
  BY <1>1 DEF Filled, UnitsIn, Apart

(* The first pass: the chunks hold the jobs of the queue.                  *)
LEMMA ChunksGroup ==
  ASSUME NEW seq \in Seq(Jobs)
  PROVE  Grouping(Pieces(seq), FileChunks(seq, BatchSize, MaxPromptChars))
<1>1. ChunkState(NoChunks) /\ Grouping(Pieces(<< >>), WholeChunks(NoChunks))
  <2>1. WholeChunks(NoChunks) = << >>
    BY DEF WholeChunks, NoChunks
  <2>2. Pieces(<< >>) = << >>
    BY DEF Pieces
  <2>3. ChunkState(NoChunks)
    BY NoGroups DEF ChunkState, NoChunks
  <2> QED
    BY <2>1, <2>2, <2>3, NoGroups DEF Grouping
<1>2. ASSUME NEW q \in Seq(Jobs), NEW e \in Jobs, NEW x,
             ChunkState(x), Grouping(Pieces(q), WholeChunks(x))
      PROVE  /\ ChunkState(ChunkStep(x, e, BatchSize, MaxPromptChars))
             /\ Grouping(Pieces(Append(q, e)),
                         WholeChunks(ChunkStep(x, e, BatchSize, MaxPromptChars)))
  BY <1>2, PiecesOf, ChunkStepGroups
<1>3. ChunkState(ChunkFold!Fold(0, seq)) /\ Grouping(Pieces(seq), WholeChunks(ChunkFold!Fold(0, seq)))
  BY <1>1, <1>2, ChunkFold!FoldInduction
<1> QED
  BY <1>3, ChunksAreAFold

\* The batches so far, with the one that is being packed.
WholeBatches(p) == IF p.packed = << >> THEN p.grouped ELSE Append(p.grouped, p.packed)

PackState(p) ==
  /\ p = [grouped |-> p.grouped, packed |-> p.packed]
  /\ p.grouped \in Seq(Seq(Jobs)) /\ p.packed \in Seq(Jobs)

NoBatches == [grouped |-> << >>, packed |-> << >>]

Chunk == Seq(Jobs) \ {<< >>}

PackFold == INSTANCE FoldFacts WITH
  Step <- LAMBDA c, x, e : PackStep(x, e, BatchSize, MaxPromptChars),
  Base <- LAMBDA c : NoBatches,
  Elements <- Chunk,
  Holds <- LAMBDA c, seq, x : PackState(x) /\ Grouping(seq, WholeBatches(x))

LEMMA BatchesAreAFold ==
  ASSUME NEW seq
  PROVE  GroupPendingReviews(seq, BatchSize, MaxPromptChars)
           = WholeBatches(PackFold!Fold(0, FileChunks(seq, BatchSize, MaxPromptChars)))
  BY DEF GroupPendingReviews, WholeBatches, NoBatches, PackFold!Fold, FoldLeft,
         MapThenFoldSet, Max, PackFold!Last

\* One turn of the second loop opens a batch or adds the chunk to the last.
LEMMA PackStepGroups ==
  ASSUME NEW p, PackState(p), NEW piece \in Chunk, NEW b, NEW m,
         NEW pieces \in Seq(Seq(Jobs)), Grouping(pieces, WholeBatches(p))
  PROVE  /\ PackState(PackStep(p, piece, b, m))
         /\ Grouping(Append(pieces, piece), WholeBatches(PackStep(p, piece, b, m)))
<1> DEFINE next == PackStep(p, piece, b, m)
<1>1. \/ next = [grouped |-> Append(WholeBatches(p), piece), packed |-> << >>]
      \/ next = [grouped |-> WholeBatches(p), packed |-> piece]
      \/ next = [p EXCEPT !.packed = @ \o piece]
  <2> DEFINE alone == ~piece[1].method
             full == \/ Len(p.packed) + Len(piece) > b
                     \/ BatchEstimate(p.packed \o piece) > m
  <2>1. next = CASE alone -> [grouped |-> Append(WholeBatches(p), piece), packed |-> << >>]
                 [] ~alone /\ full -> [grouped |-> WholeBatches(p), packed |-> piece]
                 [] OTHER -> [p EXCEPT !.packed = @ \o piece]
    BY DEF PackStep, WholeBatches
  <2> HIDE DEF alone, full, next
  <2> QED
    BY <2>1
<1> HIDE DEF next
<1>2. /\ p.grouped \in Seq(Seq(Jobs)) /\ p.packed \in Seq(Jobs)
      /\ p = [grouped |-> p.grouped, packed |-> p.packed]
      /\ piece \in Seq(Jobs) /\ piece # << >>
      /\ WholeBatches(p) \in Seq(Seq(Jobs)) /\ Filled(WholeBatches(p))
  BY DEF PackState, Chunk, Grouping, Filled
<1>3. Grouping(Append(pieces, piece), Append(WholeBatches(p), piece))
  BY <1>2, GroupAdded
<1>4. Append(WholeBatches(p), piece) \in Seq(Seq(Jobs)) /\ << >> \in Seq(Jobs)
  BY <1>2
<1>5. CASE next = [grouped |-> Append(WholeBatches(p), piece), packed |-> << >>]
  BY <1>3, <1>4, <1>5 DEF PackState, WholeBatches, next
<1>6. CASE next = [grouped |-> WholeBatches(p), packed |-> piece]
  <2>1. PackState(next)
    BY <1>2, <1>6 DEF PackState
  <2>2. WholeBatches(next) = Append(WholeBatches(p), piece)
    BY <1>2, <1>6 DEF WholeBatches
  <2> QED
    BY <1>3, <2>1, <2>2 DEF next
<1>7. CASE next = [p EXCEPT !.packed = @ \o piece]
  <2> DEFINE last == p.packed \o piece
  <2>1. /\ last \in Seq(Jobs) /\ last # << >>
        /\ p.packed = << >> => last = piece
    BY <1>2, ConcatProperties, ConcatEqualIffEmpty, ConcatEmptySeq
  <2>2. next = [grouped |-> p.grouped, packed |-> last]
    BY <1>2, <1>7
  <2> HIDE DEF last
  <2>3. PackState(next)
    BY <1>2, <2>1, <2>2 DEF PackState
  <2>4. WholeBatches(next) = Append(p.grouped, last)
    BY <2>1, <2>2 DEF WholeBatches
  <2>5. Grouping(Append(pieces, piece), Append(p.grouped, last))
    <3>1. CASE p.packed = << >>
      BY <1>3, <2>1, <3>1 DEF WholeBatches
    <3>2. CASE p.packed # << >>
      <4>1. WholeBatches(p) = Append(p.grouped, p.packed)
        BY <3>2 DEF WholeBatches
      <4> QED
        BY <1>2, <4>1, GroupExtended DEF last
    <3> QED
      BY <3>1, <3>2
  <2> QED
    BY <2>3, <2>4, <2>5 DEF next
<1> QED
  BY <1>1, <1>5, <1>6, <1>7

\* A group of groups holds what the groups of its pieces hold.
LEMMA GroupingChains ==
  ASSUME NEW pieces, NEW chunks, NEW groups, NEW n \in Nat, Len(pieces) = n,
         Grouping(pieces, chunks), Grouping(chunks, groups)
  PROVE  Grouping(pieces, groups)
<1>1. Len(chunks) \in Nat /\ Len(groups) \in Nat
  BY DEF Grouping, Filled
<1> QED
  BY <1>1 DEF Grouping

(* The second pass: the batches hold the jobs of the chunks.               *)
LEMMA BatchesGroup ==
  ASSUME NEW seq \in Seq(Jobs)
  PROVE  Grouping(Pieces(seq), GroupPendingReviews(seq, BatchSize, MaxPromptChars))
<1> DEFINE chunks == FileChunks(seq, BatchSize, MaxPromptChars)
<1>1. Grouping(Pieces(seq), chunks)
  BY ChunksGroup
<1> HIDE DEF chunks
<1>2. chunks \in Seq(Chunk)
  <2>1. chunks \in Seq(Seq(Jobs)) /\ \A k \in DOMAIN chunks : chunks[k] \in Chunk
    BY <1>1 DEF Grouping, Filled, Chunk
  <2> QED
    BY <2>1
<1>3. PackState(NoBatches) /\ Grouping(<< >>, WholeBatches(NoBatches))
  <2>1. WholeBatches(NoBatches) = << >>
    BY DEF WholeBatches, NoBatches
  <2>2. PackState(NoBatches)
    BY NoGroups DEF PackState, NoBatches
  <2> QED
    BY <2>1, <2>2, NoGroups DEF Grouping
<1>4. ASSUME NEW q \in Seq(Chunk), NEW e \in Chunk, NEW x,
             PackState(x), Grouping(q, WholeBatches(x))
      PROVE  /\ PackState(PackStep(x, e, BatchSize, MaxPromptChars))
             /\ Grouping(Append(q, e), WholeBatches(PackStep(x, e, BatchSize, MaxPromptChars)))
  <2>1. q \in Seq(Seq(Jobs))
    <3>1. Chunk \subseteq Seq(Jobs)
      BY DEF Chunk
    <3> QED
      BY <3>1, SeqMonotonic
  <2> QED
    BY <1>4, <2>1, PackStepGroups
<1>5. Grouping(chunks, WholeBatches(PackFold!Fold(0, chunks)))
  BY <1>2, <1>3, <1>4, PackFold!FoldInduction
<1>6. Len(Pieces(seq)) \in Nat
  <2>1. Pieces(seq) = [i \in 1..Len(seq) |-> <<seq[i]>>] /\ Len(seq) \in Nat
    BY DEF Pieces
  <2> QED
    BY <2>1
<1> QED
  BY <1>1, <1>5, <1>6, BatchesAreAFold, GroupingChains DEF chunks

(***************************************************************************)
(* group_pending_reviews: the batches hold the methods of the queue, every *)
(* one once, in no more batches than there are jobs.                       *)
(***************************************************************************)
THEOREM BatchesHoldTheQueue ==
  ASSUME NEW seq \in Seq(Jobs)
  PROVE  LET groups == GroupPendingReviews(seq, BatchSize, MaxPromptChars)
         IN  /\ Filled(groups) /\ Len(groups) <= Len(seq)
             /\ UnitsIn(groups) = {seq[i].unit : i \in DOMAIN seq}
             /\ (\A i, j \in DOMAIN seq : seq[i].unit = seq[j].unit => i = j) => Apart(groups)
<1> DEFINE groups == GroupPendingReviews(seq, BatchSize, MaxPromptChars)
<1>1. Grouping(Pieces(seq), groups)
  BY BatchesGroup
<1> HIDE DEF groups
<1>2. DOMAIN Pieces(seq) = DOMAIN seq /\ Len(Pieces(seq)) = Len(seq)
  <2>1. Pieces(seq) = [i \in 1..Len(seq) |-> <<seq[i]>>] /\ Len(seq) \in Nat /\ DOMAIN seq = 1..Len(seq)
    BY DEF Pieces
  <2> QED
    BY <2>1
<1>3. \A k \in DOMAIN seq : Pieces(seq)[k] = <<seq[k]>>
  BY DEF Pieces
<1>4. \A job : DOMAIN <<job>> = {1} /\ <<job>>[1] = job
  OBVIOUS
<1>5. UnitsIn(Pieces(seq)) = {seq[i].unit : i \in DOMAIN seq}
  BY <1>2, <1>3, <1>4 DEF UnitsIn
<1>6. (\A i, j \in DOMAIN seq : seq[i].unit = seq[j].unit => i = j) => Apart(Pieces(seq))
  BY <1>2, <1>3, <1>4 DEF Apart
<1> QED
  BY <1>1, <1>2, <1>5, <1>6 DEF Grouping, groups

-----------------------------------------------------------------------------
(* The state of a run.                                                     *)

Out == [unit : Units, retry : BOOLEAN, persisted : BOOLEAN]

\* A task that runs has a method to review, one that succeeded has none.
TaskOK(t) ==
  /\ t = [queue |-> t.queue, done |-> t.done, calls |-> t.calls, owed |-> t.owed,
          outs |-> t.outs, st |-> t.st]
  /\ t.queue \in Seq(Seq(Units)) /\ \A k \in DOMAIN t.queue : t.queue[k] # << >>
  /\ t.done \in Nat /\ t.calls \in Nat /\ t.owed \in Nat
  /\ t.outs \in Seq(Out)
  /\ t.st \in {"run", "ok", "err", "panic"}
  /\ t.st = "run" => t.queue # << >> /\ t.done < Len(t.queue[1])
  /\ t.st = "ok" => t.queue = << >>

ProcTyped ==
  /\ proc \in Ended \cup {"reuse", "running", "aborting", "rejecting"}
  /\ (store = None) <=> (proc \in Ended)
  /\ scan \in Scans \/ proc = "idle"

QueueTyped ==
  /\ todo \in Seq(Jobs) /\ fresh \in Seq(Jobs)
  /\ proc = "reuse" => Len(fresh) + Len(todo) <= Cardinality(Units)
  /\ copying \in Units \cup {None}
  /\ proc = "reuse" /\ copying # None => todo # << >> /\ copying = NextUnit

BatchesTyped ==
  /\ Filled(batches) /\ Len(batches) <= Cardinality(Units)
  /\ pending \subseteq DOMAIN batches

TasksTyped ==
  /\ DOMAIN tasks \subseteq DOMAIN batches
  /\ \A i \in DOMAIN tasks : TaskOK(tasks[i])
  /\ DOMAIN tasks # {} => proc \in {"running", "aborting"}

JoinedTyped ==
  /\ joined \in DOMAIN batches \cup {0}
  /\ joined # 0 => proc = "running"
  /\ joinedOuts \in Seq(Out)

BudgetTyped ==
  /\ budget = [limit |-> budget.limit, spent |-> budget.spent]
  /\ budget.limit \in Nat \cup {None} /\ budget.spent \in Nat

\* Before the jobs are grouped there is nothing that the scheduler knows of.
NothingScheduled ==
  /\ batches = << >> /\ pending = {} /\ tasks = << >> /\ completed = {}
  /\ activeKeys = {} /\ joined = 0 /\ firstError = FALSE

RunTyped ==
  /\ ProcTyped /\ QueueTyped /\ BatchesTyped /\ TasksTyped /\ JoinedTyped /\ BudgetTyped
  /\ proc \in {"idle", "reuse", "rejecting", "rejected"} => NothingScheduled

StageInv == JInv /\ JTypeOK /\ RunTyped

\* A scan has no more jobs than there are units.
LEMMA JobsAreFew ==
  ASSUME NEW s \in Scans
  PROVE  /\ JobsOf[s] \in Seq(Jobs) /\ Len(JobsOf[s]) \in 0..Cardinality(Units)
         /\ Cardinality(Units) \in Nat
<1> DEFINE n == Len(JobsOf[s])
           unit == [i \in 1..n |-> JobsOf[s][i].unit]
<1>1. JobsOf[s] \in Seq(Jobs) /\ IsFiniteSet(Units) /\ n \in Nat /\ DOMAIN JobsOf[s] = 1..n
  BY StageAssumption
<1>2. \A i \in 1..n : JobsOf[s][i].unit \in Units
  BY <1>1, StageAssumption
<1>3. \A i, j \in 1..n : unit[i] = unit[j] => i = j
  BY <1>1, StageAssumption
<1>4. unit \in Injection(1..n, Units)
  BY <1>2, <1>3 DEF Injection, IsInjective
<1> HIDE DEF unit
<1>5. Cardinality(1..n) <= Cardinality(Units)
  BY <1>1, <1>4, FS_Injection
<1>6. Cardinality(1..n) = n
  BY <1>1, FS_Interval
<1> QED
  BY <1>1, <1>5, <1>6, FS_CardinalityType

LEMMA JobUnits ==
  ASSUME NEW job \in Jobs
  PROVE  job.unit \in Units
  BY StageAssumption

LEMMA StoreIsThere ==
  ASSUME NEW x \in JournalStore
  PROVE  x # None
  BY StageAssumption

LEMMA EmptyRun ==
  ASSUME NothingScheduled
  PROVE  BatchesTyped /\ DOMAIN tasks = {} /\ joined = 0
<1>1. DOMAIN << >> = {} /\ Len(<< >>) = 0
  OBVIOUS
<1>2. Cardinality(Units) \in Nat
  BY StageAssumption, FS_CardinalityType
<1> QED
  BY <1>1, <1>2, NoGroups DEF NothingScheduled, BatchesTyped

LEMMA InitStage ==
  ASSUME SInit
  PROVE  StageInv
<1>1. JInv /\ JTypeOK
  <2>1. DOMAIN << >> = {} /\ 0 \in 0..MaxFaults
    BY JournalAssumption
  <2> QED
    BY <2>1, InitJInv DEF SInit, JInit, JTypeOK
<1>2. NothingScheduled
  BY DEF SInit, NothingScheduled
<1>3. BatchesTyped /\ TasksTyped
  BY <1>2, EmptyRun DEF TasksTyped
<1>4. ProcTyped /\ QueueTyped /\ JoinedTyped /\ BudgetTyped
  BY EmptySeq DEF SInit, JInit, Ended, ProcTyped, QueueTyped, JoinedTyped, BudgetTyped
<1> QED
  BY <1>1, <1>2, <1>3, <1>4 DEF StageInv, RunTyped

\* A write of the running process leaves it a store.
LEMMA StoreKept ==
  ASSUME StageInv, NEW u \in Units \cup {None}, NEW c \in Costs \cup {0}, NEW r \in BOOLEAN,
         (u \in Units /\ Record(u, c, r)) \/ RecordUsage(c) \/ RecordCrossScanReuse(u)
  PROVE  store # None /\ store' # None
<1>1. store # None /\ store \in JournalStore /\ c \in Nat
  <2>1. store # None
    BY DEF Record, RecordUsage, RecordCrossScanReuse
  <2>2. store \in JournalStore \cup {None}
    BY DEF StageInv, JTypeOK
  <2> QED
    BY <2>1, <2>2, JournalAssumption
<1>2. CASE u \in Units /\ Record(u, c, r)
  <2>1. Entry("unit", u, c, r) \in JournalEntry
    BY <1>1, EntryTyped DEF StageInv, JInv, Kinds
  <2>2. store' \in JournalStore
    BY <1>1, <1>2, <2>1, RecordTypes DEF Record
  <2> QED
    BY <1>1, <2>2, StoreIsThere
<1>3. CASE RecordUsage(c)
  <2>1. store' = [store EXCEPT !.spent = @ + c]
    BY <1>3 DEF RecordUsage
  <2>2. [store EXCEPT !.spent = @ + c] \in JournalStore
    BY <1>1 DEF JournalStore
  <2> QED
    BY <1>1, <2>1, <2>2, StoreIsThere
<1>4. CASE RecordCrossScanReuse(u)
  BY <1>1, <1>4 DEF RecordCrossScanReuse
<1> QED
  BY <1>2, <1>3, <1>4

\* The run's own variables after Fresh.
LEMMA FreshRun ==
  ASSUME NEW limit \in Nat \cup {None}, NEW spent \in Nat, Fresh(limit, spent)
  PROVE  /\ NothingScheduled' /\ BatchesTyped' /\ TasksTyped' /\ JoinedTyped' /\ BudgetTyped'
         /\ fresh' \in Seq(Jobs) /\ Len(fresh') = 0 /\ copying' = None
<1>1. DOMAIN << >> = {} /\ Len(<< >>) = 0 /\ << >> \in Seq(Jobs) /\ << >> \in Seq(Out)
  OBVIOUS
<1>2. NothingScheduled' /\ fresh' = << >> /\ copying' = None /\ joinedOuts' = << >>
      /\ budget' = [limit |-> limit, spent |-> spent]
  BY DEF Fresh, NothingScheduled
<1>3. BatchesTyped'
  <2>1. Cardinality(Units) \in Nat
    BY StageAssumption, FS_CardinalityType
  <2> QED
    BY <1>1, <1>2, <2>1, NoGroups DEF NothingScheduled, BatchesTyped
<1>4. TasksTyped' /\ JoinedTyped'
  BY <1>1, <1>2 DEF NothingScheduled, TasksTyped, JoinedTyped
<1>5. BudgetTyped'
  BY <1>2 DEF BudgetTyped
<1> QED
  BY <1>1, <1>2, <1>3, <1>4, <1>5

\* The start of a run, and one that fails to load the journal.
LEMMA StartTyped ==
  ASSUME StageInv, NEW s \in Scans, NEW limit \in Limits \cup {None},
         StartScan(s, limit) \/ StartScanFails(s)
  PROVE  RunTyped' /\ JNext
<1> DEFINE n == Len(JobsOf[s])
<1>1. JobsOf[s] \in Seq(Jobs) /\ n \in 0..Cardinality(Units) /\ n \in Nat /\ "method" \in Stages
      /\ Cardinality(Units) \in Nat /\ limit \in Nat \cup {None}
  BY JobsAreFew, StageAssumption
<1>2. CASE StartScan(s, limit)
  <2>1. LoadForScan(s, "method", n) /\ scan' = s /\ proc' = "reuse" /\ todo' = JobsOf[s]
    BY <1>2 DEF StartScan
  <2>2. JNext
    BY <1>1, <2>1 DEF JNext
  <2>3. SpentIn(lines, s) \in Nat
    BY SpentIsNat DEF StageInv, JInv, FileTyped, FileLine
  <2>4. Fresh(limit, SpentIn(lines, s))
    BY <1>2 DEF StartScan
  <2>5. /\ NothingScheduled' /\ BatchesTyped' /\ TasksTyped' /\ JoinedTyped' /\ BudgetTyped'
        /\ fresh' \in Seq(Jobs) /\ Len(fresh') = 0 /\ copying' = None
    BY <1>1, <2>3, <2>4, FreshRun
  <2>6. store' # None
    <3>1. LoadState(lines, s, "method", n) \in JournalStore
      BY <1>1, LoadTypes DEF StageInv
    <3> QED
      BY <2>1, <3>1, StoreIsThere DEF LoadForScan
  <2>7. ProcTyped'
    BY <2>1, <2>6 DEF ProcTyped, Ended
  <2>8. QueueTyped'
    BY <1>1, <2>1, <2>5 DEF QueueTyped
  <2> QED
    BY <2>2, <2>5, <2>7, <2>8 DEF RunTyped
<1>3. CASE StartScanFails(s)
  <2>1. LoadUnreadable \/ LoadManifestFails(s, "method", n)
    BY <1>3 DEF StartScanFails
  <2>2. JNext
    BY <1>1, <2>1 DEF JNext
  <2>3. Fresh(None, 0) /\ scan' = s /\ proc' = "rejected" /\ todo' = << >>
    BY <1>3 DEF StartScanFails
  <2>4. /\ NothingScheduled' /\ BatchesTyped' /\ TasksTyped' /\ JoinedTyped' /\ BudgetTyped'
        /\ fresh' \in Seq(Jobs) /\ Len(fresh') = 0 /\ copying' = None
    BY <2>3, FreshRun
  <2>5. store' = None
    BY <2>1 DEF LoadUnreadable, LoadManifestFails
  <2>6. ProcTyped'
    BY <2>3, <2>5 DEF ProcTyped, Ended
  <2>7. QueueTyped'
    BY <2>3, <2>4, EmptySeq DEF QueueTyped
  <2> QED
    BY <2>2, <2>4, <2>6, <2>7 DEF RunTyped
<1> QED
  BY <1>2, <1>3

\* What the scheduler knows, the tasks and the budget.
LEMMA SameRunTyped ==
  ASSUME RunTyped, UNCHANGED <<batches, pending, tasks, activeKeys, joined, joinedOuts,
                               completed, firstError, budget>>,
         ProcTyped', QueueTyped',
         proc' = proc \/ (proc = "reuse" /\ proc' = "rejecting")
         \/ (proc = "rejecting" /\ proc' = "rejected")
  PROVE  RunTyped'
<1>1. BatchesTyped' /\ BudgetTyped'
  BY DEF RunTyped, BatchesTyped, BudgetTyped
<1>2. NothingScheduled => NothingScheduled'
  BY DEF NothingScheduled
<1>3. CASE proc' = proc
  BY <1>1, <1>2, <1>3 DEF RunTyped, TasksTyped, JoinedTyped
<1>4. CASE proc \in {"reuse", "rejecting"}
  <2>1. NothingScheduled
    BY <1>4 DEF RunTyped
  <2>2. DOMAIN tasks = {} /\ joined = 0
    BY <2>1, EmptyRun
  <2>3. TasksTyped' /\ JoinedTyped'
    BY <2>2 DEF RunTyped, TasksTyped, JoinedTyped
  <2> QED
    BY <1>1, <1>2, <2>1, <2>3 DEF RunTyped
<1> QED
  BY <1>3, <1>4

\* The unit at the head of the queue.
LEMMA HeadOfQueue ==
  ASSUME RunTyped, todo # << >>, proc = "reuse"
  PROVE  /\ Head(todo) \in Jobs /\ NextUnit \in Units
         /\ Tail(todo) \in Seq(Jobs) /\ Len(Tail(todo)) = Len(todo) - 1 /\ Len(todo) \in Nat
         /\ Append(fresh, Head(todo)) \in Seq(Jobs)
         /\ Len(Append(fresh, Head(todo))) = Len(fresh) + 1 /\ Len(fresh) \in Nat
         /\ Len(fresh) + Len(todo) <= Cardinality(Units) /\ Cardinality(Units) \in Nat
<1>1. todo \in Seq(Jobs) /\ fresh \in Seq(Jobs)
  BY DEF RunTyped, QueueTyped
<1>2. Head(todo) \in Jobs /\ Tail(todo) \in Seq(Jobs) /\ Len(Tail(todo)) = Len(todo) - 1
  BY <1>1, HeadTailProperties
<1>3. /\ Append(fresh, Head(todo)) \in Seq(Jobs)
      /\ Len(Append(fresh, Head(todo))) = Len(fresh) + 1
  BY <1>1, <1>2, AppendProperties
<1>4. Cardinality(Units) \in Nat
  BY StageAssumption, FS_CardinalityType
<1> QED
  BY <1>1, <1>2, <1>3, <1>4, JobUnits DEF NextUnit, RunTyped, QueueTyped

\* The look-up of the queue: what is reused, and what is not.
LEMMA ReuseTyped ==
  ASSUME StageInv, ReuseOwn \/ ReuseAcross \/ CopyAcross \/ NeedsReview
  PROVE  RunTyped' /\ (JNext \/ UNCHANGED jvars)
<1>1. /\ RunTyped /\ proc = "reuse" /\ proc' = "reuse" /\ scan' = scan
      /\ UNCHANGED <<batches, pending, tasks, activeKeys, joined, joinedOuts,
                     completed, firstError, budget>>
  BY DEF StageInv, ReuseOwn, ReuseAcross, CopyAcross, NeedsReview
<1>2. copying \in Units \cup {None} /\ todo \in Seq(Jobs) /\ fresh \in Seq(Jobs)
  BY <1>1 DEF RunTyped, QueueTyped
<1>3. CASE ReuseOwn \/ NeedsReview
  <2>1. UNCHANGED jvars
    BY <1>3 DEF ReuseOwn, NeedsReview
  <2>2. ProcTyped'
    BY <1>1, <2>1 DEF RunTyped, ProcTyped, jvars
  <2>3. /\ todo # << >> /\ todo' = Tail(todo) /\ copying = None /\ copying' = None
        /\ fresh' = fresh \/ fresh' = Append(fresh, Head(todo))
    BY <1>3 DEF ReuseOwn, NeedsReview
  <2>4. /\ todo' \in Seq(Jobs) /\ fresh' \in Seq(Jobs)
        /\ Len(fresh') + Len(todo') <= Cardinality(Units)
    <3>1. Tail(todo) \in Seq(Jobs) /\ Append(fresh, Head(todo)) \in Seq(Jobs)
      BY <1>1, <2>3, HeadOfQueue
    <3>2. /\ Len(fresh) + Len(Tail(todo)) <= Cardinality(Units)
          /\ Len(Append(fresh, Head(todo))) + Len(Tail(todo)) <= Cardinality(Units)
      BY <1>1, <2>3, HeadOfQueue
    <3> QED
      BY <1>2, <2>3, <3>1, <3>2
  <2>5. QueueTyped'
    BY <2>3, <2>4 DEF QueueTyped
  <2> QED
    BY <1>1, <2>1, <2>2, <2>5, SameRunTyped
<1>4. CASE ReuseAcross
  <2>1. /\ todo # << >> /\ copying' = NextUnit /\ UNCHANGED <<todo, fresh>>
        /\ RecordCrossScanReuse(NextUnit)
    BY <1>4 DEF ReuseAcross
  <2>2. NextUnit \in Units
    BY <1>1, <2>1, HeadOfQueue
  <2>3. JNext
    BY <2>1, <2>2 DEF JNext
  <2>4. store # None /\ store' # None
    <3>1. 0 \in Costs \cup {0} /\ FALSE \in BOOLEAN /\ NextUnit \in Units \cup {None}
      BY <2>2
    <3> QED
      BY <2>1, <3>1, StoreKept
  <2>5. ProcTyped'
    BY <1>1, <2>4 DEF RunTyped, ProcTyped
  <2>6. QueueTyped'
    BY <1>1, <2>1, <2>2 DEF RunTyped, QueueTyped, NextUnit
  <2> QED
    BY <1>1, <2>3, <2>5, <2>6, SameRunTyped
<1>5. CASE CopyAcross
  <2>1. /\ copying # None /\ copying' = None /\ todo' = Tail(todo) /\ fresh' = fresh
        /\ Record(copying, 0, FALSE)
    BY <1>5 DEF CopyAcross
  <2>2. copying \in Units /\ 0 \in Costs \cup {0} /\ FALSE \in BOOLEAN
    BY <1>2, <2>1
  <2>3. JNext
    BY <2>1, <2>2 DEF JNext
  <2>4. store # None /\ store' # None
    BY <2>1, <2>2, StoreKept
  <2>5. ProcTyped'
    BY <1>1, <2>4 DEF RunTyped, ProcTyped
  <2>6. todo # << >>
    BY <1>1, <2>1 DEF RunTyped, QueueTyped
  <2>7. QueueTyped'
    <3>1. Tail(todo) \in Seq(Jobs) /\ Len(fresh) + Len(Tail(todo)) <= Cardinality(Units)
      BY <1>1, <2>6, HeadOfQueue
    <3> QED
      BY <1>1, <1>2, <2>1, <3>1 DEF QueueTyped
  <2> QED
    BY <1>1, <2>3, <2>5, <2>7, SameRunTyped
<1> QED
  BY <1>3, <1>4, <1>5

\* A look-up whose append fails rejects the run.
LEMMA RejectTyped ==
  ASSUME StageInv, ReuseFails \/ Reject
  PROVE  RunTyped' /\ JNext
<1>1. /\ RunTyped /\ scan' = scan /\ proc \in {"reuse", "rejecting"} /\ store # None
      /\ UNCHANGED <<todo, copying, fresh, batches, pending, tasks, activeKeys, joined,
                     joinedOuts, completed, firstError, budget>>
  BY DEF StageInv, RunTyped, ProcTyped, Ended, ReuseFails, Reject, runVars
<1>2. CASE ReuseFails
  <2>1. proc = "reuse" /\ proc' = "rejecting" /\ store' = store
    BY <1>2 DEF ReuseFails
  <2>2. ProcTyped'
    BY <1>1, <2>1 DEF RunTyped, ProcTyped, Ended
  <2>3. QueueTyped'
    BY <1>1, <2>1 DEF RunTyped, QueueTyped
  <2>4. JNext
    <3>1. 0 \in Costs \cup {0} /\ FALSE \in BOOLEAN
      OBVIOUS
    <3>2. CASE copying # None /\ AppendFails(Entry("unit", copying, 0, FALSE))
      <4>1. copying \in Units
        BY <1>1, <3>2 DEF RunTyped, QueueTyped
      <4>2. RecordFails(Entry("unit", copying, 0, FALSE))
        BY <1>1, <2>1, <3>2 DEF RecordFails
      <4> QED
        BY <3>1, <4>1, <4>2 DEF JNext
    <3>3. CASE todo # << >> /\ AppendFails(Entry("reuse", NextUnit, 0, FALSE))
      <4>1. NextUnit \in Units
        BY <1>1, <2>1, <3>3, HeadOfQueue
      <4>2. RecordFails(Entry("reuse", NextUnit, 0, FALSE))
        BY <1>1, <2>1, <3>3 DEF RecordFails
      <4> QED
        BY <4>1, <4>2 DEF JNext
    <3> QED
      BY <1>2, <3>2, <3>3 DEF ReuseFails
  <2> QED
    BY <1>1, <2>1, <2>2, <2>3, <2>4, SameRunTyped
<1>3. CASE Reject
  <2>1. proc = "rejecting" /\ proc' = "rejected" /\ Close
    BY <1>3 DEF Reject
  <2>2. store' = None /\ JNext
    BY <2>1 DEF Close, JNext
  <2>3. ProcTyped'
    BY <1>1, <2>1, <2>2 DEF RunTyped, ProcTyped, Ended
  <2>4. QueueTyped'
    BY <1>1, <2>1 DEF RunTyped, QueueTyped
  <2> QED
    BY <1>1, <2>1, <2>2, <2>3, <2>4, SameRunTyped
<1> QED
  BY <1>2, <1>3

\* Grouping the jobs that need a review.
LEMMA GroupTyped ==
  ASSUME StageInv, Group
  PROVE  RunTyped' /\ UNCHANGED jvars
<1>1. /\ RunTyped /\ proc = "reuse" /\ proc' = "running" /\ UNCHANGED jvars
      /\ scan' = scan /\ UNCHANGED <<todo, copying, fresh, tasks, joined, joinedOuts, budget>>
      /\ todo = << >>
      /\ batches' = GroupPendingReviews(fresh, BatchSize, MaxPromptChars)
      /\ pending' = DOMAIN batches'
  BY DEF StageInv, Group
<1>2. /\ fresh \in Seq(Jobs) /\ Len(fresh) \in Nat /\ Cardinality(Units) \in Nat
      /\ Len(fresh) <= Cardinality(Units)
  <2>1. Len(<< >>) = 0
    OBVIOUS
  <2>2. fresh \in Seq(Jobs) /\ Len(fresh) + Len(todo) <= Cardinality(Units)
    BY <1>1 DEF RunTyped, QueueTyped
  <2>3. Cardinality(Units) \in Nat
    BY StageAssumption, FS_CardinalityType
  <2> QED
    BY <1>1, <2>1, <2>2, <2>3
<1>3. BatchesTyped'
  <2> DEFINE groups == GroupPendingReviews(fresh, BatchSize, MaxPromptChars)
  <2>1. Filled(groups) /\ Len(groups) <= Len(fresh)
    BY <1>2, BatchesHoldTheQueue
  <2> HIDE DEF groups
  <2>2. Len(groups) \in Nat
    BY <2>1 DEF Filled
  <2>3. batches' = groups
    BY <1>1 DEF groups
  <2> QED
    BY <1>1, <1>2, <2>1, <2>2, <2>3 DEF BatchesTyped
<1>4. DOMAIN tasks = {} /\ joined = 0
  BY <1>1, EmptyRun DEF RunTyped
<1>5. ProcTyped'
  BY <1>1 DEF RunTyped, ProcTyped, Ended, jvars
<1>6. QueueTyped'
  BY <1>1 DEF RunTyped, QueueTyped
<1>7. TasksTyped' /\ JoinedTyped' /\ BudgetTyped'
  BY <1>1, <1>4 DEF RunTyped, TasksTyped, JoinedTyped, BudgetTyped
<1> QED
  BY <1>1, <1>3, <1>5, <1>6, <1>7 DEF RunTyped

\* The process dies.
LEMMA DieTyped ==
  ASSUME StageInv, Die
  PROVE  RunTyped' /\ JNext
<1>1. proc' = "idle" /\ todo' = << >> /\ Fresh(None, 0) /\ scan' = scan /\ Crash
  BY DEF Die
<1>2. /\ NothingScheduled' /\ BatchesTyped' /\ TasksTyped' /\ JoinedTyped' /\ BudgetTyped'
      /\ fresh' \in Seq(Jobs) /\ Len(fresh') = 0 /\ copying' = None
  BY <1>1, FreshRun
<1>3. store' = None /\ JNext
  BY <1>1 DEF Crash, JNext
<1>4. ProcTyped' /\ QueueTyped'
  BY <1>1, <1>2, <1>3, EmptySeq DEF StageInv, RunTyped, ProcTyped, QueueTyped, Ended
<1> QED
  BY <1>2, <1>3, <1>4 DEF RunTyped

\* The run returns.
LEMMA FinishTyped ==
  ASSUME StageInv, Finish
  PROVE  RunTyped' /\ JNext
<1>1. /\ RunTyped /\ scan' = scan /\ Close /\ tasks = << >>
      /\ UNCHANGED <<todo, copying, fresh, batches, pending, tasks, joined, joinedOuts, budget>>
  BY DEF StageInv, Finish, runVars
<1>2. (proc \in {"running", "aborting"} /\ joined = 0) \/ proc = "aborting"
  BY DEF Finish, AtLoop
<1>3. proc' \in {"failed", "paused", "done"}
  BY DEF Finish, AtLoop
<1>4. store' = None /\ JNext
  BY <1>1 DEF Close, JNext
<1>5. joined = 0 /\ DOMAIN tasks = {}
  <2>1. DOMAIN << >> = {}
    OBVIOUS
  <2>2. joined # 0 => proc = "running"
    BY <1>1 DEF RunTyped, JoinedTyped
  <2> QED
    BY <1>1, <1>2, <2>1, <2>2
<1>6. ProcTyped'
  BY <1>1, <1>2, <1>3, <1>4 DEF RunTyped, ProcTyped, Ended
<1>7. QueueTyped'
  BY <1>1, <1>3 DEF RunTyped, QueueTyped
<1>8. BatchesTyped' /\ TasksTyped' /\ JoinedTyped' /\ BudgetTyped'
  BY <1>1, <1>3, <1>5 DEF RunTyped, BatchesTyped, TasksTyped, JoinedTyped, BudgetTyped
<1> QED
  BY <1>3, <1>4, <1>6, <1>7, <1>8 DEF RunTyped

\* A step of a run whose tasks are at work.
LEMMA ActiveTyped ==
  ASSUME RunTyped, proc \in {"running", "aborting"}, proc' \in {"running", "aborting"},
         scan' = scan, store' # None, UNCHANGED <<todo, copying, fresh, batches>>,
         pending' \subseteq pending, DOMAIN tasks' \subseteq DOMAIN batches,
         \A i \in DOMAIN tasks' : TaskOK(tasks'[i]),
         JoinedTyped', BudgetTyped'
  PROVE  RunTyped'
<1>1. ProcTyped'
  BY DEF RunTyped, ProcTyped, Ended
<1>2. QueueTyped' /\ BatchesTyped'
  BY DEF RunTyped, QueueTyped, BatchesTyped
<1>3. TasksTyped'
  BY DEF TasksTyped
<1> QED
  BY <1>1, <1>2, <1>3 DEF RunTyped

\* What a step of a task does to the run.
LEMMA TaskStepTyped ==
  ASSUME RunTyped, NEW i \in DOMAIN tasks, NEW t, TaskOK(t), store' # None,
         tasks' = [tasks EXCEPT ![i] = t], BudgetTyped',
         UNCHANGED <<proc, scan, todo, copying, fresh, batches, pending, joined, joinedOuts>>
  PROVE  RunTyped'
<1>1. proc \in {"running", "aborting"} /\ DOMAIN tasks \subseteq DOMAIN batches
      /\ \A j \in DOMAIN tasks : TaskOK(tasks[j])
  BY DEF RunTyped, TasksTyped
<1>2. DOMAIN tasks' = DOMAIN tasks
      /\ \A j \in DOMAIN tasks : tasks'[j] = IF j = i THEN t ELSE tasks[j]
  OBVIOUS
<1>3. \A j \in DOMAIN tasks' : TaskOK(tasks'[j])
  BY <1>1, <1>2
<1>4. JoinedTyped'
  BY DEF RunTyped, JoinedTyped
<1> QED
  BY <1>1, <1>2, <1>3, <1>4, ActiveTyped

\* The parts of a task.
LEMMA TaskParts ==
  ASSUME RunTyped, NEW i \in DOMAIN tasks
  PROVE  /\ TaskOK(tasks[i]) /\ i \in DOMAIN batches
         /\ proc \in {"running", "aborting"} /\ store # None
         /\ tasks[i].st = "run" =>
              /\ tasks[i].queue # << >> /\ tasks[i].queue[1] \in Seq(Units)
              /\ tasks[i].done \in Nat /\ tasks[i].done < Len(tasks[i].queue[1])
              /\ tasks[i].queue[1][tasks[i].done + 1] \in Units
<1>1. TaskOK(tasks[i]) /\ i \in DOMAIN batches /\ proc \in {"running", "aborting"} /\ store # None
  BY DEF RunTyped, TasksTyped, ProcTyped, Ended
<1>2. ASSUME tasks[i].st = "run"
      PROVE  /\ tasks[i].queue # << >> /\ tasks[i].queue[1] \in Seq(Units)
             /\ tasks[i].done \in Nat /\ tasks[i].done < Len(tasks[i].queue[1])
             /\ tasks[i].queue[1][tasks[i].done + 1] \in Units
  <2> DEFINE q == tasks[i].queue
             d == tasks[i].done
  <2>1. q # << >> /\ q \in Seq(Seq(Units)) /\ d \in Nat /\ d < Len(q[1])
    BY <1>1, <1>2 DEF TaskOK
  <2> HIDE DEF q, d
  <2>2. q[1] \in Seq(Units)
    BY <2>1
  <2>3. q[1][d + 1] \in Units
    BY <2>1, <2>2
  <2> QED
    BY <2>1, <2>2, <2>3 DEF q, d
<1> QED
  BY <1>1, <1>2

\* A task that is put together from its parts.
LEMMA TaskMade ==
  ASSUME NEW q \in Seq(Seq(Units)), \A k \in DOMAIN q : q[k] # << >>,
         NEW d \in Nat, NEW c \in Nat, NEW o \in Nat, NEW outs \in Seq(Out),
         NEW st \in {"run", "ok", "err", "panic"},
         st = "run" => q # << >> /\ d < Len(q[1]), st = "ok" => q = << >>
  PROVE  TaskOK([queue |-> q, done |-> d, calls |-> c, owed |-> o, outs |-> outs, st |-> st])
  BY DEF TaskOK

\* A task whose counters change, or whose attempt has failed.
LEMMA TaskChanged ==
  ASSUME NEW x, TaskOK(x)
  PROVE  /\ \A c \in Nat : TaskOK([x EXCEPT !.calls = @ + 1, !.owed = c])
         /\ TaskOK([x EXCEPT !.owed = 0])
         /\ \A st \in {"err", "panic"} : TaskOK([x EXCEPT !.st = st])
<1>1. PICK q, d, c, o, outs, st :
        x = [queue |-> q, done |-> d, calls |-> c, owed |-> o, outs |-> outs, st |-> st]
  BY DEF TaskOK
<1>2. /\ q \in Seq(Seq(Units)) /\ (\A k \in DOMAIN q : q[k] # << >>)
      /\ d \in Nat /\ c \in Nat /\ o \in Nat /\ outs \in Seq(Out)
      /\ st \in {"run", "ok", "err", "panic"}
      /\ st = "run" => q # << >> /\ d < Len(q[1])
      /\ st = "ok" => q = << >>
  BY <1>1 DEF TaskOK
<1>3. ASSUME NEW n \in Nat
      PROVE  TaskOK([x EXCEPT !.calls = @ + 1, !.owed = n])
  <2>1. [x EXCEPT !.calls = @ + 1, !.owed = n]
          = [queue |-> q, done |-> d, calls |-> c + 1, owed |-> n, outs |-> outs, st |-> st]
    <3>1. x.calls = c
      BY <1>1
    <3>2. ASSUME NEW k
          PROVE  [x EXCEPT !.calls = k, !.owed = n]
                   = [queue |-> q, done |-> d, calls |-> k, owed |-> n, outs |-> outs, st |-> st]
      <4> DEFINE y == [x EXCEPT !.calls = k]
      <4>1. y = [queue |-> q, done |-> d, calls |-> k, owed |-> o, outs |-> outs, st |-> st]
        BY <1>1
      <4>2. [x EXCEPT !.calls = k, !.owed = n] = [y EXCEPT !.owed = n]
        OBVIOUS
      <4> HIDE DEF y
      <4> QED
        BY <4>1, <4>2
    <3> QED
      BY <3>1, <3>2
  <2>2. c + 1 \in Nat
    BY <1>2
  <2>3. TaskOK([queue |-> q, done |-> d, calls |-> c + 1, owed |-> n, outs |-> outs, st |-> st])
    BY <1>2, <2>2, TaskMade
  <2> QED
    BY <2>1, <2>3
<1>4. TaskOK([x EXCEPT !.owed = 0])
  <2>1. [x EXCEPT !.owed = 0]
          = [queue |-> q, done |-> d, calls |-> c, owed |-> 0, outs |-> outs, st |-> st]
    BY <1>1
  <2>2. TaskOK([queue |-> q, done |-> d, calls |-> c, owed |-> 0, outs |-> outs, st |-> st])
    BY <1>2, TaskMade
  <2> QED
    BY <2>1, <2>2
<1>5. ASSUME NEW s \in {"err", "panic"}
      PROVE  TaskOK([x EXCEPT !.st = s])
  <2>1. [x EXCEPT !.st = s]
          = [queue |-> q, done |-> d, calls |-> c, owed |-> o, outs |-> outs, st |-> s]
    BY <1>1
  <2>2. TaskOK([queue |-> q, done |-> d, calls |-> c, owed |-> o, outs |-> outs, st |-> s])
    BY <1>2, TaskMade
  <2> QED
    BY <2>1, <2>2
<1> QED
  BY <1>3, <1>4, <1>5

\* A provider call is journaled, and then charged.
LEMMA CallTyped ==
  ASSUME StageInv, NEW i \in DOMAIN tasks,
         (\E c \in Costs : ModelCall(i, c)) \/ Charge(i)
  PROVE  RunTyped' /\ (JNext \/ UNCHANGED jvars)
<1>1. RunTyped /\ TaskOK(tasks[i]) /\ store # None
  BY TaskParts DEF StageInv
<1>2. ASSUME NEW c \in Costs, ModelCall(i, c)
      PROVE  RunTyped' /\ JNext
  <2> DEFINE t == [tasks[i] EXCEPT !.calls = @ + 1, !.owed = c]
  <2>1. RecordUsage(c) /\ TaskStep(i, t) /\ c \in Nat
    BY <1>2, JournalAssumption DEF ModelCall
  <2>2. JNext
    BY <2>1 DEF JNext
  <2>3. store' # None
    <3>1. c \in Costs \cup {0} /\ FALSE \in BOOLEAN /\ None \in Units \cup {None}
      OBVIOUS
    <3> QED
      BY <2>1, <3>1, StoreKept
  <2>4. TaskOK(t)
    BY <1>1, <2>1, TaskChanged
  <2> HIDE DEF t
  <2>5. BudgetTyped'
    BY <1>1, <2>1 DEF TaskStep, RunTyped, BudgetTyped
  <2> QED
    BY <1>1, <2>1, <2>2, <2>3, <2>4, <2>5, TaskStepTyped DEF TaskStep
<1>3. CASE Charge(i)
  <2> DEFINE t == [tasks[i] EXCEPT !.owed = 0]
  <2>1. /\ tasks' = [tasks EXCEPT ![i] = t] /\ UNCHANGED jvars
        /\ budget' = [budget EXCEPT !.spent = @ + tasks[i].owed]
        /\ UNCHANGED <<proc, scan, todo, copying, fresh, batches, pending, joined, joinedOuts>>
    BY <1>3 DEF Charge
  <2>2. TaskOK(t)
    BY <1>1, TaskChanged
  <2>3. BudgetTyped'
    <3>1. tasks[i].owed \in Nat
      BY <1>1 DEF TaskOK
    <3> QED
      BY <1>1, <2>1, <3>1 DEF RunTyped, BudgetTyped
  <2>4. store' # None
    BY <1>1, <2>1 DEF jvars
  <2> HIDE DEF t
  <2> QED
    BY <1>1, <2>1, <2>2, <2>3, <2>4, TaskStepTyped
<1> QED
  BY <1>2, <1>3

\* A callback that fails, and a task that does.
LEMMA TaskFailsTyped ==
  ASSUME StageInv, NEW i \in DOMAIN tasks,
         CallbackFails(i) \/ \E st \in {"err", "panic"} : TaskFails(i, st)
  PROVE  RunTyped' /\ (JNext \/ UNCHANGED jvars)
<1>1. RunTyped /\ TaskOK(tasks[i]) /\ store # None /\ tasks[i].st = "run"
  BY TaskParts DEF StageInv, CallbackFails, TaskFails, Working
<1>2. PICK st \in {"err", "panic"} : TaskStep(i, [tasks[i] EXCEPT !.st = st])
  BY DEF CallbackFails, TaskFails
<1>3. store' = store
  BY DEF CallbackFails, TaskFails, RecordFails, jvars
<1>4. JNext \/ UNCHANGED jvars
  <2>1. ASSUME CallbackFails(i)
        PROVE  JNext
    <3>1. CASE \E c \in Costs : RecordFails(Entry("usage", None, c, FALSE))
      BY <3>1 DEF JNext
    <3>2. CASE \E r \in BOOLEAN :
                 RecordFails(Entry("unit", tasks[i].queue[1][tasks[i].done + 1], 0, r))
      <4>1. tasks[i].queue[1][tasks[i].done + 1] \in Units /\ 0 \in Costs \cup {0}
        BY <1>1, TaskParts
      <4> QED
        BY <3>2, <4>1 DEF JNext
    <3> QED
      BY <2>1, <3>1, <3>2 DEF CallbackFails
  <2> QED
    BY <2>1 DEF TaskFails
<1> DEFINE t == [tasks[i] EXCEPT !.st = st]
<1>5. TaskOK(t)
  BY <1>1, TaskChanged
<1>6. TaskStep(i, t)
  BY <1>2
<1> HIDE DEF t
<1>7. BudgetTyped'
  BY <1>1, <1>6 DEF TaskStep, RunTyped, BudgetTyped
<1> QED
  BY <1>1, <1>3, <1>4, <1>5, <1>6, <1>7, TaskStepTyped DEF TaskStep

\* The next batch of a task.
LEMMA NextBatchOK ==
  ASSUME NEW task, NEW q \in Seq(Seq(Units)), \A k \in DOMAIN q : q[k] # << >>,
         NEW outs \in Seq(Out)
  PROVE  TaskOK(NextBatch(task, q, outs))
<1> DEFINE st == IF q = << >> THEN "ok" ELSE "run"
<1>1. st \in {"run", "ok", "err", "panic"} /\ (st = "ok" => q = << >>)
  OBVIOUS
<1>2. st = "run" => q # << >> /\ 0 < Len(q[1])
  <2>1. SUFFICES ASSUME q # << >> PROVE 0 < Len(q[1])
    OBVIOUS
  <2>2. 1 \in DOMAIN q /\ q[1] \in Seq(Units) /\ q[1] # << >>
    BY <2>1
  <2> QED
    BY <2>2, EmptySeq
<1>3. NextBatch(task, q, outs)
        = [queue |-> q, done |-> 0, calls |-> 0, owed |-> 0, outs |-> outs, st |-> st]
  BY DEF NextBatch
<1> HIDE DEF st
<1>4. TaskOK([queue |-> q, done |-> 0, calls |-> 0, owed |-> 0, outs |-> outs, st |-> st])
  BY <1>1, <1>2, TaskMade
<1> QED
  BY <1>3, <1>4

\* What is left of a queue of batches.
LEMMA QueueRest ==
  ASSUME NEW q \in Seq(Seq(Units)), \A k \in DOMAIN q : q[k] # << >>, q # << >>
  PROVE  /\ Tail(q) \in Seq(Seq(Units)) /\ \A k \in DOMAIN Tail(q) : Tail(q)[k] # << >>
         /\ \A k \in DOMAIN Tail(q) : k + 1 \in DOMAIN q /\ Tail(q)[k] = q[k + 1]
         /\ DOMAIN Tail(q) = 1..(Len(q) - 1) /\ Len(q) \in Nat /\ Len(q) >= 1
<1>1. /\ Tail(q) \in Seq(Seq(Units)) /\ Len(Tail(q)) = Len(q) - 1
      /\ \A i \in 1..Len(Tail(q)) : Tail(q)[i] = q[i + 1]
  BY HeadTailProperties
<1>2. Len(q) \in Nat /\ Len(q) >= 1 /\ DOMAIN q = 1..Len(q)
  BY EmptySeq
<1>3. DOMAIN Tail(q) = 1..(Len(q) - 1)
  BY <1>1
<1>4. \A k \in DOMAIN Tail(q) : k + 1 \in DOMAIN q /\ Tail(q)[k] = q[k + 1]
  BY <1>1, <1>2, <1>3
<1> QED
  BY <1>1, <1>2, <1>3, <1>4

\* A batch cut in two.
LEMMA Halves ==
  ASSUME NEW batch \in Seq(Units), Len(batch) > 1
  PROVE  LET half == Len(batch) \div 2
             a == SubSeq(batch, 1, half)
             b == SubSeq(batch, half + 1, Len(batch))
         IN  /\ a \in Seq(Units) /\ b \in Seq(Units) /\ a # << >> /\ b # << >>
             /\ half \in Nat /\ DOMAIN a = 1..half /\ DOMAIN b = 1..(Len(batch) - half)
             /\ \A i \in DOMAIN a : a[i] = batch[i]
             /\ \A i \in DOMAIN b : b[i] = batch[half + i]
             /\ 1 <= half /\ half < Len(batch) /\ Len(batch) \in Nat
<1> DEFINE n == Len(batch)
           half == n \div 2
<1>1. n \in Nat /\ half \in Nat /\ 1 <= half /\ half < n /\ \A i \in 1..n : batch[i] \in Units
  OBVIOUS
<1> HIDE DEF n, half
<1> DEFINE a == SubSeq(batch, 1, half)
           b == SubSeq(batch, half + 1, n)
<1>2. /\ a \in Seq(Units) /\ Len(a) = half /\ \A i \in 1..half : a[i] = batch[i]
  <2>1. 1 \in Int /\ half \in Int /\ \A i \in 1..half : batch[i] \in Units
    BY <1>1
  <2>2. a \in Seq(Units) /\ Len(a) = (IF 1 <= half THEN half - 1 + 1 ELSE 0)
        /\ \A i \in 1..(half - 1 + 1) : a[i] = batch[1 + i - 1]
    BY <2>1, SubSeqProperties
  <2> QED
    BY <1>1, <2>2
<1>3. /\ b \in Seq(Units) /\ Len(b) = n - half /\ \A i \in 1..(n - half) : b[i] = batch[half + i]
  <2>1. half + 1 \in Int /\ n \in Int /\ \A i \in (half + 1)..n : batch[i] \in Units
    BY <1>1
  <2>2. b \in Seq(Units) /\ Len(b) = (IF half + 1 <= n THEN n - (half + 1) + 1 ELSE 0)
        /\ \A i \in 1..(n - (half + 1) + 1) : b[i] = batch[(half + 1) + i - 1]
    BY <2>1, SubSeqProperties
  <2>3. n - (half + 1) + 1 = n - half /\ half + 1 <= n
    BY <1>1
  <2>4. \A i \in 1..(n - half) : (half + 1) + i - 1 = half + i
    BY <1>1
  <2> QED
    BY <2>2, <2>3, <2>4
<1> HIDE DEF a, b
<1>4. /\ DOMAIN a = 1..half /\ DOMAIN b = 1..(n - half) /\ a # << >> /\ b # << >>
  BY <1>1, <1>2, <1>3
<1> QED
  BY <1>1, <1>2, <1>3, <1>4 DEF a, b, n, half

\* A queue with a batch cut in two at its head.
LEMMA SplitQueue ==
  ASSUME NEW q \in Seq(Seq(Units)), \A k \in DOMAIN q : q[k] # << >>, q # << >>,
         NEW a \in Seq(Units), a # << >>, NEW b \in Seq(Units), b # << >>,
         NEW s, s = <<a, b>> \o Tail(q)
  PROVE  /\ s \in Seq(Seq(Units)) /\ \A k \in DOMAIN s : s[k] # << >>
         /\ DOMAIN s = 1..(Len(q) + 1) /\ s[1] = a /\ s[2] = b
         /\ \A k \in DOMAIN s : k > 2 => s[k] = q[k - 1] /\ k - 1 \in DOMAIN q
<1> DEFINE t == Tail(q)
           ab == <<a, b>>
<1>1. /\ t \in Seq(Seq(Units)) /\ (\A k \in DOMAIN t : t[k] # << >>)
      /\ \A k \in DOMAIN t : k + 1 \in DOMAIN q /\ t[k] = q[k + 1]
      /\ DOMAIN t = 1..(Len(q) - 1) /\ Len(q) \in Nat /\ Len(q) >= 1
  BY QueueRest
<1>2. ab \in Seq(Seq(Units)) /\ Len(ab) = 2 /\ ab[1] = a /\ ab[2] = b
  OBVIOUS
<1>0. s = ab \o t
  OBVIOUS
<1> HIDE DEF t, ab
<1>3. Len(t) = Len(q) - 1
  BY <1>1
<1>4. /\ s \in Seq(Seq(Units)) /\ Len(s) = Len(ab) + Len(t)
      /\ \A i \in 1..(Len(ab) + Len(t)) : s[i] = IF i <= Len(ab) THEN ab[i] ELSE t[i - Len(ab)]
  <2>1. ASSUME NEW S, NEW x \in Seq(S), NEW y \in Seq(S)
        PROVE  /\ x \o y \in Seq(S) /\ Len(x \o y) = Len(x) + Len(y)
               /\ \A i \in 1..(Len(x) + Len(y)) :
                    (x \o y)[i] = IF i <= Len(x) THEN x[i] ELSE y[i - Len(x)]
    BY ConcatProperties
  <2>2. ab \in Seq(Seq(Units)) /\ t \in Seq(Seq(Units))
    BY <1>1, <1>2
  <2> QED
    BY ONLY <1>0, <2>1, <2>2
<1> DEFINE n == Len(q)
<1>5. /\ n \in Nat /\ n >= 1 /\ Len(s) = n + 1 /\ DOMAIN t = 1..(n - 1)
      /\ \A i \in 1..(n + 1) : s[i] = IF i <= 2 THEN ab[i] ELSE t[i - 2]
  BY <1>1, <1>2, <1>3, <1>4
<1> HIDE DEF n
<1>6. /\ DOMAIN s = 1..(n + 1) /\ s[1] = a /\ s[2] = b
  <2>1. 1 \in 1..(n + 1) /\ 2 \in 1..(n + 1)
    BY <1>5
  <2>2. s[1] = ab[1] /\ s[2] = ab[2]
    BY <1>5, <2>1
  <2> QED
    BY <1>2, <1>4, <1>5, <2>2
<1>7. \A k \in DOMAIN s : k > 2 => s[k] = q[k - 1] /\ k - 1 \in DOMAIN q
  <2>1. SUFFICES ASSUME NEW k \in 1..(n + 1), k > 2
                 PROVE  s[k] = q[k - 1] /\ k - 1 \in DOMAIN q
    BY <1>6
  <2>2. k - 2 \in DOMAIN t /\ s[k] = t[k - 2] /\ (k - 2) + 1 = k - 1
    BY <1>5, <2>1
  <2>3. (k - 2) + 1 \in DOMAIN q /\ t[k - 2] = q[(k - 2) + 1]
    BY <1>1, <2>2
  <2> QED
    BY <2>2, <2>3
<1>8. \A k \in DOMAIN s : s[k] # << >>
  <2>1. SUFFICES ASSUME NEW k \in 1..(n + 1)
                 PROVE  s[k] # << >>
    BY <1>6
  <2>2. k = 1 \/ k = 2 \/ k > 2
    BY <1>5, SMTT(30)
  <2>3. CASE k > 2
    BY <1>6, <1>7, <2>1, <2>3
  <2> QED
    BY <1>6, <2>2, <2>3
<1> QED
  BY <1>4, <1>6, <1>7, <1>8 DEF n

\* A method is durable: the task goes on with the next one, or the next batch.
LEMMA ItemTyped ==
  ASSUME StageInv, NEW i \in DOMAIN tasks, NEW r \in BOOLEAN, ItemComplete(i, r)
  PROVE  RunTyped' /\ JNext
<1> DEFINE x == tasks[i]
           unit == x.queue[1][x.done + 1]
           last == [unit |-> unit, retry |-> r, persisted |-> TRUE]
           outs == Append(x.outs, last)
           t == IF x.done + 1 = Len(x.queue[1])
                THEN NextBatch(x, Tail(x.queue), outs)
                ELSE [x EXCEPT !.done = @ + 1, !.outs = outs]
<1>1. RunTyped /\ TaskOK(x) /\ x.st = "run"
  BY TaskParts DEF StageInv, ItemComplete, Working
<1>2. Record(unit, 0, r) /\ TaskStep(i, t)
  BY DEF ItemComplete
<1>3. unit \in Units /\ x.queue[1] \in Seq(Units) /\ x.queue # << >>
      /\ x.done \in Nat /\ x.done < Len(x.queue[1])
  BY <1>1, TaskParts
<1>4. JNext
  <2>1. 0 \in Costs \cup {0}
    OBVIOUS
  <2> QED
    BY <1>2, <1>3, <2>1 DEF JNext
<1>5. store' # None
  <2>1. 0 \in Costs \cup {0} /\ unit \in Units \cup {None}
    BY <1>3
  <2> QED
    BY <1>2, <1>3, <2>1, StoreKept
<1>6. outs \in Seq(Out)
  <2>1. last \in Out /\ x.outs \in Seq(Out)
    BY <1>1, <1>3 DEF TaskOK, Out
  <2> HIDE DEF last, x
  <2> QED
    BY <2>1
<1>7. TaskOK(t)
  <2>1. PICK q, d, c, o, u :
          x = [queue |-> q, done |-> d, calls |-> c, owed |-> o, outs |-> u, st |-> "run"]
    BY <1>1 DEF TaskOK
  <2>2. /\ q \in Seq(Seq(Units)) /\ (\A k \in DOMAIN q : q[k] # << >>)
        /\ d \in Nat /\ c \in Nat /\ o \in Nat /\ q # << >> /\ d < Len(q[1])
        /\ x.queue = q /\ x.done = d
    BY <1>1, <1>3, <2>1 DEF TaskOK
  <2> HIDE DEF x, outs
  <2>3. CASE d + 1 = Len(q[1])
    <3>1. t = NextBatch(x, Tail(q), outs)
      BY <2>2, <2>3
    <3>2. Tail(q) \in Seq(Seq(Units)) /\ \A k \in DOMAIN Tail(q) : Tail(q)[k] # << >>
      BY <2>2, QueueRest
    <3> DEFINE rest == Tail(q)
    <3> HIDE DEF rest
    <3>3. TaskOK(NextBatch(x, rest, outs))
      BY <1>6, <3>2, NextBatchOK DEF rest
    <3> QED
      BY <3>1, <3>3 DEF rest
  <2>4. CASE d + 1 # Len(q[1])
    <3>1. t = [x EXCEPT !.done = d + 1, !.outs = outs]
      BY <2>2, <2>4
    <3>2. ASSUME NEW k
          PROVE  [x EXCEPT !.done = k, !.outs = outs]
                   = [queue |-> q, done |-> k, calls |-> c, owed |-> o, outs |-> outs, st |-> "run"]
      <4> DEFINE y == [x EXCEPT !.done = k]
      <4>1. y = [queue |-> q, done |-> k, calls |-> c, owed |-> o, outs |-> u, st |-> "run"]
        BY <2>1
      <4>2. [x EXCEPT !.done = k, !.outs = outs] = [y EXCEPT !.outs = outs]
        OBVIOUS
      <4> HIDE DEF y
      <4> QED
        BY <4>1, <4>2
    <3>3. t = [queue |-> q, done |-> d + 1, calls |-> c, owed |-> o, outs |-> outs, st |-> "run"]
      BY <3>1, <3>2
    <3>4. d + 1 \in Nat /\ d + 1 < Len(q[1])
      <4>1. Len(q[1]) \in Nat
        BY <1>3, <2>2
      <4> QED
        BY <2>2, <2>4, <4>1
    <3>5. TaskOK([queue |-> q, done |-> d + 1, calls |-> c, owed |-> o, outs |-> outs, st |-> "run"])
      BY <1>6, <2>2, <3>4, TaskMade
    <3> QED
      BY <3>3, <3>5
  <2> QED
    BY <2>3, <2>4
<1> HIDE DEF t
<1>8. BudgetTyped'
  BY <1>1, <1>2 DEF TaskStep, RunTyped, BudgetTyped
<1> QED
  BY <1>1, <1>2, <1>4, <1>5, <1>7, <1>8, TaskStepTyped DEF TaskStep

\* A batch that fails is split, given up, or fails its task.
LEMMA BatchFailsTyped ==
  ASSUME StageInv, NEW i \in DOMAIN tasks, BatchFails(i)
  PROVE  RunTyped' /\ UNCHANGED jvars
<1> DEFINE x == tasks[i]
           batch == x.queue[1]
           half == Len(batch) \div 2
           a == SubSeq(batch, 1, half)
           b == SubSeq(batch, half + 1, Len(batch))
           last == [unit |-> batch[1], retry |-> TRUE, persisted |-> FALSE]
<1>1. RunTyped /\ TaskOK(x) /\ x.st = "run" /\ store # None
  BY TaskParts DEF StageInv, BatchFails, Working
<1>2. UNCHANGED jvars /\ store' # None
  BY <1>1 DEF BatchFails, jvars
<1>3. /\ batch \in Seq(Units) /\ x.queue # << >> /\ x.outs \in Seq(Out)
      /\ x.queue \in Seq(Seq(Units)) /\ (\A k \in DOMAIN x.queue : x.queue[k] # << >>)
  BY <1>1, TaskParts DEF TaskOK
<1>4. PICK t : TaskStep(i, t) /\ TaskOK(t)
  <2>1. CASE Len(batch) > 1 /\ TaskStep(i, NextBatch(x, <<a, b>> \o Tail(x.queue), x.outs))
    <3>1. a \in Seq(Units) /\ b \in Seq(Units) /\ a # << >> /\ b # << >>
      BY <1>3, <2>1, Halves
    <3> HIDE DEF a, b
    <3>2. LET s == <<a, b>> \o Tail(x.queue)
          IN  s \in Seq(Seq(Units)) /\ \A k \in DOMAIN s : s[k] # << >>
      <4> DEFINE q == x.queue
                 s == <<a, b>> \o Tail(q)
      <4>1. q \in Seq(Seq(Units)) /\ (\A k \in DOMAIN q : q[k] # << >>) /\ q # << >>
        BY <1>3
      <4> HIDE DEF q, x, batch, half
      <4>2. s = <<a, b>> \o Tail(q)
        OBVIOUS
      <4> HIDE DEF s
      <4>3. s \in Seq(Seq(Units)) /\ \A k \in DOMAIN s : s[k] # << >>
        BY <3>1, <4>1, <4>2, SplitQueue, SMTT(30)
      <4> QED
        BY <4>3 DEF s, q
    <3>3. TaskOK(NextBatch(x, <<a, b>> \o Tail(x.queue), x.outs))
      BY <1>3, <3>2, NextBatchOK
    <3> QED
      BY <2>1, <3>3
  <2>2. CASE Len(batch) = 1 /\ TaskStep(i, NextBatch(x, Tail(x.queue), Append(x.outs, last)))
    <3>1. batch[1] \in Units
      <4>1. batch \in Seq(Units) /\ Len(batch) = 1
        BY <1>3, <2>2
      <4> HIDE DEF batch
      <4> QED
        BY <4>1, ElementOfSeq
    <3>2. last \in Out
      BY <3>1 DEF Out
    <3> HIDE DEF last, batch
    <3>3. Append(x.outs, last) \in Seq(Out)
      BY <1>3, <3>2
    <3>4. Tail(x.queue) \in Seq(Seq(Units)) /\ \A k \in DOMAIN Tail(x.queue) : Tail(x.queue)[k] # << >>
      BY <1>3, QueueRest
    <3>5. TaskOK(NextBatch(x, Tail(x.queue), Append(x.outs, last)))
      BY <3>3, <3>4, NextBatchOK
    <3> QED
      BY <2>2, <3>5
  <2>3. CASE TaskStep(i, [x EXCEPT !.st = "err"])
    <3>1. TaskOK([x EXCEPT !.st = "err"])
      BY <1>1, TaskChanged
    <3> QED
      BY <2>3, <3>1
  <2> QED
    BY <2>1, <2>2, <2>3 DEF BatchFails
<1>5. BudgetTyped'
  BY <1>1, <1>4 DEF TaskStep, RunTyped, BudgetTyped
<1> QED
  BY <1>1, <1>2, <1>4, <1>5, TaskStepTyped DEF TaskStep

\* A task reviews the methods of its batch.
LEMMA NewTaskOK ==
  ASSUME BatchesTyped, NEW i \in DOMAIN batches
  PROVE  TaskOK(NewTask(batches[i]))
<1> DEFINE batch == batches[i]
           units == [k \in DOMAIN batch |-> batch[k].unit]
<1>1. batch \in Seq(Jobs) /\ batch # << >>
  BY DEF BatchesTyped, Filled
<1> HIDE DEF batch
<1>2. units \in Seq(Units) /\ units # << >> /\ Len(units) = Len(batch) /\ Len(batch) > 0
  <2>1. Len(batch) \in Nat /\ Len(batch) > 0 /\ DOMAIN batch = 1..Len(batch)
        /\ \A k \in 1..Len(batch) : batch[k] \in Jobs
    BY <1>1, EmptySeq
  <2>2. \A k \in 1..Len(batch) : batch[k].unit \in Units
    BY <2>1, JobUnits
  <2>3. units = [k \in 1..Len(batch) |-> batch[k].unit]
    BY <2>1
  <2> HIDE DEF units
  <2> QED
    BY <2>1, <2>2, <2>3
<1> HIDE DEF units
<1>3. /\ <<units>> \in Seq(Seq(Units)) /\ (\A k \in DOMAIN <<units>> : <<units>>[k] # << >>)
      /\ <<units>> # << >> /\ <<units>>[1] = units
  BY <1>2
<1> DEFINE q == <<units>>
<1> HIDE DEF q
<1>4. TaskOK([queue |-> q, done |-> 0, calls |-> 0, owed |-> 0, outs |-> << >>, st |-> "run"])
  <2>1. q \in Seq(Seq(Units)) /\ (\A k \in DOMAIN q : q[k] # << >>) /\ q # << >> /\ 0 < Len(q[1])
    BY <1>2, <1>3 DEF q
  <2>2. 0 \in Nat /\ << >> \in Seq(Out)
    OBVIOUS
  <2> QED
    BY <2>1, <2>2, TaskMade
<1>5. NewTask(batch)
        = [queue |-> q, done |-> 0, calls |-> 0, owed |-> 0, outs |-> << >>, st |-> "run"]
  BY DEF NewTask, q, units
<1> QED
  BY <1>4, <1>5 DEF batch

\* A task is spawned.
LEMMA SpawnTyped ==
  ASSUME RunTyped, NEW i \in pending, StartTask(i)
  PROVE  RunTyped' /\ UNCHANGED jvars
<1>1. /\ pending' = pending \ {i} /\ tasks' = Spawn(i)
      /\ UNCHANGED jvars
      /\ UNCHANGED <<proc, scan, todo, copying, fresh, batches, joined, joinedOuts, budget>>
      /\ proc = "running"
  BY DEF StartTask, AtLoop
<1>2. i \in DOMAIN batches /\ DOMAIN tasks \subseteq DOMAIN batches
      /\ (\A j \in DOMAIN tasks : TaskOK(tasks[j])) /\ TaskOK(NewTask(batches[i]))
  BY NewTaskOK DEF RunTyped, BatchesTyped, TasksTyped
<1>3. /\ DOMAIN tasks' = DOMAIN tasks \cup {i}
      /\ \A j \in DOMAIN tasks' : tasks'[j] = NewTask(batches[i]) \/ (j \in DOMAIN tasks /\ tasks'[j] = tasks[j])
  <2> DEFINE new == NewTask(batches[i])
  <2>1. tasks' = [j \in DOMAIN tasks \cup {i} |-> IF j = i THEN new ELSE tasks[j]]
    BY <1>1 DEF Spawn
  <2> HIDE DEF new
  <2>2. DOMAIN tasks' = DOMAIN tasks \cup {i}
    BY <2>1
  <2>3. \A j \in DOMAIN tasks' : tasks'[j] = new \/ (j \in DOMAIN tasks /\ tasks'[j] = tasks[j])
    BY <2>1, <2>2
  <2> QED
    BY <2>2, <2>3 DEF new
<1>4. \A j \in DOMAIN tasks' : TaskOK(tasks'[j])
  BY <1>2, <1>3
<1>5. JoinedTyped' /\ BudgetTyped' /\ store' # None
  BY <1>1 DEF RunTyped, ProcTyped, Ended, JoinedTyped, BudgetTyped, jvars
<1> QED
  BY <1>1, <1>2, <1>3, <1>4, <1>5, ActiveTyped

\* A task is joined, or dropped after an abort.
LEMMA LeaveTyped ==
  ASSUME RunTyped, NEW i \in DOMAIN tasks,
         JoinOk(i) \/ JoinErr(i) \/ JoinPanic(i) \/ Drain(i)
  PROVE  RunTyped' /\ UNCHANGED jvars
<1>1. /\ tasks' = [j \in DOMAIN tasks \ {i} |-> tasks[j]] /\ UNCHANGED jvars
      /\ UNCHANGED <<proc, scan, todo, copying, fresh, batches, pending, budget>>
      /\ proc \in {"running", "aborting"}
  BY DEF JoinOk, JoinErr, JoinPanic, Drain, Joining, AtLoop
<1>2. \/ UNCHANGED <<joined, joinedOuts>>
      \/ joined' = i /\ joinedOuts' = tasks[i].outs /\ proc = "running"
  BY DEF JoinOk, JoinErr, JoinPanic, Drain, Joining, AtLoop
<1>3. i \in DOMAIN batches /\ DOMAIN tasks \subseteq DOMAIN batches
      /\ \A j \in DOMAIN tasks : TaskOK(tasks[j])
  BY DEF RunTyped, TasksTyped
<1>4. DOMAIN tasks' \subseteq DOMAIN batches /\ \A j \in DOMAIN tasks' : TaskOK(tasks'[j])
  BY <1>1, <1>3
<1>5. tasks[i].outs \in Seq(Out)
  BY <1>3 DEF TaskOK
<1>6. JoinedTyped'
  BY <1>1, <1>2, <1>3, <1>5 DEF RunTyped, JoinedTyped
<1>7. BudgetTyped' /\ store' # None
  BY <1>1 DEF RunTyped, ProcTyped, Ended, BudgetTyped, jvars
<1> QED
  BY <1>1, <1>4, <1>6, <1>7, ActiveTyped

\* The next outcome that no task has persisted.
LEMMA NextUnpersisted ==
  ASSUME RunTyped, Unpersisted # {}
  PROVE  Min(Unpersisted) \in DOMAIN joinedOuts /\ joinedOuts[Min(Unpersisted)] \in Out
<1>1. joinedOuts \in Seq(Out)
  BY DEF RunTyped, JoinedTyped
<1>2. Unpersisted \subseteq DOMAIN joinedOuts /\ DOMAIN joinedOuts = 1..Len(joinedOuts)
      /\ \A k \in DOMAIN joinedOuts : joinedOuts[k] \in Out
  BY <1>1 DEF Unpersisted
<1>3. Unpersisted \subseteq Nat
  BY <1>2
<1> QED
  BY <1>2, <1>3, ChunkFold!LeastNumber DEF Min

\* on_completed persists an outcome, or fails to.
LEMMA PersistTyped ==
  ASSUME StageInv, PersistOutcome \/ PersistFails
  PROVE  RunTyped' /\ JNext
<1> DEFINE k == Min(Unpersisted)
           out == joinedOuts[k]
<1>1. RunTyped /\ proc = "running" /\ joined # 0 /\ Unpersisted # {} /\ store # None
  BY DEF StageInv, RunTyped, ProcTyped, Ended, PersistOutcome, PersistFails
<1>2. k \in DOMAIN joinedOuts /\ out \in Out
  BY <1>1, NextUnpersisted
<1>3. out.unit \in Units /\ out.retry \in BOOLEAN /\ 0 \in Costs \cup {0}
  BY <1>2 DEF Out
<1>4. /\ UNCHANGED <<scan, todo, copying, fresh, batches, pending, tasks, budget>>
      /\ proc' \in {"running", "aborting"} /\ BudgetTyped'
  BY <1>1 DEF PersistOutcome, PersistFails, RunTyped, BudgetTyped
<1>5. CASE PersistOutcome
  <2>1. /\ Record(out.unit, 0, out.retry)
        /\ joinedOuts' = [joinedOuts EXCEPT ![k].persisted = TRUE]
        /\ UNCHANGED <<proc, joined>>
    BY <1>5 DEF PersistOutcome
  <2>2. JNext
    BY <1>3, <2>1 DEF JNext
  <2>3. store' # None
    BY <1>3, <2>1, StoreKept
  <2>4. joinedOuts' \in Seq(Out)
    <3> DEFINE new == [out EXCEPT !.persisted = TRUE]
    <3>1. new \in Out
      BY <1>2 DEF Out
    <3>2. joinedOuts' = [joinedOuts EXCEPT ![k] = new]
      BY <2>1
    <3>3. joinedOuts \in Seq(Out)
      BY <1>1 DEF RunTyped, JoinedTyped
    <3>4. k \in 1..Len(joinedOuts)
      BY <1>2, <3>3
    <3> HIDE DEF new, k
    <3>5. [joinedOuts EXCEPT ![k] = new] \in Seq(Out)
      BY <3>1, <3>3, <3>4, ExceptSeq
    <3> QED
      BY <3>2, <3>5
  <2>5. JoinedTyped'
    BY <1>1, <1>4, <2>1, <2>4 DEF RunTyped, JoinedTyped
  <2>6. TasksTyped
    BY <1>1 DEF RunTyped
  <2> QED
    BY <1>1, <1>4, <2>2, <2>3, <2>5, <2>6, ActiveTyped DEF TasksTyped
<1>6. CASE PersistFails
  <2>1. RecordFails(Entry("unit", out.unit, 0, out.retry))
        /\ joined' = 0 /\ joinedOuts' = << >>
    BY <1>6 DEF PersistFails
  <2>2. JNext
    BY <1>3, <2>1 DEF JNext
  <2>3. store' # None
    BY <1>1, <2>1 DEF RecordFails
  <2>4. JoinedTyped'
    <3>1. << >> \in Seq(Out)
      OBVIOUS
    <3> QED
      BY <2>1, <3>1 DEF JoinedTyped
  <2>6. TasksTyped
    BY <1>1 DEF RunTyped
  <2> QED
    BY <1>1, <1>4, <2>2, <2>3, <2>4, <2>6, ActiveTyped DEF TasksTyped
<1> QED
  BY <1>5, <1>6

\* A batch is pushed on completed.
LEMMA PushTyped ==
  ASSUME RunTyped, PushCompleted
  PROVE  RunTyped' /\ UNCHANGED jvars
<1>1. /\ UNCHANGED jvars /\ joined' = 0 /\ joinedOuts' = << >> /\ proc = "running"
      /\ UNCHANGED <<proc, scan, todo, copying, fresh, batches, pending, tasks, budget>>
  BY DEF PushCompleted
<1>2. << >> \in Seq(Out)
  OBVIOUS
<1>3. JoinedTyped' /\ BudgetTyped' /\ store' # None
  BY <1>1, <1>2 DEF RunTyped, ProcTyped, Ended, JoinedTyped, BudgetTyped, jvars
<1>4. TasksTyped
  BY DEF RunTyped
<1> QED
  BY <1>1, <1>3, <1>4, ActiveTyped DEF TasksTyped

(***************************************************************************)
(* Every step of the stage keeps what a run needs, and is a step of the    *)
(* journal or leaves it alone.                                             *)
(***************************************************************************)
LEMMA NextStage == StageInv /\ [SNext]_svars => StageInv' /\ [JNext]_jvars
<1> SUFFICES ASSUME StageInv, [SNext]_svars
             PROVE  RunTyped' /\ [JNext]_jvars
  BY NextJInv, NextTypes DEF StageInv
<1>0. RunTyped
  BY DEF StageInv
<1>1. ASSUME NEW s \in Scans, NEW limit \in Limits, StartScan(s, limit)
      PROVE  RunTyped' /\ [JNext]_jvars
  BY <1>1, StartTyped
<1>2. ASSUME NEW s \in Scans, StartScanFails(s)
      PROVE  RunTyped' /\ [JNext]_jvars
  <2>1. None \in Limits \cup {None}
    OBVIOUS
  <2> QED
    BY <1>2, <2>1, StartTyped
<1>3. CASE Group
  BY <1>3, GroupTyped DEF Group
<1>4. CASE Die
  BY <1>4, DieTyped
<1>5. CASE RunStep
  <2>1. CASE ReuseOwn \/ ReuseAcross \/ CopyAcross \/ NeedsReview
    BY <2>1, ReuseTyped
  <2>2. CASE ReuseFails \/ Reject
    BY <2>2, RejectTyped
  <2>3. ASSUME NEW i \in DOMAIN tasks, (\E c \in Costs : ModelCall(i, c)) \/ Charge(i)
        PROVE  RunTyped' /\ [JNext]_jvars
    BY <2>3, CallTyped
  <2>4. ASSUME NEW i \in DOMAIN tasks,
               CallbackFails(i) \/ \E st \in {"err", "panic"} : TaskFails(i, st)
        PROVE  RunTyped' /\ [JNext]_jvars
    BY <2>4, TaskFailsTyped
  <2>5. ASSUME NEW i \in DOMAIN tasks, NEW r \in BOOLEAN, ItemComplete(i, r)
        PROVE  RunTyped' /\ [JNext]_jvars
    BY <2>5, ItemTyped
  <2>6. ASSUME NEW i \in DOMAIN tasks, BatchFails(i)
        PROVE  RunTyped' /\ [JNext]_jvars
    BY <2>6, BatchFailsTyped
  <2>7. ASSUME NEW i \in DOMAIN tasks, JoinOk(i) \/ JoinErr(i) \/ JoinPanic(i) \/ Drain(i)
        PROVE  RunTyped' /\ [JNext]_jvars
    BY <1>0, <2>7, LeaveTyped
  <2>8. ASSUME NEW i \in pending, StartTask(i)
        PROVE  RunTyped' /\ [JNext]_jvars
    BY <1>0, <2>8, SpawnTyped
  <2>9. CASE PersistOutcome \/ PersistFails
    BY <2>9, PersistTyped
  <2>10. CASE PushCompleted
    BY <1>0, <2>10, PushTyped
  <2>11. CASE Finish
    BY <2>11, FinishTyped
  <2> QED
    BY <1>5, <2>1, <2>2, <2>3, <2>4, <2>5, <2>6, <2>7, <2>8, <2>9, <2>10, <2>11 DEF RunStep
<1>6. CASE UNCHANGED svars
  <2>1. UNCHANGED jvars
    BY <1>6 DEF svars
  <2>2. UNCHANGED <<store, proc, scan, todo, copying, fresh, batches, pending, tasks, activeKeys,
                    joined, joinedOuts, completed, firstError, budget>>
    BY <1>6 DEF svars, jvars, runVars
  <2>3. ProcTyped' /\ QueueTyped'
    BY <1>0, <2>2 DEF RunTyped, ProcTyped, QueueTyped, NextUnit
  <2> QED
    BY <1>0, <2>1, <2>2, <2>3, SameRunTyped
<1> QED
  BY <1>1, <1>2, <1>3, <1>4, <1>5, <1>6 DEF SNext

(***************************************************************************)
(* What a run knows is well formed whatever the order of its steps.        *)
(***************************************************************************)
THEOREM StageInvariant == SSpec => []StageInv
  BY InitStage, NextStage, PTL DEF SSpec

(***************************************************************************)
(* The stage writes its journal only in ways ReviewJournal describes, so   *)
(* what is proved of the journal holds of it under the stage: for example  *)
(* that crashes alone never make it unreadable.                            *)
(***************************************************************************)
THEOREM StageIsAJournal == SSpec => JournalSpec
<1>1. SInit => JInit
  BY DEF SInit
<1> QED
  BY <1>1, StageInvariant, NextStage, PTL DEF SSpec, JournalSpec

THEOREM StageCrashSafe == SSpec => []CrashSafe
  BY StageIsAJournal, JournalCrashSafe, PTL

-----------------------------------------------------------------------------
(* The work of a run.                                                      *)

UnitsOf(seq)  == {seq[k].unit : k \in DOMAIN seq}
Distinct(seq) == \A k, l \in DOMAIN seq : seq[k].unit = seq[l].unit => k = l

\* A task has an outcome of some of its methods, and the others ahead of it:
\* none is lost, and none is in two places.
Shares(q, d, outs, units) ==
  /\ \A k, m \in DOMAIN q : \A l \in DOMAIN q[k], n \in DOMAIN q[m] :
       Ahead(d, k, l) /\ Ahead(d, m, n) /\ q[k][l] = q[m][n] => k = m /\ l = n
  /\ Distinct(outs)
  /\ LeftIn(q, d) \cap UnitsOf(outs) = {}
  /\ LeftIn(q, d) \cup UnitsOf(outs) = units

Owns(task, batch) == Shares(task.queue, task.done, task.outs, UnitsOf(batch))

Afterwards == {"running", "aborting", "paused", "done", "failed"}

\* Every method that is not waiting for a review has one outcome.
QueueWork ==
  proc = "reuse" =>
    /\ Distinct(todo) /\ Distinct(fresh)
    /\ UnitsOf(todo) \cap UnitsOf(fresh) = {}
    /\ UnitsOf(todo) \cup UnitsOf(fresh) \subseteq JobSet(scan)
    /\ \A u \in Units : Len(outcomes[u]) =
         IF u \in JobSet(scan) \ (UnitsOf(todo) \cup UnitsOf(fresh)) THEN 1 ELSE 0

Reported ==
  {u \in JobSet(scan) : \A k \in DOMAIN batches : u \in UnitsOf(batches[k]) => k \in completed}

\* A batch is in one place, and lost only behind an error.
BatchPlaces ==
  /\ completed \subseteq DOMAIN batches
  /\ pending \cap DOMAIN tasks = {} /\ pending \cap completed = {}
  /\ DOMAIN tasks \cap completed = {}
  /\ joined \notin pending /\ joined \notin DOMAIN tasks /\ joined \notin completed
  /\ ~firstError /\ proc \notin {"aborting", "failed"} =>
       DOMAIN batches \subseteq pending \cup DOMAIN tasks \cup completed \cup {joined}

BatchWork ==
  proc \in Afterwards =>
    /\ Apart(batches) /\ UnitsIn(batches) \subseteq JobSet(scan)
    /\ BatchPlaces
    /\ \A i \in DOMAIN tasks : Owns(tasks[i], batches[i])
    /\ joined # 0 => Distinct(joinedOuts) /\ UnitsOf(joinedOuts) = UnitsOf(batches[joined])
    /\ \A u \in Units : Len(outcomes[u]) = IF u \in Reported THEN 1 ELSE 0

WorkInv ==
  /\ outcomes \in [Units -> Seq(BOOLEAN)]
  /\ \A u \in Units : Len(outcomes[u]) \in {0, 1}
  /\ QueueWork /\ BatchWork

\* One job or outcome more.
LEMMA AppendedOut ==
  ASSUME NEW S, NEW outs \in Seq(S), NEW o \in S
  PROVE  /\ UnitsOf(Append(outs, o)) = UnitsOf(outs) \cup {o.unit}
         /\ Distinct(outs) /\ o.unit \notin UnitsOf(outs) => Distinct(Append(outs, o))
<1> DEFINE all == Append(outs, o)
           n == Len(outs)
<1>1. /\ n \in Nat /\ DOMAIN outs = 1..n /\ DOMAIN all = 1..(n + 1)
      /\ \A k \in 1..n : all[k] = outs[k]
      /\ all[n + 1] = o
  BY AppendProperties
<1> HIDE DEF all, n
<1>2. /\ \A k \in DOMAIN outs : k \in DOMAIN all /\ all[k] = outs[k]
      /\ n + 1 \in DOMAIN all /\ n + 1 \notin DOMAIN outs /\ all[n + 1] = o
      /\ \A k \in DOMAIN all : k = n + 1 \/ k \in DOMAIN outs
  BY <1>1
<1>3. UnitsOf(all) = UnitsOf(outs) \cup {o.unit}
  BY <1>2 DEF UnitsOf
<1>4. ASSUME Distinct(outs), o.unit \notin UnitsOf(outs)
      PROVE  Distinct(all)
  BY <1>2, <1>4 DEF Distinct, UnitsOf
<1> QED
  BY <1>3, <1>4 DEF all

\* The methods ahead of a task, after one of them is done.
LEMMA LeftAfterOne ==
  ASSUME NEW q \in Seq(Seq(Units)), q # << >>, NEW d \in Nat, d < Len(q[1]),
         NEW outs, NEW units, Shares(q, d, outs, units)
  PROVE  /\ q[1][d + 1] \in LeftIn(q, d) /\ q[1][d + 1] \in Units
         /\ LeftIn(q, d + 1) = LeftIn(q, d) \ {q[1][d + 1]}
<1> DEFINE u == q[1][d + 1]
<1>1. /\ 1 \in DOMAIN q /\ q[1] \in Seq(Units)
      /\ d + 1 \in DOMAIN q[1] /\ u \in Units /\ DOMAIN q \subseteq Nat
      /\ \A k \in DOMAIN q : DOMAIN q[k] \subseteq Nat
  BY EmptySeq
<1>2. Ahead(d, 1, d + 1) /\ ~Ahead(d + 1, 1, d + 1)
  BY DEF Ahead
<1>3. \A k \in DOMAIN q : \A l \in DOMAIN q[k] :
        /\ Ahead(d + 1, k, l) => Ahead(d, k, l)
        /\ Ahead(d, k, l) /\ ~Ahead(d + 1, k, l) => k = 1 /\ l = d + 1
  BY <1>1 DEF Ahead
<1>4. u \in LeftIn(q, d)
  BY <1>1, <1>2 DEF LeftIn
<1>5. \A k \in DOMAIN q : \A l \in DOMAIN q[k] :
        Ahead(d + 1, k, l) => q[k][l] # u
  <2>1. SUFFICES ASSUME NEW k \in DOMAIN q, NEW l \in DOMAIN q[k], Ahead(d + 1, k, l), q[k][l] = u
                 PROVE  FALSE
    OBVIOUS
  <2>2. k = 1 /\ l = d + 1
    BY <1>1, <1>2, <1>3, <2>1 DEF Shares
  <2> QED
    BY <1>2, <2>1, <2>2
<1> HIDE DEF u
<1>6. LeftIn(q, d + 1) \subseteq LeftIn(q, d) \ {u}
  BY <1>3, <1>5 DEF LeftIn
<1>7. LeftIn(q, d) \ {u} \subseteq LeftIn(q, d + 1)
  <2>1. SUFFICES ASSUME NEW k \in DOMAIN q, NEW l \in DOMAIN q[k], Ahead(d, k, l), q[k][l] # u
                 PROVE  q[k][l] \in LeftIn(q, d + 1)
    BY DEF LeftIn
  <2>2. Ahead(d + 1, k, l)
    BY <1>3, <2>1 DEF u
  <2> QED
    BY <2>2 DEF LeftIn
<1> QED
  BY <1>1, <1>4, <1>6, <1>7 DEF u

\* A method gets its outcome.
LEMMA ShareDone ==
  ASSUME NEW q \in Seq(Seq(Units)), q # << >>, NEW d \in Nat, d < Len(q[1]),
         NEW outs \in Seq(Out), NEW o \in Out, o.unit = q[1][d + 1],
         NEW units, Shares(q, d, outs, units)
  PROVE  Shares(q, d + 1, Append(outs, o), units)
<1> DEFINE u == q[1][d + 1]
<1>1. u \in LeftIn(q, d) /\ LeftIn(q, d + 1) = LeftIn(q, d) \ {u}
  BY LeftAfterOne
<1>2. /\ UnitsOf(Append(outs, o)) = UnitsOf(outs) \cup {u}
      /\ Distinct(outs) /\ u \notin UnitsOf(outs) => Distinct(Append(outs, o))
  BY AppendedOut
<1>3. DOMAIN q \subseteq Nat /\ \A k \in DOMAIN q : DOMAIN q[k] \subseteq Nat
  OBVIOUS
<1>4. \A k \in DOMAIN q : \A l \in DOMAIN q[k] : Ahead(d + 1, k, l) => Ahead(d, k, l)
  BY <1>3 DEF Ahead
<1> HIDE DEF u
<1>5. \A k, m \in DOMAIN q : \A l \in DOMAIN q[k], n \in DOMAIN q[m] :
        Ahead(d + 1, k, l) /\ Ahead(d + 1, m, n) /\ q[k][l] = q[m][n] => k = m /\ l = n
  BY <1>4 DEF Shares
<1>6. Distinct(Append(outs, o))
  BY <1>1, <1>2 DEF Shares
<1>7. /\ LeftIn(q, d + 1) \cap UnitsOf(Append(outs, o)) = {}
      /\ LeftIn(q, d + 1) \cup UnitsOf(Append(outs, o)) = units
  BY <1>1, <1>2 DEF Shares
<1> QED
  BY <1>5, <1>6, <1>7 DEF Shares

\* The first batch of a task is done: the task goes on with the others.
LEMMA ShareNext ==
  ASSUME NEW q \in Seq(Seq(Units)), q # << >>, \A k \in DOMAIN q : q[k] # << >>,
         NEW outs, NEW units, Shares(q, Len(q[1]), outs, units)
  PROVE  Shares(Tail(q), 0, outs, units)
<1> DEFINE t == Tail(q)
           d == Len(q[1])
<1>1. /\ DOMAIN t = 1..(Len(q) - 1) /\ Len(q) \in Nat /\ Len(q) >= 1 /\ DOMAIN q = 1..Len(q)
      /\ \A k \in DOMAIN t : k + 1 \in DOMAIN q /\ t[k] = q[k + 1]
  BY QueueRest
<1>2. \A k \in DOMAIN q : DOMAIN q[k] = 1..Len(q[k]) /\ Len(q[k]) \in Nat
  OBVIOUS
<1> HIDE DEF t, d
<1>3. ASSUME NEW k \in DOMAIN t
      PROVE  /\ k + 1 \in DOMAIN q /\ t[k] = q[k + 1]
             /\ \A l \in DOMAIN t[k] : l \in DOMAIN q[k + 1] /\ Ahead(0, k, l) /\ Ahead(d, k + 1, l)
  <2>1. k + 1 \in DOMAIN q /\ t[k] = q[k + 1] /\ k \in Nat /\ k >= 1
    BY <1>1
  <2>2. \A l \in DOMAIN q[k + 1] : l > 0
    BY <1>2, <2>1
  <2> QED
    BY <2>1, <2>2 DEF Ahead
<1>4. ASSUME NEW k \in DOMAIN q, NEW l \in DOMAIN q[k], Ahead(d, k, l)
      PROVE  k - 1 \in DOMAIN t /\ l \in DOMAIN t[k - 1] /\ t[k - 1] = q[k]
  <2>1. k # 1
    <3>1. SUFFICES ASSUME k = 1 PROVE FALSE
      OBVIOUS
    <3>2. l \in 1..d /\ d \in Nat
      BY <1>2, <3>1 DEF d
    <3> QED
      BY <1>4, <3>1, <3>2 DEF Ahead
  <2>2. k - 1 \in DOMAIN t /\ (k - 1) + 1 = k
    BY <1>1, <2>1
  <2>3. t[k - 1] = q[(k - 1) + 1]
    BY <1>1, <2>2
  <2> QED
    BY <2>2, <2>3
<1>5. LeftIn(t, 0) = LeftIn(q, d)
  <2>1. LeftIn(t, 0) \subseteq LeftIn(q, d)
    <3>1. SUFFICES ASSUME NEW k \in DOMAIN t, NEW l \in DOMAIN t[k]
                   PROVE  t[k][l] \in LeftIn(q, d)
      BY DEF LeftIn
    <3> QED
      BY <1>3 DEF LeftIn
  <2>2. LeftIn(q, d) \subseteq LeftIn(t, 0)
    <3>1. SUFFICES ASSUME NEW k \in DOMAIN q, NEW l \in DOMAIN q[k], Ahead(d, k, l)
                   PROVE  q[k][l] \in LeftIn(t, 0)
      BY DEF LeftIn
    <3>2. k - 1 \in DOMAIN t /\ l \in DOMAIN t[k - 1] /\ t[k - 1] = q[k]
      BY <1>4, <3>1
    <3>3. Ahead(0, k - 1, l)
      BY <1>3, <3>2
    <3> QED
      BY <3>2, <3>3 DEF LeftIn
  <2> QED
    BY <2>1, <2>2
<1>6. \A k, m \in DOMAIN t : \A l \in DOMAIN t[k], n \in DOMAIN t[m] :
        t[k][l] = t[m][n] => k = m /\ l = n
  <2>1. SUFFICES ASSUME NEW k \in DOMAIN t, NEW m \in DOMAIN t,
                        NEW l \in DOMAIN t[k], NEW n \in DOMAIN t[m], t[k][l] = t[m][n]
                 PROVE  k = m /\ l = n
    OBVIOUS
  <2>2. /\ k + 1 \in DOMAIN q /\ l \in DOMAIN q[k + 1] /\ Ahead(d, k + 1, l)
        /\ m + 1 \in DOMAIN q /\ n \in DOMAIN q[m + 1] /\ Ahead(d, m + 1, n)
        /\ q[k + 1][l] = q[m + 1][n]
    BY <1>3, <2>1
  <2>3. k + 1 = m + 1 /\ l = n
    BY <2>2 DEF Shares, d
  <2> QED
    BY <1>1, <2>3
<1>7. Distinct(outs) /\ LeftIn(q, d) \cap UnitsOf(outs) = {} /\ LeftIn(q, d) \cup UnitsOf(outs) = units
  BY DEF Shares, d
<1> QED
  BY <1>5, <1>6, <1>7 DEF Shares, t

\* A batch is split: nothing of the task's work changes.
LEMMA ShareSplit ==
  ASSUME NEW q \in Seq(Seq(Units)), q # << >>, NEW s, NEW h \in Nat, NEW n \in Nat,
         1 <= h, h < n, DOMAIN q[1] = 1..n,
         DOMAIN s = 1..(Len(q) + 1), DOMAIN s[1] = 1..h, DOMAIN s[2] = 1..(n - h),
         \A l \in 1..h : s[1][l] = q[1][l],
         \A l \in 1..(n - h) : s[2][l] = q[1][h + l],
         \A k \in DOMAIN s : k > 2 => s[k] = q[k - 1] /\ k - 1 \in DOMAIN q,
         NEW outs, NEW units, Shares(q, 0, outs, units)
  PROVE  Shares(s, 0, outs, units)
<1> DEFINE K(k) == IF k = 1 THEN 1 ELSE k - 1
           L(k, l) == IF k = 2 THEN h + l ELSE l
<1>1. Len(q) \in Nat /\ Len(q) >= 1 /\ DOMAIN q = 1..Len(q)
      /\ \A k \in DOMAIN q : DOMAIN q[k] \subseteq Nat \ {0}
  BY EmptySeq
<1>2. ASSUME NEW k \in DOMAIN s, NEW l \in DOMAIN s[k]
      PROVE  /\ K(k) \in DOMAIN q /\ L(k, l) \in DOMAIN q[K(k)]
             /\ s[k][l] = q[K(k)][L(k, l)] /\ l > 0
  <2>1. k \in Nat /\ (k = 1 \/ k = 2 \/ k > 2)
    BY <1>1
  <2>2. CASE k = 1
    <3>1. l \in 1..h
      BY <1>2, <2>2
    <3> QED
      BY <1>1, <2>2, <3>1
  <2>3. CASE k = 2
    <3>1. l \in 1..(n - h)
      BY <1>2, <2>3
    <3>2. h + l \in 1..n /\ s[2][l] = q[1][h + l]
      BY <3>1, SMTT(30)
    <3> QED
      BY <1>1, <2>3, <3>1, <3>2
  <2>4. CASE k > 2
    <3>1. s[k] = q[k - 1] /\ k - 1 \in DOMAIN q
      BY <2>4
    <3>2. l \in DOMAIN q[k - 1]
      BY <1>2, <3>1
    <3> QED
      BY <1>1, <2>1, <2>4, <3>1, <3>2
  <2> QED
    BY <2>1, <2>2, <2>3, <2>4
<1>3. \A k \in DOMAIN s : \A l \in DOMAIN s[k] : Ahead(0, k, l)
  BY <1>2 DEF Ahead
<1>4. \A k \in DOMAIN q : \A l \in DOMAIN q[k] : Ahead(0, k, l)
  BY <1>1 DEF Ahead
<1>5. ASSUME NEW k \in DOMAIN s, NEW m \in DOMAIN s, NEW l \in DOMAIN s[k], NEW j \in DOMAIN s[m],
             K(k) = K(m), L(k, l) = L(m, j)
      PROVE  k = m /\ l = j
  <2>1. k \in Nat /\ m \in Nat /\ k >= 1 /\ m >= 1
    BY <1>1
  <2>2. /\ k = 1 => l \in 1..h
        /\ k = 2 => l \in 1..(n - h)
        /\ m = 1 => j \in 1..h
        /\ m = 2 => j \in 1..(n - h)
    BY <1>5
  <2>3. CASE k = m
    BY <1>5, <2>2, <2>3
  <2>4. CASE k # m
    <3>1. (k = 1 /\ m = 2) \/ (k = 2 /\ m = 1)
      BY <1>5, <2>1, <2>4, SMTT(30)
    <3> QED
      BY <1>5, <2>2, <3>1, SMTT(30)
  <2> QED
    BY <2>3, <2>4
<1>6. ASSUME NEW k \in DOMAIN q, NEW l \in DOMAIN q[k]
      PROVE  \E m \in DOMAIN s : \E j \in DOMAIN s[m] : s[m][j] = q[k][l]
  <2>1. CASE k = 1
    <3>1. l \in 1..n
      BY <1>6, <2>1
    <3>2. CASE l <= h
      <4>1. 1 \in DOMAIN s /\ l \in DOMAIN s[1] /\ s[1][l] = q[1][l]
        BY <1>1, <3>1, <3>2
      <4> QED
        BY <2>1, <4>1
    <3>3. CASE l > h
      <4>1. l - h \in 1..(n - h) /\ h + (l - h) = l
        BY <3>1, <3>3
      <4>2. 2 \in DOMAIN s /\ l - h \in DOMAIN s[2]
        BY <1>1, <4>1
      <4>3. s[2][l - h] = q[1][h + (l - h)]
        BY <4>1
      <4>4. s[2][l - h] = q[k][l]
        BY <2>1, <4>1, <4>3
      <4> QED
        BY <4>2, <4>4
    <3> QED
      BY <3>1, <3>2, <3>3
  <2>2. CASE k # 1
    <3>1. k + 1 \in DOMAIN s /\ k + 1 > 2 /\ (k + 1) - 1 = k
      BY <1>1, <2>2
    <3>2. s[k + 1] = q[(k + 1) - 1]
      BY <3>1
    <3> QED
      BY <3>1, <3>2
  <2> QED
    BY <2>1, <2>2
<1> HIDE DEF K, L
<1>7. LeftIn(s, 0) \subseteq LeftIn(q, 0)
  <2>1. SUFFICES ASSUME NEW k \in DOMAIN s, NEW l \in DOMAIN s[k]
                 PROVE  s[k][l] \in LeftIn(q, 0)
    BY DEF LeftIn
  <2> QED
    BY <1>2, <1>4 DEF LeftIn
<1>8. LeftIn(q, 0) \subseteq LeftIn(s, 0)
  <2>1. SUFFICES ASSUME NEW k \in DOMAIN q, NEW l \in DOMAIN q[k]
                 PROVE  q[k][l] \in LeftIn(s, 0)
    BY DEF LeftIn
  <2> QED
    BY <1>3, <1>6 DEF LeftIn
<1>9. \A k, m \in DOMAIN s : \A l \in DOMAIN s[k], j \in DOMAIN s[m] :
        s[k][l] = s[m][j] => k = m /\ l = j
  <2>1. SUFFICES ASSUME NEW k \in DOMAIN s, NEW m \in DOMAIN s,
                        NEW l \in DOMAIN s[k], NEW j \in DOMAIN s[m], s[k][l] = s[m][j]
                 PROVE  k = m /\ l = j
    OBVIOUS
  <2>2. /\ K(k) \in DOMAIN q /\ L(k, l) \in DOMAIN q[K(k)]
        /\ K(m) \in DOMAIN q /\ L(m, j) \in DOMAIN q[K(m)]
        /\ q[K(k)][L(k, l)] = q[K(m)][L(m, j)]
    BY <1>2, <2>1
  <2>3. K(k) = K(m) /\ L(k, l) = L(m, j)
    BY <1>4, <2>2 DEF Shares
  <2> QED
    BY <1>5, <2>3
<1>10. Distinct(outs) /\ LeftIn(q, 0) \cap UnitsOf(outs) = {} /\ LeftIn(q, 0) \cup UnitsOf(outs) = units
  BY DEF Shares
<1> QED
  BY <1>3, <1>7, <1>8, <1>9, <1>10 DEF Shares

\* A new task has all of its batch ahead.
LEMMA NewShare ==
  ASSUME NEW batch \in Seq(Jobs), Distinct(batch)
  PROVE  Shares(<<[k \in DOMAIN batch |-> batch[k].unit]>>, 0, << >>, UnitsOf(batch))
<1> DEFINE units == [k \in DOMAIN batch |-> batch[k].unit]
           q == <<units>>
<1>1. DOMAIN q = {1} /\ q[1] = units /\ DOMAIN units = DOMAIN batch
      /\ \A k \in DOMAIN batch : units[k] = batch[k].unit
  OBVIOUS
<1>2. \A k \in DOMAIN batch : k > 0
  OBVIOUS
<1> HIDE DEF q, units
<1>3. \A k \in DOMAIN q : \A l \in DOMAIN q[k] : k = 1 /\ l \in DOMAIN batch /\ Ahead(0, k, l)
  BY <1>1, <1>2 DEF Ahead
<1>4. LeftIn(q, 0) = UnitsOf(batch)
  BY <1>1, <1>3 DEF LeftIn, UnitsOf
<1>5. UnitsOf(<< >>) = {} /\ Distinct(<< >>)
  BY DEF UnitsOf, Distinct
<1>6. \A k, m \in DOMAIN q : \A l \in DOMAIN q[k], n \in DOMAIN q[m] :
        q[k][l] = q[m][n] => k = m /\ l = n
  BY <1>1, <1>3 DEF Distinct
<1> QED
  BY <1>4, <1>5, <1>6, ZenonT(40) DEF Shares, q, units

\* One job less.
LEMMA HeadUnits ==
  ASSUME NEW seq \in Seq(Jobs), seq # << >>, Distinct(seq)
  PROVE  /\ Head(seq).unit \in UnitsOf(seq)
         /\ UnitsOf(Tail(seq)) = UnitsOf(seq) \ {Head(seq).unit}
         /\ Distinct(Tail(seq))
<1> DEFINE t == Tail(seq)
           n == Len(seq)
<1>1. /\ n \in Nat /\ n >= 1 /\ DOMAIN seq = 1..n /\ DOMAIN t = 1..(n - 1)
      /\ \A i \in 1..(n - 1) : t[i] = seq[i + 1]
      /\ Head(seq) = seq[1]
  BY EmptySeq, HeadTailProperties
<1> HIDE DEF t, n
<1>2. /\ \A k \in DOMAIN t : k + 1 \in DOMAIN seq /\ t[k] = seq[k + 1] /\ k + 1 # 1
      /\ \A k \in DOMAIN seq : k # 1 => k - 1 \in DOMAIN t /\ t[k - 1] = seq[k]
      /\ 1 \in DOMAIN seq
  <2>1. ASSUME NEW k \in DOMAIN seq, k # 1
        PROVE  k - 1 \in DOMAIN t /\ t[k - 1] = seq[k]
    <3>1. k - 1 \in 1..(n - 1) /\ (k - 1) + 1 = k
      BY <1>1, <2>1
    <3>2. t[k - 1] = seq[(k - 1) + 1]
      BY <1>1, <3>1
    <3> QED
      BY <1>1, <3>1, <3>2
  <2> QED
    BY <1>1, <2>1
<1>3. \A k \in DOMAIN t : t[k].unit # Head(seq).unit
  BY <1>1, <1>2, SMTT(30) DEF Distinct
<1>4. UnitsOf(t) \subseteq UnitsOf(seq) \ {Head(seq).unit}
  BY <1>2, <1>3 DEF UnitsOf
<1>5. UnitsOf(seq) \ {Head(seq).unit} \subseteq UnitsOf(t)
  <2>1. SUFFICES ASSUME NEW k \in DOMAIN seq, seq[k].unit # Head(seq).unit
                 PROVE  seq[k].unit \in UnitsOf(t)
    BY DEF UnitsOf
  <2>2. k # 1
    BY <1>1, <2>1
  <2> QED
    BY <1>2, <2>2 DEF UnitsOf
<1>6. Distinct(t)
  <2>1. SUFFICES ASSUME NEW k \in DOMAIN t, NEW l \in DOMAIN t, t[k].unit = t[l].unit
                 PROVE  k = l
    BY DEF Distinct
  <2>2. k + 1 = l + 1
    BY <1>2, <2>1 DEF Distinct
  <2> QED
    BY <1>1, <2>2
<1> QED
  BY <1>1, <1>2, <1>4, <1>5, <1>6 DEF t, UnitsOf

\* No run, or one that has not begun.
LEMMA NoWork ==
  ASSUME outcomes' = NoOutcomes, proc' \notin Afterwards, proc' # "reuse"
  PROVE  WorkInv'
<1>1. << >> \in Seq(BOOLEAN) /\ Len(<< >>) = 0
  OBVIOUS
<1>2. (outcomes \in [Units -> Seq(BOOLEAN)])' /\ \A u \in Units : Len(outcomes'[u]) = 0
  BY <1>1 DEF NoOutcomes
<1> QED
  BY <1>2 DEF WorkInv, QueueWork, BatchWork

LEMMA InitWork ==
  ASSUME SInit
  PROVE  WorkInv
<1>1. << >> \in Seq(BOOLEAN) /\ Len(<< >>) = 0
  OBVIOUS
<1>2. outcomes \in [Units -> Seq(BOOLEAN)] /\ \A u \in Units : Len(outcomes[u]) = 0
  BY <1>1 DEF SInit, NoOutcomes
<1> QED
  BY <1>2 DEF SInit, WorkInv, QueueWork, BatchWork, Afterwards

\* At the start of a run every job waits to be looked up.
LEMMA StartWork ==
  ASSUME NEW s \in Scans, NEW limit, StartScan(s, limit) \/ StartScanFails(s)
  PROVE  WorkInv'
<1>1. CASE StartScanFails(s)
  BY <1>1, NoWork DEF StartScanFails, Fresh, Afterwards
<1>2. CASE StartScan(s, limit)
  <2>1. /\ proc' = "reuse" /\ scan' = s /\ todo' = JobsOf[s] /\ fresh' = << >>
        /\ outcomes' = NoOutcomes
    BY <1>2 DEF StartScan, Fresh
  <2>2. JobsOf[s] \in Seq(Jobs) /\ Distinct(JobsOf[s])
    BY StageAssumption DEF Distinct
  <2>3. UnitsOf(JobsOf[s]) = JobSet(s)
    BY DEF UnitsOf, JobSet
  <2>4. UnitsOf(<< >>) = {} /\ Distinct(<< >>)
    BY DEF UnitsOf, Distinct
  <2>5. << >> \in Seq(BOOLEAN) /\ Len(<< >>) = 0
    OBVIOUS
  <2>6. (outcomes \in [Units -> Seq(BOOLEAN)])' /\ \A u \in Units : Len(outcomes'[u]) = 0
    BY <2>1, <2>5 DEF NoOutcomes
  <2>7. QueueWork'
    <3>1. JobSet(scan') \ (UnitsOf(todo') \cup UnitsOf(fresh')) = {}
      BY <2>1, <2>3, <2>4
    <3>2. /\ Distinct(todo') /\ Distinct(fresh')
          /\ UnitsOf(todo') \cap UnitsOf(fresh') = {}
          /\ UnitsOf(todo') \cup UnitsOf(fresh') \subseteq JobSet(scan')
      BY <2>1, <2>2, <2>3, <2>4
    <3>3. \A u \in Units : Len(outcomes'[u]) =
            IF u \in JobSet(scan') \ (UnitsOf(todo') \cup UnitsOf(fresh')) THEN 1 ELSE 0
      BY <2>6, <3>1
    <3> QED
      BY <3>2, <3>3 DEF QueueWork
  <2>8. BatchWork'
    BY <2>1 DEF BatchWork, Afterwards
  <2> QED
    BY <2>6, <2>7, <2>8 DEF WorkInv
<1> QED
  BY <1>1, <1>2

\* An outcome is pushed for a method that had none.
LEMMA OnePushed ==
  ASSUME outcomes \in [Units -> Seq(BOOLEAN)], NEW u \in Units, Len(outcomes[u]) = 0,
         PushOutcome(u, FALSE)
  PROVE  /\ (outcomes \in [Units -> Seq(BOOLEAN)])'
         /\ \A v \in Units : Len(outcomes'[v]) = IF v = u THEN 1 ELSE Len(outcomes[v])
<1> DEFINE new == Append(outcomes[u], FALSE)
<1>1. outcomes' = [outcomes EXCEPT ![u] = new]
  BY DEF PushOutcome
<1>2. new \in Seq(BOOLEAN) /\ Len(new) = 1
  <2>1. FALSE \in BOOLEAN /\ outcomes[u] \in Seq(BOOLEAN)
    OBVIOUS
  <2>2. new \in Seq(BOOLEAN) /\ Len(new) = Len(outcomes[u]) + 1
    BY <2>1, AppendProperties
  <2> QED
    BY <2>2
<1> HIDE DEF new
<1> QED
  BY <1>1, <1>2

\* The look-up of the queue.
LEMMA ReuseWork ==
  ASSUME RunTyped, WorkInv, ReuseOwn \/ ReuseAcross \/ CopyAcross \/ NeedsReview
  PROVE  WorkInv'
<1>1. /\ proc = "reuse" /\ proc' = "reuse" /\ scan' = scan
      /\ outcomes \in [Units -> Seq(BOOLEAN)] /\ QueueWork
      /\ todo \in Seq(Jobs) /\ fresh \in Seq(Jobs)
  BY DEF ReuseOwn, ReuseAcross, CopyAcross, NeedsReview, WorkInv, RunTyped, QueueTyped
<1>2. /\ Distinct(todo) /\ Distinct(fresh) /\ UnitsOf(todo) \cap UnitsOf(fresh) = {}
      /\ UnitsOf(todo) \cup UnitsOf(fresh) \subseteq JobSet(scan)
      /\ \A u \in Units : Len(outcomes[u]) =
           IF u \in JobSet(scan) \ (UnitsOf(todo) \cup UnitsOf(fresh)) THEN 1 ELSE 0
  BY <1>1 DEF QueueWork
<1>3. BatchWork'
  BY <1>1 DEF BatchWork, Afterwards
<1> DEFINE u == NextUnit
<1>4. ASSUME todo # << >>
      PROVE  /\ u \in UnitsOf(todo) /\ u \in Units /\ Distinct(Tail(todo))
             /\ UnitsOf(Tail(todo)) = UnitsOf(todo) \ {u}
  BY <1>1, <1>2, <1>4, HeadUnits, HeadOfQueue DEF NextUnit
<1>5. CASE ReuseOwn \/ CopyAcross
  <2>1. /\ PushOutcome(u, FALSE) /\ todo # << >> /\ todo' = Tail(todo) /\ fresh' = fresh
    BY <1>5 DEF ReuseOwn, CopyAcross, RunTyped, QueueTyped
  <2>2. Len(outcomes[u]) = 0
    BY <1>2, <1>4, <2>1
  <2>3. /\ (outcomes \in [Units -> Seq(BOOLEAN)])'
        /\ \A v \in Units : Len(outcomes'[v]) = IF v = u THEN 1 ELSE Len(outcomes[v])
    BY <1>1, <1>4, <2>1, <2>2, OnePushed
  <2> HIDE DEF u
  <2>4. /\ Distinct(todo') /\ Distinct(fresh') /\ UnitsOf(todo') \cap UnitsOf(fresh') = {}
        /\ UnitsOf(todo') \cup UnitsOf(fresh') \subseteq JobSet(scan')
    BY <1>1, <1>2, <1>4, <2>1
  <2>5. \A v \in Units : Len(outcomes'[v]) =
           IF v \in JobSet(scan') \ (UnitsOf(todo') \cup UnitsOf(fresh')) THEN 1 ELSE 0
    BY <1>1, <1>2, <1>4, <2>1, <2>3
  <2>6. QueueWork'
    BY <2>4, <2>5 DEF QueueWork
  <2> QED
    BY <1>3, <2>3, <2>5, <2>6 DEF WorkInv
<1>6. CASE ReuseAcross
  <2>1. UNCHANGED <<todo, fresh, outcomes>>
    BY <1>6 DEF ReuseAcross
  <2> QED
    BY <1>1, <1>2, <1>3, <2>1 DEF WorkInv, QueueWork
<1>7. CASE NeedsReview
  <2> DEFINE job == Head(todo)
  <2>1. /\ todo # << >> /\ todo' = Tail(todo) /\ fresh' = Append(fresh, job) /\ outcomes' = outcomes
    BY <1>7 DEF NeedsReview
  <2>2. job \in Jobs /\ job.unit = u
    BY <1>1, <2>1, HeadOfQueue DEF NextUnit
  <2> HIDE DEF job, u
  <2>3. /\ UnitsOf(fresh') = UnitsOf(fresh) \cup {u}
        /\ u \notin UnitsOf(fresh) => Distinct(fresh')
    BY <1>1, <1>2, <2>1, <2>2, AppendedOut
  <2>4. /\ Distinct(todo') /\ Distinct(fresh') /\ UnitsOf(todo') \cap UnitsOf(fresh') = {}
        /\ UnitsOf(todo') \cup UnitsOf(fresh') = UnitsOf(todo) \cup UnitsOf(fresh)
    BY <1>2, <1>4, <2>1, <2>3
  <2>5. \A v \in Units : Len(outcomes'[v]) =
           IF v \in JobSet(scan') \ (UnitsOf(todo') \cup UnitsOf(fresh')) THEN 1 ELSE 0
    BY <1>1, <1>2, <2>1, <2>4
  <2>6. QueueWork'
    BY <1>1, <1>2, <2>4, <2>5 DEF QueueWork
  <2> QED
    BY <1>1, <1>3, <2>1, <2>5, <2>6 DEF WorkInv
<1> QED
  BY <1>5, <1>6, <1>7

\* The run is rejected.
LEMMA RejectWork ==
  ASSUME WorkInv, ReuseFails \/ Reject
  PROVE  WorkInv'
<1>1. proc' \in {"rejecting", "rejected"} /\ outcomes' = outcomes
  BY DEF ReuseFails, Reject, runVars
<1> QED
  BY <1>1 DEF WorkInv, QueueWork, BatchWork, Afterwards

\* What needs a review is in one batch.
LEMMA GroupWork ==
  ASSUME RunTyped, RunTyped', WorkInv, Group
  PROVE  WorkInv'
<1>1. /\ proc = "reuse" /\ proc' = "running" /\ scan' = scan /\ todo = << >>
      /\ outcomes' = outcomes /\ QueueWork /\ fresh \in Seq(Jobs)
      /\ batches' = GroupPendingReviews(fresh, BatchSize, MaxPromptChars)
      /\ pending' = DOMAIN batches' /\ UNCHANGED <<tasks, completed, joined>>
  BY DEF Group, WorkInv, RunTyped, QueueTyped
<1>2. NothingScheduled
  BY <1>1 DEF RunTyped
<1>3. UnitsOf(todo) = {}
  BY <1>1 DEF UnitsOf
<1>4. /\ Distinct(fresh) /\ UnitsOf(fresh) \subseteq JobSet(scan)
      /\ \A u \in Units : Len(outcomes[u]) =
           IF u \in JobSet(scan) \ UnitsOf(fresh) THEN 1 ELSE 0
  BY <1>1, <1>3 DEF QueueWork
<1>5. UnitsIn(batches') = UnitsOf(fresh) /\ Apart(batches')
  BY <1>1, <1>4, BatchesHoldTheQueue DEF UnitsOf, Distinct
<1>6. completed' = {} /\ DOMAIN tasks' = {} /\ joined' = 0 /\ 0 \notin DOMAIN batches'
  <2>1. completed' = {} /\ DOMAIN tasks' = {} /\ joined' = 0
    BY <1>1, <1>2 DEF NothingScheduled
  <2>2. 0 \notin DOMAIN batches'
    <3>1. batches' \in Seq(Seq(Jobs))
      BY DEF RunTyped, BatchesTyped, Filled
    <3> QED
      BY <3>1
  <2> QED
    BY <2>1, <2>2
<1>7. BatchPlaces'
  BY <1>1, <1>6 DEF BatchPlaces
<1>8. Reported' = JobSet(scan') \ UnitsIn(batches')
  <2>1. \A u : u \in UnitsIn(batches') <=> \E k \in DOMAIN batches' : u \in UnitsOf(batches'[k])
    BY DEF UnitsIn, UnitsOf
  <2> QED
    BY <1>6, <2>1 DEF Reported
<1>9. \A u \in Units : Len(outcomes'[u]) = IF u \in Reported' THEN 1 ELSE 0
  BY <1>1, <1>4, <1>5, <1>8
<1>10. BatchWork'
  BY <1>1, <1>4, <1>5, <1>6, <1>7, <1>9 DEF BatchWork
<1>11. QueueWork'
  BY <1>1 DEF QueueWork
<1> QED
  BY <1>1, <1>9, <1>10, <1>11 DEF WorkInv

\* Nothing but the tasks' counters changes.
LEMMA SameWork ==
  ASSUME WorkInv, UNCHANGED <<scan, todo, fresh, outcomes, batches, pending, joined, joinedOuts,
                              completed, firstError, proc>>,
         DOMAIN tasks' = DOMAIN tasks,
         \A i \in DOMAIN tasks : proc \in Afterwards =>
           (Owns(tasks[i], batches[i]) => Owns(tasks'[i], batches[i]))
  PROVE  WorkInv'
<1>1. QueueWork'
  BY DEF WorkInv, QueueWork
<1>2. BatchPlaces => BatchPlaces'
  BY DEF BatchPlaces
<1>3. Reported' = Reported
  BY DEF Reported
<1>4. BatchWork'
  BY <1>2, <1>3 DEF WorkInv, BatchWork
<1> QED
  BY <1>1, <1>4 DEF WorkInv

\* A task moves on, and its work is still all there.
LEMMA TaskWork ==
  ASSUME RunTyped, WorkInv, NEW i \in DOMAIN tasks, NEW t, TaskStep(i, t),
         \A units : Shares(tasks[i].queue, tasks[i].done, tasks[i].outs, units)
                      => Shares(t.queue, t.done, t.outs, units)
  PROVE  WorkInv'
<1>1. /\ DOMAIN tasks' = DOMAIN tasks
      /\ \A j \in DOMAIN tasks : tasks'[j] = IF j = i THEN t ELSE tasks[j]
  BY DEF TaskStep
<1>2. \A j \in DOMAIN tasks : Owns(tasks[j], batches[j]) => Owns(tasks'[j], batches[j])
  BY <1>1 DEF Owns
<1> QED
  BY <1>1, <1>2, SameWork DEF TaskStep

\* A task whose counters change keeps its work.
LEMMA CountersWork ==
  ASSUME NEW x, TaskOK(x)
  PROVE  /\ \A c : LET t == [x EXCEPT !.calls = @ + 1, !.owed = c]
                   IN  t.queue = x.queue /\ t.done = x.done /\ t.outs = x.outs
         /\ LET t == [x EXCEPT !.owed = 0]
            IN  t.queue = x.queue /\ t.done = x.done /\ t.outs = x.outs
         /\ \A s : LET t == [x EXCEPT !.st = s]
                   IN  t.queue = x.queue /\ t.done = x.done /\ t.outs = x.outs
<1>1. PICK q, d, c, o, outs, st :
        x = [queue |-> q, done |-> d, calls |-> c, owed |-> o, outs |-> outs, st |-> st]
  BY DEF TaskOK
<1>2. ASSUME NEW k
      PROVE  LET t == [x EXCEPT !.calls = @ + 1, !.owed = k]
             IN  t.queue = x.queue /\ t.done = x.done /\ t.outs = x.outs
  <2> DEFINE y == [x EXCEPT !.calls = @ + 1]
             t == [y EXCEPT !.owed = k]
  <2>1. y = [queue |-> q, done |-> d, calls |-> c + 1, owed |-> o, outs |-> outs, st |-> st]
    BY <1>1
  <2>2. [x EXCEPT !.calls = @ + 1, !.owed = k] = t
    OBVIOUS
  <2> HIDE DEF y
  <2>3. t = [queue |-> q, done |-> d, calls |-> c + 1, owed |-> k, outs |-> outs, st |-> st]
    BY <2>1
  <2> HIDE DEF t
  <2>4. t.queue = q /\ t.done = d /\ t.outs = outs
    BY <2>3
  <2>5. x.queue = q /\ x.done = d /\ x.outs = outs
    BY <1>1
  <2> QED
    BY <2>2, <2>4, <2>5
<1>3. LET t == [x EXCEPT !.owed = 0]
      IN  t.queue = x.queue /\ t.done = x.done /\ t.outs = x.outs
  BY <1>1
<1>4. ASSUME NEW s
      PROVE  LET t == [x EXCEPT !.st = s]
             IN  t.queue = x.queue /\ t.done = x.done /\ t.outs = x.outs
  BY <1>1
<1> QED
  BY <1>2, <1>3, <1>4

\* Provider calls, charges and failures.
LEMMA CallWork ==
  ASSUME RunTyped, WorkInv, NEW i \in DOMAIN tasks,
         \/ \E c \in Costs : ModelCall(i, c)
         \/ Charge(i) \/ CallbackFails(i)
         \/ \E st \in {"err", "panic"} : TaskFails(i, st)
  PROVE  WorkInv'
<1>1. TaskOK(tasks[i])
  BY TaskParts
<1>2. CASE \E c \in Costs : ModelCall(i, c)
  <2>1. PICK c \in Costs : TaskStep(i, [tasks[i] EXCEPT !.calls = @ + 1, !.owed = c])
    BY <1>2 DEF ModelCall
  <2> DEFINE t == [tasks[i] EXCEPT !.calls = @ + 1, !.owed = c]
  <2>2. t.queue = tasks[i].queue /\ t.done = tasks[i].done /\ t.outs = tasks[i].outs
    BY <1>1, CountersWork
  <2>3. TaskStep(i, t)
    BY <2>1
  <2> HIDE DEF t
  <2> QED
    BY <2>2, <2>3, TaskWork
<1>3. CASE Charge(i)
  <2> DEFINE t == [tasks[i] EXCEPT !.owed = 0]
  <2>1. t.queue = tasks[i].queue /\ t.done = tasks[i].done /\ t.outs = tasks[i].outs
    BY <1>1, CountersWork
  <2>2. tasks' = [tasks EXCEPT ![i] = t]
        /\ UNCHANGED <<scan, todo, fresh, outcomes, batches, pending, joined, joinedOuts,
                       completed, firstError, proc>>
    BY <1>3 DEF Charge
  <2> HIDE DEF t
  <2>3. /\ DOMAIN tasks' = DOMAIN tasks
        /\ \A j \in DOMAIN tasks : tasks'[j] = IF j = i THEN t ELSE tasks[j]
    BY <2>2
  <2>4. \A j \in DOMAIN tasks : Owns(tasks[j], batches[j]) => Owns(tasks'[j], batches[j])
    BY <2>1, <2>3 DEF Owns
  <2> QED
    BY <2>2, <2>3, <2>4, SameWork
<1>4. CASE CallbackFails(i) \/ \E st \in {"err", "panic"} : TaskFails(i, st)
  <2>1. PICK st : TaskStep(i, [tasks[i] EXCEPT !.st = st])
    BY <1>4 DEF CallbackFails, TaskFails
  <2> DEFINE t == [tasks[i] EXCEPT !.st = st]
  <2>2. t.queue = tasks[i].queue /\ t.done = tasks[i].done /\ t.outs = tasks[i].outs
    BY <1>1, CountersWork
  <2>3. TaskStep(i, t)
    BY <2>1
  <2> HIDE DEF t
  <2> QED
    BY <2>2, <2>3, TaskWork
<1> QED
  BY <1>2, <1>3, <1>4

\* The fields of the next batch.
LEMMA NextBatchParts ==
  ASSUME NEW x, NEW q, NEW outs
  PROVE  /\ NextBatch(x, q, outs).queue = q
         /\ NextBatch(x, q, outs).done = 0
         /\ NextBatch(x, q, outs).outs = outs
  BY DEF NextBatch

\* A method of a batch is done, and with the last one the batch.
LEMMA DoneWork ==
  ASSUME NEW q \in Seq(Seq(Units)), q # << >>, \A k \in DOMAIN q : q[k] # << >>,
         NEW d \in Nat, d < Len(q[1]),
         NEW outs \in Seq(Out), NEW o \in Out, o.unit = q[1][d + 1],
         NEW units, Shares(q, d, outs, units)
  PROVE  /\ Shares(q, d + 1, Append(outs, o), units)
         /\ d + 1 = Len(q[1]) => Shares(Tail(q), 0, Append(outs, o), units)
<1>1. Shares(q, d + 1, Append(outs, o), units)
  BY ShareDone
<1>2. ASSUME d + 1 = Len(q[1])
      PROVE  Shares(Tail(q), 0, Append(outs, o), units)
  <2>1. Shares(q, Len(q[1]), Append(outs, o), units)
    BY <1>1, <1>2
  <2> QED
    BY <2>1, ShareNext
<1> QED
  BY <1>1, <1>2

LEMMA ItemWork ==
  ASSUME RunTyped, WorkInv, NEW i \in DOMAIN tasks, NEW r \in BOOLEAN, ItemComplete(i, r)
  PROVE  WorkInv'
<1> DEFINE x == tasks[i]
           o == [unit |-> x.queue[1][x.done + 1], retry |-> r, persisted |-> TRUE]
           outs == Append(x.outs, o)
           next == NextBatch(x, Tail(x.queue), outs)
           same == [x EXCEPT !.done = @ + 1, !.outs = outs]
           t == IF x.done + 1 = Len(x.queue[1]) THEN next ELSE same
<1>1. TaskOK(x) /\ x.st = "run" /\ TaskStep(i, t)
  BY TaskParts DEF ItemComplete, Working
<1>2. PICK q, d, c, w, u :
        x = [queue |-> q, done |-> d, calls |-> c, owed |-> w, outs |-> u, st |-> "run"]
  BY <1>1 DEF TaskOK
<1>3. /\ q \in Seq(Seq(Units)) /\ q # << >> /\ (\A k \in DOMAIN q : q[k] # << >>)
      /\ d \in Nat /\ d < Len(q[1]) /\ u \in Seq(Out)
      /\ x.queue = q /\ x.done = d /\ x.outs = u
  <2>1. x.queue = q /\ x.done = d /\ x.outs = u
    BY <1>2
  <2> HIDE DEF x
  <2>2. /\ q \in Seq(Seq(Units)) /\ q # << >> /\ (\A k \in DOMAIN q : q[k] # << >>)
        /\ d \in Nat /\ d < Len(q[1]) /\ u \in Seq(Out)
    BY <1>1, <2>1 DEF TaskOK
  <2> QED
    BY <2>1, <2>2
<1>4. o \in Out /\ o.unit = q[1][d + 1] /\ outs = Append(u, o)
  <2>1. x.queue[1][x.done + 1] \in Units
    BY <1>1, TaskParts
  <2> HIDE DEF x
  <2> QED
    BY <1>3, <2>1 DEF Out
<1> HIDE DEF o, outs, x
<1>5. next.queue = Tail(q) /\ next.done = 0 /\ next.outs = outs
  <2>1. next = NextBatch(x, Tail(q), outs)
    <3>1. x.queue = q
      BY <1>3
    <3> QED
      BY <3>1
  <2> DEFINE rest == Tail(q)
  <2>2. next = NextBatch(x, rest, outs)
    BY <2>1
  <2> HIDE DEF next, rest
  <2>3. next.queue = rest /\ next.done = 0 /\ next.outs = outs
    BY <2>2, NextBatchParts
  <2> QED
    BY <2>3 DEF rest
<1>6. same.queue = q /\ same.done = d + 1 /\ same.outs = outs
  <2>1. ASSUME NEW k
        PROVE  [x EXCEPT !.done = k, !.outs = outs]
                 = [queue |-> q, done |-> k, calls |-> c, owed |-> w, outs |-> outs, st |-> "run"]
    <3> DEFINE y == [x EXCEPT !.done = k]
    <3>1. y = [queue |-> q, done |-> k, calls |-> c, owed |-> w, outs |-> u, st |-> "run"]
      BY <1>2
    <3>2. [x EXCEPT !.done = k, !.outs = outs] = [y EXCEPT !.outs = outs]
      OBVIOUS
    <3> HIDE DEF y
    <3> QED
      BY <3>1, <3>2
  <2>2. same = [x EXCEPT !.done = d + 1, !.outs = outs]
    BY <1>3
  <2>3. same = [queue |-> q, done |-> d + 1, calls |-> c, owed |-> w, outs |-> outs, st |-> "run"]
    BY <2>1, <2>2
  <2> HIDE DEF same
  <2> QED
    BY <2>3
<1> HIDE DEF next, same
<1>7. ASSUME NEW units, Shares(q, d, u, units)
      PROVE  Shares(t.queue, t.done, t.outs, units)
  <2>1. /\ Shares(q, d + 1, outs, units)
        /\ d + 1 = Len(q[1]) => Shares(Tail(q), 0, outs, units)
    BY <1>3, <1>4, <1>7, DoneWork
  <2>2. CASE d + 1 = Len(q[1])
    BY <1>3, <1>5, <2>1, <2>2
  <2>3. CASE d + 1 # Len(q[1])
    BY <1>3, <1>6, <2>1, <2>3
  <2> QED
    BY <2>2, <2>3
<1> HIDE DEF t
<1>8. \A units : Shares(tasks[i].queue, tasks[i].done, tasks[i].outs, units)
                   => Shares(t.queue, t.done, t.outs, units)
  BY <1>3, <1>7 DEF x
<1> QED
  BY <1>1, <1>8, TaskWork

LEMMA BatchFailsWork ==
  ASSUME RunTyped, WorkInv, NEW i \in DOMAIN tasks, BatchFails(i)
  PROVE  WorkInv'
<1> DEFINE x == tasks[i]
           batch == x.queue[1]
           half == Len(batch) \div 2
           a == SubSeq(batch, 1, half)
           b == SubSeq(batch, half + 1, Len(batch))
           o == [unit |-> batch[1], retry |-> TRUE, persisted |-> FALSE]
<1>1. TaskOK(x) /\ x.st = "run"
  BY TaskParts DEF BatchFails, Working
<1>2. /\ batch \in Seq(Units) /\ x.queue # << >> /\ x.outs \in Seq(Out)
      /\ x.queue \in Seq(Seq(Units)) /\ (\A k \in DOMAIN x.queue : x.queue[k] # << >>)
  BY <1>1, TaskParts DEF TaskOK
<1>3. CASE /\ x.done = 0 /\ Len(batch) > 1
           /\ TaskStep(i, NextBatch(x, <<a, b>> \o Tail(x.queue), x.outs))
  <2> DEFINE q == x.queue
             s == <<a, b>> \o Tail(q)
             n == Len(batch)
             t == NextBatch(x, s, x.outs)
  <2>1. /\ a \in Seq(Units) /\ b \in Seq(Units) /\ a # << >> /\ b # << >>
        /\ half \in Nat /\ DOMAIN a = 1..half /\ DOMAIN b = 1..(n - half)
        /\ \A l \in DOMAIN a : a[l] = batch[l]
        /\ \A l \in DOMAIN b : b[l] = batch[half + l]
        /\ 1 <= half /\ half < n /\ n \in Nat
    BY <1>2, <1>3, Halves
  <2>2. q \in Seq(Seq(Units)) /\ q # << >> /\ (\A k \in DOMAIN q : q[k] # << >>) /\ batch = q[1]
        /\ DOMAIN q[1] = 1..n
    BY <1>2
  <2>3. s = <<a, b>> \o Tail(q)
    OBVIOUS
  <2>4. t.queue = s /\ t.done = 0 /\ t.outs = x.outs /\ TaskStep(i, t)
    <3>1. TaskStep(i, t)
      BY <1>3
    <3> HIDE DEF s, x
    <3> QED
      BY <3>1, NextBatchParts
  <2>5. x.queue = q /\ x.done = 0
    BY <1>3
  <2> HIDE DEF a, b, q, s, half, n, batch, t, x
  <2>6. /\ s \in Seq(Seq(Units)) /\ DOMAIN s = 1..(Len(q) + 1) /\ s[1] = a /\ s[2] = b
        /\ \A k \in DOMAIN s : k > 2 => s[k] = q[k - 1] /\ k - 1 \in DOMAIN q
    <3>1. a \in Seq(Units) /\ b \in Seq(Units) /\ a # << >> /\ b # << >>
      BY <2>1
    <3>2. q \in Seq(Seq(Units)) /\ q # << >> /\ (\A k \in DOMAIN q : q[k] # << >>)
      BY <2>2
    <3> QED
      BY <2>3, <3>1, <3>2, SplitQueue, SMTT(30)
  <2>7. /\ DOMAIN s[1] = 1..half /\ DOMAIN s[2] = 1..(n - half)
        /\ \A l \in 1..half : s[1][l] = q[1][l]
        /\ \A l \in 1..(n - half) : s[2][l] = q[1][half + l]
    BY <2>1, <2>2, <2>6
  <2>8. ASSUME NEW units, Shares(q, 0, x.outs, units)
        PROVE  Shares(s, 0, x.outs, units)
    <3>1. half \in Nat /\ n \in Nat /\ 1 <= half /\ half < n /\ DOMAIN q[1] = 1..n
      BY <2>1, <2>2
    <3>2. /\ DOMAIN s = 1..(Len(q) + 1)
          /\ \A k \in DOMAIN s : k > 2 => s[k] = q[k - 1] /\ k - 1 \in DOMAIN q
      BY <2>6
    <3> QED
      BY <2>2, <2>7, <2>8, <3>1, <3>2, ShareSplit
  <2>9. \A units : Shares(tasks[i].queue, tasks[i].done, tasks[i].outs, units)
                     => Shares(t.queue, t.done, t.outs, units)
    BY <2>4, <2>5, <2>8 DEF x
  <2> QED
    BY <2>4, <2>9, TaskWork
<1>4. CASE /\ x.done = 0 /\ Len(batch) = 1
           /\ TaskStep(i, NextBatch(x, Tail(x.queue), Append(x.outs, o)))
  <2> DEFINE q == x.queue
             outs == Append(x.outs, o)
             t == NextBatch(x, Tail(q), outs)
  <2>1. t.queue = Tail(q) /\ t.done = 0 /\ t.outs = outs /\ TaskStep(i, t)
    <3>1. TaskStep(i, t)
      BY <1>4
    <3> DEFINE rest == Tail(q)
    <3>2. t = NextBatch(x, rest, outs)
      OBVIOUS
    <3> HIDE DEF outs, q, x, t, rest
    <3>3. t.queue = rest /\ t.done = 0 /\ t.outs = outs
      BY <3>2, NextBatchParts
    <3> QED
      BY <3>1, <3>3 DEF rest
  <2>2. o.unit = batch[1] /\ o \in Out
    <3>1. 1 \in 1..Len(batch)
      BY <1>4
    <3>2. batch[1] \in Units
      BY <1>2, <3>1, ElementOfSeq
    <3> HIDE DEF batch
    <3> QED
      BY <3>2 DEF Out
  <2>3. q \in Seq(Seq(Units)) /\ q # << >> /\ (\A k \in DOMAIN q : q[k] # << >>)
        /\ Len(q[1]) = 1 /\ q[1][0 + 1] = batch[1] /\ x.outs \in Seq(Out)
    BY <1>2, <1>4
  <2>4. outs = Append(x.outs, o) /\ x.done = 0 /\ x.queue = q
    BY <1>4
  <2> HIDE DEF q, outs, o, batch, t, x
  <2>5. ASSUME NEW units, Shares(q, 0, x.outs, units)
        PROVE  Shares(Tail(q), 0, outs, units)
    <3>1. 0 \in Nat /\ 0 < Len(q[1]) /\ 0 + 1 = Len(q[1]) /\ o.unit = q[1][0 + 1]
      BY <2>2, <2>3
    <3>2. /\ Shares(q, 0 + 1, Append(x.outs, o), units)
          /\ 0 + 1 = Len(q[1]) => Shares(Tail(q), 0, Append(x.outs, o), units)
      BY <2>2, <2>3, <2>5, <3>1, DoneWork
    <3> QED
      BY <2>4, <3>1, <3>2
  <2>6. \A units : Shares(tasks[i].queue, tasks[i].done, tasks[i].outs, units)
                     => Shares(t.queue, t.done, t.outs, units)
    BY <2>1, <2>4, <2>5 DEF x
  <2> QED
    BY <2>1, <2>6, TaskWork
<1>5. CASE TaskStep(i, [x EXCEPT !.st = "err"])
  <2> DEFINE t == [x EXCEPT !.st = "err"]
  <2>1. t.queue = x.queue /\ t.done = x.done /\ t.outs = x.outs
    BY <1>1, CountersWork
  <2>2. TaskStep(i, t)
    BY <1>5
  <2> HIDE DEF t
  <2> QED
    BY <2>1, <2>2, TaskWork
<1> QED
  BY <1>3, <1>4, <1>5 DEF BatchFails

\* A batch moves from the queue to a task.
LEMMA SpawnWork ==
  ASSUME RunTyped, WorkInv, NEW i \in pending, StartTask(i)
  PROVE  WorkInv'
<1>1. /\ pending' = pending \ {i} /\ tasks' = Spawn(i)
      /\ UNCHANGED <<proc, scan, outcomes, batches, joined, joinedOuts, completed, firstError>>
      /\ proc = "running"
  BY DEF StartTask, AtLoop
<1>2. BatchWork /\ i \in DOMAIN batches /\ Filled(batches)
  BY DEF WorkInv, RunTyped, BatchesTyped
<1>3. DOMAIN tasks' = DOMAIN tasks \cup {i} /\ tasks'[i] = NewTask(batches[i])
      /\ \A j \in DOMAIN tasks : j # i => tasks'[j] = tasks[j]
  <2> DEFINE new == NewTask(batches[i])
  <2>1. tasks' = [j \in DOMAIN tasks \cup {i} |-> IF j = i THEN new ELSE tasks[j]]
    BY <1>1 DEF Spawn
  <2> HIDE DEF new
  <2>2. DOMAIN tasks' = DOMAIN tasks \cup {i}
    BY <2>1
  <2>3. tasks'[i] = new /\ \A j \in DOMAIN tasks : j # i => tasks'[j] = tasks[j]
    BY <2>1, <2>2
  <2> QED
    BY <2>2, <2>3 DEF new
<1>4. Owns(tasks'[i], batches[i])
  <2> DEFINE batch == batches[i]
             q == <<[k \in DOMAIN batch |-> batch[k].unit]>>
  <2>1. batch \in Seq(Jobs) /\ Distinct(batch)
    BY <1>1, <1>2 DEF Filled, BatchWork, Afterwards, Apart, Distinct
  <2>2. Shares(q, 0, << >>, UnitsOf(batch))
    BY <2>1, NewShare
  <2>3. NewTask(batch) = [queue |-> q, done |-> 0, calls |-> 0, owed |-> 0,
                          outs |-> << >>, st |-> "run"]
    BY DEF NewTask
  <2> HIDE DEF batch, q
  <2> DEFINE new == NewTask(batch)
  <2>4. new.queue = q /\ new.done = 0 /\ new.outs = << >>
    BY <2>3
  <2> HIDE DEF new
  <2>5. Owns(new, batch)
    BY <2>2, <2>4 DEF Owns
  <2> QED
    BY <1>3, <2>5 DEF new, batch
<1>5. i \notin DOMAIN tasks /\ i \notin completed /\ i # joined
  BY <1>1, <1>2 DEF BatchWork, BatchPlaces, Afterwards
<1>6. BatchPlaces'
  BY <1>1, <1>2, <1>3, <1>5 DEF BatchWork, BatchPlaces, Afterwards
<1>7. Reported' = Reported
  BY <1>1 DEF Reported
<1>8. \A j \in DOMAIN tasks' : Owns(tasks'[j], batches'[j])
  BY <1>1, <1>2, <1>3, <1>4 DEF BatchWork, Afterwards
<1>9. BatchWork'
  BY <1>1, <1>2, <1>6, <1>7, <1>8 DEF BatchWork, Afterwards
<1> QED
  BY <1>1, <1>9 DEF WorkInv, QueueWork

\* A joined batch has an outcome for every method; one that failed is lost.
LEMMA LeaveWork ==
  ASSUME RunTyped, WorkInv, NEW i \in DOMAIN tasks,
         JoinOk(i) \/ JoinErr(i) \/ JoinPanic(i) \/ Drain(i)
  PROVE  WorkInv'
<1>1. /\ tasks' = [j \in DOMAIN tasks \ {i} |-> tasks[j]]
      /\ UNCHANGED <<proc, scan, outcomes, batches, pending, completed>>
      /\ proc \in {"running", "aborting"} /\ i \in DOMAIN batches
  BY TaskParts DEF JoinOk, JoinErr, JoinPanic, Drain, Joining, AtLoop
<1>2. /\ DOMAIN tasks' = DOMAIN tasks \ {i} /\ \A j \in DOMAIN tasks' : tasks'[j] = tasks[j]
  BY <1>1
<1>3. BatchWork /\ BatchPlaces /\ Reported' = Reported
  BY <1>1 DEF WorkInv, BatchWork, Afterwards, Reported
<1>4. \A j \in DOMAIN tasks' : Owns(tasks'[j], batches'[j])
  BY <1>1, <1>2, <1>3 DEF BatchWork, Afterwards
<1>5. i \notin pending /\ i \notin completed /\ i # joined
  BY <1>3 DEF BatchPlaces
<1>6. CASE JoinOk(i)
  <2>1. joined' = i /\ joinedOuts' = tasks[i].outs /\ firstError' = firstError
        /\ tasks[i].st = "ok" /\ joined = 0
    BY <1>6 DEF JoinOk, Joining, AtLoop
  <2>2. BatchPlaces'
    <3>1. /\ completed' \subseteq DOMAIN batches'
          /\ pending' \cap DOMAIN tasks' = {} /\ pending' \cap completed' = {}
          /\ DOMAIN tasks' \cap completed' = {}
          /\ joined' \notin pending' /\ joined' \notin DOMAIN tasks' /\ joined' \notin completed'
      BY <1>1, <1>2, <1>3, <1>5, <2>1 DEF BatchPlaces
    <3>2. ASSUME ~firstError', proc' \notin {"aborting", "failed"}
          PROVE  DOMAIN batches' \subseteq pending' \cup DOMAIN tasks' \cup completed' \cup {joined'}
      <4>1. 0 \notin DOMAIN batches
        <5>1. batches \in Seq(Seq(Jobs))
          BY DEF RunTyped, BatchesTyped, Filled
        <5> QED
          BY <5>1
      <4>2. DOMAIN batches \subseteq pending \cup DOMAIN tasks \cup completed \cup {joined}
        BY <1>1, <1>3, <2>1, <3>2 DEF BatchPlaces
      <4> QED
        BY <1>1, <1>2, <2>1, <4>1, <4>2
    <3> QED
      BY <3>1, <3>2 DEF BatchPlaces
  <2>3. Owns(tasks[i], batches[i]) /\ tasks[i].queue = << >>
    BY <1>1, <1>3, <2>1, TaskParts DEF BatchWork, Afterwards, TaskOK
  <2>4. LeftIn(<< >>, tasks[i].done) = {}
    BY DEF LeftIn
  <2>5. Distinct(joinedOuts') /\ UnitsOf(joinedOuts') = UnitsOf(batches[i])
    BY <2>1, <2>3, <2>4 DEF Owns, Shares
  <2>6. BatchWork'
    BY <1>1, <1>3, <1>4, <2>1, <2>2, <2>5 DEF BatchWork, Afterwards
  <2> QED
    BY <1>1, <2>6 DEF WorkInv, QueueWork
<1>7. CASE JoinErr(i) \/ JoinPanic(i) \/ Drain(i)
  <2>1. UNCHANGED <<joined, joinedOuts>> /\ (firstError' = TRUE \/ proc = "aborting")
    BY <1>7 DEF JoinErr, JoinPanic, Drain, Joining
  <2>2. BatchPlaces'
    BY <1>1, <1>2, <1>3, <2>1 DEF BatchPlaces
  <2>3. BatchWork'
    BY <1>1, <1>3, <1>4, <2>1, <2>2 DEF BatchWork, Afterwards
  <2> QED
    BY <1>1, <2>3 DEF WorkInv, QueueWork
<1> QED
  BY <1>6, <1>7

\* on_completed persists outcomes, or gives the batch up.
LEMMA PersistWork ==
  ASSUME RunTyped, WorkInv, PersistOutcome \/ PersistFails
  PROVE  WorkInv'
<1>1. /\ UNCHANGED <<scan, outcomes, batches, pending, tasks, completed, firstError>>
      /\ proc = "running" /\ joined # 0 /\ Unpersisted # {}
  BY DEF PersistOutcome, PersistFails
<1>2. BatchWork /\ BatchPlaces /\ Reported' = Reported
  BY <1>1 DEF WorkInv, BatchWork, Afterwards, Reported
<1>3. CASE PersistOutcome
  <2> DEFINE k == Min(Unpersisted)
             new == [joinedOuts[k] EXCEPT !.persisted = TRUE]
  <2>1. UNCHANGED <<proc, joined>> /\ joinedOuts' = [joinedOuts EXCEPT ![k] = new]
    BY <1>3 DEF PersistOutcome
  <2>2. k \in DOMAIN joinedOuts /\ joinedOuts[k] \in Out
    BY <1>1, NextUnpersisted
  <2>3. new.unit = joinedOuts[k].unit
    BY <2>2 DEF Out
  <2> HIDE DEF new, k
  <2>4. DOMAIN joinedOuts' = DOMAIN joinedOuts
        /\ \A j \in DOMAIN joinedOuts : joinedOuts'[j].unit = joinedOuts[j].unit
    BY <2>1, <2>2, <2>3
  <2>5. UnitsOf(joinedOuts') = UnitsOf(joinedOuts) /\ (Distinct(joinedOuts) => Distinct(joinedOuts'))
    BY <2>4 DEF UnitsOf, Distinct
  <2>6. BatchPlaces'
    BY <1>1, <1>2, <2>1 DEF BatchPlaces
  <2>7. BatchWork'
    BY <1>1, <1>2, <2>1, <2>5, <2>6 DEF BatchWork, Afterwards
  <2> QED
    BY <1>1, <2>1, <2>7 DEF WorkInv, QueueWork
<1>4. CASE PersistFails
  <2>1. proc' = "aborting" /\ joined' = 0
    BY <1>4 DEF PersistFails
  <2>2. 0 \notin DOMAIN batches
    <3>1. batches \in Seq(Seq(Jobs))
      BY DEF RunTyped, BatchesTyped, Filled
    <3> QED
      BY <3>1
  <2>3. BatchPlaces'
    BY <1>1, <1>2, <2>1, <2>2 DEF BatchPlaces, RunTyped, BatchesTyped, TasksTyped
  <2>4. BatchWork'
    BY <1>1, <1>2, <2>1, <2>3 DEF BatchWork, Afterwards
  <2> QED
    BY <1>1, <2>1, <2>4 DEF WorkInv, QueueWork
<1> QED
  BY <1>3, <1>4

\* How many outcomes of a joined batch are for a method: one, or none.
LEMMA OutcomesOf ==
  ASSUME Distinct(joinedOuts), NEW u
  PROVE  Cardinality({j \in DOMAIN joinedOuts : joinedOuts[j].unit = u})
           = IF u \in UnitsOf(joinedOuts) THEN 1 ELSE 0
<1> DEFINE S == {j \in DOMAIN joinedOuts : joinedOuts[j].unit = u}
<1>1. CASE u \in UnitsOf(joinedOuts)
  <2>1. PICK j \in DOMAIN joinedOuts : joinedOuts[j].unit = u
    BY <1>1 DEF UnitsOf
  <2>2. S = {j}
    BY <2>1 DEF Distinct
  <2> QED
    BY <1>1, <2>2, FS_Singleton
<1>2. CASE u \notin UnitsOf(joinedOuts)
  <2>1. S = {}
    BY <1>2 DEF UnitsOf
  <2> QED
    BY <1>2, <2>1, FS_EmptySet
<1> QED
  BY <1>1, <1>2

\* A completed batch is reported, every method of it once.
LEMMA PushWork ==
  ASSUME RunTyped, WorkInv, PushCompleted
  PROVE  WorkInv'
<1> DEFINE card(u) == Cardinality({j \in DOMAIN joinedOuts : joinedOuts[j].unit = u})
           said(u) == [k \in 1..card(u) |-> \E j \in DOMAIN joinedOuts :
                                              joinedOuts[j].unit = u /\ joinedOuts[j].retry]
<1>1. /\ UNCHANGED <<proc, scan, batches, pending, tasks, firstError>>
      /\ proc = "running" /\ joined # 0 /\ joined' = 0
      /\ completed' = completed \cup {joined}
      /\ outcomes' = [u \in Units |-> outcomes[u] \o said(u)]
  BY DEF PushCompleted
<1>2. /\ BatchWork /\ BatchPlaces /\ Distinct(joinedOuts)
      /\ UnitsOf(joinedOuts) = UnitsOf(batches[joined])
      /\ joined \in DOMAIN batches /\ outcomes \in [Units -> Seq(BOOLEAN)]
      /\ Apart(batches) /\ UnitsIn(batches) \subseteq JobSet(scan)
      /\ \A u \in Units : Len(outcomes[u]) = IF u \in Reported THEN 1 ELSE 0
  BY <1>1 DEF WorkInv, BatchWork, Afterwards, RunTyped, JoinedTyped
<1>3. \A u : card(u) = IF u \in UnitsOf(batches[joined]) THEN 1 ELSE 0
  BY <1>2, OutcomesOf
<1> HIDE DEF card
<1>4. ASSUME NEW u \in Units
      PROVE  outcomes'[u] \in Seq(BOOLEAN) /\ Len(outcomes'[u]) = Len(outcomes[u]) + card(u)
  <2>1. said(u) \in Seq(BOOLEAN) /\ Len(said(u)) = card(u)
    <3>1. card(u) \in Nat
      BY <1>3
    <3>2. \A k \in 1..card(u) : said(u)[k] \in BOOLEAN
      OBVIOUS
    <3>3. DOMAIN said(u) = 1..card(u) /\ said(u) = [k \in 1..card(u) |-> said(u)[k]]
      OBVIOUS
    <3> HIDE DEF said
    <3> QED
      BY <3>1, <3>2, <3>3
  <2> HIDE DEF said
  <2>2. outcomes[u] \in Seq(BOOLEAN) /\ outcomes'[u] = outcomes[u] \o said(u)
    BY <1>1, <1>2
  <2> DEFINE x == outcomes[u]
             y == said(u)
  <2>3. x \in Seq(BOOLEAN) /\ y \in Seq(BOOLEAN) /\ outcomes'[u] = x \o y /\ Len(y) = card(u)
    BY <2>1, <2>2
  <2> HIDE DEF x, y
  <2>4. x \o y \in Seq(BOOLEAN) /\ Len(x \o y) = Len(x) + Len(y)
    BY <2>3, ConcatProperties
  <2> QED
    BY <2>3, <2>4 DEF x
<1>5. (outcomes \in [Units -> Seq(BOOLEAN)])'
  <2>1. DOMAIN outcomes' = Units /\ outcomes' = [u \in Units |-> outcomes'[u]]
    BY <1>1
  <2> QED
    BY <1>4, <2>1
<1>6. \A u : u \in Reported' <=> u \in Reported \/ u \in UnitsOf(batches[joined])
  <2>1. ASSUME NEW u, NEW k \in DOMAIN batches, NEW l \in DOMAIN batches,
               u \in UnitsOf(batches[k]), u \in UnitsOf(batches[l])
        PROVE  k = l
    BY <1>2, <2>1 DEF Apart, UnitsOf
  <2>2. UnitsOf(batches[joined]) \subseteq JobSet(scan)
    BY <1>2 DEF UnitsIn, UnitsOf
  <2>3. Reported' = {u \in JobSet(scan) : \A k \in DOMAIN batches :
                       u \in UnitsOf(batches[k]) => k \in completed \cup {joined}}
    BY <1>1 DEF Reported
  <2> QED
    BY <1>2, <2>1, <2>2, <2>3 DEF Reported
<1>7. \A u \in Reported : u \notin UnitsOf(batches[joined])
  BY <1>2 DEF Reported, BatchPlaces
<1>8. \A u \in Units : Len(outcomes'[u]) = IF u \in Reported' THEN 1 ELSE 0
  <2>1. SUFFICES ASSUME NEW u \in Units
                 PROVE  Len(outcomes'[u]) = IF u \in Reported' THEN 1 ELSE 0
    OBVIOUS
  <2>2. /\ Len(outcomes'[u]) = Len(outcomes[u]) + card(u)
        /\ Len(outcomes[u]) = IF u \in Reported THEN 1 ELSE 0
        /\ card(u) = IF u \in UnitsOf(batches[joined]) THEN 1 ELSE 0
    BY <1>2, <1>3, <1>4
  <2>3. CASE u \in Reported
    BY <1>6, <1>7, <2>2, <2>3
  <2>4. CASE u \notin Reported
    BY <1>6, <2>2, <2>4
  <2> QED
    BY <2>3, <2>4
<1>9. BatchPlaces'
  <2>1. 0 \notin DOMAIN batches
    <3>1. batches \in Seq(Seq(Jobs))
      BY DEF RunTyped, BatchesTyped, Filled
    <3> QED
      BY <3>1
  <2> QED
    BY <1>1, <1>2, <2>1 DEF BatchPlaces, RunTyped, BatchesTyped, TasksTyped
<1>10. BatchWork'
  BY <1>1, <1>2, <1>8, <1>9 DEF BatchWork, Afterwards
<1> QED
  BY <1>1, <1>5, <1>8, <1>10 DEF WorkInv, QueueWork

\* The run returns.
LEMMA FinishWork ==
  ASSUME WorkInv, Finish
  PROVE  WorkInv'
<1>1. /\ UNCHANGED <<scan, outcomes, batches, pending, tasks, joined, joinedOuts, completed, firstError>>
      /\ proc \in {"running", "aborting"}
      /\ proc' = "failed" \/ (proc = "running" /\ proc' \in {"paused", "done"})
  BY DEF Finish, runVars, AtLoop
<1>2. BatchWork /\ BatchPlaces /\ Reported' = Reported
  BY <1>1 DEF WorkInv, BatchWork, Afterwards, Reported
<1>3. BatchPlaces'
  BY <1>1, <1>2 DEF BatchPlaces
<1>4. BatchWork'
  BY <1>1, <1>2, <1>3 DEF BatchWork, Afterwards
<1> QED
  BY <1>1, <1>4 DEF WorkInv, QueueWork

LEMMA NextWork == StageInv /\ WorkInv /\ [SNext]_svars => WorkInv'
<1> SUFFICES ASSUME StageInv, WorkInv, [SNext]_svars
             PROVE  WorkInv'
  OBVIOUS
<1>0. RunTyped /\ RunTyped'
  BY NextStage DEF StageInv
<1>1. ASSUME NEW s \in Scans, NEW limit \in Limits, StartScan(s, limit)
      PROVE  WorkInv'
  BY <1>1, StartWork
<1>2. ASSUME NEW s \in Scans, StartScanFails(s)
      PROVE  WorkInv'
  BY <1>2, StartWork
<1>3. CASE Group
  BY <1>0, <1>3, GroupWork
<1>4. CASE Die
  BY <1>4, NoWork DEF Die, Fresh, Afterwards
<1>5. CASE RunStep
  <2>1. CASE ReuseOwn \/ ReuseAcross \/ CopyAcross \/ NeedsReview
    BY <1>0, <2>1, ReuseWork
  <2>2. CASE ReuseFails \/ Reject
    BY <2>2, RejectWork
  <2>3. ASSUME NEW i \in DOMAIN tasks,
               \/ \E c \in Costs : ModelCall(i, c)
               \/ Charge(i) \/ CallbackFails(i)
               \/ \E st \in {"err", "panic"} : TaskFails(i, st)
        PROVE  WorkInv'
    BY <1>0, <2>3, CallWork
  <2>4. ASSUME NEW i \in DOMAIN tasks, NEW r \in BOOLEAN, ItemComplete(i, r)
        PROVE  WorkInv'
    BY <1>0, <2>4, ItemWork
  <2>5. ASSUME NEW i \in DOMAIN tasks, BatchFails(i)
        PROVE  WorkInv'
    BY <1>0, <2>5, BatchFailsWork
  <2>6. ASSUME NEW i \in DOMAIN tasks, JoinOk(i) \/ JoinErr(i) \/ JoinPanic(i) \/ Drain(i)
        PROVE  WorkInv'
    BY <1>0, <2>6, LeaveWork
  <2>7. ASSUME NEW i \in pending, StartTask(i)
        PROVE  WorkInv'
    BY <1>0, <2>7, SpawnWork
  <2>8. CASE PersistOutcome \/ PersistFails
    BY <1>0, <2>8, PersistWork
  <2>9. CASE PushCompleted
    BY <1>0, <2>9, PushWork
  <2>10. CASE Finish
    BY <2>10, FinishWork
  <2> QED
    BY <1>5, <2>1, <2>2, <2>3, <2>4, <2>5, <2>6, <2>7, <2>8, <2>9, <2>10 DEF RunStep
<1>6. CASE UNCHANGED svars
  <2>1. UNCHANGED <<scan, todo, fresh, outcomes, batches, pending, tasks, joined, joinedOuts,
                    completed, firstError, proc>>
    BY <1>6 DEF svars, runVars
  <2> QED
    BY <2>1, SameWork
<1> QED
  BY <1>1, <1>2, <1>3, <1>4, <1>5, <1>6 DEF SNext

(***************************************************************************)
(* However the queue is grouped, its batches split, their methods failed,  *)
(* and the tasks interleaved, every method of the scan is in one place: it *)
(* waits for its look-up, for grouping, in one batch, or has one outcome.  *)
(***************************************************************************)
THEOREM StageWork == SSpec => []WorkInv
  BY StageInvariant, InitWork, NextWork, PTL DEF SSpec

(***************************************************************************)
(* Type correctness of the stage, with no method reported twice.           *)
(***************************************************************************)
THEOREM StageTyped == SSpec => []STypeOK
<1>1. StageInv /\ WorkInv => STypeOK
  <2>1. SUFFICES ASSUME StageInv, WorkInv PROVE STypeOK
    OBVIOUS
  <2>2. /\ JTypeOK
        /\ proc \in Ended \cup {"reuse", "running", "aborting", "rejecting"}
        /\ (store = None) <=> (proc \in Ended)
        /\ pending \subseteq DOMAIN batches /\ DOMAIN tasks \subseteq DOMAIN batches
    BY <2>1 DEF StageInv, RunTyped, ProcTyped, BatchesTyped, TasksTyped
  <2>3. \A i \in DOMAIN tasks :
          /\ tasks[i].st \in {"run", "ok", "err", "panic"}
          /\ tasks[i].st = "run" => tasks[i].done < Len(tasks[i].queue[1])
          /\ tasks[i].st = "ok" => tasks[i].queue = << >>
    BY <2>1 DEF StageInv, RunTyped, TasksTyped, TaskOK
  <2>4. \A u \in Units : Len(outcomes[u]) <= 1
    <3>1. SUFFICES ASSUME NEW u \in Units PROVE Len(outcomes[u]) <= 1
      OBVIOUS
    <3>2. Len(outcomes[u]) \in {0, 1}
      BY <2>1 DEF WorkInv
    <3>3. \A n \in {0, 1} : n <= 1
      OBVIOUS
    <3> QED
      BY <3>2, <3>3
  <2> QED
    BY <2>2, <2>3, <2>4 DEF STypeOK
<1> QED
  BY <1>1, StageInvariant, StageWork, PTL

\* A queue that ran dry without an error covers every method of the scan.
LEMMA FinishCovers ==
  ASSUME RunTyped, WorkInv, proc = "running", joined = 0, ~firstError, pending = {}, tasks = << >>
  PROVE  Covered
<1>1. BatchWork /\ BatchPlaces
  BY DEF WorkInv, BatchWork, Afterwards
<1>2. DOMAIN batches \subseteq completed
  <2>1. DOMAIN tasks = {} /\ 0 \notin DOMAIN batches
    <3>1. batches \in Seq(Seq(Jobs))
      BY DEF RunTyped, BatchesTyped, Filled
    <3> QED
      BY <3>1
  <2> QED
    BY <1>1, <2>1 DEF BatchPlaces
<1>3. Reported = JobSet(scan)
  BY <1>2 DEF Reported
<1> QED
  BY <1>1, <1>3 DEF Covered, BatchWork, Afterwards

-----------------------------------------------------------------------------
(* The stage drives the scheduler.                                         *)

\* What the scheduler is at, by what the run is at.
LEMMA Phases ==
  /\ PhaseOf("running") = "running" /\ PhaseOf("aborting") = "aborting"
  /\ PhaseOf("done") = "ok" /\ PhaseOf("paused") = "early" /\ PhaseOf("failed") = "err"
  /\ \A p \in {"idle", "reuse", "rejecting", "rejected"} : PhaseOf(p) = "idle"
  BY DEF PhaseOf

\* Steps that leave the batches and the spend alone, while a call runs.
LEMMA SameView ==
  ASSUME UNCHANGED <<batches, budget>>
  PROVE  /\ KeysFor' = KeysFor
         /\ proc' = proc => Admit' = Admit
         /\ proc \in Afterwards /\ proc' \in Afterwards => Admit' = Admit
<1>1. KeysFor' = KeysFor
  BY DEF KeysFor
<1>2. CanStart' = CanStart
  BY DEF CanStart
<1> QED
  BY <1>1, <1>2 DEF Admit, Afterwards

\* The scheduler counts its tasks as the stage does.
LEMMA SameCount ==
  \A S : Scheduler!Cardinality(S) = Cardinality(S)
  BY DEF Scheduler!Cardinality, Cardinality

\* While the call runs, the fill loop and admission read the same.
LEMMA SameGuards ==
  ASSUME RunTyped, proc \in Afterwards
  PROVE  /\ Admit <=> CanStart
         /\ Scheduler!Items = DOMAIN batches
         /\ \A i \in DOMAIN batches : KeysFor[i] = CacheKeys(batches[i])
         /\ \A i \in DOMAIN batches : Scheduler!Eligible(i) <=> Eligible(i)
         /\ Scheduler!CanFill <=> CanFill
<1>1. Admit <=> CanStart
  BY DEF Admit, Afterwards
<1>2. /\ DOMAIN KeysFor = DOMAIN batches
      /\ \A i \in DOMAIN batches : KeysFor[i] = CacheKeys(batches[i])
  BY DEF KeysFor
<1>3. \A i \in DOMAIN batches : Scheduler!Eligible(i) <=> Eligible(i)
  BY <1>2 DEF Scheduler!Eligible, Eligible
<1>4. pending \subseteq DOMAIN batches
  BY DEF RunTyped, BatchesTyped
<1>5. (\E i \in pending : Scheduler!Eligible(i)) <=> (\E i \in pending : Eligible(i))
  BY <1>3, <1>4
<1>6. Scheduler!CanFill <=> CanFill
  <2>1. Scheduler!Concurrency = Concurrency
    BY DEF Scheduler!Concurrency, Concurrency
  <2> DEFINE room == Cardinality(DOMAIN tasks) < Concurrency
             other == \E i \in pending : Eligible(i)
  <2>2. CanFill <=> ~firstError /\ room /\ CanStart /\ other
    BY DEF CanFill
  <2>3. Scheduler!CanFill <=> /\ ~firstError
                              /\ Cardinality(DOMAIN tasks) < Scheduler!Concurrency
                              /\ Admit
                              /\ \E i \in pending : Scheduler!Eligible(i)
    BY SameCount DEF Scheduler!CanFill
  <2>4. (Cardinality(DOMAIN tasks) < Scheduler!Concurrency) <=> room
    BY <2>1
  <2> HIDE DEF room
  <2> QED
    BY <1>1, <1>5, <2>2, <2>3, <2>4
<1> QED
  BY <1>1, <1>2, <1>3, <1>6 DEF Scheduler!Items

\* Outside a call nothing is scheduled: a step there is the end of the last
\* call's state, or nothing.
LEMMA OutsideACall ==
  ASSUME RunTyped, RunTyped', proc' \in {"idle", "reuse", "rejecting", "rejected"}
  PROVE  Scheduler!Exit \/ UNCHANGED Scheduler!vars
<1>1. /\ batches' = << >> /\ pending' = {} /\ tasks' = << >> /\ completed' = {}
      /\ activeKeys' = {} /\ joined' = 0 /\ firstError' = FALSE
  BY DEF RunTyped, NothingScheduled
<1>2. DOMAIN << >> = {} /\ [i \in {} |-> CacheKeys(<< >>[i])] = << >>
  OBVIOUS
<1>3. KeysFor' = << >> /\ (DOMAIN tasks)' = {}
  BY <1>1, <1>2 DEF KeysFor
<1>4. Admit' = TRUE /\ PhaseOf(proc') = "idle"
  BY Phases DEF Admit
<1>5. CASE proc \in {"idle", "reuse", "rejecting", "rejected"}
  <2>1. /\ batches = << >> /\ pending = {} /\ tasks = << >> /\ completed = {}
        /\ activeKeys = {} /\ joined = 0 /\ firstError = FALSE
    BY <1>5 DEF RunTyped, NothingScheduled
  <2>2. KeysFor = << >> /\ DOMAIN tasks = {}
    BY <1>2, <2>1 DEF KeysFor
  <2>3. Admit = TRUE /\ PhaseOf(proc) = "idle"
    BY <1>5, Phases DEF Admit
  <2> QED
    BY <1>1, <1>3, <1>4, <2>1, <2>2, <2>3 DEF Scheduler!vars
<1>6. CASE proc \in Afterwards
  <2>1. PhaseOf(proc) # "idle"
    BY <1>6, Phases DEF Afterwards
  <2> QED
    BY <1>1, <1>3, <1>4, <2>1 DEF Scheduler!Exit
<1> QED
  BY <1>5, <1>6 DEF RunTyped, ProcTyped, Ended, Afterwards

\* Grouping is the call of the scheduler.
LEMMA GroupCalls ==
  ASSUME RunTyped, RunTyped', Group
  PROVE  \E q \in BoundedSeq(SUBSET Paths, Cardinality(Units)), open \in BOOLEAN :
           Scheduler!Call(q, open)
<1>1. /\ proc = "reuse" /\ proc' = "running" /\ pending' = DOMAIN batches'
      /\ UNCHANGED <<tasks, activeKeys, completed, joined, firstError>>
  BY DEF Group
<1>2. /\ tasks = << >> /\ completed = {} /\ activeKeys = {} /\ joined = 0 /\ firstError = FALSE
  BY <1>1 DEF RunTyped, NothingScheduled
<1>3. DOMAIN KeysFor' = DOMAIN batches'
  BY DEF KeysFor
<1>4. KeysFor' \in BoundedSeq(SUBSET Paths, Cardinality(Units))
  <2> DEFINE n == Len(batches')
  <2>1. batches' \in Seq(Seq(Jobs)) /\ n <= Cardinality(Units)
    BY DEF RunTyped, BatchesTyped, Filled
  <2>2. Cardinality(Units) \in Nat
    BY StageAssumption, FS_CardinalityType
  <2>3. n \in 0..Cardinality(Units) /\ DOMAIN batches' = 1..n
        /\ \A i \in 1..n : batches'[i] \in Seq(Jobs)
    BY <2>1, <2>2
  <2>4. ASSUME NEW batch \in Seq(Jobs)
        PROVE  CacheKeys(batch) \in SUBSET Paths
    <3>1. \A i \in DOMAIN batch : batch[i].path \in Paths
      BY DEF Paths
    <3> QED
      BY <3>1 DEF CacheKeys
  <2>5. KeysFor' = [i \in 1..n |-> CacheKeys(batches'[i])]
    BY <2>3 DEF KeysFor
  <2> HIDE DEF n
  <2>6. KeysFor' \in [1..n -> SUBSET Paths]
    BY <2>3, <2>4, <2>5
  <2> QED
    BY <2>3, <2>6 DEF BoundedSeq, SeqOf
<1>5. Admit' \in BOOLEAN
  BY DEF Admit
<1>6. PhaseOf(proc) = "idle" /\ PhaseOf(proc') = "running"
  BY <1>1, Phases
<1>7. (DOMAIN tasks)' = {}
  BY <1>1, <1>2
<1>8. Scheduler!Call(KeysFor', Admit')
  BY <1>1, <1>2, <1>3, <1>6, <1>7 DEF Scheduler!Call, Scheduler!Returned
<1> QED
  BY <1>4, <1>5, <1>8

\* A charge may close admission, and never opens it.
LEMMA ChargeCloses ==
  ASSUME RunTyped, NEW i \in DOMAIN tasks, Charge(i)
  PROVE  Scheduler!CloseAdmission \/ UNCHANGED Scheduler!vars
<1>1. /\ UNCHANGED <<proc, batches, pending, activeKeys, joined, completed, firstError>>
      /\ budget' = [budget EXCEPT !.spent = @ + tasks[i].owed]
      /\ proc \in {"running", "aborting"} /\ TaskOK(tasks[i])
  BY TaskParts DEF Charge
<1>2. (DOMAIN tasks)' = DOMAIN tasks /\ KeysFor' = KeysFor
  BY <1>1 DEF Charge, KeysFor
<1>3. PhaseOf(proc') = PhaseOf(proc) /\ PhaseOf(proc) \in {"running", "aborting"}
  BY <1>1, Phases
<1>4. CanStart' => CanStart
  <2>1. budget = [limit |-> budget.limit, spent |-> budget.spent]
        /\ budget.limit \in Nat \cup {None} /\ budget.spent \in Nat
    BY DEF RunTyped, BudgetTyped
  <2>2. tasks[i].owed \in Nat
    BY <1>1 DEF TaskOK
  <2> DEFINE more == budget.spent + tasks[i].owed
  <2>3. budget'.limit = budget.limit /\ budget'.spent = more
    BY <1>1, <2>1
  <2>4. more \in Nat /\ more >= budget.spent
    BY <2>1, <2>2
  <2> HIDE DEF more
  <2> QED
    BY <2>1, <2>3, <2>4 DEF CanStart
<1>5. Admit \in BOOLEAN /\ Admit' \in BOOLEAN /\ (Admit' => Admit)
  BY <1>1, <1>4 DEF Admit
<1>6. CASE Admit' = Admit
  BY <1>1, <1>2, <1>3, <1>6 DEF Scheduler!vars
<1>7. CASE Admit' # Admit
  <2>1. Admit /\ Admit' = FALSE
    BY <1>5, <1>7
  <2> QED
    BY <1>1, <1>2, <1>3, <2>1 DEF Scheduler!CloseAdmission
<1> QED
  BY <1>6, <1>7

\* The scheduler's own steps.
LEMMA StartMaps ==
  ASSUME RunTyped, NEW i \in pending, StartTask(i)
  PROVE  Scheduler!Start(i) /\ i \in Scheduler!Items
<1>1. /\ proc = "running" /\ joined = 0 /\ CanFill /\ Eligible(i)
      /\ \A j \in pending : j < i => ~Eligible(j)
      /\ pending' = pending \ {i} /\ tasks' = Spawn(i)
      /\ activeKeys' = activeKeys \cup CacheKeys(batches[i])
      /\ UNCHANGED <<proc, batches, joined, completed, firstError, budget>>
  BY DEF StartTask, AtLoop
<1>2. pending \subseteq DOMAIN batches /\ i \in DOMAIN batches
  BY DEF RunTyped, BatchesTyped
<1>3. /\ Scheduler!Items = DOMAIN batches /\ KeysFor[i] = CacheKeys(batches[i])
      /\ \A j \in DOMAIN batches : Scheduler!Eligible(j) <=> Eligible(j)
      /\ Scheduler!CanFill
  BY <1>1, <1>2, SameGuards DEF Afterwards
<1>4. KeysFor' = KeysFor /\ Admit' = Admit /\ PhaseOf(proc') = PhaseOf(proc) /\ PhaseOf(proc) = "running"
  BY <1>1, SameView, Phases
<1>5. (DOMAIN tasks)' = DOMAIN tasks \cup {i}
  BY <1>1 DEF Spawn
<1>6. Scheduler!Eligible(i) /\ \A j \in pending : j < i => ~Scheduler!Eligible(j)
  BY <1>1, <1>2, <1>3
<1> QED
  BY <1>1, <1>2, <1>3, <1>4, <1>5, <1>6 DEF Scheduler!Start, Scheduler!AtLoop

LEMMA LeaveMaps ==
  ASSUME RunTyped, NEW i \in DOMAIN tasks,
         JoinOk(i) \/ JoinErr(i) \/ JoinPanic(i) \/ Drain(i)
  PROVE  /\ i \in Scheduler!Items
         /\ \/ Scheduler!JoinOk(i) \/ Scheduler!JoinErr(i)
            \/ Scheduler!JoinPanic(i) \/ Scheduler!Drain(i)
<1>1. /\ tasks' = [j \in DOMAIN tasks \ {i} |-> tasks[j]]
      /\ UNCHANGED <<proc, batches, pending, completed, budget>>
      /\ proc \in {"running", "aborting"} /\ i \in DOMAIN batches
  BY TaskParts DEF JoinOk, JoinErr, JoinPanic, Drain, Joining, AtLoop
<1>2. (DOMAIN tasks)' = DOMAIN tasks \ {i}
  BY <1>1
<1>3. /\ KeysFor' = KeysFor /\ Admit' = Admit /\ PhaseOf(proc') = PhaseOf(proc)
      /\ PhaseOf(proc) = proc
  BY <1>1, SameView, Phases
<1>4. /\ Scheduler!Items = DOMAIN batches /\ KeysFor[i] = CacheKeys(batches[i])
      /\ Scheduler!CanFill <=> CanFill
  BY <1>1, SameGuards DEF Afterwards
<1>5. ASSUME JoinOk(i) \/ JoinErr(i) \/ JoinPanic(i)
      PROVE  Scheduler!AtJoin(i)
  <2>1. proc = "running" /\ joined = 0 /\ ~CanFill
    BY <1>5 DEF JoinOk, JoinErr, JoinPanic, Joining, AtLoop
  <2> QED
    BY <1>3, <1>4, <2>1 DEF Scheduler!AtJoin, Scheduler!AtLoop
<1>6. CASE JoinOk(i)
  <2>1. /\ activeKeys' = activeKeys \ CacheKeys(batches[i]) /\ joined' = i
        /\ UNCHANGED firstError
    BY <1>6 DEF JoinOk
  <2> QED
    BY <1>1, <1>2, <1>3, <1>4, <1>5, <1>6, <2>1 DEF Scheduler!JoinOk
<1>7. CASE JoinErr(i)
  <2>1. /\ activeKeys' = activeKeys \ CacheKeys(batches[i]) /\ firstError' = TRUE
        /\ UNCHANGED joined
    BY <1>7 DEF JoinErr
  <2> QED
    BY <1>1, <1>2, <1>3, <1>4, <1>5, <1>7, <2>1 DEF Scheduler!JoinErr
<1>8. CASE JoinPanic(i)
  <2>1. firstError' = TRUE /\ UNCHANGED <<activeKeys, joined>>
    BY <1>8 DEF JoinPanic
  <2> QED
    BY <1>1, <1>2, <1>3, <1>4, <1>5, <1>8, <2>1 DEF Scheduler!JoinPanic
<1>9. CASE Drain(i)
  <2>1. proc = "aborting" /\ UNCHANGED <<activeKeys, joined, firstError>>
    BY <1>9 DEF Drain
  <2> QED
    BY <1>1, <1>2, <1>3, <1>4, <2>1 DEF Scheduler!Drain
<1> QED
  BY <1>1, <1>4, <1>6, <1>7, <1>8, <1>9

LEMMA CallbackMaps ==
  ASSUME RunTyped, PersistOutcome \/ PersistFails \/ PushCompleted
  PROVE  \/ Scheduler!OnCompletedOk \/ Scheduler!OnCompletedErr
         \/ UNCHANGED Scheduler!vars
<1>1. /\ UNCHANGED <<batches, pending, tasks, activeKeys, firstError, budget>>
      /\ proc = "running" /\ joined # 0 /\ proc' \in {"running", "aborting"}
  BY DEF PersistOutcome, PersistFails, PushCompleted
<1>2. KeysFor' = KeysFor /\ Admit' = Admit
  BY <1>1, SameView DEF Afterwards
<1>3. PhaseOf(proc) = "running" /\ PhaseOf(proc') = proc'
  BY <1>1, Phases
<1>4. CASE PersistOutcome
  <2>1. UNCHANGED <<proc, joined, completed>>
    BY <1>4 DEF PersistOutcome
  <2> QED
    BY <1>1, <1>2, <2>1 DEF Scheduler!vars
<1>5. CASE PersistFails
  <2>1. joined' = 0 /\ proc' = "aborting" /\ UNCHANGED completed
    BY <1>5 DEF PersistFails
  <2> QED
    BY <1>1, <1>2, <1>3, <2>1 DEF Scheduler!OnCompletedErr
<1>6. CASE PushCompleted
  <2>1. joined' = 0 /\ completed' = completed \cup {joined} /\ UNCHANGED proc
    BY <1>6 DEF PushCompleted
  <2> QED
    BY <1>1, <1>2, <1>3, <2>1 DEF Scheduler!OnCompletedOk
<1> QED
  BY <1>4, <1>5, <1>6

\* The run returns as the call did: with all the work done it is covered.
LEMMA FinishMaps ==
  ASSUME RunTyped, WorkInv, Finish
  PROVE  Scheduler!Aborted \/ Scheduler!Return
<1>1. /\ UNCHANGED <<batches, pending, tasks, activeKeys, joined, completed, firstError, budget>>
      /\ tasks = << >> /\ proc \in {"running", "aborting"} /\ proc' \in {"failed", "paused", "done"}
  BY DEF Finish, runVars, AtLoop
<1>2. KeysFor' = KeysFor /\ Admit' = Admit
  BY <1>1, SameView DEF Afterwards
<1>3. DOMAIN tasks = {}
  BY <1>1
<1>4. CASE proc = "aborting"
  <2>1. proc' = "failed"
    BY <1>4 DEF Finish, AtLoop
  <2>2. PhaseOf(proc) = "aborting" /\ PhaseOf(proc') = "err"
    BY <1>4, <2>1, Phases
  <2> QED
    BY <1>1, <1>2, <1>3, <2>2 DEF Scheduler!Aborted
<1>5. CASE proc = "running"
  <2>1. joined = 0 /\ ~CanFill
    BY <1>5 DEF Finish, AtLoop
  <2>2. ~Scheduler!CanFill
    BY <1>1, <2>1, SameGuards DEF Afterwards
  <2>3. ~firstError /\ pending = {} => Covered
    BY <1>1, <1>5, <2>1, FinishCovers
  <2>4. PhaseOf(proc') = CASE firstError -> "err"
                           [] ~firstError /\ pending # {} -> "early"
                           [] OTHER -> "ok"
    <3>1. CASE firstError
      <4>1. proc' = "failed"
        BY <1>5, <3>1 DEF Finish, AtLoop
      <4> QED
        BY <3>1, <4>1, Phases
    <3>2. CASE ~firstError /\ pending # {}
      <4>1. proc' = "paused"
        BY <1>5, <2>1, <3>2 DEF Finish, AtLoop
      <4> QED
        BY <3>2, <4>1, Phases
    <3>3. CASE ~firstError /\ pending = {}
      <4>1. proc' = "done"
        BY <1>5, <2>1, <2>3, <3>3 DEF Finish, AtLoop
      <4> QED
        BY <3>3, <4>1, Phases
    <3> QED
      BY <3>1, <3>2, <3>3
  <2>5. PhaseOf(proc) = "running"
    BY <1>5, Phases
  <2> QED
    BY <1>1, <1>2, <1>3, <2>1, <2>2, <2>4, <2>5 DEF Scheduler!Return, Scheduler!AtLoop
<1> QED
  BY <1>1, <1>4, <1>5

\* What happens inside a task is nothing to the scheduler.
LEMMA TaskStutters ==
  ASSUME RunTyped, NEW i \in DOMAIN tasks,
         \/ \E c \in Costs : ModelCall(i, c)
         \/ CallbackFails(i)
         \/ \E r \in BOOLEAN : ItemComplete(i, r)
         \/ BatchFails(i)
         \/ \E st \in {"err", "panic"} : TaskFails(i, st)
  PROVE  UNCHANGED Scheduler!vars
<1>1. \E t : TaskStep(i, t)
  BY DEF ModelCall, CallbackFails, ItemComplete, BatchFails, TaskFails
<1>2. /\ UNCHANGED <<proc, batches, pending, activeKeys, joined, completed, firstError, budget>>
      /\ DOMAIN tasks' = DOMAIN tasks
  BY <1>1 DEF TaskStep
<1>3. KeysFor' = KeysFor /\ Admit' = Admit
  BY <1>2, SameView
<1>4. PhaseOf(proc)' = PhaseOf(proc) /\ (DOMAIN tasks)' = DOMAIN tasks
  BY <1>2
<1> QED
  BY <1>2, <1>3, <1>4 DEF Scheduler!vars

LEMMA InitScheduler == SInit => Scheduler!Init
<1> SUFFICES ASSUME SInit PROVE Scheduler!Init
  OBVIOUS
<1>1. /\ proc = "idle" /\ batches = << >> /\ pending = {} /\ tasks = << >> /\ completed = {}
      /\ activeKeys = {} /\ joined = 0 /\ firstError = FALSE
  BY DEF SInit
<1>2. KeysFor = << >> /\ DOMAIN tasks = {}
  BY <1>1 DEF KeysFor
<1>3. Admit = TRUE /\ PhaseOf(proc) = "idle"
  BY <1>1, Phases DEF Admit
<1> QED
  BY <1>1, <1>2, <1>3 DEF Scheduler!Init

\* Every step of the stage is a step of the scheduler, or none of its.
LEMMA NextScheduler ==
  StageInv /\ WorkInv /\ [SNext]_svars => [Scheduler!Next]_(Scheduler!vars)
<1> SUFFICES ASSUME StageInv, WorkInv, [SNext]_svars
             PROVE  Scheduler!Next \/ UNCHANGED Scheduler!vars
  OBVIOUS
<1>0. RunTyped /\ RunTyped'
  BY NextStage DEF StageInv
<1> DEFINE outside == {"idle", "reuse", "rejecting", "rejected"}
<1>1. CASE proc' \in outside
  <2>1. Scheduler!Exit \/ UNCHANGED Scheduler!vars
    BY <1>0, <1>1, OutsideACall
  <2> QED
    BY <2>1 DEF Scheduler!Next
<1>2. CASE Group
  <2>1. \E q \in BoundedSeq(SUBSET Paths, Cardinality(Units)), open \in BOOLEAN :
          Scheduler!Call(q, open)
    BY <1>0, <1>2, GroupCalls
  <2> QED
    BY <2>1 DEF Scheduler!Next
<1>3. CASE RunStep /\ proc' \notin outside
  <2>1. ReuseOwn \/ ReuseAcross \/ CopyAcross \/ NeedsReview \/ ReuseFails \/ Reject
          => proc' \in outside
    BY DEF ReuseOwn, ReuseAcross, CopyAcross, NeedsReview, ReuseFails, Reject
  <2>2. ASSUME NEW i \in DOMAIN tasks,
               \/ \E c \in Costs : ModelCall(i, c)
               \/ CallbackFails(i)
               \/ \E r \in BOOLEAN : ItemComplete(i, r)
               \/ BatchFails(i)
               \/ \E st \in {"err", "panic"} : TaskFails(i, st)
        PROVE  UNCHANGED Scheduler!vars
    BY <1>0, <2>2, TaskStutters
  <2>3. ASSUME NEW i \in DOMAIN tasks, Charge(i)
        PROVE  Scheduler!Next \/ UNCHANGED Scheduler!vars
    <3>1. Scheduler!CloseAdmission \/ UNCHANGED Scheduler!vars
      BY <1>0, <2>3, ChargeCloses
    <3> QED
      BY <3>1 DEF Scheduler!Next
  <2>4. ASSUME NEW i \in DOMAIN tasks, JoinOk(i) \/ JoinErr(i) \/ JoinPanic(i) \/ Drain(i)
        PROVE  Scheduler!Next
    <3>1. /\ i \in Scheduler!Items
          /\ \/ Scheduler!JoinOk(i) \/ Scheduler!JoinErr(i)
             \/ Scheduler!JoinPanic(i) \/ Scheduler!Drain(i)
      BY <1>0, <2>4, LeaveMaps
    <3> QED
      BY <3>1 DEF Scheduler!Next
  <2>5. ASSUME NEW i \in pending, StartTask(i)
        PROVE  Scheduler!Next
    <3>1. Scheduler!Start(i) /\ i \in Scheduler!Items
      BY <1>0, <2>5, StartMaps
    <3> QED
      BY <3>1 DEF Scheduler!Next
  <2>6. CASE PersistOutcome \/ PersistFails \/ PushCompleted
    <3>1. Scheduler!OnCompletedOk \/ Scheduler!OnCompletedErr \/ UNCHANGED Scheduler!vars
      BY <1>0, <2>6, CallbackMaps
    <3> QED
      BY <3>1 DEF Scheduler!Next
  <2>7. CASE Finish
    <3>1. Scheduler!Aborted \/ Scheduler!Return
      BY <1>0, <2>7, FinishMaps
    <3> QED
      BY <3>1 DEF Scheduler!Next
  <2> QED
    BY <1>3, <2>1, <2>2, <2>3, <2>4, <2>5, <2>6, <2>7 DEF RunStep
<1>4. CASE UNCHANGED svars
  <2>1. UNCHANGED <<proc, batches, pending, tasks, activeKeys, joined, completed, firstError, budget>>
    BY <1>4 DEF svars, runVars
  <2>2. KeysFor' = KeysFor /\ Admit' = Admit
    BY <2>1, SameView
  <2>3. PhaseOf(proc)' = PhaseOf(proc) /\ (DOMAIN tasks)' = DOMAIN tasks
    BY <2>1
  <2> QED
    BY <2>1, <2>2, <2>3 DEF Scheduler!vars
<1>5. CASE Die \/ (\E s \in Scans : StartScanFails(s) \/ \E l \in Limits : StartScan(s, l))
  BY <1>1, <1>5 DEF Die, StartScan, StartScanFails
<1> QED
  BY <1>1, <1>2, <1>3, <1>4, <1>5 DEF SNext

(***************************************************************************)
(* The stage runs its batches as ReviewScheduler describes: every step of  *)
(* a task, of its callbacks and of the run is a step of the scheduler or   *)
(* none.  WorkInv is what the refinement rests on: a run that fails        *)
(* validate_method_coverage after an Ok of the scheduler would be a return *)
(* the scheduler does not have.                                            *)
(***************************************************************************)
THEOREM StageImplementsScheduler == SSpec => ImplementsScheduler
  BY InitScheduler, NextScheduler, StageInvariant, StageWork, PTL
     DEF SSpec, ImplementsScheduler, Scheduler!Spec

(***************************************************************************)
(* What is proved of the scheduler, read for the stage.                    *)
(***************************************************************************)
Proved == INSTANCE ReviewSchedulerProofs WITH
  Keys    <- Paths,
  Queues  <- BoundedSeq(SUBSET Paths, Cardinality(Units)),
  keysFor <- KeysFor,
  running <- DOMAIN tasks,
  phase   <- PhaseOf(proc),
  admit   <- Admit

\* The scheduler's assumption holds of what the stage gives it.
LEMMA StageQueues ==
  /\ MaxConcurrency \in Nat
  /\ BoundedSeq(SUBSET Paths, Cardinality(Units)) \subseteq Seq(SUBSET Paths)
  BY StageAssumption DEF BoundedSeq, SeqOf

LEMMA SameScheduler ==
  /\ Scheduler!Init => Proved!Init
  /\ [Scheduler!Next]_(Scheduler!vars) => [Proved!Next]_(Proved!vars)
<1>1. /\ Proved!Init <=> Scheduler!Init
      /\ Proved!Next <=> Scheduler!Next
      /\ Proved!vars = Scheduler!vars
  BY DEF Scheduler!Init, Proved!Init, Scheduler!Call, Proved!Call, Scheduler!Start, Proved!Start,
         Scheduler!CloseAdmission, Proved!CloseAdmission, Scheduler!AtLoop, Proved!AtLoop,
         Scheduler!CanFill, Proved!CanFill, Scheduler!Eligible, Proved!Eligible,
         Scheduler!Concurrency, Proved!Concurrency, Scheduler!Items, Proved!Items,
         Scheduler!Returned, Proved!Returned, Scheduler!AtJoin, Proved!AtJoin, Scheduler!JoinOk,
         Proved!JoinOk, Scheduler!OnCompletedOk, Proved!OnCompletedOk, Scheduler!OnCompletedErr,
         Proved!OnCompletedErr, Scheduler!JoinErr, Proved!JoinErr, Scheduler!JoinPanic,
         Proved!JoinPanic, Scheduler!Drain, Proved!Drain, Scheduler!Aborted, Proved!Aborted,
         Scheduler!Return, Proved!Return, Scheduler!Exit, Proved!Exit, Scheduler!Next,
         Proved!Next, Scheduler!vars, Proved!vars, Scheduler!Cardinality, Proved!Cardinality
<1>2. UNCHANGED Scheduler!vars => UNCHANGED Proved!vars
  BY DEF Scheduler!vars, Proved!vars
<1> QED
  BY <1>1, <1>2

(***************************************************************************)
(* So in the stage no file is in two reviews at once, no batch is started  *)
(* twice or lost, at most MaxConcurrency tasks run, and a run pauses only  *)
(* when its budget refuses the next batch.                                 *)
(***************************************************************************)
StageSchedule ==
  /\ Scheduler!KeyExclusion /\ Scheduler!StartedOnce /\ Scheduler!NothingLost
  /\ Scheduler!EarlyStopNeedsBudget /\ Scheduler!WithinConcurrency

THEOREM StageKeepsSchedule == SSpec => []StageSchedule
<1>1. Proved!Spec => []Proved!KeyExclusion
  BY Proved!SchedulerKeyExclusion, StageQueues
<1>2. Proved!Spec => []Proved!StartedOnce
  BY Proved!SchedulerStartedOnce, StageQueues
<1>3. Proved!Spec => []Proved!NothingLost
  BY Proved!SchedulerNothingLost, StageQueues
<1>4. Proved!Spec => []Proved!EarlyStopNeedsBudget
  BY Proved!SchedulerEarlyStop, StageQueues
<1>5. Proved!Spec => []Proved!WithinConcurrency
  BY Proved!SchedulerWithinConcurrency, StageQueues
<1>6. Proved!KeyExclusion /\ Proved!StartedOnce /\ Proved!NothingLost
        /\ Proved!EarlyStopNeedsBudget /\ Proved!WithinConcurrency => StageSchedule
  BY DEF StageSchedule, Scheduler!KeyExclusion, Proved!KeyExclusion, Scheduler!StartedOnce, Proved!StartedOnce,
         Scheduler!NothingLost, Proved!NothingLost, Scheduler!EarlyStopNeedsBudget,
         Proved!EarlyStopNeedsBudget, Scheduler!WithinConcurrency, Proved!WithinConcurrency,
         Scheduler!Items, Proved!Items, Scheduler!Concurrency, Proved!Concurrency,
         Scheduler!Cardinality, Proved!Cardinality
<1>7. Scheduler!Spec => Proved!Spec
  BY SameScheduler, PTL DEF Scheduler!Spec, Proved!Spec
<1> QED
  BY <1>1, <1>2, <1>3, <1>4, <1>5, <1>6, <1>7, StageImplementsScheduler, PTL
     DEF ImplementsScheduler

-----------------------------------------------------------------------------
(* What the journal says of a run.                                         *)

\* In the review context of scan s, u has no final review.
NoFinal(s, u) ==
  \A i \in DOMAIN lines :
    lines[i].kind = "unit" /\ lines[i].unit = u /\ ContextOf[lines[i].scan] = ContextOf[s]
      => lines[i].retry

MethodOnly == \A i \in DOMAIN lines : lines[i].kind = "unit" => lines[i].stage = "method"

Word(retry) == IF retry THEN "retryable" ELSE "final"

\* A step that journals no review, and one that journals a review of u.
Quiet ==
  lines' = lines \/ \E e \in FileLine : e.kind # "unit" /\ lines' = Append(lines, e)

ReviewOf(e, u, r) ==
  e.kind = "unit" /\ e.scan = scan /\ e.stage = "method" /\ e.unit = u /\ e.retry = r

Reviewed(u, r) == \E e \in JournalEntry : ReviewOf(e, u, r) /\ lines' = Append(lines, e)

LEMMA FileGrows ==
  ASSUME lines \in Seq(FileLine), NEW e \in FileLine, lines' = Append(lines, e)
  PROVE  /\ Len(lines) \in Nat /\ DOMAIN lines = 1..Len(lines)
         /\ DOMAIN lines' = 1..(Len(lines) + 1)
         /\ \A i \in 1..Len(lines) : lines'[i] = lines[i]
         /\ lines'[Len(lines) + 1] = e
  BY AppendProperties

\* Without a review, nothing that the file says of reviews changes.
LEMMA QuietFile ==
  ASSUME lines \in Seq(FileLine), Quiet
  PROVE  /\ \A s, u : LinesOf(s, u)' = LinesOf(s, u)
         /\ \A s, u : Status(s, u)' = Status(s, u)
         /\ \A s, u : NoFinal(s, u)' <=> NoFinal(s, u)
         /\ \A s, st, u : LatestEntry(lines', s, st, u) = LatestEntry(lines, s, st, u)
         /\ MethodOnly => MethodOnly'
         /\ NeverReviewedTwice => NeverReviewedTwice'
<1>1. CASE lines' = lines
  <2>1. \A s, u : LinesOf(s, u)' = LinesOf(s, u) /\ Status(s, u)' = Status(s, u)
    BY <1>1 DEF LinesOf, Status
  <2>2. \A s, u : NoFinal(s, u)' <=> NoFinal(s, u)
    BY <1>1 DEF NoFinal
  <2>3. MethodOnly => MethodOnly'
    BY <1>1 DEF MethodOnly
  <2>4. NeverReviewedTwice => NeverReviewedTwice'
    BY <1>1, <2>1 DEF NeverReviewedTwice
  <2> QED
    BY <1>1, <2>1, <2>2, <2>3, <2>4
<1>2. ASSUME NEW e \in FileLine, e.kind # "unit", lines' = Append(lines, e)
      PROVE  /\ \A s, u : LinesOf(s, u)' = LinesOf(s, u)
             /\ \A s, u : Status(s, u)' = Status(s, u)
             /\ \A s, u : NoFinal(s, u)' <=> NoFinal(s, u)
             /\ \A s, st, u : LatestEntry(lines', s, st, u) = LatestEntry(lines, s, st, u)
             /\ MethodOnly => MethodOnly'
             /\ NeverReviewedTwice => NeverReviewedTwice'
  <2> DEFINE n == Len(lines)
  <2>1. /\ n \in Nat /\ DOMAIN lines = 1..n /\ DOMAIN lines' = 1..(n + 1)
        /\ \A i \in 1..n : lines'[i] = lines[i]
        /\ lines'[n + 1] = e
    BY <1>2, FileGrows
  <2>2. \A s, st, u : LatestEntry(lines', s, st, u) = LatestEntry(lines, s, st, u)
    BY <1>2, LatestAfterAppend
  <2> HIDE DEF n
  <2>3. /\ \A i \in DOMAIN lines : i \in DOMAIN lines' /\ lines'[i] = lines[i] /\ i \in Nat
        /\ \A i \in DOMAIN lines' : lines'[i].kind = "unit" => i \in DOMAIN lines
    BY <1>2, <2>1
  <2>4. \A s, u : LinesOf(s, u)' = LinesOf(s, u)
    BY <2>3 DEF LinesOf
  <2>5. ASSUME NEW s, NEW u
        PROVE  Status(s, u)' = Status(s, u)
    <3>1. LinesOf(s, u)' = LinesOf(s, u)
      BY <2>4
    <3>2. LinesOf(s, u) \subseteq 1..n
      BY <2>1 DEF LinesOf
    <3>3. LinesOf(s, u) # {} => Max(LinesOf(s, u)) \in LinesOf(s, u)
      BY <2>1, <3>2, MaxPosition
    <3>4. LinesOf(s, u) # {} => lines'[Max(LinesOf(s, u))] = lines[Max(LinesOf(s, u))]
      BY <2>1, <3>2, <3>3
    <3> QED
      BY <3>1, <3>4 DEF Status
  <2>6. \A s, u : NoFinal(s, u)' <=> NoFinal(s, u)
    BY <2>3 DEF NoFinal
  <2>7. MethodOnly => MethodOnly'
    BY <2>3 DEF MethodOnly
  <2>8. NeverReviewedTwice => NeverReviewedTwice'
    <3>1. SUFFICES ASSUME NeverReviewedTwice, NEW u \in Units, NEW s \in Scans, NEW r \in Scans,
                          NEW i \in LinesOf(s, u)', NEW j \in LinesOf(r, u)',
                          i < j, ~lines'[i].retry, ContextOf[s] = ContextOf[r]
                   PROVE  /\ ~lines'[j].retry
                          /\ lines'[j - 1].kind = "reuse"
                          /\ lines'[j - 1].scan = r /\ lines'[j - 1].unit = u
      BY DEF NeverReviewedTwice
    <3>5. LinesOf(s, u)' = LinesOf(s, u) /\ LinesOf(r, u)' = LinesOf(r, u)
      BY <2>4
    <3>6. LinesOf(s, u) \subseteq 1..n /\ LinesOf(r, u) \subseteq 1..n
      BY <2>1 DEF LinesOf
    <3>2. i \in LinesOf(s, u) /\ j \in LinesOf(r, u) /\ i \in 1..n /\ j \in 1..n
      BY <3>5, <3>6
    <3>3. j - 1 \in 1..n
      BY <2>1, <3>1, <3>2
    <3>4. lines'[i] = lines[i] /\ lines'[j] = lines[j] /\ lines'[j - 1] = lines[j - 1]
      BY <2>1, <3>2, <3>3
    <3> QED
      BY <3>1, <3>2, <3>4 DEF NeverReviewedTwice
  <2> QED
    BY <2>2, <2>4, <2>5, <2>6, <2>7, <2>8
<1> QED
  BY <1>1, <1>2 DEF Quiet

\* A review becomes what is said of its method in its scan, and is final in
\* the context only when it says so.
LEMMA ReviewedFile ==
  ASSUME lines \in Seq(FileLine), NEW u \in Units, NEW r \in BOOLEAN, Reviewed(u, r)
  PROVE  /\ \A s, v : Status(s, v)' = IF s = scan /\ v = u THEN Word(r) ELSE Status(s, v)
         /\ \A s, v : NoFinal(s, v) /\ (v = u => r) => NoFinal(s, v)'
         /\ MethodOnly => MethodOnly'
         /\ NeverReviewedTwice
              /\ \/ NoFinal(scan, u)
                 \/ /\ ~r /\ lines # << >> /\ lines[Len(lines)].kind = "reuse"
                    /\ lines[Len(lines)].scan = scan /\ lines[Len(lines)].unit = u
              => NeverReviewedTwice'
<1>1. PICK e \in JournalEntry : ReviewOf(e, u, r) /\ lines' = Append(lines, e)
  BY DEF Reviewed
<1> DEFINE n == Len(lines)
<1>2. /\ e \in FileLine /\ e.kind = "unit" /\ e.scan = scan /\ e.stage = "method"
      /\ e.unit = u /\ e.retry = r
  BY <1>1 DEF ReviewOf, FileLine
<1>3. /\ n \in Nat /\ DOMAIN lines = 1..n /\ DOMAIN lines' = 1..(n + 1)
      /\ \A i \in 1..n : lines'[i] = lines[i]
      /\ lines'[n + 1] = e
  BY <1>1, <1>2, FileGrows
<1>4. lines # << >> <=> n # 0
  BY <1>3
<1> HIDE DEF n
<1>5. /\ \A i \in DOMAIN lines : i \in DOMAIN lines' /\ lines'[i] = lines[i] /\ i # n + 1
      /\ \A i \in DOMAIN lines' : i = n + 1 \/ i \in DOMAIN lines
      /\ n + 1 \in DOMAIN lines'
  BY <1>3
<1>6. \A s, v : LinesOf(s, v)' = LinesOf(s, v) \cup (IF s = scan /\ v = u THEN {n + 1} ELSE {})
  BY <1>2, <1>3, <1>5 DEF LinesOf
<1>7. \A s, v : LinesOf(s, v) \subseteq 1..n
  BY <1>3 DEF LinesOf
<1>8. ASSUME NEW s, NEW v
      PROVE  Status(s, v)' = IF s = scan /\ v = u THEN Word(r) ELSE Status(s, v)
  <2>1. CASE s = scan /\ v = u
    <3> DEFINE P == LinesOf(s, v)'
    <3>1. P = LinesOf(s, v) \cup {n + 1}
      BY <1>6, <2>1
    <3>2. LinesOf(s, v) \subseteq 1..n
      BY <1>7
    <3> HIDE DEF P
    <3>3. P \subseteq 1..(n + 1) /\ n + 1 \in P /\ P # {} /\ n + 1 \in Nat
      BY <1>3, <3>1, <3>2
    <3>4. Max(P) \in P /\ \A y \in P : Max(P) >= y
      BY <3>3, MaxPosition
    <3> DEFINE m == Max(P)
    <3>5. m \in P /\ \A y \in P : m >= y
      BY <3>4
    <3> HIDE DEF m
    <3>6. m = n + 1
      BY <1>3, <3>3, <3>5
    <3>7. Max(P) = n + 1
      BY <3>6 DEF m
    <3>8. Status(s, v)' = IF lines'[Max(P)].retry THEN "retryable" ELSE "final"
      BY <3>3 DEF Status, P
    <3> QED
      BY <1>2, <1>3, <2>1, <3>7, <3>8 DEF Word
  <2>2. CASE ~(s = scan /\ v = u)
    <3>1. LinesOf(s, v)' = LinesOf(s, v)
      BY <1>6, <2>2
    <3>2. LinesOf(s, v) \subseteq 1..n
      BY <1>7
    <3>3. LinesOf(s, v) # {} => Max(LinesOf(s, v)) \in LinesOf(s, v)
      BY <1>3, <3>2, MaxPosition
    <3>4. LinesOf(s, v) # {} => lines'[Max(LinesOf(s, v))] = lines[Max(LinesOf(s, v))]
      BY <1>3, <3>2, <3>3
    <3> QED
      BY <2>2, <3>1, <3>4 DEF Status
  <2> QED
    BY <2>1, <2>2
<1>9. \A s, v : NoFinal(s, v) /\ (v = u => r) => NoFinal(s, v)'
  BY <1>2, <1>3, <1>5 DEF NoFinal
<1>10. MethodOnly => MethodOnly'
  BY <1>2, <1>3, <1>5 DEF MethodOnly
<1>11. ASSUME NeverReviewedTwice,
              \/ NoFinal(scan, u)
              \/ /\ ~r /\ lines # << >> /\ lines[Len(lines)].kind = "reuse"
                 /\ lines[Len(lines)].scan = scan /\ lines[Len(lines)].unit = u
       PROVE  NeverReviewedTwice'
  <2>1. SUFFICES ASSUME NEW v \in Units, NEW s \in Scans, NEW t \in Scans,
                        NEW i \in LinesOf(s, v)', NEW j \in LinesOf(t, v)',
                        i < j, ~lines'[i].retry, ContextOf[s] = ContextOf[t]
                 PROVE  /\ ~lines'[j].retry
                        /\ lines'[j - 1].kind = "reuse"
                        /\ lines'[j - 1].scan = t /\ lines'[j - 1].unit = v
    BY DEF NeverReviewedTwice
  <2>2. /\ LinesOf(s, v)' = LinesOf(s, v) \cup (IF s = scan /\ v = u THEN {n + 1} ELSE {})
        /\ LinesOf(t, v)' = LinesOf(t, v) \cup (IF t = scan /\ v = u THEN {n + 1} ELSE {})
        /\ LinesOf(s, v) \subseteq 1..n /\ LinesOf(t, v) \subseteq 1..n
    BY <1>6, <1>7
  <2>3. i \in LinesOf(s, v) /\ i \in 1..n /\ lines'[i] = lines[i]
    BY <1>3, <2>1, <2>2
  <2>4. CASE j \in LinesOf(t, v)
    <3>1. /\ ~lines[j].retry /\ lines[j - 1].kind = "reuse"
          /\ lines[j - 1].scan = t /\ lines[j - 1].unit = v
      BY <1>11, <2>1, <2>3, <2>4 DEF NeverReviewedTwice
    <3>2. j \in 1..n /\ j - 1 \in 1..n
      BY <1>3, <2>1, <2>2, <2>3, <2>4
    <3> QED
      BY <1>3, <3>1, <3>2
  <2>5. CASE j \notin LinesOf(t, v)
    <3>1. t = scan /\ v = u /\ j = n + 1
      BY <2>1, <2>2, <2>5
    <3>2. ~NoFinal(scan, u)
      <4>1. lines[i].kind = "unit" /\ lines[i].scan = s /\ lines[i].unit = v /\ i \in DOMAIN lines
        BY <2>3 DEF LinesOf
      <4> QED
        BY <2>1, <2>3, <3>1, <4>1 DEF NoFinal
    <3>3. /\ ~r /\ n # 0 /\ lines[n].kind = "reuse" /\ lines[n].scan = scan /\ lines[n].unit = u
      BY <1>4, <1>11, <3>2 DEF n
    <3>4. j - 1 = n /\ n \in 1..n
      BY <1>3, <3>1, <3>3
    <3> QED
      BY <1>2, <1>3, <3>1, <3>3, <3>4
  <2> QED
    BY <2>4, <2>5
<1> QED
  BY <1>8, <1>9, <1>10, <1>11

\* The latest entry that a scan may reuse is the last word on its method when
\* it is the scan's own.
LEMMA OwnLatest ==
  ASSUME lines \in Seq(FileLine), MethodOnly, NEW s \in Scans, NEW u \in Units,
         LatestEntry(lines, s, "method", u) # None, LatestEntry(lines, s, "method", u).scan = s
  PROVE  Status(s, u) = Word(LatestEntry(lines, s, "method", u).retry)
<1> DEFINE P == CachePositions(lines, s, "method", u)
           Q == LinesOf(s, u)
<1>1. DOMAIN lines = 1..Len(lines) /\ Len(lines) \in Nat
  OBVIOUS
<1>2. P \subseteq 1..Len(lines) /\ Q \subseteq P
  BY <1>1 DEF CachePositions, MatchesCache, LinesOf, MethodOnly
<1>3. P # {} /\ LatestEntry(lines, s, "method", u) = lines[Max(P)]
  BY DEF LatestEntry
<1>4. \A i \in P : lines[i].scan = s => i \in Q
  BY DEF CachePositions, LinesOf
<1> HIDE DEF P, Q
<1>5. Max(P) \in P /\ \A y \in P : Max(P) >= y
  BY <1>1, <1>2, <1>3, MaxPosition
<1>6. Max(P) \in Q
  BY <1>3, <1>4, <1>5
<1>7. Max(Q) \in Q /\ \A y \in Q : Max(Q) >= y
  BY <1>1, <1>2, <1>6, MaxPosition
<1> DEFINE p == Max(P)
           q == Max(Q)
<1>8. p \in 1..Len(lines) /\ q \in 1..Len(lines) /\ p >= q /\ q >= p
  BY <1>2, <1>5, <1>6, <1>7
<1> HIDE DEF p, q
<1>9. p = q
  BY <1>1, <1>8
<1> QED
  BY <1>3, <1>6, <1>9 DEF Status, Word, p, q, Q

\* Without a reusable entry there is no final review in the context.
LEMMA NothingToReuse ==
  ASSUME lines \in Seq(FileLine), MethodOnly, NeverReviewedTwice,
         NEW s \in Scans, NEW u \in Units,
         \/ LatestEntry(lines, s, "method", u) = None
         \/ LatestEntry(lines, s, "method", u).retry
  PROVE  NoFinal(s, u)
<1> DEFINE P == CachePositions(lines, s, "method", u)
<1>1. DOMAIN lines = 1..Len(lines) /\ Len(lines) \in Nat
  OBVIOUS
<1>2. /\ P \subseteq 1..Len(lines)
      /\ \A i \in P : lines[i].kind = "unit" /\ lines[i].unit = u
                        /\ ContextOf[lines[i].scan] = ContextOf[s]
  BY <1>1 DEF CachePositions, MatchesCache
<1>3. SUFFICES ASSUME NEW i \in DOMAIN lines, lines[i].kind = "unit", lines[i].unit = u,
                      ContextOf[lines[i].scan] = ContextOf[s], ~lines[i].retry
               PROVE  FALSE
  BY LineParts DEF NoFinal, JournalEntry
<1>4. i \in P
  BY <1>3 DEF CachePositions, MatchesCache, MethodOnly
<1>5. LatestEntry(lines, s, "method", u) = lines[Max(P)]
  BY <1>4 DEF LatestEntry
<1> HIDE DEF P
<1>6. Max(P) \in P /\ \A y \in P : Max(P) >= y
  BY <1>1, <1>2, <1>4, MaxPosition
<1> DEFINE p == Max(P)
<1>7. p \in P /\ p >= i /\ LatestEntry(lines, s, "method", u) = lines[p]
  BY <1>4, <1>5, <1>6
<1> HIDE DEF p
<1>8. /\ p \in DOMAIN lines /\ lines[p].kind = "unit" /\ lines[p].unit = u
      /\ ContextOf[lines[p].scan] = ContextOf[s]
  BY <1>1, <1>2, <1>7
<1>9. \A k \in DOMAIN lines : lines[k].kind = "unit" => lines[k] \in JournalEntry /\ lines[k].scan \in Scans
  <2>1. \A k \in DOMAIN lines : lines[k] \in JournalEntry \cup {Garbled}
    BY DEF FileLine
  <2> QED
    BY <2>1 DEF JournalEntry, Garbled
<1>10. lines[p].retry
  BY <1>7, <1>8, <1>9, StageAssumption
<1>11. i # p /\ i < p
  BY <1>1, <1>3, <1>7, <1>8, <1>10
<1>12. i \in LinesOf(lines[i].scan, u) /\ p \in LinesOf(lines[p].scan, u)
  BY <1>3, <1>8 DEF LinesOf
<1>13. ~lines[p].retry
  BY <1>3, <1>8, <1>9, <1>11, <1>12 DEF NeverReviewedTwice
<1> QED
  BY <1>10, <1>13

\* No append of the run has failed, and no task of it has ended badly.
Steady ==
  /\ proc \in {"reuse", "running", "paused", "done"} /\ ~firstError
  /\ \A i \in DOMAIN tasks : tasks[i].st \in {"run", "ok"}

\* The store is that of the run, and all reviews in the file are of methods.
OwnEntries ==
  /\ store # None => store.scan = scan /\ store.stage = "method"
  /\ MethodOnly

\* A steady run has a file that it can append to and a resume can read.
CleanRun ==
  /\ Steady => ~torn /\ Readable(lines)
  /\ proc \in {"paused", "done"} => ~firstError /\ DOMAIN tasks = {}
  /\ \A i \in DOMAIN tasks : tasks[i].st # "run" => tasks[i].owed = 0

\* During look-up the store is what the file says, and a unit that is being
\* copied has its reuse manifest at the end of the file.
LookUp ==
  proc = "reuse" =>
    /\ \A u \in Units : store.completed[u] = LatestEntry(lines, scan, "method", u)
    /\ copying # None =>
         /\ lines # << >>
         /\ lines[Len(lines)].kind = "reuse"
         /\ lines[Len(lines)].scan = scan /\ lines[Len(lines)].unit = copying

\* The methods of a batch whose review is not in the journal.
Unkept(outs) == {outs[k].unit : k \in {j \in DOMAIN outs : ~outs[j].persisted}}

TaskWaits(task) ==
  (IF task.st = "run" THEN LeftIn(task.queue, task.done) ELSE {}) \cup Unkept(task.outs)

WaitsIn(i) ==
  IF i \in pending THEN UnitsOf(batches[i])
  ELSE IF i \in DOMAIN tasks THEN TaskWaits(tasks[i])
  ELSE IF i = joined THEN Unkept(joinedOuts) ELSE {}

\* What a run has yet to record has no final review.
Unsettled ==
  /\ proc = "reuse" => \A u \in UnitsOf(fresh) : NoFinal(scan, u)
  /\ proc \in {"running", "aborting"} =>
       \A i \in DOMAIN batches : \A u \in WaitsIn(i) : NoFinal(scan, u)

\* An outcome that is meant to be in the journal.
Kept(outs, u, r) ==
  \E k \in DOMAIN outs : outs[k].persisted /\ outs[k].unit = u /\ outs[k].retry = r

Says(u, r) ==
  \/ outcomes[u] # << >> /\ outcomes[u][1] = r
  \/ \E i \in DOMAIN tasks : Kept(tasks[i].outs, u, r)
  \/ joined # 0 /\ Kept(joinedOuts, u, r)

\* As long as nothing has failed, such an outcome is what the journal says.
Truth ==
  Steady => \A u \in Units, r \in BOOLEAN : Says(u, r) => Status(scan, u) = Word(r)

RecordInv == OwnEntries /\ CleanRun /\ LookUp /\ NeverReviewedTwice /\ Unsettled /\ Truth

\* An entry that the run writes.
LEMMA RunEntry ==
  ASSUME StoreTyped, OwnEntries, store # None, NEW k \in Kinds, NEW u \in Units \cup {None},
         NEW c \in Nat, NEW r \in BOOLEAN
  PROVE  /\ Entry(k, u, c, r) \in JournalEntry
         /\ Entry(k, u, c, r).kind = k /\ Entry(k, u, c, r).scan = scan
         /\ Entry(k, u, c, r).stage = "method" /\ Entry(k, u, c, r).unit = u
         /\ Entry(k, u, c, r).retry = r
  BY EntryTyped DEF Entry, OwnEntries

\* A line that is written, or not, or spoilt.
LEMMA LineWritten ==
  ASSUME NEW e \in JournalEntry, AppendEntry(e) \/ AppendFails(e)
  PROVE  lines' = lines \/ lines' = Append(lines, Garbled) \/ (~torn /\ lines' = Append(lines, e))
  BY DEF AppendEntry, AppendFails, Written

LEMMA QuietAppend ==
  ASSUME NEW e \in JournalEntry, e.kind # "unit", AppendEntry(e) \/ AppendFails(e)
  PROVE  Quiet
<1>1. Garbled \in FileLine /\ e \in FileLine /\ Garbled.kind # "unit"
  BY DEF FileLine, Garbled
<1> QED
  BY <1>1, LineWritten DEF Quiet

LEMMA ReviewAppend ==
  ASSUME StoreTyped, OwnEntries, store # None, NEW u \in Units, NEW r \in BOOLEAN,
         AppendEntry(Entry("unit", u, 0, r)) \/ AppendFails(Entry("unit", u, 0, r))
  PROVE  Quiet \/ Reviewed(u, r)
<1> DEFINE e == Entry("unit", u, 0, r)
<1>1. e \in JournalEntry /\ ReviewOf(e, u, r)
  BY RunEntry DEF ReviewOf, Kinds
<1>2. AppendEntry(e) \/ AppendFails(e)
  OBVIOUS
<1> HIDE DEF e
<1>3. Garbled \in FileLine /\ Garbled.kind # "unit"
  BY DEF FileLine, Garbled
<1> QED
  BY <1>1, <1>2, <1>3, LineWritten DEF Quiet, Reviewed

\* A file is readable up to an entry when it is readable with it.
LEMMA ReadableAppend ==
  ASSUME lines \in Seq(FileLine), NEW e \in FileLine, lines' = Append(lines, e)
  PROVE  Readable(lines') <=> Readable(lines) /\ e.kind # "garbled"
<1>1. /\ Len(lines) \in Nat /\ DOMAIN lines = 1..Len(lines)
      /\ DOMAIN lines' = 1..(Len(lines) + 1)
      /\ \A i \in 1..Len(lines) : lines'[i] = lines[i]
      /\ lines'[Len(lines) + 1] = e
  BY FileGrows
<1> DEFINE n == Len(lines)
<1>2. /\ n \in Nat /\ DOMAIN lines = 1..n /\ DOMAIN lines' = 1..(n + 1)
      /\ \A i \in 1..n : lines'[i] = lines[i]
      /\ lines'[n + 1] = e
  BY <1>1
<1> HIDE DEF n
<1>3. /\ \A i \in DOMAIN lines : i \in DOMAIN lines' /\ lines'[i] = lines[i]
      /\ \A i \in DOMAIN lines' : i = n + 1 \/ i \in DOMAIN lines
      /\ n + 1 \in DOMAIN lines' /\ lines'[n + 1] = e
  BY <1>2
<1> QED
  BY <1>3 DEF Readable

LEMMA ReviewRecorded ==
  ASSUME FileTyped, StoreTyped, OwnEntries, NEW u \in Units, NEW r \in BOOLEAN,
         Record(u, 0, r), ~torn
  PROVE  /\ Reviewed(u, r) /\ torn' = FALSE
         /\ Readable(lines) => Readable(lines')
<1> DEFINE e == Entry("unit", u, 0, r)
<1>1. e \in JournalEntry /\ ReviewOf(e, u, r)
  BY RunEntry DEF ReviewOf, Kinds, Record
<1>2. lines' = Append(lines, e) /\ torn' = FALSE
  BY DEF Record, AppendEntry, Written
<1> HIDE DEF e
<1>3. e \in FileLine /\ e.kind # "garbled" /\ lines \in Seq(FileLine)
  BY <1>1, LineParts DEF FileLine, FileTyped
<1>4. Readable(lines) => Readable(lines')
  BY <1>2, <1>3, ReadableAppend
<1> QED
  BY <1>1, <1>2, <1>4 DEF Reviewed

\* What a run has yet to record after a step that records nothing, and after
\* one that records a review of u.
LEMMA QuietKeeps ==
  ASSUME FileTyped, MethodOnly, NeverReviewedTwice, Unsettled, Quiet, scan' = scan,
         proc' = "reuse" => proc = "reuse" /\ fresh' = fresh,
         proc' \in {"running", "aborting"} =>
           /\ proc \in {"running", "aborting"} /\ batches' = batches
           /\ \A i \in DOMAIN batches : WaitsIn(i)' \subseteq WaitsIn(i)
  PROVE  MethodOnly' /\ NeverReviewedTwice' /\ Unsettled'
<1>1. lines \in Seq(FileLine)
  BY DEF FileTyped, FileLine
<1>2. /\ \A v : NoFinal(scan, v)' <=> NoFinal(scan, v)
      /\ MethodOnly' /\ NeverReviewedTwice'
  <2>1. /\ \A s, v : NoFinal(s, v)' <=> NoFinal(s, v)
        /\ MethodOnly' /\ NeverReviewedTwice'
    BY <1>1, QuietFile
  <2>2. \A s, v : s = scan => (NoFinal(s, v)' <=> NoFinal(scan, v)')
    BY DEF NoFinal
  <2> QED
    BY <2>1, <2>2
<1>3. Unsettled'
  BY <1>2 DEF Unsettled
<1> QED
  BY <1>2, <1>3

LEMMA ReviewKeeps ==
  ASSUME FileTyped, MethodOnly, NeverReviewedTwice, Unsettled, scan' = scan,
         NEW u \in Units, NEW r \in BOOLEAN, Reviewed(u, r),
         \/ NoFinal(scan, u)
         \/ /\ ~r /\ lines # << >> /\ lines[Len(lines)].kind = "reuse"
            /\ lines[Len(lines)].scan = scan /\ lines[Len(lines)].unit = u,
         proc' = "reuse" => proc = "reuse" /\ fresh' = fresh /\ u \notin UnitsOf(fresh),
         proc' \in {"running", "aborting"} =>
           /\ proc \in {"running", "aborting"} /\ batches' = batches
           /\ \A i \in DOMAIN batches : WaitsIn(i)' \subseteq WaitsIn(i) \ {u}
  PROVE  MethodOnly' /\ NeverReviewedTwice' /\ Unsettled'
<1>1. lines \in Seq(FileLine)
  BY DEF FileTyped, FileLine
<1>2. \A v : NoFinal(scan, v) /\ v # u => NoFinal(scan, v)'
  <2>1. \A s, v : NoFinal(s, v) /\ v # u => NoFinal(s, v)'
    BY <1>1, ReviewedFile
  <2>2. \A s, v : s = scan => (NoFinal(s, v)' <=> NoFinal(scan, v)')
    BY DEF NoFinal
  <2> QED
    BY <2>1, <2>2
<1>3. MethodOnly' /\ NeverReviewedTwice'
  BY <1>1, ReviewedFile
<1>4. Unsettled'
  BY <1>2 DEF Unsettled
<1> QED
  BY <1>3, <1>4

\* What is told is still true, and so is the new outcome.
LEMMA QuietTells ==
  ASSUME FileTyped, Truth, Quiet, scan' = scan, Steady' => Steady,
         \A v \in Units, q \in BOOLEAN :
           Says(v, q)' => Says(v, q) \/ (Steady' => Status(scan, v) = Word(q))
  PROVE  Truth'
<1>1. lines \in Seq(FileLine)
  BY DEF FileTyped, FileLine
<1>2. \A v : Status(scan, v)' = Status(scan, v)
  <2>1. \A s, v : Status(s, v)' = Status(s, v)
    BY <1>1, QuietFile
  <2>2. \A s, v : s = scan => Status(s, v)' = Status(scan, v)'
    BY DEF Status, LinesOf
  <2> QED
    BY <2>1, <2>2
<1> QED
  BY <1>2 DEF Truth

LEMMA ReviewTells ==
  ASSUME FileTyped, Truth, scan' = scan, Steady' => Steady,
         NEW u \in Units, NEW r \in BOOLEAN, Reviewed(u, r),
         \A v \in Units, q \in BOOLEAN :
           Says(v, q)' => \/ v # u /\ Says(v, q)
                          \/ v = u /\ q = r
  PROVE  Truth'
<1>1. lines \in Seq(FileLine)
  BY DEF FileTyped, FileLine
<1>2. \A v : Status(scan, v)' = IF v = u THEN Word(r) ELSE Status(scan, v)
  <2>1. \A s, v : Status(s, v)' = IF s = scan /\ v = u THEN Word(r) ELSE Status(s, v)
    BY <1>1, ReviewedFile
  <2>2. \A s, v : s = scan => Status(s, v)' = Status(scan, v)'
    BY DEF Status, LinesOf
  <2> QED
    BY <2>1, <2>2
<1>3. ASSUME Steady', NEW v \in Units, NEW q \in BOOLEAN, Says(v, q)'
      PROVE  Status(scan, v)' = Word(q)
  <2>1. CASE v # u /\ Says(v, q)
    BY <1>2, <1>3, <2>1 DEF Truth
  <2>2. CASE v = u /\ q = r
    BY <1>2, <2>2
  <2> QED
    BY <1>3, <2>1, <2>2
<1> QED
  BY <1>3 DEF Truth

\* What waits in a batch is one of its methods, and nothing is told of it yet.
LEMMA WaitsInBatch ==
  ASSUME RunTyped, WorkInv, proc \in {"running", "aborting"}, NEW i \in DOMAIN batches
  PROVE  WaitsIn(i) \subseteq UnitsOf(batches[i])
<1>1. BatchWork
  BY DEF WorkInv
<1>2. CASE i \in pending
  BY <1>2 DEF WaitsIn
<1>3. CASE i \notin pending /\ i \in DOMAIN tasks
  <2>1. Owns(tasks[i], batches[i])
    BY <1>1, <1>3 DEF BatchWork, Afterwards
  <2> DEFINE t == tasks[i]
  <2>2. LeftIn(t.queue, t.done) \cup UnitsOf(t.outs) = UnitsOf(batches[i])
    BY <2>1 DEF Owns, Shares
  <2> HIDE DEF t
  <2>3. Unkept(t.outs) \subseteq UnitsOf(t.outs)
    BY DEF Unkept, UnitsOf
  <2>4. TaskWaits(t) \subseteq UnitsOf(batches[i])
    BY <2>2, <2>3 DEF TaskWaits
  <2> QED
    BY <1>3, <2>4 DEF WaitsIn, t
<1>4. CASE i \notin pending /\ i \notin DOMAIN tasks /\ i = joined
  <2>1. joined # 0
    BY <1>4 DEF RunTyped, BatchesTyped, Filled
  <2>2. UnitsOf(joinedOuts) = UnitsOf(batches[i])
    BY <1>1, <1>4, <2>1 DEF BatchWork, Afterwards
  <2>3. Unkept(joinedOuts) \subseteq UnitsOf(joinedOuts)
    BY DEF Unkept, UnitsOf
  <2> QED
    BY <1>4, <2>2, <2>3 DEF WaitsIn
<1> QED
  BY <1>2, <1>3, <1>4 DEF WaitsIn

\* An outcome that is kept is no outcome that is not.
LEMMA KeptOnce ==
  ASSUME NEW outs, Distinct(outs), NEW u, u \in Unkept(outs), NEW q
  PROVE  ~Kept(outs, u, q)
  BY DEF Distinct, Unkept, Kept

LEMMA WaitsApart ==
  ASSUME RunTyped, WorkInv, proc \in {"running", "aborting"},
         NEW b \in DOMAIN batches, NEW u \in WaitsIn(b)
  PROVE  /\ u \in UnitsOf(batches[b]) /\ u \in Units
         /\ \A i \in DOMAIN batches : i # b => u \notin WaitsIn(i)
         /\ \A q : ~Says(u, q)
<1>1. BatchWork /\ BatchPlaces /\ Apart(batches) /\ outcomes \in [Units -> Seq(BOOLEAN)]
  BY DEF WorkInv, BatchWork, Afterwards
<1>2. \A i \in DOMAIN batches : WaitsIn(i) \subseteq UnitsOf(batches[i])
  BY WaitsInBatch
<1>3. u \in UnitsOf(batches[b]) /\ u \in Units
  <2>1. u \in UnitsOf(batches[b])
    BY <1>2
  <2>2. PICK k \in DOMAIN batches[b] : u = batches[b][k].unit
    BY <2>1 DEF UnitsOf
  <2>3. batches[b][k] \in Jobs
    BY DEF RunTyped, BatchesTyped, Filled
  <2> QED
    BY <2>1, <2>2, <2>3, JobUnits
<1>4. \A i \in DOMAIN batches : u \in UnitsOf(batches[i]) => i = b
  BY <1>1, <1>3 DEF Apart, UnitsOf
<1>5. \A i \in DOMAIN batches : i # b => u \notin WaitsIn(i)
  BY <1>2, <1>4
<1>6. outcomes[u] = << >>
  <2>1. b \notin completed
    BY <1>1 DEF WaitsIn, BatchPlaces
  <2>2. u \notin Reported
    BY <1>3, <2>1 DEF Reported
  <2>3. Len(outcomes[u]) = 0 /\ outcomes[u] \in Seq(BOOLEAN)
    BY <1>1, <1>3, <2>2 DEF BatchWork, Afterwards
  <2> QED
    BY <2>3
<1>7. ASSUME NEW i \in DOMAIN tasks, NEW q, Kept(tasks[i].outs, u, q)
      PROVE  FALSE
  <2>1. i \in DOMAIN batches /\ Owns(tasks[i], batches[i]) /\ i \notin pending
    BY <1>1 DEF RunTyped, TasksTyped, BatchWork, Afterwards, BatchPlaces
  <2> DEFINE t == tasks[i]
  <2>2. /\ LeftIn(t.queue, t.done) \cup UnitsOf(t.outs) = UnitsOf(batches[i])
        /\ LeftIn(t.queue, t.done) \cap UnitsOf(t.outs) = {}
        /\ Distinct(t.outs)
    BY <2>1 DEF Owns, Shares
  <2>3. Kept(t.outs, u, q)
    BY <1>7
  <2> HIDE DEF t
  <2>4. u \in UnitsOf(t.outs)
    BY <2>3 DEF Kept, UnitsOf
  <2>5. i = b
    BY <1>4, <2>1, <2>2, <2>4
  <2>6. u \in TaskWaits(t)
    BY <2>1, <2>5 DEF WaitsIn, t
  <2>7. u \in Unkept(t.outs)
    BY <2>2, <2>4, <2>6 DEF TaskWaits
  <2> QED
    BY <2>2, <2>3, <2>7, KeptOnce
<1>8. ASSUME joined # 0, NEW q, Kept(joinedOuts, u, q)
      PROVE  FALSE
  <2>1. /\ joined \in DOMAIN batches /\ joined \notin pending /\ joined \notin DOMAIN tasks
        /\ Distinct(joinedOuts) /\ UnitsOf(joinedOuts) = UnitsOf(batches[joined])
    BY <1>1, <1>8 DEF RunTyped, JoinedTyped, BatchPlaces, BatchWork, Afterwards
  <2>2. u \in UnitsOf(joinedOuts)
    BY <1>8 DEF Kept, UnitsOf
  <2>3. joined = b
    BY <1>4, <2>1, <2>2
  <2>4. u \in Unkept(joinedOuts)
    BY <2>1, <2>3 DEF WaitsIn
  <2> QED
    BY <1>8, <2>1, <2>4, KeptOnce
<1>9. \A q : ~Says(u, q)
  BY <1>6, <1>7, <1>8 DEF Says
<1> QED
  BY <1>3, <1>5, <1>9

LEMMA EndedRecord ==
  ASSUME FileTyped, MethodOnly, NeverReviewedTwice, Quiet,
         proc' \in {"idle", "rejected"}, store' = None, DOMAIN tasks' = {}
  PROVE  RecordInv'
<1>1. MethodOnly' /\ NeverReviewedTwice'
  BY QuietFile DEF FileTyped, FileLine
<1> QED
  BY <1>1 DEF RecordInv, OwnEntries, CleanRun, Steady, LookUp, Unsettled, Truth

LEMMA InitRecord ==
  ASSUME SInit
  PROVE  RecordInv
<1>1. DOMAIN lines = {} /\ DOMAIN tasks = {} /\ store = None /\ proc = "idle"
  BY DEF SInit, JInit
<1>2. MethodOnly /\ NeverReviewedTwice
  BY <1>1 DEF MethodOnly, NeverReviewedTwice, LinesOf
<1> QED
  BY <1>1, <1>2 DEF RecordInv, OwnEntries, CleanRun, Steady, LookUp, Unsettled, Truth

\* A run starts with the store that the file makes, and nothing to tell.
LEMMA StartRecord ==
  ASSUME StageInv, RecordInv, NEW s \in Scans, NEW limit, StartScan(s, limit)
  PROVE  RecordInv'
<1> DEFINE n == Len(JobsOf[s])
           e == Manifest(s, "method", n)
<1>1. /\ Readable(lines)
      /\ lines' = lines \/ lines' = Append(lines, e)
      /\ torn' = FALSE /\ store' = LoadState(lines, s, "method", n)
      /\ proc' = "reuse" /\ scan' = s
      /\ fresh' = << >> /\ copying' = None /\ outcomes' = NoOutcomes
      /\ tasks' = << >> /\ joined' = 0 /\ firstError' = FALSE
  BY DEF StartScan, LoadForScan, Fresh
<1>2. FileTyped /\ lines \in Seq(FileLine) /\ MethodOnly /\ NeverReviewedTwice
  BY DEF StageInv, JInv, FileTyped, FileLine, RecordInv, OwnEntries
<1>3. e \in FileLine /\ e.kind = "manifest"
  <2>1. n \in Nat /\ "method" \in Stages
    BY JobsAreFew, StageAssumption
  <2> QED
    BY <2>1, ManifestTyped DEF FileLine, Manifest
<1> HIDE DEF e, n
<1>4. Quiet
  BY <1>1, <1>3 DEF Quiet
<1>5. /\ MethodOnly' /\ NeverReviewedTwice'
      /\ \A u : LatestEntry(lines', s, "method", u) = LatestEntry(lines, s, "method", u)
  BY <1>2, <1>4, QuietFile
<1>6. Readable(lines')
  BY <1>1, <1>2, <1>3, ReadableAppend
<1>7. /\ store'.scan = s /\ store'.stage = "method"
      /\ \A u \in Units : store'.completed[u] = LatestEntry(lines, s, "method", u)
  BY <1>1 DEF LoadState
<1>8. UnitsOf(fresh') = {} /\ DOMAIN tasks' = {}
  BY <1>1 DEF UnitsOf
<1>9. OwnEntries' /\ CleanRun' /\ LookUp' /\ Unsettled'
  BY <1>1, <1>5, <1>6, <1>7, <1>8 DEF OwnEntries, CleanRun, LookUp, Unsettled
<1>10. \A u \in Units, r \in BOOLEAN : ~Says(u, r)'
  BY <1>1, <1>8 DEF Says, NoOutcomes
<1> QED
  BY <1>5, <1>9, <1>10 DEF RecordInv, Truth

LEMMA StartFailsRecord ==
  ASSUME StageInv, RecordInv, NEW s \in Scans, StartScanFails(s)
  PROVE  RecordInv'
<1> DEFINE n == Len(JobsOf[s])
           e == Manifest(s, "method", n)
<1>1. /\ lines' = lines \/ lines' = Append(lines, e)
      /\ store' = None /\ proc' = "rejected" /\ DOMAIN tasks' = {}
  BY DEF StartScanFails, LoadUnreadable, LoadManifestFails, Fresh
<1>2. FileTyped /\ MethodOnly /\ NeverReviewedTwice
  BY DEF StageInv, JInv, RecordInv, OwnEntries
<1>3. e \in FileLine /\ e.kind = "manifest"
  <2>1. n \in Nat /\ "method" \in Stages
    BY JobsAreFew, StageAssumption
  <2> QED
    BY <2>1, ManifestTyped DEF FileLine, Manifest
<1> HIDE DEF e, n
<1>4. Quiet
  BY <1>1, <1>3 DEF Quiet
<1> QED
  BY <1>1, <1>2, <1>4, EndedRecord

LEMMA DieRecord ==
  ASSUME StageInv, RecordInv, Die
  PROVE  RecordInv'
<1>1. lines' = lines /\ store' = None /\ proc' = "idle" /\ DOMAIN tasks' = {}
  BY DEF Die, Crash, Fresh
<1>2. FileTyped /\ MethodOnly /\ NeverReviewedTwice /\ Quiet
  BY <1>1 DEF StageInv, JInv, RecordInv, OwnEntries, Quiet
<1> QED
  BY <1>1, <1>2, EndedRecord

LEMMA InLookUp ==
  ASSUME StageInv, RecordInv, proc = "reuse"
  PROVE  /\ Steady /\ ~torn /\ Readable(lines) /\ DOMAIN tasks = {} /\ joined = 0 /\ ~firstError
         /\ FileTyped /\ StoreTyped /\ lines \in Seq(FileLine) /\ MethodOnly /\ NeverReviewedTwice
         /\ store # None /\ store.scan = scan /\ store.stage = "method" /\ scan \in Scans
         /\ \A u \in Units : store.completed[u] = LatestEntry(lines, scan, "method", u)
<1>1. DOMAIN tasks = {} /\ joined = 0 /\ ~firstError
  BY DEF StageInv, RunTyped, NothingScheduled
<1>2. Steady
  BY <1>1 DEF Steady
<1>3. store # None /\ scan \in Scans
  BY DEF StageInv, RunTyped, ProcTyped, Ended
<1> QED
  BY <1>1, <1>2, <1>3 DEF RecordInv, CleanRun, OwnEntries, LookUp, StageInv, JInv, FileTyped, FileLine

\* An entry of the scan is taken as it is.
LEMMA ReuseOwnRecord ==
  ASSUME StageInv, WorkInv, RecordInv, ReuseOwn
  PROVE  RecordInv'
<1> DEFINE u == NextUnit
<1>1. /\ proc = "reuse" /\ todo # << >> /\ PushOutcome(u, FALSE)
      /\ Cached # None /\ ~Cached.retry /\ Cached.scan = store.scan
      /\ UNCHANGED <<lines, torn, store, proc, scan, copying, fresh, batches, pending, tasks,
                     joined, joinedOuts, firstError>>
  BY DEF ReuseOwn, IsReusable, jvars
<1>2. /\ Steady /\ DOMAIN tasks = {} /\ joined = 0 /\ FileTyped /\ lines \in Seq(FileLine)
      /\ MethodOnly /\ NeverReviewedTwice /\ store.scan = scan /\ scan \in Scans
      /\ \A v \in Units : store.completed[v] = LatestEntry(lines, scan, "method", v)
  BY <1>1, InLookUp
<1>3. u \in Units /\ u \in UnitsOf(todo)
  BY <1>1, HeadOfQueue, HeadUnits DEF NextUnit, StageInv, RunTyped, QueueTyped, WorkInv, QueueWork
<1>4. Cached = LatestEntry(lines, scan, "method", u)
  BY <1>2, <1>3 DEF Cached
<1>5. Status(scan, u) = Word(FALSE)
  <2>1. Status(scan, u) = Word(LatestEntry(lines, scan, "method", u).retry)
    BY <1>1, <1>2, <1>3, <1>4, OwnLatest
  <2> QED
    BY <1>1, <1>4, <2>1 DEF Word
<1>6. outcomes \in [Units -> Seq(BOOLEAN)] /\ Len(outcomes[u]) = 0
  BY <1>1, <1>3 DEF WorkInv, QueueWork
<1>7. outcomes' = [outcomes EXCEPT ![u] = <<FALSE>>]
  <2>1. outcomes[u] = << >>
    BY <1>3, <1>6
  <2> QED
    BY <1>1, <2>1 DEF PushOutcome
<1> HIDE DEF u
<1>8. \A v \in Units, q \in BOOLEAN : Says(v, q)' => Says(v, q) \/ Status(scan, v) = Word(q)
  <2>1. SUFFICES ASSUME NEW v \in Units, NEW q \in BOOLEAN, Says(v, q)'
                 PROVE  Says(v, q) \/ Status(scan, v) = Word(q)
    OBVIOUS
  <2>2. outcomes'[v] # << >> /\ outcomes'[v][1] = q
    BY <1>1, <1>2, <2>1 DEF Says
  <2>3. CASE v = u
    <3>1. outcomes'[v] = <<FALSE>>
      BY <1>3, <1>6, <1>7, <2>3
    <3>2. q = FALSE
      <4>1. <<FALSE>>[1] = FALSE
        OBVIOUS
      <4>2. outcomes'[v][1] = <<FALSE>>[1]
        BY <3>1
      <4>3. outcomes'[v][1] = FALSE
        BY <4>1, <4>2
      <4> QED
        BY <2>2, <4>3
    <3> QED
      BY <1>5, <2>3, <3>2
  <2>4. CASE v # u
    <3>1. outcomes'[v] = outcomes[v]
      BY <1>6, <1>7, <2>4
    <3> QED
      BY <2>2, <3>1 DEF Says
  <2> QED
    BY <2>3, <2>4
<1>9. Quiet /\ (Steady' <=> Steady)
  BY <1>1, <1>2 DEF Quiet, Steady
<1>10. Truth'
  BY <1>1, <1>2, <1>8, <1>9, QuietTells DEF RecordInv
<1>11. MethodOnly' /\ NeverReviewedTwice' /\ Unsettled'
  BY <1>1, <1>2, <1>9, QuietKeeps DEF RecordInv
<1>12. OwnEntries' /\ CleanRun' /\ LookUp'
  BY <1>1, <1>9, <1>11 DEF RecordInv, OwnEntries, CleanRun, LookUp, Readable
<1> QED
  BY <1>10, <1>11, <1>12 DEF RecordInv

\* What has no reusable entry is left for review.
LEMMA NeedsReviewRecord ==
  ASSUME StageInv, WorkInv, RecordInv, NeedsReview
  PROVE  RecordInv'
<1> DEFINE u == NextUnit
           job == Head(todo)
<1>1. /\ proc = "reuse" /\ todo # << >> /\ (Cached # None => Cached.retry)
      /\ fresh' = Append(fresh, job)
      /\ UNCHANGED <<lines, torn, store, proc, scan, copying, outcomes, batches, pending, tasks,
                     joined, joinedOuts, firstError>>
  BY DEF NeedsReview, IsReusable, jvars
<1>2. /\ Steady /\ FileTyped /\ lines \in Seq(FileLine)
      /\ MethodOnly /\ NeverReviewedTwice /\ scan \in Scans
      /\ \A v \in Units : store.completed[v] = LatestEntry(lines, scan, "method", v)
  BY <1>1, InLookUp
<1>3. u \in Units /\ job \in Jobs /\ job.unit = u /\ fresh \in Seq(Jobs)
  BY <1>1, HeadOfQueue DEF NextUnit, StageInv, RunTyped, QueueTyped
<1>4. NoFinal(scan, u)
  <2>1. Cached = LatestEntry(lines, scan, "method", u)
    BY <1>2, <1>3 DEF Cached
  <2> QED
    BY <1>1, <1>2, <1>3, <2>1, NothingToReuse
<1> HIDE DEF u, job
<1>5. UnitsOf(fresh') = UnitsOf(fresh) \cup {u}
  BY <1>1, <1>3, AppendedOut
<1>6. Quiet /\ (Steady' <=> Steady)
  BY <1>1 DEF Quiet, Steady
<1>7. \A v \in UnitsOf(fresh') : NoFinal(scan, v)
  BY <1>1, <1>4, <1>5 DEF RecordInv, Unsettled
<1>8. Unsettled'
  <2>1. \A v \in UnitsOf(fresh') : NoFinal(scan, v)'
    BY <1>1, <1>7 DEF NoFinal
  <2> QED
    BY <1>1, <2>1 DEF Unsettled
<1>9. \A v, q : Says(v, q)' => Says(v, q)
  BY <1>1 DEF Says
<1>10. Truth'
  BY <1>1, <1>2, <1>6, <1>9, QuietTells DEF RecordInv
<1>11. MethodOnly' /\ NeverReviewedTwice'
  BY <1>2, <1>6, QuietFile
<1>12. OwnEntries' /\ CleanRun' /\ LookUp'
  BY <1>1, <1>6, <1>11 DEF RecordInv, OwnEntries, CleanRun, LookUp, Readable
<1> QED
  BY <1>8, <1>10, <1>11, <1>12 DEF RecordInv

LEMMA EntryParts ==
  ASSUME StoreTyped, OwnEntries, store # None, NEW k \in {"unit", "reuse", "usage"},
         NEW u \in Units \cup {None}, NEW c \in Nat, NEW r \in BOOLEAN,
         NEW e, e = Entry(k, u, c, r)
  PROVE  /\ e \in JournalEntry
         /\ e.kind = k /\ e.scan = scan /\ e.stage = "method" /\ e.unit = u
<1>1. k \in Kinds
  BY DEF Kinds
<1> QED
  BY <1>1, RunEntry

\* A reuse manifest goes to the end of the file.
LEMMA ReuseAcrossRecord ==
  ASSUME StageInv, WorkInv, RecordInv, ReuseAcross
  PROVE  RecordInv'
<1> DEFINE u == NextUnit
           no == FALSE
           e == Entry("reuse", u, 0, no)
<1>1. /\ proc = "reuse" /\ todo # << >> /\ store # None /\ copying' = u /\ AppendEntry(e)
      /\ UNCHANGED <<store, proc, scan, fresh, outcomes, batches, pending, tasks,
                     joined, joinedOuts, firstError>>
  BY DEF ReuseAcross, RecordCrossScanReuse
<1>2. /\ Steady /\ ~torn /\ Readable(lines) /\ FileTyped /\ StoreTyped /\ lines \in Seq(FileLine)
      /\ MethodOnly /\ NeverReviewedTwice /\ store.scan = scan /\ store.stage = "method"
      /\ \A v \in Units : store.completed[v] = LatestEntry(lines, scan, "method", v)
  BY <1>1, InLookUp
<1>3. u \in Units
  BY <1>1, HeadOfQueue DEF NextUnit, StageInv, RunTyped, QueueTyped
<1>0. no \in BOOLEAN
  OBVIOUS
<1> HIDE DEF no
<1>4. e \in JournalEntry /\ e.kind = "reuse" /\ e.scan = scan /\ e.unit = u
  <2>1. OwnEntries
    BY DEF RecordInv
  <2>2. "reuse" \in Kinds /\ u \in Units \cup {None} /\ 0 \in Nat
    BY <1>3 DEF Kinds
  <2>3. e = Entry("reuse", u, 0, no) /\ StoreTyped /\ store # None
    BY <1>1, <1>2
  <2> HIDE DEF e, u
  <2> QED
    BY ONLY <1>0, <2>1, <2>2, <2>3, EntryParts
<1>5. lines' = Append(lines, e) /\ torn' = FALSE
  BY <1>1, <1>2 DEF AppendEntry, Written
<1> HIDE DEF e, u
<1>6. e \in FileLine /\ e.kind # "garbled" /\ e.kind # "unit"
  BY <1>4 DEF FileLine
<1>7. Quiet
  BY <1>5, <1>6 DEF Quiet
<1>8. Readable(lines') /\ (Steady' <=> Steady)
  BY <1>1, <1>2, <1>5, <1>6, ReadableAppend DEF Steady
<1>9. Len(lines') = Len(lines) + 1 /\ lines'[Len(lines')] = e /\ lines' # << >>
  BY <1>2, <1>5, <1>6, AppendProperties
<1>10. MethodOnly' /\ NeverReviewedTwice' /\ Unsettled'
  BY <1>1, <1>2, <1>7, QuietKeeps DEF RecordInv
<1>11. \A v, q : Says(v, q)' => Says(v, q)
  BY <1>1 DEF Says
<1>12. Truth'
  BY <1>1, <1>2, <1>7, <1>8, <1>11, QuietTells DEF RecordInv
<1>13. \A v : LatestEntry(lines', scan, "method", v) = LatestEntry(lines, scan, "method", v)
  BY <1>2, <1>7, QuietFile
<1>14. LookUp'
  BY <1>1, <1>2, <1>4, <1>9, <1>13 DEF LookUp
<1>15. OwnEntries' /\ CleanRun'
  BY <1>1, <1>5, <1>8, <1>10 DEF RecordInv, OwnEntries, CleanRun
<1> QED
  BY <1>10, <1>12, <1>14, <1>15 DEF RecordInv

\* The copy behind it is the scan's own.
LEMMA CopyAcrossRecord ==
  ASSUME StageInv, WorkInv, RecordInv, CopyAcross
  PROVE  RecordInv'
<1> DEFINE u == copying
           no == FALSE
           e == Entry("unit", u, 0, no)
<1>0. no \in BOOLEAN /\ ~no
  OBVIOUS
<1>1. /\ proc = "reuse" /\ copying # None /\ copying' = None /\ Record(u, 0, no)
      /\ PushOutcome(u, no)
      /\ UNCHANGED <<proc, scan, fresh, batches, pending, tasks, joined, joinedOuts, firstError>>
  BY DEF CopyAcross
<1> HIDE DEF no
<1>2. /\ Steady /\ ~torn /\ Readable(lines) /\ FileTyped /\ StoreTyped /\ lines \in Seq(FileLine)
      /\ MethodOnly /\ NeverReviewedTwice /\ store # None
      /\ store.scan = scan /\ store.stage = "method"
      /\ DOMAIN tasks = {} /\ joined = 0
      /\ \A v \in Units : store.completed[v] = LatestEntry(lines, scan, "method", v)
  BY <1>1, InLookUp
<1>3. /\ u \in Units /\ u \in UnitsOf(todo) /\ todo # << >>
      /\ todo \in Seq(Jobs)
  BY <1>1, HeadUnits, HeadOfQueue DEF NextUnit, StageInv, RunTyped, QueueTyped, WorkInv, QueueWork
<1>4. /\ lines # << >> /\ lines[Len(lines)].kind = "reuse"
      /\ lines[Len(lines)].scan = scan /\ lines[Len(lines)].unit = u
  BY <1>1 DEF RecordInv, LookUp
<1>5. Reviewed(u, no) /\ torn' = FALSE /\ Readable(lines')
  <2>1. OwnEntries
    BY DEF RecordInv
  <2> QED
    BY <1>0, <1>1, <1>2, <1>3, <2>1, ReviewRecorded
<1>6. u \notin UnitsOf(fresh) /\ outcomes \in [Units -> Seq(BOOLEAN)] /\ Len(outcomes[u]) = 0
  BY <1>1, <1>3 DEF WorkInv, QueueWork
<1>7. MethodOnly' /\ NeverReviewedTwice' /\ Unsettled'
  <2>1. Unsettled
    BY DEF RecordInv
  <2>2. proc' = "reuse" /\ proc' \notin {"running", "aborting"}
    BY <1>1
  <2> QED
    BY <1>0, <1>1, <1>2, <1>3, <1>4, <1>5, <1>6, <2>1, <2>2, ReviewKeeps
<1>8. outcomes' = [outcomes EXCEPT ![u] = <<no>>]
  <2>1. outcomes[u] = << >>
    BY <1>3, <1>6
  <2> QED
    BY <1>1, <2>1 DEF PushOutcome
<1>9. \A v \in Units, q \in BOOLEAN :
        Says(v, q)' => (v # u /\ Says(v, q)) \/ (v = u /\ q = no)
  <2>1. SUFFICES ASSUME NEW v \in Units, NEW q \in BOOLEAN, Says(v, q)'
                 PROVE  (v # u /\ Says(v, q)) \/ (v = u /\ q = no)
    OBVIOUS
  <2>2. outcomes'[v] # << >> /\ outcomes'[v][1] = q
    BY <1>1, <1>2, <2>1 DEF Says
  <2> HIDE DEF u
  <2>3. CASE v = u
    <3>1. outcomes'[v] = <<no>>
      BY <1>3, <1>6, <1>8, <2>3
    <3> QED
      BY <2>2, <2>3, <3>1
  <2>4. CASE v # u
    <3>1. outcomes'[v] = outcomes[v]
      BY <1>6, <1>8, <2>4
    <3> QED
      BY <2>2, <2>4, <3>1 DEF Says
  <2> QED
    BY <2>3, <2>4
<1>10. Steady' <=> Steady
  BY <1>1 DEF Steady
<1>11. Truth'
  <2>1. Truth
    BY DEF RecordInv
  <2> HIDE DEF u
  <2> QED
    BY <1>1, <1>2, <1>3, <1>5, <1>0, <1>9, <1>10, <2>1, ReviewTells
<1>12. /\ store'.scan = scan /\ store'.stage = "method"
       /\ \A v \in Units : store'.completed[v] = IF v = u THEN e ELSE store.completed[v]
  <2>1. store' = [store EXCEPT !.spent = @ + 0, !.completed[u] = e]
    BY <1>1 DEF Record
  <2>2. store = [scan |-> store.scan, stage |-> store.stage, expected |-> store.expected,
                 completed |-> store.completed, spent |-> store.spent]
        /\ DOMAIN store.completed = Units
    BY <1>2 DEF StoreTyped
  <2> HIDE DEF e, u
  <2>3. /\ store'.scan = store.scan /\ store'.stage = store.stage
        /\ store'.completed = [store.completed EXCEPT ![u] = e]
    BY <2>1, <2>2
  <2> QED
    BY <1>2, <1>3, <2>2, <2>3
<1>13. \A v \in Units : store'.completed[v] = LatestEntry(lines', scan, "method", v)
  <2>1. e \in JournalEntry /\ e.kind = "unit" /\ e.scan = scan /\ e.stage = "method" /\ e.unit = u
    <3>1. OwnEntries
      BY DEF RecordInv
    <3>2. "unit" \in Kinds /\ u \in Units \cup {None} /\ 0 \in Nat
      BY <1>3 DEF Kinds
    <3>3. e = Entry("unit", u, 0, no) /\ StoreTyped /\ store # None
      BY <1>2
    <3> HIDE DEF e, u
    <3> QED
      BY ONLY <1>0, <3>1, <3>2, <3>3, EntryParts
  <2>2. lines' = Append(lines, e)
    BY <1>1, <1>2 DEF Record, AppendEntry, Written
  <2> HIDE DEF e, u
  <2>3. \A v : LatestEntry(lines', scan, "method", v) =
               IF e.kind = "unit" /\ e.unit = v /\ MatchesCache(scan, "method", e)
               THEN e ELSE LatestEntry(lines, scan, "method", v)
    BY <1>2, <2>1, <2>2, LatestAfterAppend DEF FileLine
  <2>4. MatchesCache(scan, "method", e)
    BY <2>1 DEF MatchesCache
  <2> QED
    BY <1>2, <1>12, <2>1, <2>3, <2>4
<1>14. OwnEntries' /\ CleanRun' /\ LookUp'
  BY <1>1, <1>2, <1>5, <1>7, <1>12, <1>13 DEF OwnEntries, CleanRun, LookUp
<1> QED
  BY <1>7, <1>11, <1>14 DEF RecordInv

\* An append of the look-up fails, and with it the run.
LEMMA ReuseFailsRecord ==
  ASSUME StageInv, WorkInv, RecordInv, ReuseFails
  PROVE  RecordInv'
<1> DEFINE no == FALSE
<1>0. no \in BOOLEAN /\ ~no
  OBVIOUS
<1>1. /\ proc = "reuse" /\ proc' = "rejecting"
      /\ UNCHANGED <<store, scan, tasks, firstError, fresh>>
      /\ \/ copying # None /\ AppendFails(Entry("unit", copying, 0, no))
         \/ todo # << >> /\ AppendFails(Entry("reuse", NextUnit, 0, no))
  BY DEF ReuseFails, runVars
<1> HIDE DEF no
<1>2. /\ FileTyped /\ StoreTyped /\ store # None /\ MethodOnly /\ NeverReviewedTwice
      /\ DOMAIN tasks = {}
  BY <1>1, InLookUp
<1>3. OwnEntries /\ Unsettled
  BY DEF RecordInv
<1>5. ASSUME copying # None, Reviewed(copying, no)
      PROVE  MethodOnly' /\ NeverReviewedTwice' /\ Unsettled'
  <2> DEFINE u == copying
  <2>1. u \in Units
    BY <1>1, <1>5 DEF StageInv, RunTyped, QueueTyped
  <2>2. /\ lines # << >> /\ lines[Len(lines)].kind = "reuse"
        /\ lines[Len(lines)].scan = scan /\ lines[Len(lines)].unit = u
    BY <1>1, <1>5 DEF RecordInv, LookUp
  <2>3. Reviewed(u, no)
    BY <1>5
  <2> HIDE DEF u
  <2>4. MethodOnly' /\ NeverReviewedTwice' /\ Unsettled'
    BY <1>0, <1>1, <1>2, <1>3, <2>1, <2>2, <2>3, ReviewKeeps
  <2> QED
    BY <2>4
<1>6. Quiet \/ (copying # None /\ Reviewed(copying, no))
  <2>1. CASE copying # None /\ AppendFails(Entry("unit", copying, 0, no))
    <3> DEFINE u == copying
    <3>1. u \in Units /\ AppendFails(Entry("unit", u, 0, no)) /\ u # None
      BY <1>1, <2>1 DEF StageInv, RunTyped, QueueTyped
    <3> HIDE DEF u
    <3>2. Quiet \/ Reviewed(u, no)
      BY <1>0, <1>2, <1>3, <3>1, ReviewAppend
    <3> QED
      BY <3>1, <3>2 DEF u
  <2>2. CASE todo # << >> /\ AppendFails(Entry("reuse", NextUnit, 0, no))
    <3> DEFINE u == NextUnit
               e == Entry("reuse", u, 0, no)
    <3>1. u \in Units \cup {None} /\ 0 \in Nat
      BY <1>1, <2>2, HeadOfQueue DEF NextUnit, StageInv, RunTyped, QueueTyped
    <3>2. e = Entry("reuse", u, 0, no) /\ AppendFails(e)
      BY <2>2
    <3>3. StoreTyped /\ store # None /\ OwnEntries
      BY <1>2, <1>3
    <3> HIDE DEF e, u
    <3>4. e \in JournalEntry /\ e.kind = "reuse"
      BY ONLY <1>0, <3>1, <3>2, <3>3, EntryParts
    <3> QED
      BY <3>2, <3>4, QuietAppend
  <2> QED
    BY <1>1, <2>1, <2>2
<1>7. MethodOnly' /\ NeverReviewedTwice' /\ Unsettled'
  <2>1. CASE Quiet
    BY <1>1, <1>2, <1>3, <2>1, QuietKeeps
  <2> QED
    BY <1>5, <1>6, <2>1
<1> QED
  BY <1>1, <1>2, <1>3, <1>7 DEF RecordInv, OwnEntries, CleanRun, LookUp, Truth, Steady

LEMMA RejectRecord ==
  ASSUME StageInv, RecordInv, Reject
  PROVE  RecordInv'
<1>1. lines' = lines /\ store' = None /\ proc = "rejecting" /\ proc' = "rejected" /\ tasks' = tasks
  BY DEF Reject, Close, runVars
<1>2. DOMAIN tasks = {}
  BY <1>1 DEF StageInv, RunTyped, NothingScheduled
<1>3. FileTyped /\ MethodOnly /\ NeverReviewedTwice /\ Quiet
  BY <1>1 DEF StageInv, JInv, RecordInv, OwnEntries, Quiet
<1> QED
  BY <1>1, <1>2, <1>3, EndedRecord

\* Every method that is left is in a batch, and waits in it.
LEMMA GroupRecord ==
  ASSUME StageInv, WorkInv, RecordInv, Group
  PROVE  RecordInv'
<1>1. /\ proc = "reuse" /\ proc' = "running"
      /\ batches' = GroupPendingReviews(fresh, BatchSize, MaxPromptChars)
      /\ pending' = DOMAIN batches'
      /\ UNCHANGED <<lines, torn, store, scan, outcomes, tasks, joined, joinedOuts, firstError>>
  BY DEF Group, jvars
<1>2. /\ Steady /\ FileTyped /\ MethodOnly /\ NeverReviewedTwice /\ DOMAIN tasks = {}
      /\ lines \in Seq(FileLine)
  BY <1>1, InLookUp
<1>3. UnitsIn(batches') = UnitsOf(fresh)
  <2>1. Distinct(fresh) /\ fresh \in Seq(Jobs)
    BY <1>1 DEF StageInv, RunTyped, QueueTyped, WorkInv, QueueWork
  <2> QED
    BY <1>1, <2>1, BatchesHoldTheQueue DEF UnitsOf, Distinct
<1>4. \A i \in DOMAIN batches' : WaitsIn(i)' \subseteq UnitsOf(fresh)
  <2>1. \A i \in DOMAIN batches' : UnitsOf(batches'[i]) \subseteq UnitsIn(batches')
    BY DEF UnitsOf, UnitsIn
  <2>2. \A i \in DOMAIN batches' : WaitsIn(i)' = UnitsOf(batches'[i])
    BY <1>1 DEF WaitsIn
  <2> QED
    BY <1>3, <2>1, <2>2
<1>5. \A u : NoFinal(scan, u)' <=> NoFinal(scan, u)
  BY <1>1 DEF NoFinal
<1>6. Unsettled'
  <2>1. \A u \in UnitsOf(fresh) : NoFinal(scan, u)
    BY <1>1 DEF RecordInv, Unsettled
  <2>2. \A i \in DOMAIN batches' : \A u \in WaitsIn(i)' : NoFinal(scan, u)'
    BY <1>4, <1>5, <2>1
  <2> QED
    BY <1>1, <2>2 DEF Unsettled
<1>7. Quiet /\ (Steady' => Steady)
  BY <1>1, <1>2 DEF Quiet
<1>8. \A v, q : Says(v, q)' => Says(v, q)
  BY <1>1 DEF Says
<1>9. Truth'
  BY <1>1, <1>2, <1>7, <1>8, QuietTells DEF RecordInv
<1>10. MethodOnly' /\ NeverReviewedTwice'
  BY <1>2, <1>7, QuietFile
<1>11. OwnEntries' /\ CleanRun' /\ LookUp'
  BY <1>1, <1>2, <1>10 DEF RecordInv, OwnEntries, CleanRun, LookUp, Readable
<1> QED
  BY <1>6, <1>9, <1>10, <1>11 DEF RecordInv

\* A step of the run that journals no review ...
LEMMA QuietRun ==
  ASSUME FileTyped, RecordInv, Quiet, proc \in {"running", "aborting"},
         proc' \in {"running", "aborting"}, UNCHANGED <<scan, batches>>,
         store' # None => store # None /\ store'.scan = store.scan /\ store'.stage = store.stage,
         \A i \in DOMAIN batches : WaitsIn(i)' \subseteq WaitsIn(i),
         \A v \in Units, q \in BOOLEAN : Says(v, q)' => Says(v, q) \/ ~Steady',
         Steady' => Steady /\ ~torn' /\ Readable(lines'),
         \A i \in DOMAIN tasks' : tasks'[i].st # "run" => tasks'[i].owed = 0
  PROVE  RecordInv'
<1>1. OwnEntries /\ MethodOnly /\ NeverReviewedTwice /\ Unsettled /\ Truth
  BY DEF RecordInv, OwnEntries
<1>2. MethodOnly' /\ NeverReviewedTwice' /\ Unsettled'
  BY <1>1, QuietKeeps
<1>3. Truth'
  BY <1>1, QuietTells
<1>4. OwnEntries' /\ CleanRun' /\ LookUp'
  BY <1>1, <1>2 DEF OwnEntries, CleanRun, LookUp
<1> QED
  BY <1>2, <1>3, <1>4 DEF RecordInv

\* ... and one that journals a review which some batch waits for.
LEMMA ReviewRun ==
  ASSUME FileTyped, RunTyped, WorkInv, RecordInv, proc \in {"running", "aborting"},
         proc' \in {"running", "aborting"}, UNCHANGED <<scan, batches>>,
         store' # None => store # None /\ store'.scan = store.scan /\ store'.stage = store.stage,
         NEW u, NEW r \in BOOLEAN, NEW b \in DOMAIN batches, u \in WaitsIn(b), Reviewed(u, r),
         u \notin WaitsIn(b)',
         \A i \in DOMAIN batches : WaitsIn(i)' \subseteq WaitsIn(i),
         \A v \in Units, q \in BOOLEAN : Says(v, q)' => Says(v, q) \/ (v = u /\ q = r),
         Steady' => Steady /\ ~torn' /\ Readable(lines'),
         \A i \in DOMAIN tasks' : tasks'[i].st # "run" => tasks'[i].owed = 0
  PROVE  RecordInv'
<1>1. OwnEntries /\ MethodOnly /\ NeverReviewedTwice /\ Unsettled /\ Truth
  BY DEF RecordInv, OwnEntries
<1>2. /\ u \in Units
      /\ \A i \in DOMAIN batches : i # b => u \notin WaitsIn(i)
      /\ \A q : ~Says(u, q)
  BY WaitsApart
<1>3. NoFinal(scan, u)
  BY <1>1 DEF Unsettled
<1>4. \A i \in DOMAIN batches : WaitsIn(i)' \subseteq WaitsIn(i) \ {u}
  BY <1>2
<1>5. \A v \in Units, q \in BOOLEAN : Says(v, q)' => (v # u /\ Says(v, q)) \/ (v = u /\ q = r)
  BY <1>2
<1>6. proc' # "reuse"
  OBVIOUS
<1>7. MethodOnly' /\ NeverReviewedTwice' /\ Unsettled'
  BY <1>1, <1>2, <1>3, <1>4, <1>6, ReviewKeeps
<1>8. Truth'
  BY <1>1, <1>2, <1>5, ReviewTells
<1>9. OwnEntries' /\ CleanRun' /\ LookUp'
  BY <1>1, <1>7 DEF OwnEntries, CleanRun, LookUp
<1> QED
  BY <1>7, <1>8, <1>9 DEF RecordInv

LEMMA OwnWaits ==
  ASSUME NEW t, NEW batch, Owns(t, batch)
  PROVE  TaskWaits(t) = (IF t.st = "run" THEN UnitsOf(batch) \ UnitsOf(t.outs) ELSE {})
                          \cup Unkept(t.outs)
<1>1. /\ LeftIn(t.queue, t.done) \cap UnitsOf(t.outs) = {}
      /\ LeftIn(t.queue, t.done) \cup UnitsOf(t.outs) = UnitsOf(batch)
  BY DEF Owns, Shares
<1> QED
  BY <1>1 DEF TaskWaits

LEMMA OutAdded ==
  ASSUME NEW outs \in Seq(Out), NEW o \in Out
  PROVE  /\ Unkept(Append(outs, o)) = Unkept(outs) \cup (IF o.persisted THEN {} ELSE {o.unit})
         /\ \A v, q : Kept(Append(outs, o), v, q) <=>
              Kept(outs, v, q) \/ (o.persisted /\ o.unit = v /\ o.retry = q)
<1> DEFINE all == Append(outs, o)
           n == Len(outs)
<1>1. /\ n \in Nat /\ DOMAIN outs = 1..n /\ DOMAIN all = 1..(n + 1)
      /\ \A k \in 1..n : all[k] = outs[k]
      /\ all[n + 1] = o
  BY AppendProperties
<1> HIDE DEF all, n
<1>2. /\ \A k \in DOMAIN outs : k \in DOMAIN all /\ all[k] = outs[k]
      /\ n + 1 \in DOMAIN all /\ n + 1 \notin DOMAIN outs /\ all[n + 1] = o
      /\ \A k \in DOMAIN all : k = n + 1 \/ k \in DOMAIN outs
  BY <1>1
<1>3. Unkept(all) = Unkept(outs) \cup (IF o.persisted THEN {} ELSE {o.unit})
  BY <1>2 DEF Unkept
<1>4. \A v, q : Kept(all, v, q) <=>
        Kept(outs, v, q) \/ (o.persisted /\ o.unit = v /\ o.retry = q)
  BY <1>2 DEF Kept
<1> QED
  BY <1>3, <1>4 DEF all

\* What changes when one task does.
LEMMA TaskView ==
  ASSUME RunTyped, WorkInv, NEW i \in DOMAIN tasks, NEW t,
         tasks' = [tasks EXCEPT ![i] = t],
         UNCHANGED <<proc, scan, outcomes, batches, pending, joined, joinedOuts, firstError>>
  PROVE  /\ proc \in {"running", "aborting"} /\ i \in DOMAIN batches
         /\ Owns(tasks[i], batches[i]) /\ TaskOK(tasks[i])
         /\ WaitsIn(i) = TaskWaits(tasks[i]) /\ WaitsIn(i)' = TaskWaits(t)
         /\ TaskWaits(t) \subseteq TaskWaits(tasks[i]) =>
              \A j \in DOMAIN batches : WaitsIn(j)' \subseteq WaitsIn(j)
         /\ \A v, q : Kept(tasks[i].outs, v, q) => Says(v, q)
         /\ \A v, q : Says(v, q)' => Says(v, q) \/ Kept(t.outs, v, q)
         /\ Steady' => t.st \in {"run", "ok"}
         /\ tasks[i].st \in {"run", "ok"} /\ Steady' => Steady
         /\ DOMAIN tasks' = DOMAIN tasks /\ \A j \in DOMAIN tasks : j # i => tasks'[j] = tasks[j]
         /\ tasks'[i] = t
<1>1. /\ DOMAIN tasks' = DOMAIN tasks /\ tasks'[i] = t
      /\ \A j \in DOMAIN tasks : j # i => tasks'[j] = tasks[j]
  OBVIOUS
<1>2. /\ proc \in {"running", "aborting"} /\ i \in DOMAIN batches /\ i \notin pending
      /\ Owns(tasks[i], batches[i]) /\ TaskOK(tasks[i])
  BY DEF RunTyped, TasksTyped, WorkInv, BatchWork, Afterwards, BatchPlaces
<1>3. WaitsIn(i) = TaskWaits(tasks[i]) /\ WaitsIn(i)' = TaskWaits(t)
  BY <1>1, <1>2 DEF WaitsIn
<1>4. \A j \in DOMAIN batches : j # i => WaitsIn(j)' = WaitsIn(j)
  BY <1>1 DEF WaitsIn
<1>5. \A v, q : Kept(tasks[i].outs, v, q) => Says(v, q)
  BY DEF Says
<1>6. \A v, q : Says(v, q)' => Says(v, q) \/ Kept(t.outs, v, q)
  BY <1>1 DEF Says
<1>7. /\ Steady' => t.st \in {"run", "ok"}
      /\ tasks[i].st \in {"run", "ok"} /\ Steady' => Steady
  BY <1>1 DEF Steady
<1> QED
  BY <1>1, <1>2, <1>3, <1>4, <1>5, <1>6, <1>7

\* A store that is charged or gets an entry is still that of the run.
LEMMA StoreStays ==
  ASSUME StoreTyped, store # None,
         \/ \E c : RecordUsage(c)
         \/ \E u, c, r : Record(u, c, r)
         \/ \E e : RecordFails(e)
         \/ UNCHANGED jvars
  PROVE  store'.scan = store.scan /\ store'.stage = store.stage
<1>1. store = [scan |-> store.scan, stage |-> store.stage, expected |-> store.expected,
               completed |-> store.completed, spent |-> store.spent]
  BY DEF StoreTyped
<1>2. ASSUME NEW c, RecordUsage(c)
      PROVE  store'.scan = store.scan /\ store'.stage = store.stage
  <2>1. store' = [store EXCEPT !.spent = @ + c]
    BY <1>2 DEF RecordUsage
  <2> QED
    BY <1>1, <2>1
<1>3. ASSUME NEW u, NEW c, NEW r, Record(u, c, r)
      PROVE  store'.scan = store.scan /\ store'.stage = store.stage
  <2> DEFINE s == [store EXCEPT !.spent = @ + c]
             e == Entry("unit", u, c, r)
  <2>1. store' = [s EXCEPT !.completed[u] = e]
    BY <1>3 DEF Record
  <2>2. s = [scan |-> store.scan, stage |-> store.stage, expected |-> store.expected,
             completed |-> store.completed, spent |-> store.spent + c]
    BY <1>1
  <2> HIDE DEF s, e
  <2>3. store'.scan = s.scan /\ store'.stage = s.stage
    BY <2>1, <2>2
  <2> QED
    BY <2>2, <2>3
<1> QED
  BY <1>2, <1>3 DEF RecordFails, jvars

\* The other fields of a task whose counters change, or whose attempt fails.
LEMMA CountersKept ==
  ASSUME NEW x, TaskOK(x)
  PROVE  /\ \A c : [x EXCEPT !.calls = @ + 1, !.owed = c].st = x.st
         /\ [x EXCEPT !.owed = 0].st = x.st /\ [x EXCEPT !.owed = 0].owed = 0
         /\ \A s : LET t == [x EXCEPT !.st = s] IN t.st = s /\ t.owed = x.owed
<1>1. x = [queue |-> x.queue, done |-> x.done, calls |-> x.calls, owed |-> x.owed,
           outs |-> x.outs, st |-> x.st]
  BY DEF TaskOK
<1>2. ASSUME NEW c
      PROVE  [x EXCEPT !.calls = @ + 1, !.owed = c].st = x.st
  <2> DEFINE y == [x EXCEPT !.calls = @ + 1]
             t == [y EXCEPT !.owed = c]
  <2>1. y = [queue |-> x.queue, done |-> x.done, calls |-> x.calls + 1, owed |-> x.owed,
             outs |-> x.outs, st |-> x.st]
    BY <1>1
  <2>2. [x EXCEPT !.calls = @ + 1, !.owed = c] = t
    OBVIOUS
  <2> HIDE DEF y
  <2>3. t.st = x.st
    BY <2>1
  <2> HIDE DEF t
  <2> QED
    BY <2>2, <2>3
<1> QED
  BY <1>1, <1>2

\* A task whose methods stay where they are has no more to wait for or to tell.
LEMMA SameTask ==
  ASSUME RunTyped, WorkInv, NEW i \in DOMAIN tasks, NEW t,
         tasks' = [tasks EXCEPT ![i] = t],
         UNCHANGED <<proc, scan, outcomes, batches, pending, joined, joinedOuts, firstError>>,
         t.queue = tasks[i].queue, t.done = tasks[i].done, t.outs = tasks[i].outs,
         t.st = tasks[i].st \/ t.st \in {"err", "panic"}
  PROVE  /\ \A j \in DOMAIN batches : WaitsIn(j)' \subseteq WaitsIn(j)
         /\ \A v, q : Says(v, q)' => Says(v, q)
<1> DEFINE x == tasks[i]
<1>1. /\ TaskWaits(t) \subseteq TaskWaits(x) =>
           \A j \in DOMAIN batches : WaitsIn(j)' \subseteq WaitsIn(j)
      /\ \A v, q : Kept(x.outs, v, q) => Says(v, q)
      /\ \A v, q : Says(v, q)' => Says(v, q) \/ Kept(t.outs, v, q)
  BY TaskView
<1>2. /\ t.queue = x.queue /\ t.done = x.done /\ t.outs = x.outs
      /\ t.st = "run" => x.st = "run"
  OBVIOUS
<1> HIDE DEF x
<1>3. TaskWaits(t) \subseteq TaskWaits(x)
  BY <1>2 DEF TaskWaits
<1> QED
  BY <1>1, <1>2, <1>3

\* A provider call leaves a usage, and then a charge.
LEMMA CallRecord ==
  ASSUME StageInv, WorkInv, RecordInv, NEW i \in DOMAIN tasks,
         (\E c \in Costs : ModelCall(i, c)) \/ Charge(i)
  PROVE  RecordInv'
<1>1. /\ RunTyped /\ TaskOK(tasks[i]) /\ store # None /\ FileTyped /\ StoreTyped
      /\ proc \in {"running", "aborting"} /\ lines \in Seq(FileLine) /\ OwnEntries
  BY TaskParts DEF StageInv, JInv, FileTyped, FileLine, RecordInv
<1>2. ASSUME NEW c \in Costs, ModelCall(i, c)
      PROVE  RecordInv'
  <2> DEFINE x == tasks[i]
             t == [x EXCEPT !.calls = @ + 1, !.owed = c]
             no == FALSE
             e == Entry("usage", None, c, no)
  <2>0. no \in BOOLEAN
    OBVIOUS
  <2>1. /\ tasks' = [tasks EXCEPT ![i] = t] /\ x.st = "run" /\ RecordUsage(c) /\ AppendEntry(e)
        /\ c \in Nat
        /\ UNCHANGED <<proc, scan, outcomes, batches, pending, joined, joinedOuts, firstError>>
    BY <1>2, JournalAssumption DEF ModelCall, TaskStep, RecordUsage, Working
  <2>2. t.queue = x.queue /\ t.done = x.done /\ t.outs = x.outs /\ t.st = x.st
    BY <1>1, CountersWork, CountersKept
  <2> HIDE DEF t, no
  <2>3. e \in JournalEntry /\ e.kind = "usage"
    <3> DEFINE u == None
    <3>1. u \in Units \cup {None} /\ "usage" \in {"unit", "reuse", "usage"} /\ c \in Nat
      BY <2>1
    <3>2. e = Entry("usage", u, c, no) /\ StoreTyped /\ store # None /\ OwnEntries
      BY <1>1
    <3> HIDE DEF e, u
    <3> QED
      BY ONLY <2>0, <3>1, <3>2, EntryParts
  <2> HIDE DEF e
  <2>4. Quiet
    BY <2>1, <2>3, QuietAppend
  <2>5. e \in FileLine /\ e.kind # "garbled"
    BY <2>3 DEF FileLine
  <2>6. /\ \A j \in DOMAIN batches : WaitsIn(j)' \subseteq WaitsIn(j)
        /\ \A v, q : Says(v, q)' => Says(v, q)
    BY <1>1, <2>1, <2>2, SameTask
  <2>7. /\ Steady' => Steady
        /\ DOMAIN tasks' = DOMAIN tasks /\ \A j \in DOMAIN tasks : j # i => tasks'[j] = tasks[j]
        /\ tasks'[i] = t
    BY <1>1, <2>1, TaskView
  <2>8. Steady' => Steady /\ ~torn' /\ Readable(lines')
    <3>1. SUFFICES ASSUME Steady' PROVE ~torn' /\ Readable(lines')
      BY <2>7
    <3>2. ~torn /\ Readable(lines)
      BY <2>7, <3>1 DEF RecordInv, CleanRun
    <3>3. lines' = Append(lines, e) /\ torn' = FALSE
      BY <2>1, <3>2 DEF AppendEntry, Written
    <3> QED
      BY <1>1, <2>5, <3>2, <3>3, ReadableAppend
  <2>9. \A j \in DOMAIN tasks' : tasks'[j].st # "run" => tasks'[j].owed = 0
    <3>1. \A j \in DOMAIN tasks : tasks[j].st # "run" => tasks[j].owed = 0
      BY DEF RecordInv, CleanRun
    <3> QED
      BY <2>1, <2>2, <2>7, <3>1
  <2>10. store'.scan = store.scan /\ store'.stage = store.stage
    BY <1>1, <2>1, StoreStays
  <2> QED
    BY <1>1, <2>1, <2>4, <2>6, <2>8, <2>9, <2>10, QuietRun
<1>3. CASE Charge(i)
  <2> DEFINE x == tasks[i]
             t == [x EXCEPT !.owed = 0]
  <2>1. /\ tasks' = [tasks EXCEPT ![i] = t]
        /\ UNCHANGED <<lines, torn, store, proc, scan, outcomes, batches, pending, joined,
                       joinedOuts, firstError>>
    BY <1>3 DEF Charge, jvars
  <2>2. t.queue = x.queue /\ t.done = x.done /\ t.outs = x.outs /\ t.st = x.st /\ t.owed = 0
    BY <1>1, CountersWork, CountersKept
  <2> HIDE DEF t
  <2>3. Quiet
    BY <2>1 DEF Quiet
  <2>4. /\ \A j \in DOMAIN batches : WaitsIn(j)' \subseteq WaitsIn(j)
        /\ \A v, q : Says(v, q)' => Says(v, q)
    BY <1>1, <2>1, <2>2, SameTask
  <2>5. /\ x.st \in {"run", "ok"} /\ Steady' => Steady
        /\ Steady' => t.st \in {"run", "ok"}
        /\ DOMAIN tasks' = DOMAIN tasks /\ \A j \in DOMAIN tasks : j # i => tasks'[j] = tasks[j]
        /\ tasks'[i] = t
    BY <1>1, <2>1, TaskView
  <2>6. Steady' => Steady /\ ~torn' /\ Readable(lines')
    BY <2>1, <2>2, <2>5 DEF RecordInv, CleanRun, Readable
  <2>7. \A j \in DOMAIN tasks' : tasks'[j].st # "run" => tasks'[j].owed = 0
    <3>1. \A j \in DOMAIN tasks : tasks[j].st # "run" => tasks[j].owed = 0
      BY DEF RecordInv, CleanRun
    <3> QED
      BY <2>2, <2>5, <3>1
  <2> QED
    BY <1>1, <2>1, <2>3, <2>4, <2>6, <2>7, QuietRun
<1> QED
  BY <1>2, <1>3

\* The method whose turn it is has not been reviewed.
LEMMA NextInLine ==
  ASSUME RunTyped, WorkInv, NEW i \in DOMAIN tasks, tasks[i].st = "run"
  PROVE  /\ tasks[i].queue[1][tasks[i].done + 1] \in LeftIn(tasks[i].queue, tasks[i].done)
         /\ tasks[i].queue[1][tasks[i].done + 1] \notin UnitsOf(tasks[i].outs)
         /\ tasks[i].queue[1][tasks[i].done + 1] \in WaitsIn(i)
<1> DEFINE x == tasks[i]
           q == x.queue
           d == x.done
<1>1. /\ TaskOK(x) /\ q # << >> /\ q[1] \in Seq(Units) /\ d \in Nat /\ d < Len(q[1])
      /\ i \in DOMAIN batches /\ Owns(x, batches[i]) /\ i \notin pending
  BY TaskParts DEF WorkInv, BatchWork, Afterwards, BatchPlaces
<1>2. q \in Seq(Seq(Units))
  BY <1>1 DEF TaskOK
<1>3. LeftIn(q, d) \cap UnitsOf(x.outs) = {}
  BY <1>1 DEF Owns, Shares
<1> HIDE DEF q, d
<1>4. 1 \in DOMAIN q /\ d + 1 \in DOMAIN q[1] /\ Ahead(d, 1, d + 1)
  BY <1>1, <1>2 DEF Ahead
<1>5. q[1][d + 1] \in LeftIn(q, d)
  BY <1>4 DEF LeftIn
<1>6. TaskWaits(x) = LeftIn(q, d) \cup Unkept(x.outs)
  BY DEF TaskWaits, q, d
<1>7. WaitsIn(i) = TaskWaits(x)
  BY <1>1 DEF WaitsIn
<1> QED
  BY <1>3, <1>5, <1>6, <1>7 DEF q, d

\* A task that fails, or a callback that fails it.
LEMMA FailRecord ==
  ASSUME StageInv, WorkInv, RecordInv, NEW i \in DOMAIN tasks, NEW st \in {"err", "panic"},
         tasks[i].st = "run", tasks[i].owed = 0,
         TaskStep(i, [tasks[i] EXCEPT !.st = st]),
         \/ UNCHANGED jvars
         \/ \E c \in Costs : RecordFails(Entry("usage", None, c, FALSE))
         \/ \E r \in BOOLEAN :
              RecordFails(Entry("unit", tasks[i].queue[1][tasks[i].done + 1], 0, r))
  PROVE  RecordInv'
<1> DEFINE x == tasks[i]
           t == [x EXCEPT !.st = st]
           u == x.queue[1][x.done + 1]
           no == FALSE
<1>0. no \in BOOLEAN
  OBVIOUS
<1>1. /\ RunTyped /\ TaskOK(x) /\ store # None /\ FileTyped /\ StoreTyped
      /\ proc \in {"running", "aborting"} /\ OwnEntries /\ u \in Units
      /\ i \in DOMAIN batches /\ Owns(x, batches[i])
  BY TaskParts DEF StageInv, JInv, RecordInv, WorkInv, BatchWork, Afterwards
<1>2. t.queue = x.queue /\ t.done = x.done /\ t.outs = x.outs /\ t.st = st /\ t.owed = x.owed
  BY <1>1, CountersWork, CountersKept
<1>3. /\ tasks' = [tasks EXCEPT ![i] = t]
      /\ UNCHANGED <<proc, scan, outcomes, batches, pending, joined, joinedOuts, firstError>>
  BY DEF TaskStep
<1>4. u \in WaitsIn(i) /\ u \notin UnitsOf(x.outs)
  BY <1>1, NextInLine
<1>5. store'.scan = store.scan /\ store'.stage = store.stage
  BY <1>1, StoreStays
<1>6. \/ UNCHANGED lines
      \/ \E c \in Costs : AppendFails(Entry("usage", None, c, no))
      \/ \E r \in BOOLEAN : AppendFails(Entry("unit", u, 0, r))
  BY DEF RecordFails, jvars
<1> HIDE DEF t, no
<1>7. /\ \A j \in DOMAIN batches : WaitsIn(j)' \subseteq WaitsIn(j)
      /\ \A v, q : Says(v, q)' => Says(v, q)
  BY <1>1, <1>2, <1>3, SameTask
<1>8. /\ ~Steady' /\ WaitsIn(i)' = TaskWaits(t)
      /\ DOMAIN tasks' = DOMAIN tasks /\ \A j \in DOMAIN tasks : j # i => tasks'[j] = tasks[j]
      /\ tasks'[i] = t
  BY <1>1, <1>2, <1>3, TaskView
<1>9. \A j \in DOMAIN tasks' : tasks'[j].st # "run" => tasks'[j].owed = 0
  <2>1. \A j \in DOMAIN tasks : tasks[j].st # "run" => tasks[j].owed = 0
    BY DEF RecordInv, CleanRun
  <2> QED
    BY <1>2, <1>8, <2>1
<1> HIDE DEF x, u
<1>10. u \notin WaitsIn(i)'
  <2>1. Unkept(x.outs) \subseteq UnitsOf(x.outs)
    BY DEF Unkept, UnitsOf
  <2> QED
    BY <1>2, <1>4, <1>8, <2>1 DEF TaskWaits
<1>11. Quiet \/ \E r \in BOOLEAN : Reviewed(u, r)
  <2>1. ASSUME NEW c \in Costs, AppendFails(Entry("usage", None, c, no))
        PROVE  Quiet
    <3> DEFINE w == None
               e == Entry("usage", w, c, no)
    <3>1. w \in Units \cup {None} /\ "usage" \in {"unit", "reuse", "usage"} /\ c \in Nat
      BY JournalAssumption
    <3>2. e = Entry("usage", w, c, no) /\ AppendFails(e)
      BY <2>1
    <3>3. StoreTyped /\ store # None /\ OwnEntries
      BY <1>1
    <3> HIDE DEF e, w
    <3>4. e \in JournalEntry /\ e.kind = "usage"
      BY ONLY <1>0, <3>1, <3>2, <3>3, EntryParts
    <3> QED
      BY <3>2, <3>4, QuietAppend
  <2>2. ASSUME NEW r \in BOOLEAN, AppendFails(Entry("unit", u, 0, r))
        PROVE  Quiet \/ Reviewed(u, r)
    BY <1>1, <2>2, ReviewAppend
  <2>3. UNCHANGED lines => Quiet
    BY DEF Quiet
  <2> QED
    BY <1>6, <2>1, <2>2, <2>3
<1>12. CASE Quiet
  BY <1>1, <1>3, <1>5, <1>7, <1>8, <1>9, <1>12, QuietRun
<1>13. ASSUME NEW r \in BOOLEAN, Reviewed(u, r)
       PROVE  RecordInv'
  <2>1. \A v \in Units, q \in BOOLEAN : Says(v, q)' => Says(v, q) \/ (v = u /\ q = r)
    BY <1>7
  <2> QED
    BY <1>1, <1>3, <1>4, <1>5, <1>7, <1>8, <1>9, <1>10, <1>13, <2>1, ReviewRun
<1> QED
  BY <1>11, <1>12, <1>13

\* The method whose review is complete is out of the way.
LEMMA ItemRecord ==
  ASSUME StageInv, WorkInv, WorkInv', RecordInv, NEW i \in DOMAIN tasks, NEW r \in BOOLEAN,
         ItemComplete(i, r)
  PROVE  RecordInv'
<1> DEFINE x == tasks[i]
           u == x.queue[1][x.done + 1]
           yes == TRUE
           o == [unit |-> u, retry |-> r, persisted |-> yes]
           outs == Append(x.outs, o)
           next == NextBatch(x, Tail(x.queue), outs)
           same == [x EXCEPT !.done = @ + 1, !.outs = outs]
           t == IF x.done + 1 = Len(x.queue[1]) THEN next ELSE same
<1>0. yes \in BOOLEAN /\ yes
  OBVIOUS
<1>1. /\ RunTyped /\ TaskOK(x) /\ store # None /\ FileTyped /\ StoreTyped
      /\ proc \in {"running", "aborting"} /\ OwnEntries /\ u \in Units
      /\ i \in DOMAIN batches /\ Owns(x, batches[i]) /\ x.outs \in Seq(Out)
      /\ x.st = "run" /\ x.owed = 0
  BY TaskParts DEF StageInv, JInv, RecordInv, WorkInv, BatchWork, Afterwards, ItemComplete,
                   Working, TaskOK
<1>2. /\ tasks' = [tasks EXCEPT ![i] = t] /\ Record(u, 0, r)
      /\ UNCHANGED <<proc, scan, outcomes, batches, pending, joined, joinedOuts, firstError>>
  BY DEF ItemComplete, TaskStep
<1>3. u \in WaitsIn(i) /\ u \notin UnitsOf(x.outs)
  BY <1>1, NextInLine
<1> HIDE DEF u, yes
<1>4. o \in Out /\ o.unit = u /\ o.retry = r /\ o.persisted
  BY <1>0, <1>1 DEF Out
<1>5. next.outs = outs /\ next.st \in {"run", "ok"} /\ next.owed = 0
  <2> DEFINE rest == Tail(x.queue)
  <2> HIDE DEF outs, o, rest
  <2>1. next = [queue |-> rest, done |-> 0, calls |-> 0, owed |-> 0, outs |-> outs,
                st |-> IF rest = << >> THEN "ok" ELSE "run"]
    BY DEF NextBatch, rest
  <2> HIDE DEF next
  <2> QED
    BY <2>1
<1>6. same.outs = outs /\ same.st = "run" /\ same.owed = 0
  <2> DEFINE d == x.done + 1
             y == [x EXCEPT !.done = d]
  <2> HIDE DEF d, outs, o
  <2>1. x = [queue |-> x.queue, done |-> x.done, calls |-> x.calls, owed |-> 0,
             outs |-> x.outs, st |-> "run"]
    BY <1>1 DEF TaskOK
  <2>2. y = [queue |-> x.queue, done |-> d, calls |-> x.calls, owed |-> 0,
             outs |-> x.outs, st |-> "run"]
    BY <2>1
  <2>3. same = [y EXCEPT !.outs = outs]
    BY DEF d
  <2> HIDE DEF y, same
  <2>4. same = [queue |-> x.queue, done |-> d, calls |-> x.calls, owed |-> 0,
                outs |-> outs, st |-> "run"]
    BY <2>2, <2>3
  <2> QED
    BY <2>4
<1> HIDE DEF next, same
<1>7. t.outs = outs /\ t.st \in {"run", "ok"} /\ t.owed = 0
  BY <1>5, <1>6
<1> HIDE DEF t
<1>8. /\ WaitsIn(i) = TaskWaits(x) /\ WaitsIn(i)' = TaskWaits(t)
      /\ TaskWaits(t) \subseteq TaskWaits(x) =>
           \A j \in DOMAIN batches : WaitsIn(j)' \subseteq WaitsIn(j)
      /\ \A v, q : Kept(x.outs, v, q) => Says(v, q)
      /\ \A v, q : Says(v, q)' => Says(v, q) \/ Kept(t.outs, v, q)
      /\ Steady' => Steady
      /\ DOMAIN tasks' = DOMAIN tasks /\ \A j \in DOMAIN tasks : j # i => tasks'[j] = tasks[j]
      /\ tasks'[i] = t
  BY <1>1, <1>2, TaskView
<1>9. Owns(t, batches[i])
  <2>1. Owns(tasks'[i], batches'[i])
    BY <1>1, <1>2, <1>8 DEF WorkInv, BatchWork, Afterwards
  <2> QED
    BY <1>2, <1>8, <2>1
<1>10. /\ Unkept(outs) = Unkept(x.outs) \cup (IF o.persisted THEN {} ELSE {o.unit})
       /\ \A v, q : Kept(outs, v, q) <=>
            Kept(x.outs, v, q) \/ (o.persisted /\ o.unit = v /\ o.retry = q)
       /\ UnitsOf(outs) = UnitsOf(x.outs) \cup {o.unit}
  <2> DEFINE y == x.outs
             new == o
  <2>1. y \in Seq(Out) /\ new \in Out
    BY <1>1, <1>4
  <2> HIDE DEF y, new
  <2>2. /\ Unkept(Append(y, new)) = Unkept(y) \cup (IF new.persisted THEN {} ELSE {new.unit})
        /\ \A v, q : Kept(Append(y, new), v, q) <=>
             Kept(y, v, q) \/ (new.persisted /\ new.unit = v /\ new.retry = q)
    BY <2>1, OutAdded
  <2>3. UnitsOf(Append(y, new)) = UnitsOf(y) \cup {new.unit}
    BY <2>1, AppendedOut
  <2> QED
    BY <2>2, <2>3 DEF y, new
<1> HIDE DEF outs, o, x
<1>11. TaskWaits(t) \subseteq TaskWaits(x) /\ u \notin TaskWaits(t)
  <2> DEFINE all == UnitsOf(batches[i])
  <2>1. /\ TaskWaits(x) = (IF x.st = "run" THEN all \ UnitsOf(x.outs) ELSE {}) \cup Unkept(x.outs)
        /\ TaskWaits(t) = (IF t.st = "run" THEN all \ UnitsOf(t.outs) ELSE {}) \cup Unkept(t.outs)
    BY <1>1, <1>9, OwnWaits
  <2> HIDE DEF all
  <2>2. Unkept(x.outs) \subseteq UnitsOf(x.outs)
    BY DEF Unkept, UnitsOf
  <2> QED
    BY <1>1, <1>3, <1>4, <1>7, <1>10, <2>1, <2>2
<1>12. \A v, q : Says(v, q)' => Says(v, q) \/ (v = u /\ q = r)
  BY <1>4, <1>7, <1>8, <1>10
<1>13. store'.scan = store.scan /\ store'.stage = store.stage
  BY <1>1, <1>2, StoreStays
<1>14. \A j \in DOMAIN tasks' : tasks'[j].st # "run" => tasks'[j].owed = 0
  <2>1. \A j \in DOMAIN tasks : tasks[j].st # "run" => tasks[j].owed = 0
    BY DEF RecordInv, CleanRun
  <2> QED
    BY <1>7, <1>8, <2>1
<1>15. CASE ~torn
  <2>1. /\ Reviewed(u, r) /\ torn' = FALSE
        /\ Readable(lines) => Readable(lines')
    BY <1>1, <1>2, <1>15, ReviewRecorded
  <2>2. Steady' => Steady /\ ~torn' /\ Readable(lines')
    BY <1>8, <2>1 DEF RecordInv, CleanRun
  <2> QED
    BY <1>1, <1>2, <1>3, <1>8, <1>11, <1>12, <1>13, <1>14, <2>1, <2>2, ReviewRun
<1>16. CASE torn
  <2>1. ~Steady /\ ~Steady'
    BY <1>8, <1>16 DEF RecordInv, CleanRun
  <2>2. Quiet
    <3>1. lines' = Append(lines, Garbled) /\ Garbled \in FileLine /\ Garbled.kind # "unit"
      BY <1>2, <1>16 DEF Record, AppendEntry, Written, FileLine, Garbled
    <3> QED
      BY <3>1 DEF Quiet
  <2> QED
    BY <1>1, <1>2, <1>8, <1>11, <1>13, <1>14, <2>1, <2>2, QuietRun
<1> QED
  BY <1>15, <1>16

\* A task goes on without a review.
LEMMA GoOnRecord ==
  ASSUME StageInv, WorkInv, WorkInv', RecordInv, NEW i \in DOMAIN tasks, NEW t,
         TaskStep(i, t), UNCHANGED jvars, tasks[i].st = "run",
         t.st \in {"run", "ok"}, t.owed = 0,
         UnitsOf(tasks[i].outs) \subseteq UnitsOf(t.outs),
         Unkept(t.outs) \subseteq Unkept(tasks[i].outs)
                                    \cup (UnitsOf(batches[i]) \ UnitsOf(tasks[i].outs)),
         \A v, q : Kept(t.outs, v, q) => Kept(tasks[i].outs, v, q)
  PROVE  RecordInv'
<1> DEFINE x == tasks[i]
<1>1. /\ RunTyped /\ FileTyped /\ proc \in {"running", "aborting"}
      /\ i \in DOMAIN batches /\ Owns(x, batches[i]) /\ store # None
  BY TaskParts DEF StageInv, JInv, WorkInv, BatchWork, Afterwards
<1>2. /\ tasks' = [tasks EXCEPT ![i] = t] /\ UNCHANGED <<lines, torn, store>>
      /\ UNCHANGED <<proc, scan, outcomes, batches, pending, joined, joinedOuts, firstError>>
  BY DEF TaskStep, jvars
<1>3. /\ TaskWaits(t) \subseteq TaskWaits(x) =>
           \A j \in DOMAIN batches : WaitsIn(j)' \subseteq WaitsIn(j)
      /\ \A v, q : Kept(x.outs, v, q) => Says(v, q)
      /\ \A v, q : Says(v, q)' => Says(v, q) \/ Kept(t.outs, v, q)
      /\ Steady' => Steady
      /\ DOMAIN tasks' = DOMAIN tasks /\ \A j \in DOMAIN tasks : j # i => tasks'[j] = tasks[j]
      /\ tasks'[i] = t
  BY <1>1, <1>2, TaskView
<1>4. Owns(t, batches[i])
  <2>1. Owns(tasks'[i], batches'[i])
    BY <1>1, <1>2, <1>3 DEF WorkInv, BatchWork, Afterwards
  <2> QED
    BY <1>2, <1>3, <2>1
<1>5. TaskWaits(t) \subseteq TaskWaits(x)
  <2> DEFINE all == UnitsOf(batches[i])
  <2>1. /\ TaskWaits(x) = (IF x.st = "run" THEN all \ UnitsOf(x.outs) ELSE {}) \cup Unkept(x.outs)
        /\ TaskWaits(t) = (IF t.st = "run" THEN all \ UnitsOf(t.outs) ELSE {}) \cup Unkept(t.outs)
    BY <1>1, <1>4, OwnWaits
  <2>2. /\ x.st = "run" /\ UnitsOf(x.outs) \subseteq UnitsOf(t.outs)
        /\ Unkept(t.outs) \subseteq Unkept(x.outs) \cup (all \ UnitsOf(x.outs))
    OBVIOUS
  <2> HIDE DEF all, x
  <2> QED
    BY <2>1, <2>2
<1>6. \A v, q : Says(v, q)' => Says(v, q)
  BY <1>3
<1>7. \A j \in DOMAIN tasks' : tasks'[j].st # "run" => tasks'[j].owed = 0
  <2>1. \A j \in DOMAIN tasks : tasks[j].st # "run" => tasks[j].owed = 0
    BY DEF RecordInv, CleanRun
  <2> QED
    BY <1>3, <2>1
<1>8. Quiet /\ (Steady' => Steady /\ ~torn' /\ Readable(lines'))
  BY <1>2, <1>3 DEF Quiet, RecordInv, CleanRun, Readable
<1> QED
  BY <1>1, <1>2, <1>3, <1>5, <1>6, <1>7, <1>8, QuietRun

LEMMA NextBatchKept ==
  ASSUME NEW x, NEW q, NEW outs
  PROVE  /\ NextBatch(x, q, outs).outs = outs
         /\ NextBatch(x, q, outs).st \in {"run", "ok"}
         /\ NextBatch(x, q, outs).owed = 0
  BY DEF NextBatch

\* A batch that is split, or whose one method stays unresolved.
LEMMA BatchFailsRecord ==
  ASSUME StageInv, WorkInv, WorkInv', RecordInv, NEW i \in DOMAIN tasks, BatchFails(i)
  PROVE  RecordInv'
<1> DEFINE x == tasks[i]
           batch == x.queue[1]
           half == Len(batch) \div 2
           no == FALSE
           yes == TRUE
           o == [unit |-> batch[1], retry |-> yes, persisted |-> no]
<1>0. no \in BOOLEAN /\ ~no /\ yes \in BOOLEAN
  OBVIOUS
<1>1. /\ RunTyped /\ TaskOK(x) /\ x.st = "run" /\ x.owed = 0 /\ x.outs \in Seq(Out)
      /\ Owns(x, batches[i]) /\ UNCHANGED jvars
  BY TaskParts DEF StageInv, WorkInv, BatchWork, Afterwards, BatchFails, Working, TaskOK
<1>2. ASSUME NEW q, TaskStep(i, NextBatch(x, q, x.outs))
      PROVE  RecordInv'
  <2> DEFINE t == NextBatch(x, q, x.outs)
  <2>1. t.outs = x.outs /\ t.st \in {"run", "ok"} /\ t.owed = 0 /\ TaskStep(i, t)
    BY <1>2, NextBatchKept
  <2> HIDE DEF t
  <2> QED
    BY <1>1, <2>1, GoOnRecord
<1>3. CASE x.done = 0 /\ TaskStep(i, NextBatch(x, Tail(x.queue), Append(x.outs, o)))
  <2> DEFINE outs == Append(x.outs, o)
             rest == Tail(x.queue)
             t == NextBatch(x, rest, outs)
  <2>1. TaskStep(i, t) /\ t.outs = outs /\ t.st \in {"run", "ok"} /\ t.owed = 0
    <3>1. TaskStep(i, t)
      BY <1>3
    <3> HIDE DEF outs, rest
    <3>2. t.outs = outs /\ t.st \in {"run", "ok"} /\ t.owed = 0
      BY NextBatchKept
    <3> HIDE DEF t
    <3> QED
      BY <3>1, <3>2
  <2>2. x.queue[1][x.done + 1] \in Units /\ x.queue[1][x.done + 1] \notin UnitsOf(x.outs)
        /\ x.queue[1][x.done + 1] \in LeftIn(x.queue, x.done)
    BY <1>1, TaskParts, NextInLine
  <2>3. batch[1] \in Units /\ batch[1] \notin UnitsOf(x.outs) /\ batch[1] \in UnitsOf(batches[i])
    <3>1. x.done + 1 = 1
      BY <1>3
    <3>2. LeftIn(x.queue, x.done) \subseteq UnitsOf(batches[i])
      BY <1>1 DEF Owns, Shares
    <3> QED
      BY <2>2, <3>1, <3>2
  <2> HIDE DEF batch, no, yes
  <2>4. o \in Out /\ o.unit = batch[1] /\ ~o.persisted
    BY <1>0, <2>3 DEF Out
  <2> DEFINE y == x.outs
             new == o
  <2>5. y \in Seq(Out) /\ new \in Out
    BY <1>1, <2>4
  <2>6. outs = Append(y, new)
    OBVIOUS
  <2> HIDE DEF y, new
  <2>7. /\ Unkept(Append(y, new)) = Unkept(y) \cup (IF new.persisted THEN {} ELSE {new.unit})
        /\ \A v, q : Kept(Append(y, new), v, q) <=>
             Kept(y, v, q) \/ (new.persisted /\ new.unit = v /\ new.retry = q)
        /\ UnitsOf(Append(y, new)) = UnitsOf(y) \cup {new.unit}
    BY <2>5, OutAdded, AppendedOut
  <2> HIDE DEF outs, o, t, x
  <2>8. /\ UnitsOf(y) \subseteq UnitsOf(outs)
        /\ Unkept(outs) \subseteq Unkept(y) \cup {batch[1]}
        /\ \A v, q : Kept(outs, v, q) => Kept(y, v, q)
    BY <2>4, <2>6, <2>7 DEF new
  <2>9. /\ UnitsOf(x.outs) \subseteq UnitsOf(t.outs)
        /\ Unkept(t.outs) \subseteq Unkept(x.outs) \cup (UnitsOf(batches[i]) \ UnitsOf(x.outs))
        /\ \A v, q : Kept(t.outs, v, q) => Kept(x.outs, v, q)
    BY <2>1, <2>3, <2>8 DEF y
  <2> QED
    BY <1>1, <2>1, <2>9, GoOnRecord DEF x
<1>4. CASE TaskStep(i, [x EXCEPT !.st = "err"])
  BY <1>1, <1>4, FailRecord
<1> QED
  BY <1>2, <1>3, <1>4 DEF BatchFails

\* A task that is spawned waits for what its batch waited for.
LEMMA SpawnRecord ==
  ASSUME StageInv, WorkInv, WorkInv', RecordInv, NEW i \in pending, StartTask(i)
  PROVE  RecordInv'
<1> DEFINE batch == batches[i]
           new == NewTask(batch)
<1>1. /\ pending' = pending \ {i} /\ tasks' = Spawn(i) /\ proc = "running"
      /\ UNCHANGED <<lines, torn, store, proc, scan, outcomes, batches, joined, joinedOuts,
                     firstError>>
  BY DEF StartTask, AtLoop, jvars
<1>2. /\ RunTyped /\ FileTyped /\ i \in DOMAIN batches /\ BatchPlaces
      /\ i \notin DOMAIN tasks
  BY <1>1 DEF StageInv, JInv, RunTyped, BatchesTyped, WorkInv, BatchWork, Afterwards, BatchPlaces
<1>3. new.outs = << >> /\ new.st = "run"
  <2> DEFINE q == <<[k \in DOMAIN batch |-> batch[k].unit]>>
  <2>1. new = [queue |-> q, done |-> 0, calls |-> 0, owed |-> 0, outs |-> << >>, st |-> "run"]
    BY DEF NewTask
  <2> HIDE DEF q, new
  <2> QED
    BY <2>1
<1>4. DOMAIN tasks' = DOMAIN tasks \cup {i} /\ tasks'[i] = new
      /\ \A j \in DOMAIN tasks : tasks'[j] = tasks[j]
  <2> HIDE DEF new
  <2>1. tasks' = [j \in DOMAIN tasks \cup {i} |-> IF j = i THEN new ELSE tasks[j]]
    BY <1>1 DEF Spawn, new
  <2> QED
    BY <1>2, <2>1
<1>5. Owns(new, batch)
  <2>1. Owns(tasks'[i], batches'[i])
    BY <1>1, <1>4 DEF WorkInv, BatchWork, Afterwards
  <2> QED
    BY <1>1, <1>4, <2>1
<1>6. Unkept(<< >>) = {} /\ \A v, q : ~Kept(<< >>, v, q)
  BY DEF Unkept, Kept
<1>7. TaskWaits(new) \subseteq UnitsOf(batch)
  <2> HIDE DEF new, batch
  <2>1. TaskWaits(new) = (IF new.st = "run" THEN UnitsOf(batch) \ UnitsOf(new.outs) ELSE {})
                           \cup Unkept(new.outs)
    BY <1>5, OwnWaits
  <2> QED
    BY <1>3, <1>6, <2>1
<1> HIDE DEF new
<1>8. \A j \in DOMAIN batches : WaitsIn(j)' \subseteq WaitsIn(j)
  <2>1. WaitsIn(i) = UnitsOf(batch) /\ WaitsIn(i)' = TaskWaits(new)
    BY <1>1, <1>4 DEF WaitsIn
  <2>2. \A j \in DOMAIN batches : j # i => WaitsIn(j)' = WaitsIn(j)
    BY <1>1, <1>4 DEF WaitsIn
  <2> QED
    BY <1>7, <2>1, <2>2
<1>9. \A v, q : Says(v, q)' => Says(v, q)
  BY <1>1, <1>3, <1>4, <1>6 DEF Says
<1>10. Quiet /\ (Steady' => Steady)
  BY <1>1, <1>3, <1>4 DEF Quiet, Steady
<1>11. Steady' => Steady /\ ~torn' /\ Readable(lines')
  BY <1>1, <1>10 DEF RecordInv, CleanRun, Readable
<1>12. \A j \in DOMAIN tasks' : tasks'[j].st # "run" => tasks'[j].owed = 0
  BY <1>3, <1>4 DEF RecordInv, CleanRun
<1>13. store' # None => store # None /\ store'.scan = store.scan /\ store'.stage = store.stage
  BY <1>1
<1> QED
  BY <1>1, <1>2, <1>8, <1>9, <1>10, <1>11, <1>12, <1>13, QuietRun

\* A batch that is joined still has outcomes to persist; one that failed has
\* nothing more to record.
LEMMA LeaveRecord ==
  ASSUME StageInv, WorkInv, RecordInv, NEW i \in DOMAIN tasks,
         JoinOk(i) \/ JoinErr(i) \/ JoinPanic(i) \/ Drain(i)
  PROVE  RecordInv'
<1>1. /\ tasks' = [j \in DOMAIN tasks \ {i} |-> tasks[j]]
      /\ UNCHANGED <<lines, torn, store, proc, scan, outcomes, batches, pending>>
      /\ \/ /\ joined = 0 /\ joined' = i /\ joinedOuts' = tasks[i].outs /\ tasks[i].st = "ok"
            /\ firstError' = firstError
         \/ UNCHANGED <<joined, joinedOuts>> /\ (firstError' = TRUE \/ proc = "aborting")
  BY DEF JoinOk, JoinErr, JoinPanic, Drain, Joining, AtLoop, jvars
<1>2. /\ RunTyped /\ FileTyped /\ i \in DOMAIN batches /\ BatchPlaces
      /\ proc \in {"running", "aborting"} /\ i \notin pending /\ i # joined
      /\ 0 \notin DOMAIN batches
  <2>1. /\ RunTyped /\ FileTyped /\ i \in DOMAIN batches /\ BatchPlaces
        /\ proc \in {"running", "aborting"} /\ i \notin pending /\ i # joined
    BY TaskParts DEF StageInv, JInv, WorkInv, BatchWork, Afterwards, BatchPlaces
  <2>2. batches \in Seq(Seq(Jobs))
    BY <2>1 DEF RunTyped, BatchesTyped, Filled
  <2> QED
    BY <2>1, <2>2
<1>3. DOMAIN tasks' = DOMAIN tasks \ {i} /\ \A j \in DOMAIN tasks' : tasks'[j] = tasks[j]
  BY <1>1
<1>4. \A j \in DOMAIN batches : WaitsIn(j)' \subseteq WaitsIn(j)
  <2>1. WaitsIn(i) = TaskWaits(tasks[i])
    BY <1>2 DEF WaitsIn
  <2>2. WaitsIn(i)' = IF joined' = i THEN Unkept(joinedOuts') ELSE {}
    BY <1>1, <1>2, <1>3 DEF WaitsIn
  <2>3. WaitsIn(i)' \subseteq WaitsIn(i)
    BY <1>1, <1>2, <2>1, <2>2 DEF TaskWaits
  <2>4. \A j \in DOMAIN batches : j # i => WaitsIn(j)' \subseteq WaitsIn(j)
    BY <1>1, <1>2, <1>3 DEF WaitsIn
  <2> QED
    BY <2>3, <2>4
<1>5. \A v, q : Says(v, q)' => Says(v, q)
  BY <1>1, <1>3 DEF Says
<1>6. Quiet /\ (Steady' => Steady)
  BY <1>1, <1>2, <1>3 DEF Quiet, Steady
<1>7. Steady' => Steady /\ ~torn' /\ Readable(lines')
  BY <1>1, <1>6 DEF RecordInv, CleanRun, Readable
<1>8. \A j \in DOMAIN tasks' : tasks'[j].st # "run" => tasks'[j].owed = 0
  BY <1>3 DEF RecordInv, CleanRun
<1>9. store' # None => store # None /\ store'.scan = store.scan /\ store'.stage = store.stage
  BY <1>1
<1> QED
  BY <1>1, <1>2, <1>4, <1>5, <1>6, <1>7, <1>8, <1>9, QuietRun

\* The run returns.
LEMMA FinishRecord ==
  ASSUME StageInv, RecordInv, Finish
  PROVE  RecordInv'
<1>1. /\ UNCHANGED <<lines, torn, scan, outcomes, tasks, joined, joinedOuts, firstError>>
      /\ store' = None /\ proc \in {"running", "aborting"} /\ DOMAIN tasks = {}
      /\ proc' = "failed" \/ (proc = "running" /\ ~firstError /\ proc' \in {"paused", "done"})
  BY DEF Finish, Close, runVars, AtLoop
<1>2. FileTyped /\ MethodOnly /\ Truth /\ NeverReviewedTwice
  BY DEF StageInv, JInv, RecordInv, OwnEntries
<1>3. Quiet /\ (Steady' => Steady)
  BY <1>1 DEF Quiet, Steady
<1>4. \A v, q : Says(v, q)' => Says(v, q)
  BY <1>1 DEF Says
<1>5. Truth'
  BY <1>1, <1>2, <1>3, <1>4, QuietTells
<1>6. MethodOnly' /\ NeverReviewedTwice'
  BY <1>2, <1>3, QuietFile DEF FileTyped, FileLine
<1>7. OwnEntries' /\ CleanRun' /\ LookUp' /\ Unsettled'
  BY <1>1, <1>3, <1>6 DEF RecordInv, OwnEntries, CleanRun, LookUp, Unsettled, Readable
<1> QED
  BY <1>5, <1>6, <1>7 DEF RecordInv

LEMMA SameRecord ==
  ASSUME RecordInv, UNCHANGED svars
  PROVE  RecordInv'
<1>1. /\ UNCHANGED <<lines, torn, store, proc, scan, copying, fresh, outcomes, batches, pending,
                     tasks, joined, joinedOuts, firstError>>
  BY DEF svars, jvars, runVars
<1>2. Steady' = Steady /\ \A u, r : Says(u, r)' = Says(u, r) /\ Status(scan, u)' = Status(scan, u)
  BY <1>1 DEF Steady, Says, Status, LinesOf
<1>3. (\A s, u : NoFinal(s, u)' = NoFinal(s, u)) /\ \A i : WaitsIn(i)' = WaitsIn(i)
  BY <1>1 DEF NoFinal, WaitsIn
<1>4. NeverReviewedTwice'
  BY <1>1 DEF RecordInv, NeverReviewedTwice, LinesOf
<1>5. OwnEntries' /\ CleanRun' /\ LookUp'
  BY <1>1, <1>2 DEF RecordInv, OwnEntries, CleanRun, LookUp, MethodOnly, Readable
<1>6. \A u : NoFinal(scan, u)' = NoFinal(scan, u)
  BY <1>1 DEF NoFinal
<1>7. Unsettled' /\ Truth'
  BY <1>1, <1>2, <1>3, <1>6 DEF RecordInv, Unsettled, Truth
<1> QED
  BY <1>4, <1>5, <1>7 DEF RecordInv

\* The outcome that on_completed appends next.
LEMMA NextToPersist ==
  ASSUME RunTyped, WorkInv, proc = "running", joined # 0, Unpersisted # {}, NEW k, k = Min(Unpersisted)
  PROVE  /\ k \in DOMAIN joinedOuts /\ joinedOuts[k] \in Out /\ ~joinedOuts[k].persisted
         /\ joined \in DOMAIN batches /\ joined \notin pending /\ joined \notin DOMAIN tasks
         /\ WaitsIn(joined) = Unkept(joinedOuts) /\ joinedOuts[k].unit \in Unkept(joinedOuts)
         /\ Distinct(joinedOuts) /\ joinedOuts \in Seq(Out)
<1>1. /\ joined \in DOMAIN batches /\ joined \notin pending /\ joined \notin DOMAIN tasks
      /\ Distinct(joinedOuts) /\ joinedOuts \in Seq(Out)
  BY DEF RunTyped, JoinedTyped, WorkInv, BatchWork, Afterwards, BatchPlaces
<1>2. WaitsIn(joined) = Unkept(joinedOuts)
  BY <1>1 DEF WaitsIn
<1>3. k \in DOMAIN joinedOuts /\ joinedOuts[k] \in Out
  BY NextUnpersisted
<1>4. k \in Unpersisted
  <2>1. Unpersisted \subseteq Nat
    BY <1>1 DEF Unpersisted
  <2> QED
    BY <2>1, ChunkFold!LeastNumber DEF Min
<1>5. ~joinedOuts[k].persisted /\ joinedOuts[k].unit \in Unkept(joinedOuts)
  BY <1>3, <1>4 DEF Unpersisted, Unkept
<1> QED
  BY <1>1, <1>2, <1>3, <1>5

\* An outcome that is persisted is no longer waited for.
LEMMA OutPersisted ==
  ASSUME NEW outs, Distinct(outs), NEW k \in DOMAIN outs, NEW new,
         new.persisted, new.unit = outs[k].unit, new.retry = outs[k].retry
  PROVE  /\ Unkept([outs EXCEPT ![k] = new]) \subseteq Unkept(outs) \ {outs[k].unit}
         /\ \A v, q : Kept([outs EXCEPT ![k] = new], v, q) =>
              Kept(outs, v, q) \/ (v = outs[k].unit /\ q = outs[k].retry)
<1> DEFINE all == [outs EXCEPT ![k] = new]
<1>1. DOMAIN all = DOMAIN outs /\ all[k] = new /\ \A j \in DOMAIN outs : j # k => all[j] = outs[j]
  OBVIOUS
<1> HIDE DEF all
<1>2. Unkept(all) \subseteq Unkept(outs) \ {outs[k].unit}
  BY <1>1 DEF Unkept, Distinct
<1>3. \A v, q : Kept(all, v, q) =>
        Kept(outs, v, q) \/ (v = outs[k].unit /\ q = outs[k].retry)
  BY <1>1 DEF Kept
<1> QED
  BY <1>2, <1>3 DEF all

LEMMA PersistRecord ==
  ASSUME StageInv, WorkInv, RecordInv, PersistOutcome \/ PersistFails
  PROVE  RecordInv'
<1> DEFINE k == Min(Unpersisted)
           out == joinedOuts[k]
           u == out.unit
           r == out.retry
<1>1. /\ proc = "running" /\ joined # 0 /\ Unpersisted # {}
      /\ UNCHANGED <<scan, outcomes, batches, pending, tasks, firstError>>
  BY DEF PersistOutcome, PersistFails
<1>2. /\ RunTyped /\ FileTyped /\ StoreTyped /\ OwnEntries /\ store # None
  BY <1>1 DEF StageInv, JInv, RecordInv, RunTyped, ProcTyped, Ended
<1>3. /\ k \in DOMAIN joinedOuts /\ out \in Out
      /\ joined \in DOMAIN batches /\ joined \notin pending /\ joined \notin DOMAIN tasks
      /\ WaitsIn(joined) = Unkept(joinedOuts) /\ u \in Unkept(joinedOuts)
      /\ Distinct(joinedOuts)
  BY <1>1, <1>2, NextToPersist
<1>4. u \in Units /\ r \in BOOLEAN
  BY <1>3 DEF Out
<1>8. PICK b \in DOMAIN batches : b = joined
  BY <1>3
<1>9. /\ b \notin pending /\ b \notin DOMAIN tasks
      /\ WaitsIn(b) = Unkept(joinedOuts) /\ u \in WaitsIn(b)
  BY <1>3, <1>8
<1>5. \A j \in DOMAIN tasks' : tasks'[j].st # "run" => tasks'[j].owed = 0
  BY <1>1 DEF RecordInv, CleanRun
<1>6. CASE PersistOutcome
  <2> DEFINE yes == TRUE
             new == [out EXCEPT !.persisted = yes]
             all == [joinedOuts EXCEPT ![k] = new]
  <2>0. yes \in BOOLEAN /\ yes
    OBVIOUS
  <2>1. Record(u, 0, r) /\ joinedOuts' = all /\ UNCHANGED <<proc, joined>>
    BY <1>6 DEF PersistOutcome
  <2> HIDE DEF yes
  <2>2. new.persisted /\ new.unit = u /\ new.retry = r
    BY <1>3, <2>0 DEF Out
  <2> HIDE DEF k, new
  <2>3. /\ Unkept(all) \subseteq Unkept(joinedOuts) \ {u}
        /\ \A v, q : Kept(all, v, q) => Kept(joinedOuts, v, q) \/ (v = u /\ q = r)
    BY <1>3, <2>2, OutPersisted
  <2> HIDE DEF all, u, r, out
  <2>4. WaitsIn(b)' = Unkept(all)
    BY <1>1, <1>8, <1>9, <2>1 DEF WaitsIn
  <2>5. \A j \in DOMAIN batches : WaitsIn(j)' \subseteq WaitsIn(j)
    <3>1. \A j \in DOMAIN batches : j # b => WaitsIn(j)' = WaitsIn(j)
      BY <1>1, <1>8, <2>1 DEF WaitsIn
    <3>2. WaitsIn(b)' \subseteq WaitsIn(b)
      BY <1>9, <2>3, <2>4
    <3> QED
      BY <3>1, <3>2
  <2>6. \A v, q : Says(v, q)' => Says(v, q) \/ (v = u /\ q = r)
    BY <1>1, <2>1, <2>3 DEF Says
  <2>7. store'.scan = store.scan /\ store'.stage = store.stage
    BY <1>2, <2>1, StoreStays
  <2>8. Steady' => Steady
    BY <1>1, <2>1 DEF Steady
  <2>9. CASE ~torn
    <3>1. Reviewed(u, r) /\ torn' = FALSE /\ (Readable(lines) => Readable(lines'))
      BY <1>2, <1>4, <2>1, <2>9, ReviewRecorded
    <3>2. Steady' => Steady /\ ~torn' /\ Readable(lines')
      BY <2>8, <3>1 DEF RecordInv, CleanRun
    <3>3. u \in WaitsIn(b) /\ u \notin WaitsIn(b)'
      BY <1>9, <2>3, <2>4
    <3> QED
      BY <1>1, <1>2, <1>4, <1>5, <2>1, <2>5, <2>6, <2>7, <3>1, <3>2, <3>3, ReviewRun
  <2>10. CASE torn
    <3>1. ~Steady /\ ~Steady'
      BY <2>8, <2>10 DEF RecordInv, CleanRun
    <3>2. Quiet
      <4>1. lines' = Append(lines, Garbled) /\ Garbled \in FileLine /\ Garbled.kind # "unit"
        BY <2>1, <2>10 DEF Record, AppendEntry, Written, FileLine, Garbled
      <4> QED
        BY <4>1 DEF Quiet
    <3> QED
      BY <1>1, <1>2, <1>5, <2>1, <2>5, <2>7, <3>1, <3>2, QuietRun
  <2> QED
    BY <2>9, <2>10
<1>7. CASE PersistFails
  <2>1. /\ RecordFails(Entry("unit", u, 0, r)) /\ proc' = "aborting" /\ joined' = 0
        /\ joinedOuts' = << >>
    BY <1>7 DEF PersistFails
  <2> HIDE DEF k, out, u, r
  <2>2. ~Steady'
    BY <2>1 DEF Steady
  <2>3. Unkept(<< >>) = {}
    BY DEF Unkept
  <2>4. WaitsIn(b)' = {}
    BY <1>1, <1>9, <2>1, <2>3 DEF WaitsIn
  <2>5. \A j \in DOMAIN batches : WaitsIn(j)' \subseteq WaitsIn(j)
    BY <1>1, <1>8, <2>1, <2>3, <2>4 DEF WaitsIn
  <2>6. \A v, q : Says(v, q)' => Says(v, q)
    BY <1>1, <2>1 DEF Says
  <2>7. store'.scan = store.scan /\ store'.stage = store.stage
    BY <2>1 DEF RecordFails
  <2>8. Quiet \/ Reviewed(u, r)
    <3>1. AppendFails(Entry("unit", u, 0, r))
      BY <2>1 DEF RecordFails
    <3> QED
      BY <1>2, <1>4, <3>1, ReviewAppend
  <2>9. CASE Quiet
    BY <1>1, <1>2, <1>5, <2>1, <2>2, <2>5, <2>6, <2>7, <2>9, QuietRun
  <2>10. CASE Reviewed(u, r)
    BY <1>1, <1>2, <1>4, <1>5, <1>9, <2>1, <2>2, <2>4, <2>5, <2>6, <2>7, <2>10, ReviewRun
  <2> QED
    BY <2>8, <2>9, <2>10
<1> QED
  BY <1>6, <1>7

\* A completed batch is reported as it was persisted.
LEMMA PushRecord ==
  ASSUME StageInv, WorkInv, RecordInv, PushCompleted
  PROVE  RecordInv'
<1> DEFINE card(v) == Cardinality({j \in DOMAIN joinedOuts : joinedOuts[j].unit = v})
           said(v) == [k \in 1..card(v) |-> \E j \in DOMAIN joinedOuts :
                                              joinedOuts[j].unit = v /\ joinedOuts[j].retry]
<1>1. /\ UNCHANGED <<lines, torn, store, proc, scan, batches, pending, tasks, firstError>>
      /\ proc = "running" /\ joined # 0 /\ joined' = 0 /\ joinedOuts' = << >> /\ Unpersisted = {}
      /\ outcomes' = [v \in Units |-> outcomes[v] \o said(v)]
  BY DEF PushCompleted, jvars
<1>2. /\ RunTyped /\ FileTyped /\ Distinct(joinedOuts) /\ outcomes \in [Units -> Seq(BOOLEAN)]
      /\ joinedOuts \in Seq(Out)
  BY <1>1 DEF StageInv, JInv, WorkInv, BatchWork, Afterwards, RunTyped, JoinedTyped
<1>3. \A v : card(v) = IF v \in UnitsOf(joinedOuts) THEN 1 ELSE 0
  BY <1>2, OutcomesOf
<1> HIDE DEF card
<1>4. ASSUME NEW v \in Units, NEW q \in BOOLEAN, Says(v, q)'
      PROVE  Says(v, q)
  <2> DEFINE a == outcomes[v]
             b == said(v)
  <2>1. a \in Seq(BOOLEAN) /\ outcomes'[v] = a \o b
    BY <1>1, <1>2
  <2>2. b \in Seq(BOOLEAN) /\ Len(b) = card(v)
    <3>1. card(v) \in Nat
      BY <1>3
    <3>2. DOMAIN b = 1..card(v) /\ b = [k \in 1..card(v) |-> b[k]]
          /\ \A k \in 1..card(v) : b[k] \in BOOLEAN
      OBVIOUS
    <3> HIDE DEF b
    <3> QED
      BY <3>1, <3>2
  <2>3. CASE \E i \in DOMAIN tasks : Kept(tasks[i].outs, v, q)
    BY <2>3 DEF Says
  <2>4. CASE a \o b # << >> /\ (a \o b)[1] = q
    <3>1. CASE a # << >>
      <4> HIDE DEF a, b
      <4>1. Len(a) \in Nat /\ Len(a) > 0
        BY <2>1, <3>1, EmptySeq
      <4>2. (a \o b)[1] = a[1]
        BY <2>1, <2>2, <4>1, ConcatProperties
      <4> QED
        BY <2>4, <3>1, <4>2 DEF Says, a
    <3>2. CASE a = << >>
      <4>1. a \o b = b
        <5> HIDE DEF a, b
        <5> QED
          BY <2>2, <3>2
      <4>2. v \in UnitsOf(joinedOuts)
        <5> HIDE DEF a, b
        <5>1. Len(b) # 0
          BY <2>2, <2>4, <4>1
        <5> QED
          BY <1>3, <2>2, <5>1
      <4>3. b[1] = \E j \in DOMAIN joinedOuts : joinedOuts[j].unit = v /\ joinedOuts[j].retry
        <5>1. 1 \in 1..card(v)
          BY <1>3, <4>2
        <5> QED
          BY <5>1
      <4>4. PICK j \in DOMAIN joinedOuts : joinedOuts[j].unit = v
        BY <4>2 DEF UnitsOf
      <4>5. joinedOuts[j].retry \in BOOLEAN /\ joinedOuts[j].persisted
        <5>1. joinedOuts[j] \in Out
          BY <1>2, <4>4
        <5>2. j \notin Unpersisted
          BY <1>1
        <5>3. joinedOuts[j].persisted
          BY <4>4, <5>2 DEF Unpersisted
        <5>4. joinedOuts[j].retry \in BOOLEAN
          BY <5>1 DEF Out
        <5> QED
          BY <5>3, <5>4
      <4>6. b[1] <=> joinedOuts[j].retry
        <5>1. \A l \in DOMAIN joinedOuts : joinedOuts[l].unit = v => l = j
          BY <1>2, <4>4 DEF Distinct
        <5> HIDE DEF b
        <5> QED
          BY <4>3, <4>4, <5>1
      <4>7. b[1] = q
        BY <2>4, <4>1
      <4>8. joinedOuts[j].retry = q
        <5> DEFINE p == joinedOuts[j].retry
        <5>1. p \in BOOLEAN /\ (q <=> p)
          BY <4>5, <4>6, <4>7
        <5> HIDE DEF p
        <5> QED
          BY <5>1 DEF p
      <4> QED
        BY <1>1, <4>4, <4>5, <4>8 DEF Says, Kept
    <3> QED
      BY <3>1, <3>2
  <2> HIDE DEF a, b
  <2> QED
    BY <1>1, <1>4, <2>1, <2>3, <2>4 DEF Says
<1>5. \A j \in DOMAIN batches : WaitsIn(j)' \subseteq WaitsIn(j)
  <2>1. Unkept(<< >>) = {}
    BY DEF Unkept
  <2> QED
    BY <1>1, <2>1 DEF WaitsIn
<1>6. Quiet /\ (Steady' => Steady /\ ~torn' /\ Readable(lines'))
  BY <1>1 DEF Quiet, Steady, RecordInv, CleanRun, Readable
<1>7. \A j \in DOMAIN tasks' : tasks'[j].st # "run" => tasks'[j].owed = 0
  BY <1>1 DEF RecordInv, CleanRun
<1>8. store' # None => store # None /\ store'.scan = store.scan /\ store'.stage = store.stage
  BY <1>1
<1> HIDE DEF said
<1> QED
  BY <1>1, <1>2, <1>4, <1>5, <1>6, <1>7, <1>8, QuietRun

LEMMA NextRecord == StageInv /\ WorkInv /\ RecordInv /\ [SNext]_svars => RecordInv'
<1> SUFFICES ASSUME StageInv, WorkInv, RecordInv, [SNext]_svars
             PROVE  RecordInv'
  OBVIOUS
<1>0. WorkInv'
  BY NextWork
<1>1. ASSUME NEW s \in Scans, NEW limit \in Limits, StartScan(s, limit)
      PROVE  RecordInv'
  BY <1>1, StartRecord
<1>2. ASSUME NEW s \in Scans, StartScanFails(s)
      PROVE  RecordInv'
  BY <1>2, StartFailsRecord
<1>3. CASE Group
  BY <1>3, GroupRecord
<1>4. CASE Die
  BY <1>4, DieRecord
<1>5. CASE RunStep
  <2>1. CASE ReuseOwn
    BY <2>1, ReuseOwnRecord
  <2>2. CASE ReuseAcross
    BY <2>2, ReuseAcrossRecord
  <2>3. CASE CopyAcross
    BY <2>3, CopyAcrossRecord
  <2>4. CASE NeedsReview
    BY <2>4, NeedsReviewRecord
  <2>5. CASE ReuseFails
    BY <2>5, ReuseFailsRecord
  <2>6. CASE Reject
    BY <2>6, RejectRecord
  <2>7. ASSUME NEW i \in DOMAIN tasks, (\E c \in Costs : ModelCall(i, c)) \/ Charge(i)
        PROVE  RecordInv'
    BY <2>7, CallRecord
  <2>8. ASSUME NEW i \in DOMAIN tasks,
               CallbackFails(i) \/ \E st \in {"err", "panic"} : TaskFails(i, st)
        PROVE  RecordInv'
    <3>1. PICK st \in {"err", "panic"} : TaskStep(i, [tasks[i] EXCEPT !.st = st])
      BY <2>8 DEF CallbackFails, TaskFails
    <3>2. /\ tasks[i].st = "run" /\ tasks[i].owed = 0
          /\ \/ UNCHANGED jvars
             \/ \E c \in Costs : RecordFails(Entry("usage", None, c, FALSE))
             \/ \E r \in BOOLEAN :
                  RecordFails(Entry("unit", tasks[i].queue[1][tasks[i].done + 1], 0, r))
      BY <2>8 DEF CallbackFails, TaskFails, Working
    <3> QED
      BY <3>1, <3>2, FailRecord
  <2>9. ASSUME NEW i \in DOMAIN tasks, NEW r \in BOOLEAN, ItemComplete(i, r)
        PROVE  RecordInv'
    BY <1>0, <2>9, ItemRecord
  <2>10. ASSUME NEW i \in DOMAIN tasks, BatchFails(i)
         PROVE  RecordInv'
    BY <1>0, <2>10, BatchFailsRecord
  <2>11. ASSUME NEW i \in DOMAIN tasks, JoinOk(i) \/ JoinErr(i) \/ JoinPanic(i) \/ Drain(i)
         PROVE  RecordInv'
    BY <2>11, LeaveRecord
  <2>12. ASSUME NEW i \in pending, StartTask(i)
         PROVE  RecordInv'
    BY <1>0, <2>12, SpawnRecord
  <2>13. CASE PersistOutcome \/ PersistFails
    BY <2>13, PersistRecord
  <2>14. CASE PushCompleted
    BY <2>14, PushRecord
  <2>15. CASE Finish
    BY <2>15, FinishRecord
  <2> QED
    BY <1>5, <2>1, <2>2, <2>3, <2>4, <2>5, <2>6, <2>7, <2>8, <2>9, <2>10, <2>11, <2>12, <2>13,
       <2>14, <2>15 DEF RunStep
<1>6. CASE UNCHANGED svars
  BY <1>6, SameRecord
<1> QED
  BY <1>1, <1>2, <1>3, <1>4, <1>5, <1>6 DEF SNext

(***************************************************************************)
(* As long as nothing has failed, what a run holds for reviewed is what    *)
(* the journal says of it, and what it has yet to record has no final      *)
(* review in the context of its scan.                                      *)
(***************************************************************************)
THEOREM StageRecord == SSpec => []RecordInv
  BY StageInvariant, StageWork, InitRecord, NextRecord, PTL DEF SSpec

(***************************************************************************)
(* Whatever the interleaving of tasks and however runs of different scans  *)
(* end, die and follow one another, a method that has a final review in a  *)
(* review context is never reviewed again in it, only copied.              *)
(***************************************************************************)
THEOREM StageReviewsOnce == SSpec => []NeverReviewedTwice
<1>1. RecordInv => NeverReviewedTwice
  BY DEF RecordInv
<1> QED
  BY <1>1, StageRecord, PTL

-----------------------------------------------------------------------------
(* The stage implements ReviewLedger.                                      *)

\* A review that is final in the scan already, or new to the whole context.
Settles ==
  \E u \in Units, r \in BOOLEAN : Reviewed(u, r) /\ (~r \/ NoFinal(scan, u))

LEMMA SideWrite ==
  ASSUME StoreTyped, OwnEntries, store # None, NEW k \in {"reuse", "usage"},
         NEW u \in Units \cup {None}, NEW c \in Nat,
         AppendEntry(Entry(k, u, c, FALSE)) \/ AppendFails(Entry(k, u, c, FALSE))
  PROVE  Quiet
<1> DEFINE no == FALSE
           e == Entry(k, u, c, no)
<1>1. no \in BOOLEAN /\ k \in {"unit", "reuse", "usage"} /\ e = Entry(k, u, c, no)
  OBVIOUS
<1>2. AppendEntry(e) \/ AppendFails(e)
  OBVIOUS
<1> HIDE DEF e, no
<1>3. e \in JournalEntry /\ e.kind = k
  BY <1>1, EntryParts
<1> QED
  BY <1>2, <1>3, QuietAppend

\* What a step of the look-up writes.
LEMMA LookUpWrites ==
  ASSUME StageInv, RecordInv, ReuseAcross \/ CopyAcross \/ ReuseFails
  PROVE  Quiet \/ Settles
<1> DEFINE no == FALSE
<1>0. no \in BOOLEAN /\ ~no
  OBVIOUS
<1>1. /\ proc = "reuse"
      /\ \/ todo # << >> /\ AppendEntry(Entry("reuse", NextUnit, 0, FALSE))
         \/ copying # None /\ AppendEntry(Entry("unit", copying, 0, no))
         \/ copying # None /\ AppendFails(Entry("unit", copying, 0, no))
         \/ todo # << >> /\ AppendFails(Entry("reuse", NextUnit, 0, FALSE))
  BY DEF ReuseAcross, CopyAcross, ReuseFails, RecordCrossScanReuse, Record
<1> HIDE DEF no
<1>2. StoreTyped /\ store # None /\ OwnEntries
  BY <1>1, InLookUp DEF RecordInv
<1>3. CASE /\ todo # << >>
           /\ \/ AppendEntry(Entry("reuse", NextUnit, 0, FALSE))
              \/ AppendFails(Entry("reuse", NextUnit, 0, FALSE))
  <2> DEFINE u == NextUnit
  <2>1. u \in Units \cup {None} /\ 0 \in Nat /\ "reuse" \in {"reuse", "usage"}
    BY <1>1, <1>3, HeadOfQueue DEF NextUnit, StageInv, RunTyped, QueueTyped
  <2>2. AppendEntry(Entry("reuse", u, 0, FALSE)) \/ AppendFails(Entry("reuse", u, 0, FALSE))
    BY <1>3
  <2> HIDE DEF u
  <2> QED
    BY <1>2, <2>1, <2>2, SideWrite
<1>4. CASE /\ copying # None
           /\ \/ AppendEntry(Entry("unit", copying, 0, no))
              \/ AppendFails(Entry("unit", copying, 0, no))
  <2> DEFINE u == copying
  <2>1. u \in Units
    BY <1>1, <1>4 DEF StageInv, RunTyped, QueueTyped
  <2>2. AppendEntry(Entry("unit", u, 0, no)) \/ AppendFails(Entry("unit", u, 0, no))
    BY <1>4
  <2> HIDE DEF u
  <2>3. Quiet \/ Reviewed(u, no)
    BY <1>0, <1>2, <2>1, <2>2, ReviewAppend
  <2> QED
    BY <1>0, <2>1, <2>3 DEF Settles
<1> QED
  BY <1>1, <1>3, <1>4

\* What a task writes, and what on_completed does.
LEMMA TaskWrites ==
  ASSUME StageInv, WorkInv, RecordInv, NEW i \in DOMAIN tasks,
         \/ \E c \in Costs : ModelCall(i, c)
         \/ CallbackFails(i)
         \/ \E r \in BOOLEAN : ItemComplete(i, r)
  PROVE  Quiet \/ Settles
<1> DEFINE u == tasks[i].queue[1][tasks[i].done + 1]
           w == None
<1>1. /\ RunTyped /\ store # None /\ StoreTyped /\ proc \in {"running", "aborting"}
      /\ OwnEntries /\ u \in Units /\ i \in DOMAIN batches /\ tasks[i].st = "run"
      /\ w \in Units \cup {None}
  BY TaskParts DEF StageInv, JInv, RecordInv, ModelCall, CallbackFails, ItemComplete, Working
<1>2. u \in WaitsIn(i)
  BY <1>1, NextInLine
<1>3. NoFinal(scan, u)
  BY <1>1, <1>2, SMTT(30) DEF RecordInv, Unsettled
<1>4. \/ \E c \in Costs : \/ AppendEntry(Entry("usage", w, c, FALSE))
                          \/ AppendFails(Entry("usage", w, c, FALSE))
      \/ \E r \in BOOLEAN : \/ AppendEntry(Entry("unit", u, 0, r))
                            \/ AppendFails(Entry("unit", u, 0, r))
  BY DEF ModelCall, CallbackFails, ItemComplete, RecordUsage, RecordFails, Record
<1> HIDE DEF u, w
<1>5. ASSUME NEW c \in Costs, \/ AppendEntry(Entry("usage", w, c, FALSE))
                              \/ AppendFails(Entry("usage", w, c, FALSE))
      PROVE  Quiet
  <2>1. c \in Nat /\ "usage" \in {"reuse", "usage"}
    BY JournalAssumption
  <2> QED
    BY <1>1, <1>5, <2>1, SideWrite
<1>6. ASSUME NEW r \in BOOLEAN, \/ AppendEntry(Entry("unit", u, 0, r))
                                \/ AppendFails(Entry("unit", u, 0, r))
      PROVE  Quiet \/ Settles
  BY <1>1, <1>3, <1>6, ReviewAppend DEF Settles
<1> QED
  BY <1>4, <1>5, <1>6

LEMMA PersistWrites ==
  ASSUME StageInv, WorkInv, RecordInv, PersistOutcome \/ PersistFails
  PROVE  Quiet \/ Settles
<1> DEFINE k == Min(Unpersisted)
           u == joinedOuts[k].unit
           r == joinedOuts[k].retry
<1>1. /\ proc = "running" /\ joined # 0 /\ Unpersisted # {}
      /\ AppendEntry(Entry("unit", u, 0, r)) \/ AppendFails(Entry("unit", u, 0, r))
  BY DEF PersistOutcome, PersistFails, Record, RecordFails
<1>2. /\ RunTyped /\ StoreTyped /\ OwnEntries /\ store # None
  BY <1>1 DEF StageInv, JInv, RecordInv, RunTyped, ProcTyped, Ended
<1>3. /\ joined \in DOMAIN batches /\ u \in WaitsIn(joined) /\ joinedOuts[k] \in Out
  BY <1>1, <1>2, NextToPersist
<1>4. u \in Units /\ r \in BOOLEAN
  BY <1>3 DEF Out
<1> HIDE DEF k, u, r
<1>5. NoFinal(scan, u)
  BY <1>1, <1>3 DEF RecordInv, Unsettled
<1> QED
  BY <1>1, <1>2, <1>4, <1>5, ReviewAppend DEF Settles

\* The ledger of the stage.
Statuses == [s \in Scans |-> [u \in Units |-> Status(s, u)]]

Published ==
  IF proc # "done" THEN None
  ELSE [scan |-> scan, unresolved |-> {u \in JobSet(scan) : outcomes[u][1]}]

LEMMA QuietLedger ==
  ASSUME FileTyped, Quiet
  PROVE  Statuses' = Statuses
<1>1. \A s, u : Status(s, u)' = Status(s, u)
  BY QuietFile DEF FileTyped, FileLine
<1> QED
  BY <1>1 DEF Statuses

\* A review settles its method, or repeats what the ledger says.
LEMMA SettleLedger ==
  ASSUME FileTyped, Settles, scan \in Scans, proc # "done", proc' # "done"
  PROVE  Ledger!Next \/ UNCHANGED Ledger!vars
<1>1. PICK u \in Units, r \in BOOLEAN : Reviewed(u, r) /\ (~r \/ NoFinal(scan, u))
  BY DEF Settles
<1>2. lines \in Seq(FileLine) /\ DOMAIN lines = 1..Len(lines) /\ Len(lines) \in Nat
  BY DEF FileTyped, FileLine
<1>3. \A s, v : Status(s, v)' = IF s = scan /\ v = u THEN Word(r) ELSE Status(s, v)
  BY <1>1, <1>2, ReviewedFile
<1>4. Word(r) \in {"retryable", "final"} /\ (Word(r) = "final" <=> ~r)
  BY DEF Word
<1>5. ASSUME NoFinal(scan, u), NEW s \in Scans, ContextOf[s] = ContextOf[scan]
      PROVE  Status(s, u) # "final"
  <2> DEFINE P == LinesOf(s, u)
  <2>1. P \subseteq 1..Len(lines) /\ \A i \in P : i \in DOMAIN lines /\ lines[i].kind = "unit"
                                        /\ lines[i].scan = s /\ lines[i].unit = u
    BY <1>2 DEF LinesOf
  <2> HIDE DEF P
  <2>2. P # {} => Max(P) \in P
    BY <1>2, <2>1, MaxPosition
  <2>3. P # {} => lines[Max(P)].retry
    BY <1>5, <2>1, <2>2 DEF NoFinal
  <2>4. Status(s, u) = IF P = {} THEN "none" ELSE IF lines[Max(P)].retry THEN "retryable" ELSE "final"
    BY DEF Status, P
  <2> QED
    BY <2>3, <2>4
<1>6. Statuses' = [Statuses EXCEPT ![scan][u] = Word(r)]
  <2> DEFINE row(s) == [v \in Units |-> Status(s, v)]
             new(s) == [v \in Units |-> IF s = scan /\ v = u THEN Word(r) ELSE Status(s, v)]
  <2>1. Statuses = [s \in Scans |-> row(s)] /\ Statuses' = [s \in Scans |-> new(s)]
    BY <1>3 DEF Statuses
  <2>2. \A s \in Scans : s # scan => new(s) = row(s)
    OBVIOUS
  <2>3. new(scan) = [row(scan) EXCEPT ![u] = Word(r)]
    OBVIOUS
  <2> HIDE DEF row, new
  <2>4. Statuses[scan] = row(scan)
    BY <2>1
  <2>5. [Statuses EXCEPT ![scan][u] = Word(r)]
          = [Statuses EXCEPT ![scan] = [row(scan) EXCEPT ![u] = Word(r)]]
    BY <2>4
  <2>6. [Statuses EXCEPT ![scan] = new(scan)] = [s \in Scans |-> new(s)]
    BY <2>1, <2>2
  <2> QED
    BY <2>1, <2>3, <2>5, <2>6
<1>7. Published = None /\ Published' = None
  BY DEF Published
<1>8. \A s \in Scans : Statuses[s][u] = Status(s, u)
  BY DEF Statuses
<1>9. CASE Status(scan, u) = "final" /\ ~r
  <2>1. \A s, v : Status(s, v)' = Status(s, v)
    BY <1>3, <1>9 DEF Word
  <2>2. Statuses' = Statuses
    BY <2>1 DEF Statuses
  <2> QED
    BY <1>7, <2>2 DEF Ledger!vars, Statuses, Published
<1>10. CASE Status(scan, u) # "final" \/ r
  <2>1. Status(scan, u) # "final"
    BY <1>1, <1>5, <1>10
  <2>2. (\E s \in Scans : ContextOf[s] = ContextOf[scan] /\ Statuses[s][u] = "final")
          => Word(r) = "final"
    BY <1>1, <1>4, <1>5, <1>8
  <2> DEFINE v == Word(r)
  <2>3. /\ Statuses[scan][u] # "final" /\ v \in {"retryable", "final"}
        /\ Statuses' = [Statuses EXCEPT ![scan][u] = v]
    BY <1>4, <1>6, <1>8, <2>1
  <2> HIDE DEF v
  <2>4. Ledger!Settle(scan, u, v)
    BY <1>7, <2>2, <2>3 DEF Ledger!Settle, Ledger!FinishedElsewhere, Statuses, Published, v
  <2> QED
    BY <1>4, <2>3, <2>4 DEF Ledger!Next
<1> QED
  BY <1>9, <1>10

\* A run that covers its scan publishes what the journal says of it.
LEMMA FinishLedger ==
  ASSUME StageInv, WorkInv, RecordInv, Finish
  PROVE  Ledger!Next \/ UNCHANGED Ledger!vars
<1>1. /\ UNCHANGED <<lines, scan, outcomes>> /\ proc \in {"running", "aborting"}
      /\ DOMAIN tasks = {}
      /\ proc' = "done" => proc = "running" /\ ~firstError /\ Covered
  BY DEF Finish, Close, runVars, AtLoop
<1>2. FileTyped /\ scan \in Scans /\ outcomes \in [Units -> Seq(BOOLEAN)]
  BY <1>1 DEF StageInv, JInv, RunTyped, ProcTyped, WorkInv
<1>3. Statuses' = Statuses
  BY <1>1, <1>2, QuietLedger DEF Quiet
<1>4. Published = None
  BY <1>1 DEF Published
<1>5. CASE proc' # "done"
  <2>1. Published' = None
    BY <1>5 DEF Published
  <2> QED
    BY <1>3, <1>4, <2>1 DEF Ledger!vars, Statuses, Published
<1>6. CASE proc' = "done"
  <2>1. Steady
    BY <1>1, <1>6 DEF Steady
  <2>2. JobSet(scan) \subseteq Units
    <3>1. JobsOf[scan] \in Seq(Jobs)
      BY <1>2, StageAssumption
    <3>2. \A i \in DOMAIN JobsOf[scan] : JobsOf[scan][i] \in Jobs
      BY <3>1
    <3> QED
      BY <3>2, JobUnits DEF JobSet
  <2>3. ASSUME NEW u \in JobSet(scan)
        PROVE  Status(scan, u) = Word(outcomes[u][1])
    <3> DEFINE o == outcomes[u]
    <3>1. u \in Units /\ o \in Seq(BOOLEAN) /\ Len(o) = 1
      BY <1>1, <1>2, <1>6, <2>2 DEF Covered
    <3> HIDE DEF o
    <3>2. o # << >> /\ o[1] \in BOOLEAN
      BY <3>1
    <3>3. Says(u, o[1])
      BY <3>2 DEF Says, o
    <3> QED
      BY <2>1, <3>1, <3>2, <3>3 DEF RecordInv, Truth, o
  <2>4. \A u \in JobSet(scan) : Statuses[scan][u] = Word(outcomes[u][1])
    BY <1>2, <2>2, <2>3 DEF Statuses
  <2>5. \A u \in JobSet(scan) :
          /\ Statuses[scan][u] # "none"
          /\ Statuses[scan][u] = "retryable" <=> outcomes[u][1]
    BY <2>4 DEF Word
  <2>6. Published' = [scan |-> scan,
                      unresolved |-> {u \in JobSet(scan) : Statuses[scan][u] = "retryable"}]
    <3>1. Published' = [scan |-> scan, unresolved |-> {u \in JobSet(scan) : outcomes[u][1]}]
      BY <1>1, <1>6 DEF Published
    <3>2. {u \in JobSet(scan) : outcomes[u][1]}
            = {u \in JobSet(scan) : Statuses[scan][u] = "retryable"}
      BY <2>5
    <3> QED
      BY <3>1, <3>2
  <2>7. PICK s \in Scans : s = scan
    BY <1>2
  <2>8. [t \in Scans |-> JobSet(t)][s] = JobSet(s)
    OBVIOUS
  <2>9. Ledger!Publish(s)
    BY <1>3, <1>4, <2>5, <2>6, <2>7, <2>8 DEF Ledger!Publish, Statuses, Published
  <2> QED
    BY <2>9 DEF Ledger!Next
<1> QED
  BY <1>5, <1>6

\* The next run withdraws the result of the last one.
LEMMA StartLedger ==
  ASSUME StageInv, NEW s \in Scans, (\E limit : StartScan(s, limit)) \/ StartScanFails(s)
  PROVE  Ledger!Next \/ UNCHANGED Ledger!vars
<1> DEFINE n == Len(JobsOf[s])
           e == Manifest(s, "method", n)
<1>1. (lines' = lines \/ lines' = Append(lines, e)) /\ proc' # "done"
  BY DEF StartScan, StartScanFails, LoadForScan, LoadUnreadable, LoadManifestFails
<1>2. e \in FileLine /\ e.kind = "manifest"
  <2>1. n \in Nat /\ "method" \in Stages
    BY JobsAreFew, StageAssumption
  <2> QED
    BY <2>1, ManifestTyped DEF FileLine, Manifest
<1> HIDE DEF e, n
<1>3. Quiet /\ FileTyped
  BY <1>1, <1>2 DEF Quiet, StageInv, JInv
<1>4. Statuses' = Statuses /\ Published' = None
  BY <1>1, <1>3, QuietLedger DEF Published
<1>5. CASE Published = None
  BY <1>4, <1>5 DEF Ledger!vars, Statuses, Published
<1>6. CASE Published # None
  <2>1. Ledger!Withdraw
    BY <1>4, <1>6 DEF Ledger!Withdraw, Statuses, Published
  <2> QED
    BY <2>1 DEF Ledger!Next
<1> QED
  BY <1>5, <1>6

LEMMA InitLedger == SInit => Ledger!Init
<1> SUFFICES ASSUME SInit PROVE Ledger!Init
  OBVIOUS
<1>1. DOMAIN lines = {} /\ proc = "idle"
  BY DEF SInit, JInit
<1>2. \A s, u : Status(s, u) = "none"
  BY <1>1 DEF Status, LinesOf
<1> QED
  BY <1>1, <1>2 DEF Ledger!Init

LEMMA NextLedger ==
  StageInv /\ WorkInv /\ RecordInv /\ [SNext]_svars => [Ledger!Next]_Ledger!vars
<1> SUFFICES ASSUME StageInv, WorkInv, RecordInv, [SNext]_svars
             PROVE  Ledger!Next \/ UNCHANGED Ledger!vars
  OBVIOUS
<1>0. RunTyped /\ FileTyped
  BY DEF StageInv, JInv
<1>1. ASSUME Quiet, proc # "done", proc' # "done"
      PROVE  UNCHANGED Ledger!vars
  <2>1. Statuses' = Statuses /\ Published' = None /\ Published = None
    BY <1>0, <1>1, QuietLedger DEF Published
  <2> QED
    BY <2>1 DEF Ledger!vars, Statuses, Published
<1>2. ASSUME Quiet \/ Settles, proc \in {"reuse", "running", "aborting"}, proc' # "done"
      PROVE  Ledger!Next \/ UNCHANGED Ledger!vars
  <2>1. scan \in Scans /\ proc # "done"
    BY <1>0, <1>2 DEF RunTyped, ProcTyped
  <2> QED
    BY <1>0, <1>1, <1>2, <2>1, SettleLedger
<1>3. ASSUME NEW s \in Scans, (\E limit \in Limits : StartScan(s, limit)) \/ StartScanFails(s)
      PROVE  Ledger!Next \/ UNCHANGED Ledger!vars
  BY <1>3, StartLedger
<1>4. CASE Group \/ Die
  <2>1. lines' = lines /\ proc # "done" /\ proc' # "done"
    BY <1>4 DEF Group, Die, Crash, Ended, jvars
  <2> QED
    BY <1>1, <2>1 DEF Quiet
<1>5. CASE RunStep
  <2>1. CASE ReuseOwn \/ NeedsReview \/ Reject
    <3>1. lines' = lines /\ proc # "done" /\ proc' # "done"
      BY <2>1 DEF ReuseOwn, NeedsReview, Reject, Close, jvars
    <3> QED
      BY <1>1, <3>1 DEF Quiet
  <2>2. CASE ReuseAcross \/ CopyAcross \/ ReuseFails
    <3>1. proc = "reuse" /\ proc' # "done"
      BY <2>2 DEF ReuseAcross, CopyAcross, ReuseFails
    <3> QED
      BY <1>2, <2>2, <3>1, LookUpWrites
  <2>3. ASSUME NEW i \in DOMAIN tasks,
               \/ \E c \in Costs : ModelCall(i, c)
               \/ CallbackFails(i)
               \/ \E r \in BOOLEAN : ItemComplete(i, r)
        PROVE  Ledger!Next \/ UNCHANGED Ledger!vars
    <3>1. proc \in {"running", "aborting"} /\ proc' # "done"
      BY <2>3 DEF ModelCall, CallbackFails, ItemComplete, Working, TaskStep
    <3> QED
      BY <1>2, <2>3, <3>1, TaskWrites
  <2>4. ASSUME NEW i \in DOMAIN tasks,
               \/ Charge(i) \/ BatchFails(i)
               \/ \E st \in {"err", "panic"} : TaskFails(i, st)
               \/ JoinOk(i) \/ JoinErr(i) \/ JoinPanic(i) \/ Drain(i)
        PROVE  Ledger!Next \/ UNCHANGED Ledger!vars
    <3>1. proc \in {"running", "aborting"}
      BY <1>0, <2>4, TaskParts
    <3>2. lines' = lines /\ proc' = proc
      BY <2>4 DEF Charge, BatchFails, TaskFails, TaskStep, JoinOk, JoinErr, JoinPanic, Drain,
                  Joining, jvars
    <3> QED
      BY <1>1, <3>1, <3>2 DEF Quiet
  <2>5. CASE (\E i \in pending : StartTask(i)) \/ PushCompleted
    <3>1. lines' = lines /\ proc = "running" /\ proc' = proc
      BY <2>5 DEF StartTask, PushCompleted, AtLoop, jvars
    <3> QED
      BY <1>1, <3>1 DEF Quiet
  <2>6. CASE PersistOutcome \/ PersistFails
    <3>1. proc = "running" /\ proc' # "done"
      BY <2>6 DEF PersistOutcome, PersistFails
    <3> QED
      BY <1>2, <2>6, <3>1, PersistWrites
  <2>7. CASE Finish
    BY <2>7, FinishLedger
  <2> QED
    BY <1>5, <2>1, <2>2, <2>3, <2>4, <2>5, <2>6, <2>7 DEF RunStep
<1>6. CASE UNCHANGED svars
  <2>1. UNCHANGED <<lines, proc, scan, outcomes>>
    BY <1>6 DEF svars, jvars, runVars
  <2>2. \A s, u : Status(s, u)' = Status(s, u)
    BY <2>1 DEF Status, LinesOf
  <2> QED
    BY <2>1, <2>2 DEF Ledger!vars
<1> QED
  BY <1>3, <1>4, <1>5, <1>6 DEF SNext

(***************************************************************************)
(* The stage implements its ledger: a final review stays final and is the  *)
(* last of its method in the context, and a run that returns Ok says of    *)
(* every method of its scan what is durable, for every number of scans,    *)
(* tasks, faults and crashes.                                              *)
(***************************************************************************)
THEOREM StageImplementsLedger == SSpec => ImplementsLedger
  BY StageInvariant, StageWork, StageRecord, InitLedger, NextLedger, PTL
     DEF SSpec, ImplementsLedger, Ledger!Spec

-----------------------------------------------------------------------------
(* What the tasks of a set owe: the fold over a set, by its recursion.     *)

Total(ts, S) == MapThenSumSet(LAMBDA i : ts[i].owed, S)

AnyOf(s) == CHOOSE x \in s : TRUE

\* The recursive function behind the fold, on the subsets of at most n elements.
Small(S, n) == {s \in SUBSET S : Cardinality(s) <= n}

IsTotal(ts, S, n, g) ==
  g = [s \in Small(S, n) |-> IF s = {} THEN 0 ELSE ts[AnyOf(s)].owed + g[s \ {AnyOf(s)}]]

LEMMA OneLess ==
  ASSUME NEW s, IsFiniteSet(s), s # {}
  PROVE  /\ AnyOf(s) \in s /\ IsFiniteSet(s \ {AnyOf(s)}) /\ Cardinality(s) \in Nat
         /\ Cardinality(s) # 0
         /\ Cardinality(s \ {AnyOf(s)}) = Cardinality(s) - 1
<1>1. AnyOf(s) \in s
  BY DEF AnyOf
<1> QED
  BY <1>1, FS_RemoveElement, FS_CardinalityType, FS_EmptySet

LEMMA TotalExists ==
  ASSUME NEW ts, NEW S, IsFiniteSet(S)
  PROVE  \A n \in Nat : \E g : IsTotal(ts, S, n, g)
<1> DEFINE T == {n \in Nat : ~\E g : IsTotal(ts, S, n, g)}
<1>0. \A s \in SUBSET S : IsFiniteSet(s) /\ Cardinality(s) \in Nat
  BY FS_Subset, FS_CardinalityType
<1>1. SUFFICES ASSUME T # {} PROVE FALSE
  OBVIOUS
<1>2. PICK n \in T : \A m \in T : m >= n
  <2>1. T \subseteq Nat
    OBVIOUS
  <2> HIDE DEF T
  <2> QED
    BY <1>1, <2>1, ChunkFold!LeastNumber
<1>3. CASE n = 0
  <2> DEFINE g == [s \in Small(S, n) |-> 0]
  <2>1. \A s \in Small(S, n) : s = {}
    <3> SUFFICES ASSUME NEW s \in Small(S, n) PROVE s = {}
      OBVIOUS
    <3>1. s \in SUBSET S /\ Cardinality(s) <= 0
      BY <1>3 DEF Small
    <3>2. Cardinality(s) = 0
      BY <1>0, <3>1
    <3> QED
      BY <1>0, <3>1, <3>2, FS_EmptySet
  <2>2. IsTotal(ts, S, n, g)
    BY <2>1 DEF IsTotal
  <2> QED
    BY <2>2
<1>4. CASE n # 0
  <2>1. n \in Nat /\ n - 1 \in Nat /\ n - 1 < n /\ n - 1 \notin T
    BY <1>2, <1>4
  <2>2. PICK g : IsTotal(ts, S, n - 1, g)
    BY <2>1
  <2> DEFINE val(s) == IF s = {} THEN 0 ELSE ts[AnyOf(s)].owed + g[s \ {AnyOf(s)}]
             h == [s \in Small(S, n) |-> val(s)]
  <2>3. \A s \in Small(S, n - 1) : g[s] = val(s)
    BY <2>2 DEF IsTotal
  <2>4. ASSUME NEW s \in Small(S, n), s # {}
        PROVE  s \ {AnyOf(s)} \in Small(S, n - 1)
    <3>1. s \in SUBSET S /\ Cardinality(s) <= n /\ IsFiniteSet(s)
      BY <1>0 DEF Small
    <3>2. /\ Cardinality(s) \in Nat
          /\ Cardinality(s \ {AnyOf(s)}) = Cardinality(s) - 1
      BY <2>4, <3>1, OneLess
    <3>3. Cardinality(s \ {AnyOf(s)}) <= n - 1 /\ s \ {AnyOf(s)} \in SUBSET S
      BY <2>1, <3>1, <3>2
    <3> QED
      BY <3>3 DEF Small
  <2>5. Small(S, n - 1) \subseteq Small(S, n)
    BY <1>0, <2>1 DEF Small
  <2> HIDE DEF val
  <2>6. \A s \in Small(S, n) : s # {} => h[s \ {AnyOf(s)}] = g[s \ {AnyOf(s)}]
    BY <2>3, <2>4, <2>5
  <2>7. \A s \in Small(S, n) :
          val(s) = IF s = {} THEN 0 ELSE ts[AnyOf(s)].owed + h[s \ {AnyOf(s)}]
    BY <2>6 DEF val
  <2> QED
    BY <2>7 DEF IsTotal
<1> QED
  BY <1>3, <1>4

\* Two such functions agree where both are defined.
LEMMA SameTotal ==
  ASSUME NEW ts, NEW S, NEW R, IsFiniteSet(S), R \subseteq S,
         NEW m, m = Cardinality(R), NEW n, n = Cardinality(S),
         NEW g, IsTotal(ts, S, n, g), NEW h, IsTotal(ts, R, m, h)
  PROVE  g[R] = h[R]
<1> DEFINE T == {k \in Nat : \E s \in SUBSET R : Cardinality(s) = k /\ g[s] # h[s]}
<1>0. /\ IsFiniteSet(R) /\ m \in Nat /\ n \in Nat
      /\ \A s \in SUBSET R : IsFiniteSet(s) /\ Cardinality(s) \in Nat /\ s \in Small(R, m)
      /\ \A s \in SUBSET R : s \in Small(S, n)
  <2>1. IsFiniteSet(R) /\ m \in Nat /\ n \in Nat
    BY FS_Subset, FS_CardinalityType
  <2>2. ASSUME NEW s \in SUBSET R
        PROVE  /\ IsFiniteSet(s) /\ Cardinality(s) \in Nat
               /\ s \in Small(R, m) /\ s \in Small(S, n)
    <3>1. s \in SUBSET S
      OBVIOUS
    <3>2. IsFiniteSet(s) /\ Cardinality(s) <= m /\ Cardinality(s) <= n
      BY <2>1, <3>1, FS_Subset
    <3>3. Cardinality(s) \in Nat
      BY <3>2, FS_CardinalityType
    <3> QED
      BY <3>1, <3>2, <3>3 DEF Small
  <2> QED
    BY <2>1, <2>2
<1>1. T = {}
  <2>1. SUFFICES ASSUME T # {} PROVE FALSE
    OBVIOUS
  <2>2. PICK k \in T : \A j \in T : j >= k
    <3>1. T \subseteq Nat
      OBVIOUS
    <3> HIDE DEF T
    <3> QED
      BY <2>1, <3>1, ChunkFold!LeastNumber
  <2>3. PICK s \in SUBSET R : Cardinality(s) = k /\ g[s] # h[s]
    OBVIOUS
  <2>4. /\ g[s] = IF s = {} THEN 0 ELSE ts[AnyOf(s)].owed + g[s \ {AnyOf(s)}]
        /\ h[s] = IF s = {} THEN 0 ELSE ts[AnyOf(s)].owed + h[s \ {AnyOf(s)}]
    BY <1>0 DEF IsTotal
  <2>5. s # {}
    BY <2>3, <2>4
  <2> DEFINE r == s \ {AnyOf(s)}
  <2>6. r \in SUBSET R /\ Cardinality(r) = k - 1 /\ k # 0 /\ k \in Nat
    BY <1>0, <2>3, <2>5, OneLess
  <2> HIDE DEF r
  <2>7. g[r] = h[r]
    <3>1. k - 1 \in Nat /\ k - 1 \notin T
      BY <2>2, <2>6
    <3> QED
      BY <2>6, <3>1
  <2> QED
    BY <2>3, <2>4, <2>5, <2>7 DEF r
<1> QED
  BY <1>0, <1>1

\* The sum takes one element out at a time.
LEMMA TotalStep ==
  ASSUME NEW ts, NEW S, IsFiniteSet(S)
  PROVE  Total(ts, S) = IF S = {} THEN 0 ELSE ts[AnyOf(S)].owed + Total(ts, S \ {AnyOf(S)})
<1>1. ASSUME NEW R, IsFiniteSet(R)
      PROVE  \E g : IsTotal(ts, R, Cardinality(R), g) /\ Total(ts, R) = g[R]
  <2> DEFINE g == CHOOSE g : IsTotal(ts, R, Cardinality(R), g)
  <2>1. IsTotal(ts, R, Cardinality(R), g)
    BY <1>1, TotalExists, FS_CardinalityType
  <2>2. Small(R, Cardinality(R)) = SUBSET R
    BY <1>1, FS_Subset DEF Small
  <2>3. Total(ts, R) = g[R]
    BY <2>2 DEF Total, MapThenSumSet, MapThenFoldSet, IsTotal, AnyOf
  <2> QED
    BY <2>1, <2>3
<1>2. PICK g : IsTotal(ts, S, Cardinality(S), g) /\ Total(ts, S) = g[S]
  BY <1>1
<1>3. g[S] = IF S = {} THEN 0 ELSE ts[AnyOf(S)].owed + g[S \ {AnyOf(S)}]
  <2>1. Cardinality(S) \in Nat
    BY FS_CardinalityType
  <2>2. S \in Small(S, Cardinality(S))
    BY <2>1 DEF Small
  <2> QED
    BY <1>2, <2>2 DEF IsTotal
<1>4. ASSUME S # {}
      PROVE  g[S \ {AnyOf(S)}] = Total(ts, S \ {AnyOf(S)})
  <2> DEFINE R == S \ {AnyOf(S)}
  <2>1. IsFiniteSet(R) /\ R \subseteq S
    BY <1>4, OneLess
  <2> HIDE DEF R
  <2>2. PICK h : IsTotal(ts, R, Cardinality(R), h) /\ Total(ts, R) = h[R]
    BY <1>1, <2>1
  <2> QED
    BY <1>2, <2>1, <2>2, SameTotal DEF R
<1> QED
  BY <1>2, <1>3, <1>4

\* The sum is a number, whichever element is taken out first, and depends on
\* nothing but what the elements owe.
LEMMA TotalIsNat ==
  ASSUME NEW ts, NEW S, IsFiniteSet(S), \A i \in S : ts[i].owed \in Nat
  PROVE  Total(ts, S) \in Nat
<1> DEFINE T == {k \in Nat : \E s \in SUBSET S : Cardinality(s) = k /\ Total(ts, s) \notin Nat}
<1>0. \A s \in SUBSET S : IsFiniteSet(s) /\ Cardinality(s) \in Nat
  BY FS_Subset, FS_CardinalityType
<1>1. T = {}
  <2>1. SUFFICES ASSUME T # {} PROVE FALSE
    OBVIOUS
  <2>2. PICK k \in T : \A j \in T : j >= k
    <3>1. T \subseteq Nat
      OBVIOUS
    <3> HIDE DEF T
    <3> QED
      BY <2>1, <3>1, ChunkFold!LeastNumber
  <2>3. PICK s \in SUBSET S : Cardinality(s) = k /\ Total(ts, s) \notin Nat
    OBVIOUS
  <2>4. Total(ts, s) = IF s = {} THEN 0 ELSE ts[AnyOf(s)].owed + Total(ts, s \ {AnyOf(s)})
    BY <1>0, TotalStep
  <2>5. s # {}
    BY <2>3, <2>4
  <2> DEFINE r == s \ {AnyOf(s)}
  <2>6. r \in SUBSET S /\ Cardinality(r) = k - 1 /\ k # 0 /\ k \in Nat /\ AnyOf(s) \in S
    BY <1>0, <2>3, <2>5, OneLess
  <2> HIDE DEF r
  <2>7. Total(ts, r) \in Nat
    <3>1. k - 1 \in Nat /\ k - 1 \notin T
      BY <2>2, <2>6
    <3> QED
      BY <2>6, <3>1
  <2> QED
    BY <2>3, <2>4, <2>5, <2>6, <2>7 DEF r
<1> QED
  BY <1>0, <1>1

LEMMA TotalWithout ==
  ASSUME NEW ts, NEW S, IsFiniteSet(S), \A i \in S : ts[i].owed \in Nat, NEW x \in S
  PROVE  Total(ts, S) = ts[x].owed + Total(ts, S \ {x})
<1> DEFINE Off(s, z) == Total(ts, s) # ts[z].owed + Total(ts, s \ {z})
           T == {k \in Nat : \E s \in SUBSET S : Cardinality(s) = k /\ \E z \in s : Off(s, z)}
<1>0. \A s \in SUBSET S : /\ IsFiniteSet(s) /\ Cardinality(s) \in Nat
                          /\ Total(ts, s) \in Nat
  BY FS_Subset, FS_CardinalityType, TotalIsNat
<1>1. T = {}
  <2>1. SUFFICES ASSUME T # {} PROVE FALSE
    OBVIOUS
  <2>2. PICK k \in T : \A j \in T : j >= k
    <3>1. T \subseteq Nat
      OBVIOUS
    <3> HIDE DEF T
    <3> QED
      BY <2>1, <3>1, ChunkFold!LeastNumber
  <2>3. PICK s \in SUBSET S, z \in S : z \in s /\ Cardinality(s) = k /\ Off(s, z)
    OBVIOUS
  <2> DEFINE y == AnyOf(s)
             r == s \ {y}
             w == s \ {z}
  <2>4. Total(ts, s) = ts[y].owed + Total(ts, r)
    BY <1>0, <2>3, TotalStep
  <2>5. /\ r \in SUBSET S /\ Cardinality(r) = k - 1 /\ k # 0 /\ k \in Nat
        /\ y \in s /\ y \in S /\ w \in SUBSET S /\ Cardinality(w) = k - 1
    BY <1>0, <2>3, OneLess, FS_RemoveElement
  <2>6. y # z
    BY <2>3, <2>4
  <2>7. \A v \in SUBSET S : Cardinality(v) = k - 1 => \A a \in v : ~Off(v, a)
    <3>1. k - 1 \in Nat /\ k - 1 < k
      BY <2>5
    <3>2. k - 1 \notin T
      BY <2>2, <3>1
    <3> QED
      BY <3>1, <3>2
  <2>8. Total(ts, r) = ts[z].owed + Total(ts, r \ {z})
    <3>1. z \in r
      BY <2>3, <2>5, <2>6
    <3> QED
      BY <2>5, <2>7, <3>1
  <2>9. r \ {z} = w \ {y} /\ r \ {z} \in SUBSET S
    BY <2>5
  <2>10. Total(ts, w) = ts[y].owed + Total(ts, w \ {y})
    <3>1. y \in w
      BY <2>3, <2>5, <2>6
    <3> QED
      BY <2>5, <2>7, <3>1
  <2>11. /\ ts[y].owed \in Nat /\ ts[z].owed \in Nat /\ Total(ts, w \ {y}) \in Nat
    BY <1>0, <2>3, <2>5, <2>9
  <2>12. Total(ts, s) # ts[z].owed + Total(ts, w)
    BY <2>3
  <2> HIDE DEF r, w, y, Off, T
  <2>13. \A a, b, c \in Nat : a + (b + c) = b + (a + c)
    OBVIOUS
  <2>14. Total(ts, s) = ts[y].owed + (ts[z].owed + Total(ts, w \ {y}))
    BY <2>4, <2>8, <2>9
  <2>15. Total(ts, s) = ts[z].owed + (ts[y].owed + Total(ts, w \ {y}))
    BY <2>11, <2>13, <2>14
  <2> QED
    BY <2>10, <2>12, <2>15
<1> QED
  BY <1>0, <1>1, FS_Subset

LEMMA SameOwed ==
  ASSUME NEW ts, NEW us, NEW S, IsFiniteSet(S), \A i \in S : ts[i].owed = us[i].owed
  PROVE  Total(ts, S) = Total(us, S)
<1> DEFINE T == {k \in Nat : \E s \in SUBSET S : Cardinality(s) = k /\ Total(ts, s) # Total(us, s)}
<1>0. \A s \in SUBSET S : IsFiniteSet(s) /\ Cardinality(s) \in Nat
  BY FS_Subset, FS_CardinalityType
<1>1. T = {}
  <2>1. SUFFICES ASSUME T # {} PROVE FALSE
    OBVIOUS
  <2>2. PICK k \in T : \A j \in T : j >= k
    <3>1. T \subseteq Nat
      OBVIOUS
    <3> HIDE DEF T
    <3> QED
      BY <2>1, <3>1, ChunkFold!LeastNumber
  <2>3. PICK s \in SUBSET S : Cardinality(s) = k /\ Total(ts, s) # Total(us, s)
    OBVIOUS
  <2>4. /\ Total(ts, s) = IF s = {} THEN 0 ELSE ts[AnyOf(s)].owed + Total(ts, s \ {AnyOf(s)})
        /\ Total(us, s) = IF s = {} THEN 0 ELSE us[AnyOf(s)].owed + Total(us, s \ {AnyOf(s)})
    BY <1>0, TotalStep
  <2>5. s # {}
    BY <2>3, <2>4
  <2> DEFINE r == s \ {AnyOf(s)}
  <2>6. r \in SUBSET S /\ Cardinality(r) = k - 1 /\ k # 0 /\ k \in Nat /\ AnyOf(s) \in S
    BY <1>0, <2>3, <2>5, OneLess
  <2> HIDE DEF r
  <2>7. Total(ts, r) = Total(us, r)
    <3>1. k - 1 \in Nat /\ k - 1 \notin T
      BY <2>2, <2>6
    <3> QED
      BY <2>6, <3>1
  <2> QED
    BY <2>3, <2>4, <2>5, <2>6, <2>7 DEF r
<1> QED
  BY <1>0, <1>1, FS_Subset

-----------------------------------------------------------------------------
(* The books of a run.                                                     *)

\* Journaled by the tasks in flight and not yet charged.
Owed(ts) == Total(ts, DOMAIN ts)

\* The spend that is in the journal and not on the budget: usages whose
\* append failed with the line complete.
Books ==
  proc \notin {"idle", "rejected"} /\ Readable(lines) =>
    \E d \in 0..(faults * Max(Costs)) :
      SpentIn(lines, scan) = budget.spent + Owed(tasks) + d /\ (Steady => d = 0)

LEMMA TasksOwe ==
  ASSUME RunTyped
  PROVE  /\ IsFiniteSet(DOMAIN tasks) /\ \A i \in DOMAIN tasks : tasks[i].owed \in Nat
         /\ Owed(tasks) \in Nat /\ (DOMAIN tasks = {} => Owed(tasks) = 0)
<1>1. batches \in Seq(Seq(Jobs) \ {<< >>})
  BY DEF RunTyped, BatchesTyped, Filled
<1>2. IsFiniteSet(DOMAIN batches)
  <2>1. DOMAIN batches = 1..Len(batches) /\ Len(batches) \in Nat
    BY <1>1
  <2> QED
    BY <2>1, FS_Interval
<1>3. IsFiniteSet(DOMAIN tasks) /\ \A i \in DOMAIN tasks : tasks[i].owed \in Nat
  BY <1>2, FS_Subset DEF RunTyped, TasksTyped, TaskOK
<1> QED
  BY <1>3, TotalIsNat, TotalStep DEF Owed

\* What the tasks owe after one of them changes, leaves, or is added.
LEMMA OneChanges ==
  ASSUME NEW ts, IsFiniteSet(DOMAIN ts), \A j \in DOMAIN ts : ts[j].owed \in Nat,
         NEW i \in DOMAIN ts, NEW t, t.owed \in Nat,
         NEW us, DOMAIN us = DOMAIN ts, us[i] = t,
         \A j \in DOMAIN ts : j # i => us[j] = ts[j]
  PROVE  /\ Owed(us) \in Nat /\ Owed(ts) \in Nat
         /\ Owed(us) + ts[i].owed = Owed(ts) + t.owed
<1> DEFINE D == DOMAIN ts
           R == D \ {i}
<1>1. /\ DOMAIN us = D /\ us[i] = t /\ \A j \in D : j # i => us[j] = ts[j]
      /\ \A j \in D : us[j].owed \in Nat
  OBVIOUS
<1>2. IsFiniteSet(R) /\ R \subseteq D
  BY FS_RemoveElement
<1>3. Total(us, R) = Total(ts, R)
  <2>1. \A j \in R : us[j].owed = ts[j].owed
    BY <1>1
  <2> HIDE DEF R
  <2> QED
    BY <1>2, <2>1, SameOwed
<1>4. Total(ts, D) = ts[i].owed + Total(ts, R)
  BY TotalWithout
<1>5. Total(us, D) = t.owed + Total(us, R)
  <2>1. IsFiniteSet(D) /\ i \in D
    OBVIOUS
  <2> HIDE DEF D
  <2>2. Total(us, D) = us[i].owed + Total(us, D \ {i})
    BY <1>1, <2>1, TotalWithout
  <2> QED
    BY <1>1, <2>2
<1>6. Total(ts, R) \in Nat
  BY <1>2, TotalIsNat
<1>7. ts[i].owed \in Nat
  OBVIOUS
<1> HIDE DEF R, D
<1> QED
  BY <1>1, <1>3, <1>4, <1>5, <1>6, <1>7 DEF Owed, D

LEMMA OneLeaves ==
  ASSUME NEW ts, IsFiniteSet(DOMAIN ts), \A j \in DOMAIN ts : ts[j].owed \in Nat,
         NEW i \in DOMAIN ts, ts[i].owed = 0,
         NEW us, DOMAIN us = DOMAIN ts \ {i}, \A j \in DOMAIN us : us[j] = ts[j]
  PROVE  Owed(us) = Owed(ts)
<1> DEFINE D == DOMAIN ts
           R == D \ {i}
<1>1. DOMAIN us = R /\ \A j \in R : us[j] = ts[j]
  OBVIOUS
<1>2. IsFiniteSet(R) /\ R \subseteq D
  BY FS_RemoveElement
<1>3. Total(us, R) = Total(ts, R)
  <2> HIDE DEF R
  <2> QED
    BY <1>1, <1>2, SameOwed
<1>4. Total(ts, D) = ts[i].owed + Total(ts, R)
  BY TotalWithout
<1>5. Total(ts, R) \in Nat
  BY <1>2, TotalIsNat
<1> HIDE DEF R
<1> QED
  BY <1>1, <1>3, <1>4, <1>5 DEF Owed

LEMMA OneComes ==
  ASSUME NEW ts, IsFiniteSet(DOMAIN ts), \A j \in DOMAIN ts : ts[j].owed \in Nat,
         NEW i, i \notin DOMAIN ts, NEW t, t.owed = 0,
         NEW us, DOMAIN us = DOMAIN ts \cup {i}, us[i] = t,
         \A j \in DOMAIN ts : us[j] = ts[j]
  PROVE  Owed(us) = Owed(ts)
<1> DEFINE D == DOMAIN ts
           R == D \cup {i}
<1>1. /\ DOMAIN us = R /\ us[i] = t /\ \A j \in D : us[j] = ts[j]
      /\ \A j \in R : us[j].owed \in Nat
  OBVIOUS
<1>2. IsFiniteSet(R) /\ R \ {i} = D /\ i \in R
  BY FS_AddElement
<1>3. Total(us, D) = Total(ts, D)
  BY <1>1, SameOwed
<1> HIDE DEF D
<1>4. Total(us, R) = us[i].owed + Total(us, D)
  <2> HIDE DEF R
  <2> QED
    BY <1>1, <1>2, TotalWithout
<1>5. Total(ts, D) \in Nat
  BY TotalIsNat DEF D
<1> HIDE DEF R
<1> QED
  BY <1>1, <1>3, <1>4, <1>5 DEF Owed, D

\* A line that costs nothing, or no line.
Free ==
  \/ lines' = lines
  \/ \E e : lines' = Append(lines, e) /\ (e.kind # "garbled" => e.cost = 0)

LEMMA FreeAppend ==
  ASSUME NEW k, NEW u, NEW r,
         AppendEntry(Entry(k, u, 0, r)) \/ AppendFails(Entry(k, u, 0, r))
  PROVE  Free
<1> DEFINE e == Entry(k, u, 0, r)
<1>1. e.cost = 0
  BY DEF Entry
<1>2. AppendEntry(e) \/ AppendFails(e)
  OBVIOUS
<1>3. Garbled.kind = "garbled"
  BY DEF Garbled
<1> HIDE DEF e
<1> QED
  BY <1>1, <1>2, <1>3 DEF AppendEntry, AppendFails, Written, Free

\* The line that is appended is an entry or garbled.
LEMMA AppendedLine ==
  ASSUME FileTyped, FileTyped', NEW e, lines' = Append(lines, e)
  PROVE  /\ e \in FileLine /\ lines \in Seq(FileLine)
         /\ Readable(lines') => Readable(lines) /\ e.kind # "garbled"
<1>1. lines \in Seq(FileLine) /\ lines' \in Seq(FileLine) /\ Len(lines) \in Nat
  BY DEF FileTyped, FileLine
<1>2. e \in FileLine
  <2>1. Len(lines') = Len(lines) + 1 /\ lines'[Len(lines) + 1] = e
    BY <1>1
  <2>2. Len(lines) + 1 \in 1..Len(lines')
    BY <1>1, <2>1
  <2> QED
    BY <1>1, <2>1, <2>2
<1> QED
  BY <1>1, <1>2, ReadableAppend

LEMMA FreeSpend ==
  ASSUME FileTyped, FileTyped', Free
  PROVE  /\ Readable(lines') => Readable(lines)
         /\ \A s : SpentIn(lines', s) = SpentIn(lines, s)
<1>1. CASE lines' = lines
  BY <1>1 DEF Readable
<1>2. ASSUME NEW e, lines' = Append(lines, e), e.kind # "garbled" => e.cost = 0
      PROVE  /\ Readable(lines') => Readable(lines)
             /\ \A s : SpentIn(lines', s) = SpentIn(lines, s)
  <2>1. /\ e \in FileLine /\ lines \in Seq(FileLine)
        /\ Readable(lines') => Readable(lines)
    BY <1>2, AppendedLine
  <2>2. ASSUME NEW s
        PROVE  SpentIn(lines', s) = SpentIn(lines, s)
    <3>1. SpentIn(lines, s) \in Nat
      BY <2>1, SpentIsNat
    <3> QED
      BY <1>2, <2>1, <3>1, SpentAfterAppend
  <2> QED
    BY <2>1, <2>2
<1> QED
  BY <1>1, <1>2 DEF Free

\* The dearest call.
LEMMA DearestCall ==
  /\ Max(Costs) \in Nat /\ \A c \in Costs : c \in Nat /\ c <= Max(Costs)
<1>1. Costs \subseteq Nat
  BY JournalAssumption
<1>2. PICK most \in Costs : \A c \in Costs : c <= most
  BY StageAssumption
<1>3. \A c \in Costs : most >= c
  BY <1>1, <1>2
<1>4. Max(Costs) \in Costs /\ \A c \in Costs : Max(Costs) >= c
  BY <1>3 DEF Max
<1> QED
  BY <1>1, <1>4

LEMMA MoreFaults ==
  ASSUME NEW m \in Nat, NEW n \in Nat
  PROVE  n * m \in Nat /\ (n + 1) * m \in Nat /\ (n + 1) * m = n * m + m
  OBVIOUS

\* A step that leaves the books as they are.
LEMMA BooksKept ==
  ASSUME StageInv, StageInv', Books, Free, proc \notin {"idle", "rejected"}, scan' = scan,
         budget'.spent + Owed(tasks') = budget.spent + Owed(tasks),
         faults' = faults \/ faults' = faults + 1, Steady' => Steady
  PROVE  Books'
<1> SUFFICES ASSUME Readable(lines')
             PROVE  \E d \in 0..(faults' * Max(Costs)) :
                      /\ SpentIn(lines', scan') = budget'.spent + Owed(tasks') + d
                      /\ Steady' => d = 0
  BY DEF Books
<1>1. FileTyped /\ FileTyped' /\ faults \in Nat
  BY DEF StageInv, JInv, FileTyped
<1>2. Readable(lines) /\ SpentIn(lines', scan') = SpentIn(lines, scan)
  BY <1>1, FreeSpend
<1>3. PICK d \in 0..(faults * Max(Costs)) :
        SpentIn(lines, scan) = budget.spent + Owed(tasks) + d /\ (Steady => d = 0)
  BY <1>2 DEF Books
<1>4. d \in 0..(faults' * Max(Costs))
  <2> DEFINE m == Max(Costs)
             a == faults * m
             b == (faults + 1) * m
  <2>1. m \in Nat /\ a \in Nat /\ b \in Nat /\ b = a + m
    BY <1>1, DearestCall, MoreFaults
  <2>2. d \in 0..a
    BY <1>3
  <2>3. faults' * m = a \/ faults' * m = b
    OBVIOUS
  <2> HIDE DEF m, a, b
  <2>4. d \in 0..a /\ d \in 0..b
    BY <2>1, <2>2
  <2> QED
    BY <2>3, <2>4 DEF m
<1>5. Steady' => d = 0
  BY <1>3
<1>6. SpentIn(lines', scan') = budget'.spent + Owed(tasks') + d
  BY <1>2, <1>3
<1> QED
  BY <1>4, <1>5, <1>6

LEMMA NoDebts ==
  ASSUME NEW ts, DOMAIN ts = {}
  PROVE  Owed(ts) = 0
  BY TotalStep, FS_EmptySet DEF Owed

\* What a run finds in the journal is what it starts from.
LEMMA StartBooks ==
  ASSUME StageInv, StageInv', NEW s \in Scans, NEW limit, StartScan(s, limit)
  PROVE  Books'
<1> DEFINE n == Len(JobsOf[s])
           e == Manifest(s, "method", n)
<1>1. /\ lines' = lines \/ lines' = Append(lines, e)
      /\ scan' = s /\ budget' = [limit |-> limit, spent |-> SpentIn(lines, s)]
      /\ tasks' = << >>
  BY DEF StartScan, LoadForScan, Fresh
<1>2. FileTyped /\ FileTyped' /\ faults' \in Nat
  BY DEF StageInv, JInv, FileTyped
<1>3. e.cost = 0
  BY DEF Manifest
<1> HIDE DEF e
<1>4. Free
  BY <1>1, <1>3 DEF Free
<1>5. SpentIn(lines', scan') = SpentIn(lines, s) /\ SpentIn(lines, s) \in Nat
  BY <1>1, <1>2, <1>4, FreeSpend, SpentIsNat DEF FileTyped, FileLine
<1>6. budget'.spent = SpentIn(lines, s)
  BY <1>1
<1>7. Owed(tasks') = 0
  BY <1>1, NoDebts
<1>8. 0 \in 0..(faults' * Max(Costs))
  <2> DEFINE m == Max(Costs)
             f == faults'
  <2>1. m \in Nat /\ f \in Nat
    BY <1>2, DearestCall
  <2> HIDE DEF m, f
  <2>2. f * m \in Nat
    BY <2>1, MoreFaults
  <2> QED
    BY <2>2 DEF m, f
<1>9. SpentIn(lines', scan') = budget'.spent + Owed(tasks') + 0
  BY <1>5, <1>6, <1>7
<1> QED
  BY <1>8, <1>9 DEF Books

\* Looking up, persisting and returning are free of charge.
LEMMA FreeRunBooks ==
  ASSUME StageInv, StageInv', RecordInv, Books,
         \/ ReuseOwn \/ ReuseAcross \/ CopyAcross \/ ReuseFails \/ NeedsReview \/ Group
         \/ PersistOutcome \/ PersistFails \/ PushCompleted \/ Finish
  PROVE  Books'
<1>1. /\ proc \in {"reuse", "running", "aborting"} /\ UNCHANGED <<scan, budget, tasks, firstError>>
      /\ faults' = faults \/ faults' = faults + 1
  BY DEF ReuseOwn, ReuseAcross, CopyAcross, ReuseFails, NeedsReview, Group, PersistOutcome,
         PersistFails, PushCompleted, Finish, AtLoop, RecordCrossScanReuse, Record, RecordFails,
         AppendFails, Close, jvars, runVars
<1>2. Free
  <2>1. CASE ReuseOwn \/ NeedsReview \/ Group \/ PushCompleted \/ Finish
    BY <2>1 DEF ReuseOwn, NeedsReview, Group, PushCompleted, Finish, Close, jvars, Free
  <2>2. CASE ReuseAcross \/ CopyAcross \/ ReuseFails
    <3>1. \E k, u, r : AppendEntry(Entry(k, u, 0, r)) \/ AppendFails(Entry(k, u, 0, r))
      BY <2>2 DEF ReuseAcross, CopyAcross, ReuseFails, RecordCrossScanReuse, Record
    <3> QED
      BY <3>1, FreeAppend
  <2>3. CASE PersistOutcome \/ PersistFails
    <3>1. \E k, u, r : AppendEntry(Entry(k, u, 0, r)) \/ AppendFails(Entry(k, u, 0, r))
      BY <2>3 DEF PersistOutcome, PersistFails, Record, RecordFails
    <3> QED
      BY <3>1, FreeAppend
  <2> QED
    BY <2>1, <2>2, <2>3
<1>3. Steady' => Steady
  <2>1. \/ proc' = "rejecting" \/ proc' = "aborting" \/ proc' = proc
        \/ proc = "reuse" /\ proc' = "running"
        \/ proc' = "failed" \/ proc = "running"
    BY DEF ReuseOwn, ReuseAcross, CopyAcross, ReuseFails, NeedsReview, Group, PersistOutcome,
           PersistFails, PushCompleted, Finish, AtLoop
  <2> QED
    BY <1>1, <2>1 DEF Steady
<1>4. budget'.spent + Owed(tasks') = budget.spent + Owed(tasks)
  BY <1>1
<1> QED
  BY <1>1, <1>2, <1>3, <1>4, BooksKept

\* A task that owes nothing goes on, or fails, owing nothing.
LEMMA TaskBooks ==
  ASSUME StageInv, StageInv', WorkInv, Books, Free, NEW i \in DOMAIN tasks, NEW t, TaskStep(i, t),
         tasks[i].st = "run", tasks[i].owed = 0, t.owed = 0,
         faults' = faults \/ faults' = faults + 1
  PROVE  Books'
<1>1. /\ tasks' = [tasks EXCEPT ![i] = t]
      /\ UNCHANGED <<proc, scan, outcomes, batches, pending, joined, joinedOuts, firstError>>
      /\ budget' = budget
  BY DEF TaskStep
<1>2. RunTyped
  BY DEF StageInv
<1>3. /\ proc \in {"running", "aborting"} /\ (Steady' => Steady)
      /\ DOMAIN tasks' = DOMAIN tasks /\ \A j \in DOMAIN tasks : j # i => tasks'[j] = tasks[j]
      /\ tasks'[i] = t
  BY <1>1, <1>2, TaskView
<1>4. Owed(tasks') = Owed(tasks)
  <2> DEFINE us == tasks'
             ts == tasks
  <2>1. IsFiniteSet(DOMAIN ts) /\ \A j \in DOMAIN ts : ts[j].owed \in Nat
    BY <1>2, TasksOwe
  <2>2. /\ DOMAIN us = DOMAIN ts /\ us[i] = t /\ \A j \in DOMAIN ts : j # i => us[j] = ts[j]
        /\ i \in DOMAIN ts /\ t.owed \in Nat /\ t.owed = 0 /\ ts[i].owed = 0
    BY <1>3
  <2> HIDE DEF us, ts
  <2>3. Owed(us) \in Nat /\ Owed(ts) \in Nat /\ Owed(us) + ts[i].owed = Owed(ts) + t.owed
    BY <2>1, <2>2, OneChanges
  <2>4. Owed(us) = Owed(ts)
    BY <2>2, <2>3
  <2> QED
    BY <2>4 DEF us, ts
<1> QED
  BY <1>1, <1>3, <1>4, BooksKept

\* A method completes, a batch is split, or a task fails outside a call.
LEMMA GoOnBooks ==
  ASSUME StageInv, StageInv', WorkInv, Books, NEW i \in DOMAIN tasks,
         \/ \E r \in BOOLEAN : ItemComplete(i, r)
         \/ BatchFails(i)
         \/ \E st \in {"err", "panic"} : TaskFails(i, st)
  PROVE  Books'
<1> DEFINE x == tasks[i]
<1>1. /\ x.st = "run" /\ x.owed = 0 /\ TaskOK(x)
  BY ZenonT(40) DEF ItemComplete, BatchFails, TaskFails, Working, StageInv, RunTyped, TasksTyped
<1>2. faults' = faults
  BY DEF ItemComplete, BatchFails, TaskFails, Record, jvars
<1>3. Free
  <2>1. ASSUME NEW r \in BOOLEAN, ItemComplete(i, r)
        PROVE  Free
    <3>1. \E k, u : AppendEntry(Entry(k, u, 0, r))
      BY <2>1 DEF ItemComplete, Record
    <3> QED
      BY <3>1, FreeAppend, SMTT(30)
  <2> QED
    BY <2>1 DEF BatchFails, TaskFails, jvars, Free
<1>4. \E t : TaskStep(i, t) /\ t.owed = 0
  <2>1. \A q, outs : NextBatch(x, q, outs).owed = 0
    BY NextBatchKept
  <2>2. \A s : [x EXCEPT !.st = s].owed = 0
    BY <1>1, CountersKept
  <2>3. \A outs : [x EXCEPT !.done = @ + 1, !.outs = outs].owed = 0
    <3> TAKE outs
    <3> DEFINE y == [x EXCEPT !.done = @ + 1]
    <3>1. x = [queue |-> x.queue, done |-> x.done, calls |-> x.calls, owed |-> 0,
               outs |-> x.outs, st |-> x.st]
      BY <1>1 DEF TaskOK
    <3> HIDE DEF x
    <3>2. y = [queue |-> x.queue, done |-> x.done + 1, calls |-> x.calls, owed |-> 0,
               outs |-> x.outs, st |-> x.st]
      BY <3>1
    <3>3. [x EXCEPT !.done = @ + 1, !.outs = outs] = [y EXCEPT !.outs = outs]
      OBVIOUS
    <3> HIDE DEF y
    <3>4. [y EXCEPT !.outs = outs].owed = 0
      BY <3>2
    <3> QED
      BY <3>3, <3>4
  <2>4. ASSUME NEW r \in BOOLEAN, ItemComplete(i, r)
        PROVE  \E t : TaskStep(i, t) /\ t.owed = 0
    <3> DEFINE outs == Append(x.outs, [unit |-> x.queue[1][x.done + 1], retry |-> r,
                                       persisted |-> TRUE])
               rest == Tail(x.queue)
    <3>1. \/ TaskStep(i, NextBatch(x, rest, outs))
          \/ TaskStep(i, [x EXCEPT !.done = @ + 1, !.outs = outs])
      BY <2>4 DEF ItemComplete
    <3> HIDE DEF outs, rest, x
    <3> QED
      BY <2>1, <2>3, <3>1
  <2>5. CASE BatchFails(i)
    <3>1. \/ \E q, outs : TaskStep(i, NextBatch(x, q, outs))
          \/ TaskStep(i, [x EXCEPT !.st = "err"])
      BY <2>5 DEF BatchFails
    <3> HIDE DEF x
    <3> QED
      BY <2>1, <2>2, <3>1
  <2>6. ASSUME NEW st \in {"err", "panic"}, TaskFails(i, st)
        PROVE  \E t : TaskStep(i, t) /\ t.owed = 0
    BY <2>2, <2>6 DEF TaskFails
  <2> QED
    BY <2>4, <2>5, <2>6
<1> QED
  BY <1>1, <1>2, <1>3, <1>4, TaskBooks

\* A task that is joined or dropped owes nothing.
LEMMA LeaveBooks ==
  ASSUME StageInv, StageInv', RecordInv, Books, NEW i \in DOMAIN tasks,
         JoinOk(i) \/ JoinErr(i) \/ JoinPanic(i) \/ Drain(i)
  PROVE  Books'
<1>1. /\ tasks' = [j \in DOMAIN tasks \ {i} |-> tasks[j]]
      /\ UNCHANGED <<lines, faults, proc, scan, budget>>
      /\ proc \in {"running", "aborting"} /\ tasks[i].owed = 0
      /\ \/ tasks[i].st = "ok" /\ firstError' = firstError
         \/ firstError' = TRUE \/ proc = "aborting"
  BY DEF JoinOk, JoinErr, JoinPanic, Drain, Joining, AtLoop, jvars, RecordInv, CleanRun
<1>2. DOMAIN tasks' = DOMAIN tasks \ {i} /\ \A j \in DOMAIN tasks' : tasks'[j] = tasks[j]
  BY <1>1
<1>3. Steady' => Steady
  BY <1>1, <1>2 DEF Steady
<1>4. Owed(tasks') = Owed(tasks)
  <2>1. IsFiniteSet(DOMAIN tasks) /\ \A j \in DOMAIN tasks : tasks[j].owed \in Nat
    BY TasksOwe DEF StageInv
  <2> QED
    BY <1>1, <1>2, <2>1, OneLeaves
<1>5. Free
  BY <1>1 DEF Free
<1> QED
  BY <1>1, <1>3, <1>4, <1>5, BooksKept

LEMMA SpawnBooks ==
  ASSUME StageInv, StageInv', WorkInv, Books, NEW i \in pending, StartTask(i)
  PROVE  Books'
<1> DEFINE t == NewTask(batches[i])
<1>1. /\ tasks' = Spawn(i) /\ proc = "running"
      /\ UNCHANGED <<lines, faults, proc, scan, budget, firstError>>
  BY DEF StartTask, AtLoop, jvars
<1>2. /\ RunTyped /\ i \notin DOMAIN tasks
  BY <1>1 DEF StageInv, WorkInv, BatchWork, Afterwards, BatchPlaces
<1>3. t.owed = 0 /\ t.st = "run"
  <2> DEFINE q == <<[k \in DOMAIN batches[i] |-> batches[i][k].unit]>>
  <2>1. t = [queue |-> q, done |-> 0, calls |-> 0, owed |-> 0, outs |-> << >>, st |-> "run"]
    BY DEF NewTask
  <2> HIDE DEF q, t
  <2> QED
    BY <2>1
<1>4. DOMAIN tasks' = DOMAIN tasks \cup {i} /\ tasks'[i] = t
      /\ \A j \in DOMAIN tasks : tasks'[j] = tasks[j]
  <2> HIDE DEF t
  <2>1. tasks' = [j \in DOMAIN tasks \cup {i} |-> IF j = i THEN t ELSE tasks[j]]
    BY <1>1 DEF Spawn, t
  <2> QED
    BY <1>2, <2>1
<1> HIDE DEF t
<1>5. Steady' => Steady
  BY <1>1, <1>4 DEF Steady
<1>6. Owed(tasks') = Owed(tasks)
  <2>1. IsFiniteSet(DOMAIN tasks) /\ \A j \in DOMAIN tasks : tasks[j].owed \in Nat
    BY <1>2, TasksOwe
  <2> QED
    BY <1>2, <1>3, <1>4, <2>1, OneComes
<1>7. Free
  BY <1>1 DEF Free
<1> QED
  BY <1>1, <1>5, <1>6, <1>7, BooksKept

\* A usage in the file costs what the call cost.
LEMMA UsageSpend ==
  ASSUME StageInv, StageInv', OwnEntries, store # None, NEW c \in Nat,
         NEW e, e.cost = c, e.scan = store.scan, lines' = Append(lines, e), Readable(lines')
  PROVE  /\ Readable(lines) /\ SpentIn(lines, scan) \in Nat
         /\ SpentIn(lines', scan) = SpentIn(lines, scan) + c
<1>1. FileTyped /\ FileTyped' /\ store.scan = scan
  BY DEF StageInv, JInv, OwnEntries
<1>2. /\ e \in FileLine /\ lines \in Seq(FileLine) /\ e.kind # "garbled" /\ Readable(lines)
  BY <1>1, AppendedLine
<1> QED
  BY <1>1, <1>2, SpentAfterAppend, SpentIsNat

LEMMA UsageEntry ==
  ASSUME NEW c
  PROVE  LET e == Entry("usage", None, c, FALSE) IN e.cost = c /\ e.scan = store.scan
  BY DEF Entry

\* A call is in the journal first ...
LEMMA ModelCallBooks ==
  ASSUME StageInv, StageInv', WorkInv, RecordInv, Books, NEW i \in DOMAIN tasks, NEW c \in Costs,
         ModelCall(i, c)
  PROVE  Books'
<1> DEFINE x == tasks[i]
           t == [x EXCEPT !.calls = @ + 1, !.owed = c]
           e == Entry("usage", None, c, FALSE)
<1>1. /\ RunTyped /\ TaskOK(x) /\ OwnEntries /\ store # None /\ c \in Nat
      /\ x.st = "run" /\ x.owed = 0 /\ tasks' = [tasks EXCEPT ![i] = t]
      /\ lines' = Append(lines, IF torn THEN Garbled ELSE e)
      /\ UNCHANGED <<faults, budget>>
      /\ UNCHANGED <<proc, scan, outcomes, batches, pending, joined, joinedOuts, firstError>>
  BY DearestCall DEF StageInv, RunTyped, TasksTyped, RecordInv, ModelCall, Working, RecordUsage,
                     AppendEntry, Written, TaskStep
<1>2. t.owed = c
  <2> DEFINE y == [x EXCEPT !.calls = @ + 1]
  <2>1. x = [queue |-> x.queue, done |-> x.done, calls |-> x.calls, owed |-> x.owed,
             outs |-> x.outs, st |-> x.st]
    BY <1>1 DEF TaskOK
  <2> HIDE DEF x
  <2>2. y = [queue |-> x.queue, done |-> x.done, calls |-> x.calls + 1, owed |-> x.owed,
             outs |-> x.outs, st |-> x.st]
    BY <2>1
  <2>3. t = [y EXCEPT !.owed = c]
    OBVIOUS
  <2> HIDE DEF y, t
  <2> QED
    BY <2>2, <2>3
<1>3. e.cost = c /\ e.scan = store.scan
  BY UsageEntry
<1>4. Garbled.kind = "garbled"
  BY DEF Garbled
<1> HIDE DEF t, e
<1>5. /\ proc \in {"running", "aborting"} /\ (Steady' => Steady)
      /\ DOMAIN tasks' = DOMAIN tasks /\ \A j \in DOMAIN tasks : j # i => tasks'[j] = tasks[j]
      /\ tasks'[i] = t
  BY <1>1, TaskView
<1>6. /\ Owed(tasks') \in Nat /\ Owed(tasks) \in Nat /\ Owed(tasks') = Owed(tasks) + c
  <2>1. IsFiniteSet(DOMAIN tasks) /\ \A j \in DOMAIN tasks : tasks[j].owed \in Nat
    BY <1>1, TasksOwe
  <2> DEFINE us == tasks'
  <2>2. DOMAIN us = DOMAIN tasks /\ us[i] = t /\ \A j \in DOMAIN tasks : j # i => us[j] = tasks[j]
    BY <1>5
  <2> HIDE DEF us
  <2>3. /\ Owed(us) \in Nat /\ Owed(tasks) \in Nat
        /\ Owed(us) + tasks[i].owed = Owed(tasks) + t.owed
    BY <1>1, <1>2, <2>1, <2>2, OneChanges
  <2>4. Owed(us) = Owed(tasks) + c
    BY <1>1, <1>2, <2>3
  <2> QED
    BY <2>3, <2>4 DEF us
<1>7. SUFFICES ASSUME Readable(lines')
               PROVE  \E d \in 0..(faults' * Max(Costs)) :
                        /\ SpentIn(lines', scan') = budget'.spent + Owed(tasks') + d
                        /\ Steady' => d = 0
  BY DEF Books
<1>8. lines' = Append(lines, e)
  <2>1. ASSUME lines' = Append(lines, Garbled)
        PROVE  FALSE
    <3>1. FileTyped /\ FileTyped'
      BY DEF StageInv, JInv
    <3> QED
      BY <1>4, <1>7, <2>1, <3>1, AppendedLine
  <2> QED
    BY <1>1, <2>1
<1>9. /\ Readable(lines) /\ SpentIn(lines, scan) \in Nat
      /\ SpentIn(lines', scan) = SpentIn(lines, scan) + c
  BY <1>1, <1>3, <1>7, <1>8, UsageSpend
<1>10. PICK d \in 0..(faults * Max(Costs)) :
         SpentIn(lines, scan) = budget.spent + Owed(tasks) + d /\ (Steady => d = 0)
  BY <1>5, <1>9 DEF Books
<1>11. SpentIn(lines', scan') = budget'.spent + Owed(tasks') + d
  <2>1. budget.spent \in Nat /\ d \in Nat
    BY <1>1, <1>10 DEF RunTyped, BudgetTyped
  <2> DEFINE all == SpentIn(lines', scan')
             old == SpentIn(lines, scan)
             b == budget.spent
             w == Owed(tasks)
             v == Owed(tasks')
  <2>2. /\ all = old + c /\ old = b + w + d /\ v = w + c /\ budget'.spent = b
        /\ b \in Nat /\ w \in Nat /\ d \in Nat /\ c \in Nat
    BY <1>1, <1>6, <1>9, <1>10, <2>1
  <2> HIDE DEF all, old, b, w, v
  <2>3. all = b + v + d
    BY <2>2
  <2> QED
    BY <2>2, <2>3 DEF all, v
<1> QED
  BY <1>1, <1>5, <1>10, <1>11

\* ... and charged afterwards.
LEMMA ChargeBooks ==
  ASSUME StageInv, StageInv', WorkInv, RecordInv, Books, NEW i \in DOMAIN tasks, Charge(i)
  PROVE  Books'
<1> DEFINE x == tasks[i]
           t == [x EXCEPT !.owed = 0]
<1>1. /\ RunTyped /\ TaskOK(x) /\ x.st = "run" /\ x.owed \in Nat
      /\ tasks' = [tasks EXCEPT ![i] = t]
      /\ budget' = [budget EXCEPT !.spent = @ + x.owed]
      /\ UNCHANGED <<lines, faults>>
      /\ UNCHANGED <<proc, scan, outcomes, batches, pending, joined, joinedOuts, firstError>>
  BY DEF StageInv, RunTyped, TasksTyped, TaskOK, RecordInv, CleanRun, Charge, jvars
<1>2. t.owed = 0
  BY <1>1, CountersKept
<1> HIDE DEF t
<1>3. /\ proc \in {"running", "aborting"} /\ (Steady' => Steady)
      /\ DOMAIN tasks' = DOMAIN tasks /\ \A j \in DOMAIN tasks : j # i => tasks'[j] = tasks[j]
      /\ tasks'[i] = t
  BY <1>1, TaskView
<1>4. /\ Owed(tasks') \in Nat /\ Owed(tasks) \in Nat /\ Owed(tasks') + x.owed = Owed(tasks)
  <2>1. IsFiniteSet(DOMAIN tasks) /\ \A j \in DOMAIN tasks : tasks[j].owed \in Nat
    BY <1>1, TasksOwe
  <2> DEFINE us == tasks'
  <2>2. DOMAIN us = DOMAIN tasks /\ us[i] = t /\ \A j \in DOMAIN tasks : j # i => us[j] = tasks[j]
    BY <1>3
  <2> HIDE DEF us
  <2>3. /\ Owed(us) \in Nat /\ Owed(tasks) \in Nat
        /\ Owed(us) + tasks[i].owed = Owed(tasks) + t.owed
    BY <1>2, <2>1, <2>2, OneChanges
  <2>4. Owed(us) + x.owed = Owed(tasks)
    BY <1>2, <2>3
  <2> QED
    BY <2>3, <2>4 DEF us
<1>5. budget'.spent = budget.spent + x.owed /\ budget.spent \in Nat
  <2>1. budget = [limit |-> budget.limit, spent |-> budget.spent] /\ budget.spent \in Nat
    BY <1>1 DEF RunTyped, BudgetTyped
  <2> HIDE DEF x
  <2> QED
    BY <1>1, <2>1
<1>6. budget'.spent + Owed(tasks') = budget.spent + Owed(tasks)
  <2> HIDE DEF x
  <2> QED
    BY <1>1, <1>4, <1>5
<1>7. Free
  BY <1>1 DEF Free
<1> QED
  BY <1>1, <1>3, <1>6, <1>7, BooksKept

\* A usage whose append fails may be in the file all the same: the run never
\* charges it.
LEMMA CallbackBooks ==
  ASSUME StageInv, StageInv', WorkInv, RecordInv, Books, NEW i \in DOMAIN tasks, CallbackFails(i)
  PROVE  Books'
<1> DEFINE x == tasks[i]
           t == [x EXCEPT !.st = "err"]
<1>1. /\ RunTyped /\ TaskOK(x) /\ x.st = "run" /\ x.owed = 0 /\ TaskStep(i, t)
      /\ OwnEntries /\ store # None /\ faults' = faults + 1
  BY DEF StageInv, RunTyped, TasksTyped, RecordInv, CallbackFails, Working, RecordFails, AppendFails
<1>2. t.owed = 0 /\ t.st = "err"
  BY <1>1, CountersKept
<1> HIDE DEF t
<1>3. CASE Free
  BY <1>1, <1>2, <1>3, TaskBooks
<1>4. ASSUME NEW c \in Costs, lines' = Append(lines, Entry("usage", None, c, FALSE))
      PROVE  Books'
  <2> DEFINE e == Entry("usage", None, c, FALSE)
  <2>1. e.cost = c /\ e.scan = store.scan
    BY UsageEntry
  <2>2. lines' = Append(lines, e) /\ c \in Nat /\ c <= Max(Costs) /\ Max(Costs) \in Nat
    BY <1>4, DearestCall
  <2> HIDE DEF e
  <2>3. SUFFICES ASSUME Readable(lines')
                 PROVE  \E d \in 0..(faults' * Max(Costs)) :
                          /\ SpentIn(lines', scan') = budget'.spent + Owed(tasks') + d
                          /\ Steady' => d = 0
    BY DEF Books
  <2>4. /\ Readable(lines) /\ SpentIn(lines, scan) \in Nat
        /\ SpentIn(lines', scan) = SpentIn(lines, scan) + c
    BY <1>1, <2>1, <2>2, <2>3, UsageSpend
  <2>5. /\ tasks' = [tasks EXCEPT ![i] = t] /\ budget' = budget
        /\ UNCHANGED <<proc, scan, outcomes, batches, pending, joined, joinedOuts, firstError>>
    BY <1>1 DEF TaskStep
  <2>6. /\ proc \in {"running", "aborting"}
        /\ DOMAIN tasks' = DOMAIN tasks /\ \A j \in DOMAIN tasks : j # i => tasks'[j] = tasks[j]
        /\ tasks'[i] = t
    BY <1>1, <2>5, TaskView
  <2>7. ~Steady'
    BY <1>2, <2>6 DEF Steady
  <2>8. PICK d \in 0..(faults * Max(Costs)) : SpentIn(lines, scan) = budget.spent + Owed(tasks) + d
    BY <2>4, <2>6 DEF Books
  <2>9. Owed(tasks') = Owed(tasks) /\ Owed(tasks) \in Nat
    <3>1. IsFiniteSet(DOMAIN tasks) /\ \A j \in DOMAIN tasks : tasks[j].owed \in Nat
      BY <1>1, TasksOwe
    <3> DEFINE us == tasks'
    <3>2. DOMAIN us = DOMAIN tasks /\ us[i] = t /\ \A j \in DOMAIN tasks : j # i => us[j] = tasks[j]
      BY <2>6
    <3> HIDE DEF us
    <3>3. /\ Owed(us) \in Nat /\ Owed(tasks) \in Nat
          /\ Owed(us) + tasks[i].owed = Owed(tasks) + t.owed
      BY <1>2, <3>1, <3>2, OneChanges
    <3>4. Owed(us) = Owed(tasks)
      BY <1>1, <1>2, <3>3
    <3> QED
      BY <3>3, <3>4 DEF us
  <2>10. d + c \in 0..(faults' * Max(Costs))
    <3> DEFINE m == Max(Costs)
               a == faults * m
               b == (faults + 1) * m
    <3>1. faults \in Nat
      BY DEF StageInv, JInv, FileTyped
    <3>2. m \in Nat /\ a \in Nat /\ b = a + m
      BY <2>2, <3>1, MoreFaults
    <3>3. d \in 0..a /\ c \in Nat /\ c <= m /\ faults' * m = b
      BY <1>1, <2>2, <2>8
    <3> HIDE DEF m, a, b
    <3>4. d + c \in 0..b
      BY <3>2, <3>3
    <3> QED
      BY <3>3, <3>4 DEF m
  <2>11. SpentIn(lines', scan') = budget'.spent + Owed(tasks') + (d + c)
    <3>1. budget.spent \in Nat /\ d \in Nat
      BY <1>1, <2>8 DEF RunTyped, BudgetTyped
    <3> DEFINE all == SpentIn(lines', scan')
               old == SpentIn(lines, scan)
               b == budget.spent
               w == Owed(tasks)
    <3>2. /\ all = old + c /\ old = b + w + d /\ Owed(tasks') = w /\ budget'.spent = b
          /\ b \in Nat /\ w \in Nat /\ d \in Nat /\ c \in Nat
      BY <2>2, <2>4, <2>5, <2>8, <2>9, <3>1
    <3> HIDE DEF all, old, b, w
    <3>3. all = b + w + (d + c)
      BY <3>2
    <3> QED
      BY <3>2, <3>3 DEF all
  <2> QED
    BY <2>7, <2>10, <2>11
<1>5. \/ \E c \in Costs : AppendFails(Entry("usage", None, c, FALSE))
      \/ \E u, r : AppendFails(Entry("unit", u, 0, r))
  BY DEF CallbackFails, RecordFails
<1>6. CASE \E u, r : AppendFails(Entry("unit", u, 0, r))
  BY <1>3, <1>6, FreeAppend
<1>7. ASSUME NEW c \in Costs, AppendFails(Entry("usage", None, c, FALSE))
      PROVE  Free \/ lines' = Append(lines, Entry("usage", None, c, FALSE))
  <2> DEFINE e == Entry("usage", None, c, FALSE)
  <2>1. AppendFails(e)
    BY <1>7
  <2> HIDE DEF e
  <2>2. Garbled.kind = "garbled"
    BY DEF Garbled
  <2>3. Free \/ lines' = Append(lines, e)
    BY <2>1, <2>2 DEF AppendFails, AppendEntry, Written, Free
  <2> QED
    BY <2>3 DEF e
<1> QED
  BY <1>3, <1>4, <1>5, <1>6, <1>7

LEMMA InitBooks == SInit => Books
  BY DEF SInit, Books

LEMMA NextBooks == StageInv /\ WorkInv /\ RecordInv /\ Books /\ [SNext]_svars => Books'
<1> SUFFICES ASSUME StageInv, WorkInv, RecordInv, Books, [SNext]_svars
             PROVE  Books'
  OBVIOUS
<1>0. StageInv'
  BY NextStage
<1>1. ASSUME NEW s \in Scans, NEW limit \in Limits, StartScan(s, limit)
      PROVE  Books'
  BY <1>0, <1>1, StartBooks
<1>2. ASSUME proc' \in {"idle", "rejected"}
      PROVE  Books'
  BY <1>2 DEF Books
<1>3. ASSUME NEW s \in Scans, StartScanFails(s)
      PROVE  Books'
  BY <1>2, <1>3 DEF StartScanFails
<1>4. CASE Die \/ Reject
  BY <1>2, <1>4 DEF Die, Reject
<1>5. CASE \/ ReuseOwn \/ ReuseAcross \/ CopyAcross \/ ReuseFails \/ NeedsReview \/ Group
           \/ PersistOutcome \/ PersistFails \/ PushCompleted \/ Finish
  BY <1>0, <1>5, FreeRunBooks
<1>6. ASSUME NEW i \in DOMAIN tasks,
             \/ \E c \in Costs : ModelCall(i, c)
             \/ Charge(i) \/ CallbackFails(i)
             \/ \E r \in BOOLEAN : ItemComplete(i, r)
             \/ BatchFails(i)
             \/ \E st \in {"err", "panic"} : TaskFails(i, st)
             \/ JoinOk(i) \/ JoinErr(i) \/ JoinPanic(i) \/ Drain(i)
      PROVE  Books'
  <2>1. ASSUME NEW c \in Costs, ModelCall(i, c)
        PROVE  Books'
    BY <1>0, <2>1, ModelCallBooks
  <2>2. CASE Charge(i)
    BY <1>0, <2>2, ChargeBooks
  <2>3. CASE CallbackFails(i)
    BY <1>0, <2>3, CallbackBooks
  <2>4. CASE \/ \E r \in BOOLEAN : ItemComplete(i, r)
             \/ BatchFails(i)
             \/ \E st \in {"err", "panic"} : TaskFails(i, st)
    BY <1>0, <2>4, GoOnBooks
  <2>5. CASE JoinOk(i) \/ JoinErr(i) \/ JoinPanic(i) \/ Drain(i)
    BY <1>0, <2>5, LeaveBooks
  <2> QED
    BY <1>6, <2>1, <2>2, <2>3, <2>4, <2>5
<1>7. ASSUME NEW i \in pending, StartTask(i)
      PROVE  Books'
  BY <1>0, <1>7, SpawnBooks
<1>8. CASE UNCHANGED svars
  <2>1. UNCHANGED <<lines, faults, proc, scan, tasks, firstError, budget>>
    BY <1>8 DEF svars, runVars, jvars
  <2> QED
    BY <2>1 DEF Books, Readable, Steady
<1>9. ASSUME RunStep
      PROVE  Books'
  BY <1>4, <1>5, <1>6, <1>7, <1>9 DEF RunStep
<1> QED
  BY <1>1, <1>3, <1>4, <1>5, <1>8, <1>9 DEF SNext

(***************************************************************************)
(* The journal and the budget differ by what the tasks in flight owe, and  *)
(* by usages whose append failed with the line complete: nothing else, and *)
(* not even these as long as the run is steady.                            *)
(***************************************************************************)
THEOREM StageBooks == SSpec => []Books
  BY StageInvariant, StageWork, StageRecord, InitBooks, NextBooks, PTL DEF SSpec

(***************************************************************************)
(* The spend that decides whether a batch may start is the journaled one,  *)
(* short only of what has been written and not yet charged.                *)
(***************************************************************************)
THEOREM StageCharges == SSpec => []ChargesMatchJournal
<1>1. StageInv /\ Books => ChargesMatchJournal
  <2> SUFFICES ASSUME StageInv, Books, proc \in {"running", "aborting"}, Readable(lines)
               PROVE  budget.spent + Owed(tasks)
                        \in {SpentIn(lines, scan) - d : d \in 0..(faults * Max(Costs))}
    BY DEF ChargesMatchJournal, Owed, Total
  <2>1. PICK d \in 0..(faults * Max(Costs)) :
          SpentIn(lines, scan) = budget.spent + Owed(tasks) + d
    BY DEF Books
  <2>2. budget.spent \in Nat /\ Owed(tasks) \in Nat /\ d \in Nat
    BY TasksOwe DEF StageInv, RunTyped, BudgetTyped
  <2> DEFINE b == budget.spent
             w == Owed(tasks)
             all == SpentIn(lines, scan)
             most == faults * Max(Costs)
  <2>3. all = b + w + d /\ b \in Nat /\ w \in Nat /\ d \in Nat /\ d \in 0..most
    BY <2>1, <2>2
  <2> HIDE DEF b, w, all, most
  <2>4. b + w = all - d
    BY <2>3
  <2>5. b + w \in {all - x : x \in 0..most}
    BY <2>3, <2>4
  <2> QED
    BY <2>5 DEF b, w, all, most
<1> QED
  BY <1>1, StageInvariant, StageBooks, PTL

(***************************************************************************)
(* A run that pauses has reached its limit in the journal, and everything  *)
(* that it has started is in the journal.                                  *)
(***************************************************************************)
THEOREM StagePausesHonestly == SSpec => []PauseIsHonest
<1>1. StageInv /\ WorkInv /\ RecordInv /\ Books /\ StageSchedule => PauseIsHonest
  <2> SUFFICES ASSUME StageInv, WorkInv, RecordInv, Books, StageSchedule, proc = "paused"
               PROVE  /\ budget.spent >= budget.limit
                      /\ SpentIn(lines, scan) = budget.spent
                      /\ \A i \in DOMAIN batches \ pending :
                           \A k \in DOMAIN batches[i] :
                             Status(scan, batches[i][k].unit) # "none"
    BY DEF PauseIsHonest
  <2>1. RunTyped /\ DOMAIN tasks = {} /\ Steady /\ Readable(lines)
    BY DEF StageInv, RecordInv, CleanRun, Steady
  <2>2. budget.spent >= budget.limit
    <3>1. ~Admit
      BY DEF StageSchedule, Scheduler!EarlyStopNeedsBudget, PhaseOf
    <3>2. budget.limit # None /\ ~(budget.spent < budget.limit)
      BY <3>1 DEF Admit, CanStart
    <3>3. budget.limit \in Nat /\ budget.spent \in Nat
      BY <2>1, <3>2 DEF RunTyped, BudgetTyped
    <3> QED
      BY <3>2, <3>3
  <2>3. SpentIn(lines, scan) = budget.spent
    <3>1. SpentIn(lines, scan) = budget.spent + Owed(tasks) + 0
      BY <2>1 DEF Books
    <3>2. Owed(tasks) = 0 /\ budget.spent \in Nat
      BY <2>1, TasksOwe DEF RunTyped, BudgetTyped
    <3> QED
      BY <3>1, <3>2
  <2>4. ASSUME NEW i \in DOMAIN batches \ pending, NEW k \in DOMAIN batches[i]
        PROVE  Status(scan, batches[i][k].unit) # "none"
    <3> DEFINE u == batches[i][k].unit
    <3>1. /\ BatchPlaces /\ Apart(batches) /\ UnitsIn(batches) \subseteq JobSet(scan)
          /\ \A v \in Units : Len(outcomes[v]) = IF v \in Reported THEN 1 ELSE 0
      BY DEF WorkInv, BatchWork, Afterwards
    <3>2. joined = 0 /\ 0 \notin DOMAIN batches
      <4>1. batches \in Seq(Seq(Jobs))
        BY <2>1 DEF RunTyped, BatchesTyped, Filled
      <4> QED
        BY <2>1, <4>1 DEF RunTyped, JoinedTyped
    <3>3. i \in completed
      BY <2>1, <3>1, <3>2 DEF BatchPlaces, Steady
    <3>4. u \in JobSet(scan) /\ u \in Units
      <4>1. u \in UnitsIn(batches)
        BY DEF UnitsIn
      <4>2. batches[i] \in Seq(Jobs)
        BY <2>1 DEF RunTyped, BatchesTyped, Filled
      <4>3. batches[i][k] \in Jobs
        BY <4>2
      <4> QED
        BY <3>1, <4>1, <4>3, JobUnits
    <3>5. \A l \in DOMAIN batches : u \in UnitsOf(batches[l]) => l = i
      BY <3>1 DEF Apart, UnitsOf
    <3> HIDE DEF u
    <3>6. u \in Reported
      BY <3>3, <3>4, <3>5 DEF Reported
    <3>7. outcomes[u] \in Seq(BOOLEAN) /\ Len(outcomes[u]) = 1
      BY <3>1, <3>4, <3>6 DEF WorkInv
    <3>8. outcomes[u] # << >> /\ outcomes[u][1] \in BOOLEAN
      BY <3>7
    <3>9. PICK r \in BOOLEAN : r = outcomes[u][1]
      BY <3>8
    <3>10. Says(u, r)
      BY <3>8, <3>9 DEF Says
    <3>11. Status(scan, u) = Word(r)
      BY <2>1, <3>4, <3>10 DEF RecordInv, Truth
    <3> QED
      BY <3>11 DEF Word, u
  <2> QED
    BY <2>2, <2>3, <2>4
<1> QED
  BY <1>1, StageInvariant, StageWork, StageRecord, StageBooks, StageKeepsSchedule, PTL

-----------------------------------------------------------------------------
(* The end of a run: what is ahead of it is a number, and every step       *)
(* lowers it.                                                              *)

\* What a task has ahead of it with l methods to review in n batches, and c
\* calls made for the first of them.
Attempts(l, n, c) ==
  AttemptSteps * (2 * l - n) + 2 * (IF c < MaxCalls THEN MaxCalls - c ELSE 0)

LEMMA AttemptsAreWhole ==
  ASSUME NEW l \in Int, NEW n \in Int, NEW c \in Int
  PROVE  Attempts(l, n, c) \in Int
<1> DEFINE k == IF c < MaxCalls THEN MaxCalls - c ELSE 0
<1>1. k \in Int
  BY CallsAssumption
<1>2. AttemptSteps \in Int
  BY CallsAssumption DEF AttemptSteps
<1>3. Attempts(l, n, c) = AttemptSteps * (2 * l - n) + 2 * k
  BY DEF Attempts
<1> HIDE DEF k
<1>4. \A a, m \in Int : a * m \in Int
  OBVIOUS
<1>5. AttemptSteps * (2 * l - n) \in Int
  BY <1>2, <1>4
<1> QED
  BY <1>1, <1>3, <1>5

\* A call, a method that is done, one that is done with its batch, and a batch
\* that is split, all leave less.
LEMMA AttemptsFall ==
  ASSUME NEW l \in Nat, NEW n \in Nat, 1 <= n, n <= l, NEW c \in Nat
  PROVE  /\ Attempts(l, n, c) \in Nat /\ 1 <= Attempts(l, n, c)
         /\ Attempts(l, n, 0) < 2 * AttemptSteps * l
         /\ c < MaxCalls => Attempts(l, n, c + 1) + 1 < Attempts(l, n, c)
         /\ Attempts(l - 1, n, c) < Attempts(l, n, c)
         /\ Attempts(l - 1, n - 1, 0) < Attempts(l, n, c)
         /\ Attempts(l, n + 1, 0) < Attempts(l, n, c)
<1> DEFINE A == AttemptSteps
           C(x) == 2 * (IF x < MaxCalls THEN MaxCalls - x ELSE 0)
<1>1. /\ A \in Nat /\ A = 2 * MaxCalls + 1 /\ MaxCalls \in Nat
      /\ \A x \in Nat : C(x) \in 0..(A - 1)
      /\ C(0) = A - 1
      /\ c < MaxCalls => C(c + 1) = C(c) - 2
  BY CallsAssumption DEF AttemptSteps
<1> DEFINE a == A * (2 * l - n)
<1>2. /\ Attempts(l, n, c) = a + C(c) /\ Attempts(l, n, 0) = a + C(0)
      /\ Attempts(l, n, c + 1) = a + C(c + 1)
      /\ Attempts(l - 1, n, c) = A * (2 * (l - 1) - n) + C(c)
      /\ Attempts(l - 1, n - 1, 0) = A * (2 * (l - 1) - (n - 1)) + C(0)
      /\ Attempts(l, n + 1, 0) = A * (2 * l - (n + 1)) + C(0)
  BY DEF Attempts
<1> HIDE DEF C, A
<1>3. a \in Int /\ a >= A
  <2>1. 2 * l - n >= 1 /\ 2 * l - n \in Int
    OBVIOUS
  <2>2. \A x \in Int : x >= 1 => A * x >= A /\ A * x \in Int
    <3>1. SUFFICES ASSUME NEW x \in Int, x >= 1 PROVE A * x >= A /\ A * x \in Int
      OBVIOUS
    <3>2. A * (x - 1) >= 0 /\ A * (x - 1) = A * x - A /\ A * x \in Int
      BY <1>1, <3>1
    <3> QED
      BY <1>1, <3>2
  <2> QED
    BY <2>1, <2>2
<1>4. /\ A * (2 * (l - 1) - n) = a - 2 * A
      /\ A * (2 * (l - 1) - (n - 1)) = a - A
      /\ A * (2 * l - (n + 1)) = a - A
      /\ a <= 2 * A * l - A
  <2>1. /\ 2 * (l - 1) - n = (2 * l - n) - 2
        /\ 2 * (l - 1) - (n - 1) = (2 * l - n) - 1
        /\ 2 * l - (n + 1) = (2 * l - n) - 1
    OBVIOUS
  <2>2. \A x \in Int : A * (x - 2) = A * x - 2 * A /\ A * (x - 1) = A * x - A
    BY <1>1
  <2>3. 2 * A * l = A * (2 * l)
    BY <1>1
  <2>4. \A x \in Nat, y \in Nat : 1 <= y => A * (x - y) <= A * x - A
    <3>1. SUFFICES ASSUME NEW x \in Nat, NEW y \in Nat, 1 <= y PROVE A * (x - y) <= A * x - A
      OBVIOUS
    <3>2. A * (x - y) = A * x - A * y /\ A * y >= A /\ A * x \in Int /\ A * y \in Int
      BY <1>1, <3>1
    <3> QED
      BY <1>1, <3>2
  <2>5. A * (2 * l - n) <= A * (2 * l) - A
    BY <2>4
  <2> QED
    BY <2>1, <2>2, <2>3, <2>5
<1>5. C(c) \in 0..(A - 1) /\ C(0) = A - 1
  BY <1>1
<1> DEFINE p == 2 * A * l
<1>6. p \in Int
  BY <1>1
<1> HIDE DEF a, p
<1>7. Attempts(l, n, c) \in Nat /\ 1 <= Attempts(l, n, c)
  BY <1>1, <1>2, <1>3, <1>5
<1>8. a + C(0) < p
  BY <1>1, <1>3, <1>4, <1>5, <1>6 DEF p
<1>9. c < MaxCalls => a + C(c + 1) + 1 < a + C(c)
  BY <1>1, <1>3, <1>5
<1>10. /\ a - 2 * A + C(c) < a + C(c)
       /\ a - A + C(0) < a + C(c)
  BY <1>1, <1>3, <1>5
<1> QED
  BY <1>2, <1>4, <1>7, <1>8, <1>9, <1>10 DEF A, p

\* A queue has no more batches than there are methods ahead in it.
LEMMA BatchesLeft ==
  ASSUME NEW q \in Seq(Seq(Units)), \A k \in DOMAIN q : q[k] # << >>,
         NEW d \in Nat, d < Len(q[1]), NEW outs, NEW units, Shares(q, d, outs, units)
  PROVE  /\ IsFiniteSet(LeftIn(q, d)) /\ Cardinality(LeftIn(q, d)) \in Nat
         /\ Len(q) <= Cardinality(LeftIn(q, d))
<1> DEFINE n == Len(q)
           last == [k \in 1..n |-> q[k][Len(q[k])]]
<1>0. \A k \in DOMAIN q : q[k] \in Seq(Units) /\ q[k] # << >>
  OBVIOUS
<1>1. n \in Nat /\ DOMAIN q = 1..n
  OBVIOUS
<1>2. ASSUME NEW k \in 1..n
      PROVE  /\ DOMAIN q[k] = 1..Len(q[k]) /\ Len(q[k]) \in DOMAIN q[k] /\ Ahead(d, k, Len(q[k]))
             /\ \A l \in DOMAIN q[k] : q[k][l] \in Units
  <2>1. q[k] \in Seq(Units) /\ q[k] # << >>
    BY <1>0, <1>1
  <2>2. Len(q[k]) \in Nat /\ Len(q[k]) >= 1 /\ DOMAIN q[k] = 1..Len(q[k])
    BY <2>1, EmptySeq
  <2>3. Ahead(d, k, Len(q[k]))
    BY <2>2 DEF Ahead
  <2>4. \A l \in DOMAIN q[k] : q[k][l] \in Units
    BY <2>1, <2>2, ElementOfSeq
  <2> QED
    BY <2>2, <2>3, <2>4
<1>3. LeftIn(q, d) \subseteq Units
  BY <1>1, <1>2 DEF LeftIn
<1>4. IsFiniteSet(LeftIn(q, d)) /\ Cardinality(LeftIn(q, d)) \in Nat
  BY <1>3, StageAssumption, FS_Subset, FS_CardinalityType
<1>5. \A k \in 1..n : last[k] \in LeftIn(q, d)
  BY <1>1, <1>2 DEF LeftIn
<1>6. \A k, m \in 1..n : last[k] = last[m] => k = m
  BY <1>1, <1>2 DEF Shares
<1>7. last \in Injection(1..n, LeftIn(q, d))
  BY <1>5, <1>6 DEF Injection, IsInjective
<1> HIDE DEF last, n
<1>8. Cardinality(1..n) <= Cardinality(LeftIn(q, d))
  BY <1>1, <1>4, <1>7, FS_Injection
<1>9. Cardinality(1..n) = n
  BY <1>1, FS_Interval
<1> QED
  BY <1>4, <1>8, <1>9 DEF n

Debt(t) == IF t.owed = 0 THEN 0 ELSE 1

\* The methods of its batch that a task has no outcome of.
ToReview(t, batch) == UnitsOf(batch) \ UnitsOf(t.outs)

\* What a task has ahead of it is a number, of what it has yet to review.
LEMMA TaskCounts ==
  ASSUME NEW t, TaskOK(t), NEW batch, Owns(t, batch)
  PROVE  LET l == Cardinality(ToReview(t, batch))
         IN  /\ TaskAhead(t) \in Nat
             /\ t.st # "run" => TaskAhead(t) = Debt(t)
             /\ t.st = "run" =>
                  /\ IsFiniteSet(ToReview(t, batch)) /\ l \in Nat
                  /\ Len(t.queue) \in Nat /\ 1 <= Len(t.queue) /\ Len(t.queue) <= l
                  /\ t.calls \in Nat
                  /\ TaskAhead(t) = Attempts(l, Len(t.queue), t.calls) + Debt(t)
<1> DEFINE left == LeftIn(t.queue, t.done)
           attempts == 2 * Cardinality(left) - Len(t.queue)
           calls == IF t.calls < MaxCalls THEN MaxCalls - t.calls ELSE 0
<1>1. Debt(t) \in {0, 1}
  BY DEF Debt
<1>2. TaskAhead(t) = (IF t.st = "run" THEN AttemptSteps * attempts + 2 * calls ELSE 0) + Debt(t)
  BY DEF TaskAhead, Debt
<1>3. left = ToReview(t, batch)
  BY DEF Owns, Shares, ToReview
<1>4. ASSUME t.st = "run"
      PROVE  LET l == Cardinality(ToReview(t, batch))
             IN  /\ IsFiniteSet(ToReview(t, batch)) /\ l \in Nat
                 /\ Len(t.queue) \in Nat /\ 1 <= Len(t.queue) /\ Len(t.queue) <= l
                 /\ t.calls \in Nat
                 /\ TaskAhead(t) = Attempts(l, Len(t.queue), t.calls) + Debt(t)
  <2>1. /\ t.queue \in Seq(Seq(Units)) /\ t.queue # << >> /\ \A k \in DOMAIN t.queue : t.queue[k] # << >>
        /\ t.done \in Nat /\ t.done < Len(t.queue[1]) /\ t.calls \in Nat
    BY <1>4 DEF TaskOK
  <2>2. Len(t.queue) \in Nat /\ 1 <= Len(t.queue)
    BY <2>1, EmptySeq
  <2>3. IsFiniteSet(left) /\ Cardinality(left) \in Nat /\ Len(t.queue) <= Cardinality(left)
    BY <2>1, BatchesLeft DEF Owns
  <2> HIDE DEF left
  <2>4. TaskAhead(t) = Attempts(Cardinality(left), Len(t.queue), t.calls) + Debt(t)
    BY <1>2, <1>4 DEF Attempts
  <2> QED
    BY <1>3, <2>1, <2>2, <2>3, <2>4
<1>5. ASSUME t.st # "run"
      PROVE  TaskAhead(t) = Debt(t)
  <2> HIDE DEF attempts, calls
  <2> QED
    BY <1>1, <1>2, <1>5
<1>6. TaskAhead(t) \in Nat
  <2>1. CASE t.st = "run"
    <3> DEFINE l == Cardinality(ToReview(t, batch))
               n == Len(t.queue)
               c == t.calls
    <3>1. /\ l \in Nat /\ n \in Nat /\ 1 <= n /\ n <= l /\ c \in Nat
          /\ TaskAhead(t) = Attempts(l, n, c) + Debt(t)
      BY <1>4, <2>1
    <3> HIDE DEF l, n, c
    <3>2. Attempts(l, n, c) \in Nat
      BY <3>1, AttemptsFall
    <3> QED
      BY <1>1, <3>1, <3>2
  <2>2. CASE t.st # "run"
    BY <1>1, <1>5, <2>2
  <2> QED
    BY <2>1, <2>2
<1> QED
  BY <1>4, <1>5, <1>6

\* An outcome more is a method less.
LEMMA OneReviewed ==
  ASSUME NEW x, x.outs \in Seq(Out), NEW t, NEW batch, IsFiniteSet(ToReview(x, batch)),
         NEW o \in Out, o.unit \in ToReview(x, batch), t.outs = Append(x.outs, o)
  PROVE  Cardinality(ToReview(t, batch)) = Cardinality(ToReview(x, batch)) - 1
<1>1. UnitsOf(t.outs) = UnitsOf(x.outs) \cup {o.unit}
  BY AppendedOut
<1>2. ToReview(t, batch) = ToReview(x, batch) \ {o.unit}
  BY <1>1 DEF ToReview
<1> QED
  BY <1>2, FS_RemoveElement

\* A step of a task that is not a charge.
TaskMoves(x, t, batch) ==
  \/ t.st # "run" /\ t.owed = 0
  \/ /\ t.st = "run" /\ t.outs = x.outs /\ Len(t.queue) = Len(x.queue)
     /\ x.calls < MaxCalls /\ t.calls = x.calls + 1
  \/ /\ t.st = "run" /\ t.outs = x.outs /\ Len(t.queue) = Len(x.queue) + 1
     /\ t.calls = 0 /\ t.owed = 0
  \/ /\ t.st = "run" /\ t.owed = 0
     /\ \E o \in Out : o.unit \in ToReview(x, batch) /\ t.outs = Append(x.outs, o)
     /\ \/ Len(t.queue) = Len(x.queue) /\ t.calls = x.calls
        \/ Len(t.queue) = Len(x.queue) - 1 /\ t.calls = 0

LEMMA TaskFalls ==
  ASSUME NEW x, TaskOK(x), NEW t, TaskOK(t), NEW batch, Owns(x, batch), Owns(t, batch),
         x.st = "run", x.owed = 0, TaskMoves(x, t, batch)
  PROVE  TaskAhead(t) < TaskAhead(x)
<1> DEFINE l == Cardinality(ToReview(x, batch))
           m == Cardinality(ToReview(t, batch))
           n == Len(x.queue)
           c == x.calls
<1>1. /\ IsFiniteSet(ToReview(x, batch)) /\ l \in Nat /\ n \in Nat /\ 1 <= n /\ n <= l /\ c \in Nat
      /\ TaskAhead(x) = Attempts(l, n, c)
  <2>1. Debt(x) = 0
    BY DEF Debt
  <2>2. /\ IsFiniteSet(ToReview(x, batch)) /\ l \in Nat /\ n \in Nat /\ 1 <= n /\ n <= l /\ c \in Nat
        /\ TaskAhead(x) = Attempts(l, n, c) + Debt(x) /\ TaskAhead(x) \in Nat
    BY TaskCounts
  <2> HIDE DEF l, n, c
  <2>3. Attempts(l, n, c) \in Nat
    BY <2>2, AttemptsFall
  <2> QED
    BY <2>1, <2>2, <2>3
<1>2. /\ t.st # "run" => TaskAhead(t) = Debt(t)
      /\ t.st = "run" => TaskAhead(t) = Attempts(m, Len(t.queue), t.calls) + Debt(t)
      /\ t.owed = 0 => Debt(t) = 0
      /\ Debt(t) \in {0, 1} /\ TaskAhead(t) \in Nat
  <2>1. (t.owed = 0 => Debt(t) = 0) /\ Debt(t) \in {0, 1}
    BY DEF Debt
  <2> QED
    BY <2>1, TaskCounts
<1>3. t.outs = x.outs => m = l
  BY DEF ToReview
<1>4. ASSUME NEW o \in Out, o.unit \in ToReview(x, batch), t.outs = Append(x.outs, o)
      PROVE  m = l - 1
  BY <1>1, <1>4, OneReviewed DEF TaskOK
<1> HIDE DEF l, m, n, c
<1>5. /\ Attempts(l, n, c) \in Nat /\ 1 <= Attempts(l, n, c)
      /\ c < MaxCalls => Attempts(l, n, c + 1) + 1 < Attempts(l, n, c)
      /\ Attempts(l - 1, n, c) < Attempts(l, n, c)
      /\ Attempts(l - 1, n - 1, 0) < Attempts(l, n, c)
      /\ Attempts(l, n + 1, 0) < Attempts(l, n, c)
  BY <1>1, AttemptsFall
<1>6. CASE t.st # "run" /\ t.owed = 0
  BY <1>1, <1>2, <1>5, <1>6
<1>7. CASE /\ t.st = "run" /\ t.outs = x.outs /\ Len(t.queue) = Len(x.queue)
           /\ x.calls < MaxCalls /\ t.calls = x.calls + 1
  <2>1. TaskAhead(t) = Attempts(l, n, c + 1) + Debt(t) /\ c < MaxCalls
    BY <1>2, <1>3, <1>7 DEF n, c
  <2>2. Attempts(l, n, c + 1) \in Int
    BY <1>1, AttemptsAreWhole
  <2> QED
    BY <1>1, <1>2, <1>5, <2>1, <2>2
<1>8. CASE /\ t.st = "run" /\ t.outs = x.outs /\ Len(t.queue) = Len(x.queue) + 1
           /\ t.calls = 0 /\ t.owed = 0
  <2>1. TaskAhead(t) = Attempts(l, n + 1, 0) + 0
    BY <1>2, <1>3, <1>8 DEF n
  <2>2. Attempts(l, n + 1, 0) \in Int
    BY <1>1, AttemptsAreWhole
  <2> QED
    BY <1>1, <1>5, <2>1, <2>2
<1>9. CASE /\ t.st = "run" /\ t.owed = 0
           /\ \E o \in Out : o.unit \in ToReview(x, batch) /\ t.outs = Append(x.outs, o)
           /\ \/ Len(t.queue) = Len(x.queue) /\ t.calls = x.calls
              \/ Len(t.queue) = Len(x.queue) - 1 /\ t.calls = 0
  <2>1. m = l - 1
    BY <1>4, <1>9
  <2>2. \/ TaskAhead(t) = Attempts(l - 1, n, c) + 0
        \/ TaskAhead(t) = Attempts(l - 1, n - 1, 0) + 0
    BY <1>2, <1>9, <2>1 DEF n, c
  <2>3. Attempts(l - 1, n, c) \in Int /\ Attempts(l - 1, n - 1, 0) \in Int
    <3>1. l - 1 \in Int /\ n \in Int /\ n - 1 \in Int /\ c \in Int /\ 0 \in Int
      BY <1>1
    <3>2. Attempts(l - 1, n, c) \in Int
      BY <3>1, AttemptsAreWhole
    <3>3. Attempts(l - 1, n - 1, 0) \in Int
      BY <3>1, AttemptsAreWhole
    <3> QED
      BY <3>2, <3>3
  <2> QED
    BY <1>1, <1>5, <2>2, <2>3
<1> QED
  BY <1>6, <1>7, <1>8, <1>9 DEF TaskMoves

\* What is ahead of the batches, and of the look-up, is a number.
BatchesCount == \A j \in DOMAIN batches : BatchAhead(j) \in Nat

LEMMA Counted == StageInv /\ WorkInv => BatchesCount /\ LookUpsAhead \in Nat
<1> SUFFICES ASSUME StageInv, WorkInv PROVE BatchesCount /\ LookUpsAhead \in Nat
  OBVIOUS
<1>1. RunTyped
  BY DEF StageInv
<1>2. LookUpsAhead \in Nat
  <2>1. Len(todo) \in Nat
    BY <1>1 DEF RunTyped, QueueTyped
  <2> QED
    BY <2>1 DEF LookUpsAhead
<1>3. ASSUME NEW j \in DOMAIN batches
      PROVE  BatchAhead(j) \in Nat
  <2> DEFINE n == Len(batches[j])
             w == 2 * AttemptSteps * n
  <2>1. batches[j] \in Seq(Jobs) /\ n \in Nat
    BY <1>1, <1>3 DEF RunTyped, BatchesTyped, Filled
  <2>2. w \in Nat
    BY <2>1, CallsAssumption DEF AttemptSteps
  <2>3. IsFiniteSet(Unpersisted) /\ Cardinality(Unpersisted) \in Nat
    <3>1. joinedOuts \in Seq(Out)
      BY <1>1 DEF RunTyped, JoinedTyped
    <3>2. DOMAIN joinedOuts = 1..Len(joinedOuts) /\ Len(joinedOuts) \in Nat
      BY <3>1
    <3>3. IsFiniteSet(DOMAIN joinedOuts)
      BY <3>2, FS_Interval
    <3> QED
      BY <3>3, FS_Subset, FS_CardinalityType DEF Unpersisted
  <2>4. ASSUME j \in DOMAIN tasks PROVE TaskAhead(tasks[j]) \in Nat
    <3>1. TaskOK(tasks[j]) /\ proc \in {"running", "aborting"}
      BY <1>1, <2>4, TaskParts
    <3>2. Owns(tasks[j], batches[j])
      BY <2>4, <3>1 DEF WorkInv, BatchWork, Afterwards
    <3> QED
      BY <3>1, <3>2, TaskCounts
  <2>5. BatchAhead(j) = IF j \in pending THEN w + n + 2
                        ELSE IF j \in DOMAIN tasks THEN TaskAhead(tasks[j]) + n + 2
                        ELSE IF j = joined THEN Cardinality(Unpersisted) + 1 ELSE 0
    BY DEF BatchAhead
  <2> HIDE DEF n, w
  <2> QED
    BY <2>1, <2>2, <2>3, <2>4, <2>5
<1> QED
  BY <1>2, <1>3 DEF BatchesCount

\* One batch has less ahead of it, and everything else is as it was.
LEMMA OneBatch ==
  ASSUME BatchesCount, NEW i \in DOMAIN batches, BatchAhead(i)' \in Nat, BatchAhead(i)' < BatchAhead(i),
         \A j \in DOMAIN batches : j # i => BatchAhead(j)' = BatchAhead(j),
         UNCHANGED <<proc, todo, copying, batches>>
  PROVE  Nearer
<1>1. StagesAhead' = StagesAhead /\ LookUpsAhead' = LookUpsAhead
  BY DEF StagesAhead, LookUpsAhead
<1>2. BatchAhead(i)' <= BatchAhead(i)
  BY DEF BatchesCount
<1>3. \A j \in DOMAIN batches : BatchAhead(j)' <= BatchAhead(j)
  BY <1>2 DEF BatchesCount
<1> QED
  BY <1>1, <1>3 DEF Nearer

\* A task has less ahead of it.
LEMMA OneTask ==
  ASSUME StageInv, WorkInv, NEW i \in DOMAIN tasks, NEW t,
         tasks' = [tasks EXCEPT ![i] = t], TaskAhead(t) \in Nat,
         TaskAhead(t) < TaskAhead(tasks[i]), TaskAhead(tasks[i]) \in Nat,
         UNCHANGED <<proc, todo, copying, batches, pending, joined, joinedOuts>>
  PROVE  Nearer
<1>1. i \in DOMAIN batches /\ i \notin pending /\ batches[i] \in Seq(Jobs)
  BY TaskParts DEF StageInv, WorkInv, BatchWork, BatchPlaces, Afterwards, RunTyped, BatchesTyped, Filled
<1>2. /\ DOMAIN tasks' = DOMAIN tasks /\ tasks'[i] = t
      /\ \A j \in DOMAIN tasks : j # i => tasks'[j] = tasks[j]
  OBVIOUS
<1>3. Len(batches[i]) \in Nat
  BY <1>1
<1>4. BatchAhead(i)' = TaskAhead(t) + Len(batches[i]) + 2
  BY <1>1, <1>2 DEF BatchAhead
<1>5. BatchAhead(i) = TaskAhead(tasks[i]) + Len(batches[i]) + 2
  BY <1>1 DEF BatchAhead
<1>6. BatchAhead(i)' < BatchAhead(i) /\ BatchAhead(i)' \in Nat
  BY <1>3, <1>4, <1>5
<1>7. \A j \in DOMAIN batches : j # i => BatchAhead(j)' = BatchAhead(j)
  BY <1>2 DEF BatchAhead, Unpersisted
<1>8. BatchesCount
  BY Counted
<1> QED
  BY <1>1, <1>6, <1>7, <1>8, OneBatch

\* The fields of a task that makes a call, is charged, or fails.
LEMMA FieldsChanged ==
  ASSUME NEW x, TaskOK(x)
  PROVE  /\ \A c : LET t == [x EXCEPT !.calls = @ + 1, !.owed = c]
                   IN  t.queue = x.queue /\ t.outs = x.outs /\ t.calls = x.calls + 1
                       /\ t.st = x.st
         /\ LET t == [x EXCEPT !.owed = 0]
            IN  t.queue = x.queue /\ t.outs = x.outs /\ t.calls = x.calls /\ t.st = x.st
                /\ t.done = x.done /\ t.owed = 0
         /\ \A s : LET t == [x EXCEPT !.st = s] IN  t.st = s /\ t.owed = x.owed
<1>1. PICK q, d, c, o, outs, st :
        x = [queue |-> q, done |-> d, calls |-> c, owed |-> o, outs |-> outs, st |-> st]
  BY DEF TaskOK
<1>2. ASSUME NEW k
      PROVE  LET t == [x EXCEPT !.calls = @ + 1, !.owed = k]
             IN  t.queue = x.queue /\ t.outs = x.outs /\ t.calls = x.calls + 1 /\ t.st = x.st
  <2> DEFINE y == [x EXCEPT !.calls = @ + 1]
             t == [y EXCEPT !.owed = k]
  <2>1. y = [queue |-> q, done |-> d, calls |-> c + 1, owed |-> o, outs |-> outs, st |-> st]
    BY <1>1
  <2>2. [x EXCEPT !.calls = @ + 1, !.owed = k] = t
    OBVIOUS
  <2> HIDE DEF y
  <2>3. t = [queue |-> q, done |-> d, calls |-> c + 1, owed |-> k, outs |-> outs, st |-> st]
    BY <2>1
  <2> HIDE DEF t
  <2>4. t.queue = q /\ t.outs = outs /\ t.calls = c + 1 /\ t.st = st
    BY <2>3
  <2>5. x.queue = q /\ x.outs = outs /\ x.calls = c /\ x.st = st
    BY <1>1
  <2> QED
    BY <2>2, <2>4, <2>5
<1>3. LET t == [x EXCEPT !.owed = 0]
      IN  t.queue = x.queue /\ t.outs = x.outs /\ t.calls = x.calls /\ t.st = x.st
          /\ t.done = x.done /\ t.owed = 0
  BY <1>1
<1>4. ASSUME NEW s
      PROVE  LET t == [x EXCEPT !.st = s] IN  t.st = s /\ t.owed = x.owed
  BY <1>1
<1> QED
  BY <1>2, <1>3, <1>4

\* What a step of a task leaves, given that it is one.
LEMMA MoveNearer ==
  ASSUME StageInv, WorkInv, StageInv', WorkInv', NEW i \in DOMAIN tasks, NEW t,
         Working(i), TaskStep(i, t), TaskMoves(tasks[i], t, batches[i])
  PROVE  Nearer
<1>1. /\ tasks' = [tasks EXCEPT ![i] = t]
      /\ UNCHANGED <<proc, todo, copying, batches, pending, joined, joinedOuts>>
  BY DEF TaskStep
<1>2. DOMAIN tasks' = DOMAIN tasks /\ tasks'[i] = t
  BY <1>1
<1>3. TaskOK(tasks[i]) /\ TaskOK(t) /\ proc \in {"running", "aborting"} /\ proc' = proc
  BY <1>1, <1>2 DEF StageInv, RunTyped, TasksTyped
<1>4. Owns(tasks[i], batches[i]) /\ Owns(t, batches[i])
  BY <1>1, <1>2, <1>3 DEF WorkInv, BatchWork, Afterwards
<1>5. tasks[i].st = "run" /\ tasks[i].owed = 0
  BY DEF Working
<1>6. TaskAhead(t) < TaskAhead(tasks[i])
  BY <1>3, <1>4, <1>5, TaskFalls
<1>7. TaskAhead(t) \in Nat /\ TaskAhead(tasks[i]) \in Nat
  BY <1>3, <1>4, TaskCounts
<1> QED
  BY <1>1, <1>6, <1>7, OneTask

\* Calls, charges and failures.
LEMMA CallNearer ==
  ASSUME StageInv, WorkInv, StageInv', WorkInv', NEW i \in DOMAIN tasks,
         \/ \E c \in Costs : ModelCall(i, c)
         \/ Charge(i) \/ CallbackFails(i)
         \/ \E st \in {"err", "panic"} : TaskFails(i, st)
  PROVE  Nearer
<1>1. TaskOK(tasks[i]) /\ i \in DOMAIN batches /\ proc \in {"running", "aborting"}
  BY TaskParts DEF StageInv
<1>2. CASE \E c \in Costs : ModelCall(i, c)
  <2>1. PICK c \in Costs : /\ Working(i) /\ tasks[i].calls < MaxCalls
                           /\ TaskStep(i, [tasks[i] EXCEPT !.calls = @ + 1, !.owed = c])
    BY <1>2 DEF ModelCall
  <2> DEFINE t == [tasks[i] EXCEPT !.calls = @ + 1, !.owed = c]
  <2>2. /\ t.queue = tasks[i].queue /\ t.outs = tasks[i].outs
        /\ t.calls = tasks[i].calls + 1 /\ t.st = tasks[i].st
    BY <1>1, FieldsChanged
  <2>3. TaskStep(i, t)
    BY <2>1
  <2> HIDE DEF t
  <2>4. TaskMoves(tasks[i], t, batches[i])
    BY <2>1, <2>2 DEF TaskMoves, Working
  <2> QED
    BY <2>1, <2>3, <2>4, MoveNearer
<1>3. CASE Charge(i)
  <2> DEFINE x == tasks[i]
             t == [x EXCEPT !.owed = 0]
  <2>1. /\ t.queue = x.queue /\ t.outs = x.outs /\ t.calls = x.calls /\ t.st = x.st
        /\ t.done = x.done /\ t.owed = 0
    BY <1>1, FieldsChanged
  <2>2. x.owed # 0 /\ tasks' = [tasks EXCEPT ![i] = t]
        /\ UNCHANGED <<proc, todo, copying, batches, pending, joined, joinedOuts>>
    BY <1>3 DEF Charge
  <2>3. DOMAIN tasks' = DOMAIN tasks /\ tasks'[i] = t
    BY <2>2
  <2> HIDE DEF t
  <2>4. TaskOK(t) /\ Owns(x, batches[i]) /\ Owns(t, batches[i])
    BY <1>1, <2>2, <2>3 DEF StageInv, RunTyped, TasksTyped, WorkInv, BatchWork, Afterwards
  <2>5. TaskAhead(x) \in Nat /\ TaskAhead(t) \in Nat
    BY <1>1, <2>4, TaskCounts
  <2> HIDE DEF x
  <2>6. TaskAhead(x) = TaskAhead(t) + 1
    <3> DEFINE a == IF x.st = "run"
                      THEN AttemptSteps * (2 * Cardinality(LeftIn(x.queue, x.done)) - Len(x.queue))
                           + 2 * (IF x.calls < MaxCalls THEN MaxCalls - x.calls ELSE 0)
                      ELSE 0
    <3>1. TaskAhead(x) = a + 1
      BY <2>2 DEF TaskAhead
    <3>2. TaskAhead(t) = a + 0
      BY <2>1 DEF TaskAhead
    <3>3. a \in Int
      <4>1. CASE x.st = "run"
        <5>1. x.queue \in Seq(Seq(Units)) /\ x.calls \in Nat /\ (\A k \in DOMAIN x.queue : x.queue[k] # << >>)
              /\ x.done \in Nat /\ x.done < Len(x.queue[1])
          BY <1>1, <4>1 DEF x, TaskOK
        <5>2. Cardinality(LeftIn(x.queue, x.done)) \in Nat /\ Len(x.queue) \in Nat
          BY <2>4, <5>1, BatchesLeft, SMTT(30) DEF Owns
        <5> DEFINE l == Cardinality(LeftIn(x.queue, x.done))
                   n == Len(x.queue)
                   c == x.calls
        <5>3. a = Attempts(l, n, c)
          BY <4>1 DEF Attempts
        <5>4. l \in Int /\ n \in Int /\ c \in Int
          BY <5>1, <5>2
        <5> HIDE DEF a, l, n, c
        <5> QED
          BY <5>3, <5>4, AttemptsAreWhole
      <4>2. CASE x.st # "run"
        BY <4>2
      <4> QED
        BY <4>1, <4>2
    <3> HIDE DEF a
    <3> QED
      BY <3>1, <3>2, <3>3
  <2>7. TaskAhead(t) < TaskAhead(tasks[i]) /\ TaskAhead(tasks[i]) \in Nat
    BY <2>5, <2>6 DEF x
  <2> QED
    BY <2>2, <2>5, <2>7, OneTask
<1>4. CASE CallbackFails(i) \/ \E st \in {"err", "panic"} : TaskFails(i, st)
  <2>1. PICK st \in {"err", "panic"} : Working(i) /\ TaskStep(i, [tasks[i] EXCEPT !.st = st])
    BY <1>4 DEF CallbackFails, TaskFails
  <2> DEFINE t == [tasks[i] EXCEPT !.st = st]
  <2>2. t.st = st /\ t.owed = tasks[i].owed
    BY <1>1, FieldsChanged
  <2>3. TaskStep(i, t)
    BY <2>1
  <2> HIDE DEF t
  <2>4. TaskMoves(tasks[i], t, batches[i])
    BY <2>1, <2>2 DEF TaskMoves, Working
  <2> QED
    BY <2>1, <2>3, <2>4, MoveNearer
<1> QED
  BY <1>2, <1>3, <1>4

\* The next batch of a task: nothing is called, and nothing owed, for it yet.
LEMMA NextBatchCounts ==
  ASSUME NEW x, NEW q, NEW outs
  PROVE  LET t == NextBatch(x, q, outs)
         IN  /\ t.queue = q /\ t.outs = outs /\ t.calls = 0 /\ t.owed = 0
             /\ t.st = IF q = << >> THEN "ok" ELSE "run"
<1> DEFINE s == IF q = << >> THEN "ok" ELSE "run"
           t == NextBatch(x, q, outs)
<1>1. t = [queue |-> q, done |-> 0, calls |-> 0, owed |-> 0, outs |-> outs, st |-> s]
  BY DEF NextBatch
<1> HIDE DEF s, t
<1>2. t.queue = q /\ t.outs = outs /\ t.calls = 0 /\ t.owed = 0 /\ t.st = s
  BY <1>1
<1> QED
  BY <1>2 DEF s, t

\* A method that gets its outcome is one of those to review.
LEMMA DoneMoves ==
  ASSUME NEW x, TaskOK(x), x.st = "run", NEW batch, Owns(x, batch),
         NEW o \in Out, o.unit = x.queue[1][x.done + 1],
         NEW t, t.outs = Append(x.outs, o), t.owed = 0,
         \/ t.st = "run" /\ t.queue = x.queue /\ t.calls = x.calls
         \/ /\ t.queue = Tail(x.queue) /\ t.calls = 0
            /\ t.st = IF Tail(x.queue) = << >> THEN "ok" ELSE "run"
  PROVE  TaskMoves(x, t, batch)
<1> DEFINE q == x.queue
           d == x.done
<1>1. /\ q \in Seq(Seq(Units)) /\ q # << >> /\ (\A k \in DOMAIN q : q[k] # << >>)
      /\ d \in Nat /\ d < Len(q[1])
  BY DEF TaskOK
<1>2. Shares(q, d, x.outs, UnitsOf(batch))
  BY DEF Owns
<1>3. o.unit \in LeftIn(q, d)
  <2> HIDE DEF q, d
  <2>1. q[1][d + 1] \in LeftIn(q, d)
    BY <1>1, <1>2, LeftAfterOne
  <2> QED
    BY <2>1 DEF q, d
<1>4. o.unit \in ToReview(x, batch)
  BY <1>2, <1>3 DEF Shares, ToReview
<1>5. Len(Tail(q)) = Len(q) - 1
  <2> HIDE DEF q
  <2> QED
    BY <1>1, HeadTailProperties
<1>6. CASE t.st = "run" /\ t.queue = x.queue /\ t.calls = x.calls
  BY <1>4, <1>6 DEF TaskMoves
<1>7. CASE /\ t.queue = Tail(x.queue) /\ t.calls = 0
           /\ t.st = IF Tail(x.queue) = << >> THEN "ok" ELSE "run"
  <2>1. CASE Tail(x.queue) = << >>
    <3>1. t.st # "run" /\ t.owed = 0
      BY <1>7, <2>1
    <3> QED
      BY <3>1 DEF TaskMoves
  <2>2. CASE Tail(x.queue) # << >>
    <3>1. t.st = "run" /\ Len(t.queue) = Len(x.queue) - 1 /\ t.calls = 0
      BY <1>5, <1>7, <2>2
    <3> QED
      BY <1>4, <3>1 DEF TaskMoves
  <2> QED
    BY <2>1, <2>2
<1> QED
  BY <1>6, <1>7

\* A task, its work, and the batch it is for.
LEMMA WorkingTask ==
  ASSUME StageInv, WorkInv, NEW i \in DOMAIN tasks, Working(i)
  PROVE  /\ TaskOK(tasks[i]) /\ Owns(tasks[i], batches[i])
         /\ tasks[i].st = "run" /\ tasks[i].owed = 0
<1>1. TaskOK(tasks[i]) /\ proc \in {"running", "aborting"}
  BY TaskParts DEF StageInv
<1>2. Owns(tasks[i], batches[i])
  BY <1>1 DEF WorkInv, BatchWork, Afterwards
<1> QED
  BY <1>1, <1>2 DEF Working

LEMMA ItemNearer ==
  ASSUME StageInv, WorkInv, StageInv', WorkInv', NEW i \in DOMAIN tasks, NEW r \in BOOLEAN,
         ItemComplete(i, r)
  PROVE  Nearer
<1> DEFINE x == tasks[i]
           o == [unit |-> x.queue[1][x.done + 1], retry |-> r, persisted |-> TRUE]
           outs == Append(x.outs, o)
           next == NextBatch(x, Tail(x.queue), outs)
           same == [x EXCEPT !.done = @ + 1, !.outs = outs]
           t == IF x.done + 1 = Len(x.queue[1]) THEN next ELSE same
<1>1. Working(i) /\ TaskStep(i, t)
  BY DEF ItemComplete
<1>2. TaskOK(x) /\ Owns(x, batches[i]) /\ x.st = "run" /\ x.owed = 0
  BY <1>1, WorkingTask
<1>3. o \in Out /\ o.unit = x.queue[1][x.done + 1]
  <2>1. x.queue[1][x.done + 1] \in Units
    BY <1>2, TaskParts DEF StageInv
  <2> HIDE DEF x
  <2> QED
    BY <2>1 DEF Out
<1>4. PICK q, d, c, w, u :
        x = [queue |-> q, done |-> d, calls |-> c, owed |-> w, outs |-> u, st |-> "run"]
  BY <1>2 DEF TaskOK
<1> HIDE DEF o, outs, x
<1>5. /\ next.queue = Tail(x.queue) /\ next.outs = outs /\ next.calls = 0 /\ next.owed = 0
      /\ next.st = IF Tail(x.queue) = << >> THEN "ok" ELSE "run"
  <2> DEFINE rest == Tail(x.queue)
  <2>1. next = NextBatch(x, rest, outs)
    OBVIOUS
  <2> HIDE DEF next, rest
  <2>2. /\ next.queue = rest /\ next.outs = outs /\ next.calls = 0 /\ next.owed = 0
        /\ next.st = IF rest = << >> THEN "ok" ELSE "run"
    BY <2>1, NextBatchCounts
  <2> QED
    BY <2>2 DEF rest
<1>6. /\ same.queue = x.queue /\ same.outs = outs /\ same.calls = x.calls /\ same.owed = x.owed
      /\ same.st = x.st
  <2>1. ASSUME NEW k
        PROVE  [x EXCEPT !.done = k, !.outs = outs]
                 = [queue |-> q, done |-> k, calls |-> c, owed |-> w, outs |-> outs, st |-> "run"]
    <3> DEFINE y == [x EXCEPT !.done = k]
    <3>1. y = [queue |-> q, done |-> k, calls |-> c, owed |-> w, outs |-> u, st |-> "run"]
      BY <1>4
    <3>2. [x EXCEPT !.done = k, !.outs = outs] = [y EXCEPT !.outs = outs]
      OBVIOUS
    <3> HIDE DEF y
    <3> QED
      BY <3>1, <3>2
  <2>2. x.done = d /\ x.queue = q /\ x.calls = c /\ x.owed = w /\ x.st = "run"
    BY <1>4
  <2>3. same = [x EXCEPT !.done = d + 1, !.outs = outs]
    BY <2>2
  <2>4. same = [queue |-> q, done |-> d + 1, calls |-> c, owed |-> w, outs |-> outs, st |-> "run"]
    BY <2>1, <2>3
  <2> HIDE DEF same
  <2>5. same.queue = q /\ same.outs = outs /\ same.calls = c /\ same.owed = w /\ same.st = "run"
    BY <2>4
  <2> QED
    BY <2>2, <2>5
<1> HIDE DEF next, same
<1>7. TaskMoves(x, next, batches[i])
  BY <1>2, <1>3, <1>5, DoneMoves DEF outs
<1>8. TaskMoves(x, same, batches[i])
  BY <1>2, <1>3, <1>6, DoneMoves DEF outs
<1>9. TaskMoves(x, t, batches[i])
  BY <1>7, <1>8
<1> HIDE DEF t
<1>10. TaskMoves(tasks[i], t, batches[i])
  BY <1>9 DEF x
<1> QED
  BY <1>1, <1>10, MoveNearer

LEMMA BatchFailsNearer ==
  ASSUME StageInv, WorkInv, StageInv', WorkInv', NEW i \in DOMAIN tasks, BatchFails(i)
  PROVE  Nearer
<1> DEFINE x == tasks[i]
           batch == x.queue[1]
           half == Len(batch) \div 2
           a == SubSeq(batch, 1, half)
           b == SubSeq(batch, half + 1, Len(batch))
           o == [unit |-> batch[1], retry |-> TRUE, persisted |-> FALSE]
<1>0. Working(i)
  BY DEF BatchFails
<1>1. TaskOK(x) /\ Owns(x, batches[i]) /\ x.st = "run" /\ x.owed = 0
  BY <1>0, WorkingTask
<1>2. /\ batch \in Seq(Units) /\ x.queue # << >> /\ x.outs \in Seq(Out)
      /\ x.queue \in Seq(Seq(Units)) /\ (\A k \in DOMAIN x.queue : x.queue[k] # << >>)
  BY <1>1, TaskParts DEF TaskOK, StageInv
<1>3. CASE /\ x.done = 0 /\ Len(batch) > 1
           /\ TaskStep(i, NextBatch(x, <<a, b>> \o Tail(x.queue), x.outs))
  <2> DEFINE q == x.queue
             s == <<a, b>> \o Tail(q)
             t == NextBatch(x, s, x.outs)
  <2>1. a \in Seq(Units) /\ b \in Seq(Units) /\ a # << >> /\ b # << >>
    BY <1>2, <1>3, Halves
  <2>2. q \in Seq(Seq(Units)) /\ q # << >> /\ (\A k \in DOMAIN q : q[k] # << >>)
    BY <1>2
  <2>3. s = <<a, b>> \o Tail(q)
    OBVIOUS
  <2>4. /\ t.queue = s /\ t.outs = x.outs /\ t.calls = 0 /\ t.owed = 0
        /\ t.st = (IF s = << >> THEN "ok" ELSE "run") /\ TaskStep(i, t)
    <3>1. TaskStep(i, t)
      BY <1>3
    <3>2. t = NextBatch(x, s, x.outs)
      OBVIOUS
    <3> HIDE DEF s, x, t
    <3> QED
      BY <3>1, <3>2, NextBatchCounts
  <2>5. x.queue = q
    OBVIOUS
  <2> HIDE DEF a, b, q, s, half, batch, t, x
  <2>6. s \in Seq(Seq(Units)) /\ DOMAIN s = 1..(Len(q) + 1) /\ s[1] = a
    BY <2>1, <2>2, <2>3, SplitQueue
  <2>7. Len(s) = Len(q) + 1 /\ s # << >>
    <3>1. Len(q) \in Nat
      BY <2>2
    <3>2. Len(s) \in Nat /\ DOMAIN s = 1..Len(s)
      BY <2>6
    <3>3. Len(s) = Len(q) + 1
      BY <2>6, <3>1, <3>2
    <3> QED
      BY <3>1, <3>3
  <2>8. TaskMoves(x, t, batches[i])
    BY <2>4, <2>5, <2>7 DEF TaskMoves
  <2>9. TaskMoves(tasks[i], t, batches[i])
    BY <2>8 DEF x
  <2> QED
    BY <1>0, <2>4, <2>9, MoveNearer
<1>4. CASE /\ x.done = 0 /\ Len(batch) = 1
           /\ TaskStep(i, NextBatch(x, Tail(x.queue), Append(x.outs, o)))
  <2> DEFINE rest == Tail(x.queue)
             outs == Append(x.outs, o)
             t == NextBatch(x, rest, outs)
  <2>1. /\ t.queue = rest /\ t.outs = outs /\ t.calls = 0 /\ t.owed = 0
        /\ t.st = (IF rest = << >> THEN "ok" ELSE "run") /\ TaskStep(i, t)
    <3>1. TaskStep(i, t)
      BY <1>4
    <3>2. t = NextBatch(x, rest, outs)
      OBVIOUS
    <3> HIDE DEF rest, outs, t, x
    <3> QED
      BY <3>1, <3>2, NextBatchCounts
  <2>2. o \in Out /\ o.unit = x.queue[1][x.done + 1]
    <3>1. 1 \in 1..Len(batch)
      BY <1>4
    <3>2. batch[1] \in Units
      BY <1>2, <3>1, ElementOfSeq
    <3>3. x.queue[1][x.done + 1] = batch[1]
      BY <1>4
    <3> HIDE DEF batch
    <3> QED
      BY <3>2, <3>3 DEF Out
  <2>3. rest = Tail(x.queue) /\ outs = Append(x.outs, o)
    OBVIOUS
  <2> HIDE DEF rest, outs, o, t, x
  <2>4. TaskMoves(x, t, batches[i])
    BY <1>1, <2>1, <2>2, <2>3, DoneMoves
  <2>5. TaskMoves(tasks[i], t, batches[i])
    BY <2>4 DEF x
  <2> QED
    BY <1>0, <2>1, <2>5, MoveNearer
<1>5. CASE TaskStep(i, [x EXCEPT !.st = "err"])
  <2> DEFINE t == [x EXCEPT !.st = "err"]
  <2>1. t.st = "err" /\ t.owed = x.owed
    BY <1>1, FieldsChanged
  <2>2. TaskStep(i, t)
    BY <1>5
  <2> HIDE DEF t
  <2>3. TaskMoves(tasks[i], t, batches[i])
    BY <1>1, <2>1 DEF TaskMoves
  <2> QED
    BY <1>0, <2>2, <2>3, MoveNearer
<1> QED
  BY <1>3, <1>4, <1>5 DEF BatchFails

\* A queue counts no fewer elements than units.
LEMMA UnitsAreFew ==
  ASSUME NEW S, NEW seq \in Seq(S)
  PROVE  /\ IsFiniteSet(UnitsOf(seq)) /\ Cardinality(UnitsOf(seq)) \in Nat
         /\ Cardinality(UnitsOf(seq)) <= Len(seq)
<1>1. DOMAIN seq = 1..Len(seq) /\ Len(seq) \in Nat
  OBVIOUS
<1> DEFINE f == [k \in 1..Len(seq) |-> seq[k].unit]
<1>2. IsFiniteSet(1..Len(seq)) /\ Cardinality(1..Len(seq)) = Len(seq)
  BY <1>1, FS_Interval
<1>3. f \in Surjection(1..Len(seq), UnitsOf(seq))
  BY <1>1 DEF Surjection, UnitsOf
<1>4. IsFiniteSet(UnitsOf(seq)) /\ Cardinality(UnitsOf(seq)) <= Cardinality(1..Len(seq))
  BY <1>2, <1>3, FS_Surjection
<1> QED
  BY <1>2, <1>4, FS_CardinalityType

\* The outcomes to persist are no more than the joined batch has methods.
LEMMA FewUnpersisted ==
  ASSUME RunTyped, WorkInv, joined # 0
  PROVE  /\ joined \in DOMAIN batches /\ Len(batches[joined]) \in Nat
         /\ IsFiniteSet(Unpersisted) /\ Cardinality(Unpersisted) \in Nat
         /\ Cardinality(Unpersisted) <= Len(batches[joined])
<1>1. /\ joined \in DOMAIN batches /\ proc = "running" /\ joinedOuts \in Seq(Out)
      /\ batches[joined] \in Seq(Jobs)
  BY DEF RunTyped, JoinedTyped, BatchesTyped, Filled
<1>2. Distinct(joinedOuts) /\ UnitsOf(joinedOuts) = UnitsOf(batches[joined])
  BY <1>1 DEF WorkInv, BatchWork, Afterwards
<1>3. /\ IsFiniteSet(UnitsOf(batches[joined])) /\ Cardinality(UnitsOf(batches[joined])) \in Nat
      /\ Cardinality(UnitsOf(batches[joined])) <= Len(batches[joined])
  BY <1>1, UnitsAreFew
<1> DEFINE f == [k \in Unpersisted |-> joinedOuts[k].unit]
<1>4. f \in Injection(Unpersisted, UnitsOf(batches[joined]))
  <2>1. Unpersisted \subseteq DOMAIN joinedOuts
    BY DEF Unpersisted
  <2>2. \A k \in Unpersisted : f[k] \in UnitsOf(batches[joined])
    BY <1>2, <2>1 DEF UnitsOf
  <2>3. \A k, l \in Unpersisted : f[k] = f[l] => k = l
    BY <1>2, <2>1 DEF Distinct
  <2> QED
    BY <2>2, <2>3 DEF Injection, IsInjective
<1>5. Cardinality(Unpersisted) <= Cardinality(UnitsOf(batches[joined])) /\ IsFiniteSet(Unpersisted)
  <2> HIDE DEF f
  <2> QED
    BY <1>3, <1>4, FS_Injection
<1>6. Cardinality(Unpersisted) \in Nat
  BY <1>5, FS_CardinalityType
<1>7. Len(batches[joined]) \in Nat
  BY <1>1
<1> QED
  BY <1>1, <1>3, <1>5, <1>6, <1>7

\* What is ahead of a batch in each of its places.
BatchParts ==
  /\ \A i \in pending :
       /\ i \in DOMAIN batches
       /\ BatchAhead(i) = 2 * AttemptSteps * Len(batches[i]) + Len(batches[i]) + 2
  /\ \A i \in DOMAIN tasks :
       /\ i \in DOMAIN batches /\ Len(batches[i]) \in Nat
       /\ i \notin pending /\ i # joined
       /\ TaskAhead(tasks[i]) \in Nat
       /\ BatchAhead(i) = TaskAhead(tasks[i]) + Len(batches[i]) + 2
  /\ joined # 0 =>
       /\ joined \in DOMAIN batches /\ Len(batches[joined]) \in Nat
       /\ joined \notin pending /\ joined \notin DOMAIN tasks
       /\ IsFiniteSet(Unpersisted) /\ Cardinality(Unpersisted) \in Nat
       /\ Cardinality(Unpersisted) <= Len(batches[joined])
       /\ BatchAhead(joined) = Cardinality(Unpersisted) + 1

LEMMA PartsCount == StageInv /\ WorkInv => BatchParts
<1> SUFFICES ASSUME StageInv, WorkInv PROVE BatchParts
  OBVIOUS
<1>1. RunTyped
  BY DEF StageInv
<1>2. \A i \in DOMAIN batches : Len(batches[i]) \in Nat
  <2>1. \A i \in DOMAIN batches : batches[i] \in Seq(Jobs)
    BY <1>1 DEF RunTyped, BatchesTyped, Filled
  <2> QED
    BY <2>1
<1>3. \A i \in pending :
        /\ i \in DOMAIN batches
        /\ BatchAhead(i) = 2 * AttemptSteps * Len(batches[i]) + Len(batches[i]) + 2
  BY <1>1 DEF RunTyped, BatchesTyped, BatchAhead
<1>4. ASSUME NEW i \in DOMAIN tasks
      PROVE  /\ i \in DOMAIN batches /\ Len(batches[i]) \in Nat
             /\ i \notin pending /\ i # joined
             /\ TaskAhead(tasks[i]) \in Nat
             /\ BatchAhead(i) = TaskAhead(tasks[i]) + Len(batches[i]) + 2
  <2>1. TaskOK(tasks[i]) /\ i \in DOMAIN batches /\ proc \in {"running", "aborting"}
    BY <1>1, TaskParts
  <2>2. BatchPlaces /\ Owns(tasks[i], batches[i])
    BY <2>1 DEF WorkInv, BatchWork, Afterwards
  <2>3. i \notin pending /\ i # joined
    BY <2>2 DEF BatchPlaces
  <2>4. TaskAhead(tasks[i]) \in Nat
    BY <2>1, <2>2, TaskCounts
  <2> QED
    BY <1>2, <2>1, <2>3, <2>4 DEF BatchAhead
<1>5. ASSUME joined # 0
      PROVE  /\ joined \in DOMAIN batches /\ Len(batches[joined]) \in Nat
             /\ joined \notin pending /\ joined \notin DOMAIN tasks
             /\ IsFiniteSet(Unpersisted) /\ Cardinality(Unpersisted) \in Nat
             /\ Cardinality(Unpersisted) <= Len(batches[joined])
             /\ BatchAhead(joined) = Cardinality(Unpersisted) + 1
  <2>1. proc = "running"
    BY <1>1, <1>5 DEF RunTyped, JoinedTyped
  <2>2. joined \notin pending /\ joined \notin DOMAIN tasks
    BY <2>1 DEF WorkInv, BatchWork, BatchPlaces, Afterwards
  <2>3. BatchAhead(joined) = Cardinality(Unpersisted) + 1
    BY <2>2 DEF BatchAhead
  <2> QED
    BY <1>1, <1>5, <2>2, <2>3, FewUnpersisted
<1> QED
  BY <1>3, <1>4, <1>5 DEF BatchParts

\* The same, behind a step.
LEMMA PartsCountNext ==
  ASSUME StageInv', WorkInv'
  PROVE  BatchesCount' /\ BatchParts'
<1>1. BatchesCount'
  BY Counted, PTL
<1>2. BatchParts'
  BY PartsCount, PTL
<1> QED
  BY <1>1, <1>2

\* A task leaves: what its batch has ahead is at most to be persisted.
LEMMA LeaveNearer ==
  ASSUME StageInv, WorkInv, StageInv', WorkInv', NEW i \in DOMAIN tasks,
         JoinOk(i) \/ JoinErr(i) \/ JoinPanic(i) \/ Drain(i)
  PROVE  Nearer
<1>1. /\ tasks' = [j \in DOMAIN tasks \ {i} |-> tasks[j]]
      /\ UNCHANGED <<proc, todo, copying, batches, pending>>
  BY DEF JoinOk, JoinErr, JoinPanic, Drain, Joining, AtLoop
<1>2. DOMAIN tasks' = DOMAIN tasks \ {i} /\ \A j \in DOMAIN tasks' : tasks'[j] = tasks[j]
  BY <1>1
<1>3. BatchesCount /\ BatchParts /\ BatchesCount' /\ BatchParts'
  BY Counted, PartsCount, PartsCountNext
<1>4. /\ i \in DOMAIN batches /\ Len(batches[i]) \in Nat /\ i \notin pending /\ i # joined
      /\ TaskAhead(tasks[i]) \in Nat
      /\ BatchAhead(i) = TaskAhead(tasks[i]) + Len(batches[i]) + 2
  BY <1>3 DEF BatchParts
<1>5. 0 \notin DOMAIN batches
  <2>1. batches \in Seq(Seq(Jobs))
    BY DEF StageInv, RunTyped, BatchesTyped, Filled
  <2> QED
    BY <2>1
<1>6. CASE JoinOk(i)
  <2>1. joined' = i /\ joined = 0
    BY <1>6 DEF JoinOk, Joining, AtLoop
  <2>2. joined' # 0
    BY <1>4, <1>5, <2>1
  <2>3. /\ Cardinality(Unpersisted') \in Nat /\ Cardinality(Unpersisted') <= Len(batches'[joined'])
        /\ BatchAhead(i)' = Cardinality(Unpersisted') + 1
    <3>1. /\ Cardinality(Unpersisted') \in Nat /\ Cardinality(Unpersisted') <= Len(batches'[joined'])
          /\ BatchAhead(joined)' = Cardinality(Unpersisted') + 1
      BY <1>3, <2>2 DEF BatchParts
    <3>2. BatchAhead(i)' = IF i \in pending' THEN 2 * AttemptSteps * Len(batches'[i]) + Len(batches'[i]) + 2
                           ELSE IF i \in DOMAIN tasks' THEN TaskAhead(tasks'[i]) + Len(batches'[i]) + 2
                           ELSE IF i = joined' THEN Cardinality(Unpersisted') + 1 ELSE 0
      BY DEF BatchAhead
    <3>3. i \notin pending' /\ i \notin DOMAIN tasks'
      BY <1>1, <1>2, <1>4
    <3> QED
      BY <2>1, <3>1, <3>2, <3>3
  <2>4. Cardinality(Unpersisted') <= Len(batches[i])
    BY <1>1, <2>1, <2>3
  <2>5. BatchAhead(i)' \in Nat /\ BatchAhead(i)' < BatchAhead(i)
    BY <1>4, <2>3, <2>4
  <2>6. \A j \in DOMAIN batches : j # i => BatchAhead(j)' = BatchAhead(j)
    BY <1>1, <1>2, <1>5, <2>1 DEF BatchAhead
  <2> QED
    BY <1>1, <1>3, <1>4, <2>5, <2>6, OneBatch
<1>7. CASE JoinErr(i) \/ JoinPanic(i) \/ Drain(i)
  <2>1. UNCHANGED <<joined, joinedOuts>>
    BY <1>7 DEF JoinErr, JoinPanic, Drain, Joining
  <2>2. BatchAhead(i)' = 0
    BY <1>1, <1>2, <1>4, <2>1 DEF BatchAhead
  <2>3. BatchAhead(i)' \in Nat /\ BatchAhead(i)' < BatchAhead(i)
    BY <1>4, <2>2
  <2>4. \A j \in DOMAIN batches : j # i => BatchAhead(j)' = BatchAhead(j)
    BY <1>1, <1>2, <2>1 DEF BatchAhead, Unpersisted
  <2> QED
    BY <1>1, <1>3, <1>4, <2>3, <2>4, OneBatch
<1> QED
  BY <1>6, <1>7

\* A batch is started: its methods are not asked for more often than that.
LEMMA SpawnNearer ==
  ASSUME StageInv, WorkInv, StageInv', WorkInv', NEW i \in pending, StartTask(i)
  PROVE  Nearer
<1>1. /\ pending' = pending \ {i} /\ tasks' = Spawn(i) /\ proc = "running"
      /\ UNCHANGED <<proc, todo, copying, batches, joined, joinedOuts>>
  BY DEF StartTask, AtLoop
<1>2. BatchesCount /\ BatchParts /\ BatchesCount' /\ BatchParts'
  BY Counted, PartsCount, PartsCountNext
<1>3. /\ i \in DOMAIN batches
      /\ BatchAhead(i) = 2 * AttemptSteps * Len(batches[i]) + Len(batches[i]) + 2
  BY <1>2 DEF BatchParts
<1> DEFINE new == NewTask(batches[i])
           l == Cardinality(UnitsOf(batches[i]))
<1>4. /\ DOMAIN tasks' = DOMAIN tasks \cup {i} /\ tasks'[i] = new
      /\ \A j \in DOMAIN tasks : j # i => tasks'[j] = tasks[j]
  <2>1. tasks' = [j \in DOMAIN tasks \cup {i} |-> IF j = i THEN new ELSE tasks[j]]
    BY <1>1 DEF Spawn
  <2> HIDE DEF new
  <2>2. DOMAIN tasks' = DOMAIN tasks \cup {i}
    BY <2>1
  <2> QED
    BY <2>1, <2>2
<1>5. Len(new.queue) = 1 /\ new.calls = 0 /\ new.owed = 0 /\ new.outs = << >> /\ new.st = "run"
  <2> DEFINE q == <<[k \in DOMAIN batches[i] |-> batches[i][k].unit]>>
  <2>1. new = [queue |-> q, done |-> 0, calls |-> 0, owed |-> 0, outs |-> << >>, st |-> "run"]
    BY DEF NewTask
  <2>2. Len(q) = 1
    OBVIOUS
  <2> HIDE DEF q, new
  <2>3. new.queue = q /\ new.calls = 0 /\ new.owed = 0 /\ new.outs = << >> /\ new.st = "run"
    BY <2>1
  <2> QED
    BY <2>2, <2>3
<1> HIDE DEF new
<1>6. TaskOK(new) /\ Owns(new, batches[i])
  <2>1. i \in DOMAIN tasks' /\ proc' = "running"
    BY <1>1, <1>4
  <2>2. TaskOK(tasks'[i])
    BY <2>1 DEF StageInv, RunTyped, TasksTyped
  <2>3. Owns(tasks'[i], batches'[i])
    BY <2>1 DEF WorkInv, BatchWork, Afterwards
  <2> QED
    BY <1>1, <1>4, <2>2, <2>3
<1>7. ToReview(new, batches[i]) = UnitsOf(batches[i])
  BY <1>5 DEF ToReview, UnitsOf
<1>8. /\ TaskAhead(new) \in Nat /\ TaskAhead(new) = Attempts(l, 1, 0) + 0
      /\ l \in Nat /\ 1 <= l
  <2>1. Debt(new) = 0
    BY <1>5 DEF Debt
  <2>2. LET m == Cardinality(ToReview(new, batches[i]))
        IN  /\ TaskAhead(new) \in Nat /\ m \in Nat /\ Len(new.queue) <= m
            /\ TaskAhead(new) = Attempts(m, Len(new.queue), new.calls) + Debt(new)
    BY <1>5, <1>6, TaskCounts
  <2> QED
    BY <1>5, <1>7, <2>1, <2>2
<1>9. batches[i] \in Seq(Jobs) /\ Len(batches[i]) \in Nat /\ l <= Len(batches[i])
  <2>1. batches[i] \in Seq(Jobs)
    BY <1>3 DEF StageInv, RunTyped, BatchesTyped, Filled
  <2> QED
    BY <2>1, UnitsAreFew
<1> DEFINE n == Len(batches[i])
<1>10. TaskAhead(new) < 2 * AttemptSteps * n /\ 2 * AttemptSteps * n \in Nat
  <2> HIDE DEF l, n
  <2>1. Attempts(l, 1, 0) < 2 * AttemptSteps * l /\ Attempts(l, 1, 0) \in Nat
    BY <1>8, AttemptsFall
  <2> DEFINE A == AttemptSteps
  <2>2. A \in Nat
    BY CallsAssumption DEF AttemptSteps
  <2>3. l \in Nat /\ n \in Nat /\ l <= n
    BY <1>8, <1>9 DEF n, l
  <2> HIDE DEF A
  <2>4. 2 * A * n = 2 * A * l + 2 * (A * (n - l)) /\ A * (n - l) >= 0 /\ A * (n - l) \in Int
        /\ 2 * A * l \in Int /\ 2 * A * n \in Nat
    BY <2>2, <2>3
  <2>5. 2 * A * l <= 2 * A * n
    BY <2>4
  <2> QED
    BY <1>8, <2>1, <2>4, <2>5 DEF A
<1>11. BatchAhead(i)' = TaskAhead(new) + n + 2
  <2>1. i \in DOMAIN tasks' /\ i \notin pending'
    BY <1>1, <1>4
  <2> QED
    BY <1>1, <1>4, <2>1 DEF BatchAhead
<1>12. BatchAhead(i)' \in Nat /\ BatchAhead(i)' < BatchAhead(i)
  <2>1. TaskAhead(new) \in Nat /\ n \in Nat
    BY <1>8, <1>9
  <2> HIDE DEF n
  <2> QED
    BY <1>3, <1>10, <1>11, <2>1 DEF n
<1>13. \A j \in DOMAIN batches : j # i => BatchAhead(j)' = BatchAhead(j)
  BY <1>1, <1>4 DEF BatchAhead, Unpersisted
<1> QED
  BY <1>1, <1>2, <1>3, <1>12, <1>13, OneBatch

\* An outcome is persisted, or the batch is pushed with all of them.
LEMMA PersistNearer ==
  ASSUME StageInv, WorkInv, StageInv', WorkInv', PersistOutcome \/ PushCompleted
  PROVE  Nearer
<1>1. /\ joined # 0 /\ UNCHANGED <<proc, todo, copying, batches, pending, tasks>>
  BY DEF PersistOutcome, PushCompleted
<1>2. BatchesCount /\ BatchParts /\ BatchesCount' /\ BatchParts'
  BY Counted, PartsCount, PartsCountNext
<1>3. PICK i : i = joined
  OBVIOUS
<1>4. /\ i \in DOMAIN batches /\ i \notin pending /\ i \notin DOMAIN tasks
      /\ IsFiniteSet(Unpersisted) /\ Cardinality(Unpersisted) \in Nat
      /\ BatchAhead(i) = Cardinality(Unpersisted) + 1
  <2>1. /\ i \in DOMAIN batches /\ i \notin pending /\ i \notin DOMAIN tasks
        /\ IsFiniteSet(Unpersisted) /\ Cardinality(Unpersisted) \in Nat
    BY <1>1, <1>2, <1>3 DEF BatchParts
  <2>2. BatchAhead(i) = Cardinality(Unpersisted) + 1
    BY <1>3, <2>1 DEF BatchAhead
  <2> QED
    BY <2>1, <2>2
<1>5. CASE PersistOutcome
  <2> DEFINE k == Min(Unpersisted)
             new == [joinedOuts[k] EXCEPT !.persisted = TRUE]
  <2>1. /\ joined' = joined /\ joinedOuts' = [joinedOuts EXCEPT ![k] = new] /\ Unpersisted # {}
    BY <1>5 DEF PersistOutcome
  <2>2. k \in Unpersisted
    <3>1. joinedOuts \in Seq(Out)
      BY DEF StageInv, RunTyped, JoinedTyped
    <3>2. Unpersisted \subseteq DOMAIN joinedOuts /\ DOMAIN joinedOuts = 1..Len(joinedOuts)
      BY <3>1 DEF Unpersisted
    <3>3. Unpersisted \subseteq Nat
      BY <3>2
    <3> QED
      BY <2>1, <3>3, ChunkFold!LeastNumber DEF Min
  <2>3. k \in DOMAIN joinedOuts /\ joinedOuts[k] \in Out
    BY <2>1, NextUnpersisted DEF StageInv
  <2>4. new.persisted = TRUE
    BY <2>3 DEF Out
  <2> HIDE DEF new, k
  <2>5. /\ DOMAIN joinedOuts' = DOMAIN joinedOuts /\ joinedOuts'[k] = new
        /\ \A j \in DOMAIN joinedOuts : j # k => joinedOuts'[j] = joinedOuts[j]
    BY <2>1, <2>3
  <2>6. Unpersisted' = Unpersisted \ {k}
    BY <2>4, <2>5 DEF Unpersisted
  <2>7. Cardinality(Unpersisted') = Cardinality(Unpersisted) - 1
    BY <1>4, <2>2, <2>6, FS_RemoveElement
  <2>8. BatchAhead(i)' = Cardinality(Unpersisted') + 1
    BY <1>1, <1>3, <1>4, <2>1 DEF BatchAhead
  <2>9. BatchAhead(i)' \in Nat
    BY <1>1, <1>2, <1>4 DEF BatchesCount
  <2>10. BatchAhead(i)' < BatchAhead(i)
    BY <1>4, <2>7, <2>8, <2>9
  <2>11. \A j \in DOMAIN batches : j # i => BatchAhead(j)' = BatchAhead(j)
    BY <1>1, <1>3, <2>1 DEF BatchAhead
  <2> QED
    BY <1>1, <1>2, <1>4, <2>9, <2>10, <2>11, OneBatch
<1>6. CASE PushCompleted
  <2>1. joined' = 0
    BY <1>6 DEF PushCompleted
  <2>2. 0 \notin DOMAIN batches
    <3>1. batches \in Seq(Seq(Jobs))
      BY DEF StageInv, RunTyped, BatchesTyped, Filled
    <3> QED
      BY <3>1
  <2>3. BatchAhead(i)' = 0
    BY <1>1, <1>3, <1>4, <2>1, <2>2 DEF BatchAhead
  <2>4. BatchAhead(i)' \in Nat /\ BatchAhead(i)' < BatchAhead(i)
    BY <1>4, <2>3
  <2>5. \A j \in DOMAIN batches : j # i => BatchAhead(j)' = BatchAhead(j)
    BY <1>1, <1>3, <2>1, <2>2 DEF BatchAhead
  <2> QED
    BY <1>1, <1>2, <1>4, <2>4, <2>5, OneBatch
<1> QED
  BY <1>5, <1>6

\* A job is looked up, or taken over from another scan in two steps.
LEMMA LookUpNearer ==
  ASSUME StageInv, ReuseOwn \/ ReuseAcross \/ CopyAcross \/ NeedsReview
  PROVE  Nearer
<1>1. UNCHANGED <<proc, batches>> /\ proc = "reuse"
  BY DEF ReuseOwn, ReuseAcross, CopyAcross, NeedsReview
<1>2. todo \in Seq(Jobs) /\ todo # << >>
  BY <1>1 DEF ReuseOwn, ReuseAcross, CopyAcross, NeedsReview, StageInv, RunTyped, QueueTyped
<1>3. /\ Len(todo) \in Nat /\ Len(todo) >= 1 /\ Len(Tail(todo)) = Len(todo) - 1
      /\ Head(todo) \in Jobs
  BY <1>2, EmptySeq, HeadTailProperties
<1>4. StagesAhead' = StagesAhead
  BY <1>1 DEF StagesAhead
<1>5. LookUpsAhead' < LookUpsAhead
  <2>1. CASE ReuseOwn \/ NeedsReview
    <3>1. todo' = Tail(todo) /\ copying' = None /\ copying = None
      BY <2>1 DEF ReuseOwn, NeedsReview
    <3> QED
      BY <1>3, <3>1 DEF LookUpsAhead
  <2>2. CASE ReuseAcross
    <3>1. todo' = todo /\ copying' = NextUnit /\ copying = None
      BY <2>2 DEF ReuseAcross
    <3>2. NextUnit \in Units /\ None \notin Units
      BY <1>3, StageAssumption, JournalAssumption DEF NextUnit
    <3> QED
      BY <1>3, <3>1, <3>2 DEF LookUpsAhead
  <2>3. CASE CopyAcross
    <3>1. todo' = Tail(todo) /\ copying' = None /\ copying # None
      BY <2>3 DEF CopyAcross
    <3> QED
      BY <1>3, <3>1 DEF LookUpsAhead
  <2> QED
    BY <2>1, <2>2, <2>3
<1> QED
  BY <1>1, <1>4, <1>5 DEF Nearer

\* The stages follow one another.
LEMMA StageNearer ==
  ASSUME ReuseFails \/ Reject \/ Group \/ PersistFails \/ Finish
  PROVE  Nearer
<1>1. \/ proc = "reuse" /\ proc' \in {"rejecting", "running"}
      \/ proc = "running" /\ proc' \in {"aborting", "failed", "paused", "done"}
      \/ proc = "rejecting" /\ proc' = "rejected"
      \/ proc = "aborting" /\ proc' = "failed"
  BY DEF ReuseFails, Reject, Group, PersistFails, Finish, AtLoop
<1>2. /\ proc = "reuse" => StagesAhead = 3
      /\ proc = "running" => StagesAhead = 2
      /\ proc \in {"aborting", "rejecting"} => StagesAhead = 1
  BY DEF StagesAhead, Ended
<1>3. /\ proc' = "running" => StagesAhead' = 2
      /\ proc' \in {"aborting", "rejecting"} => StagesAhead' = 1
      /\ proc' \in Ended => StagesAhead' = 0
  BY DEF StagesAhead, Ended
<1>4. StagesAhead' < StagesAhead
  BY <1>1, <1>2, <1>3 DEF Ended
<1> QED
  BY <1>4 DEF Nearer

LEMMA NextNearer ==
  StageInv /\ WorkInv /\ [SNext]_svars =>
    [proc \notin Ended /\ proc' # "idle" => Nearer]_svars
<1> SUFFICES ASSUME StageInv, WorkInv, SNext, proc \notin Ended, proc' # "idle"
             PROVE  Nearer
  OBVIOUS
<1>0. StageInv' /\ WorkInv'
  BY NextStage, NextWork
<1>1. Group \/ RunStep
  BY DEF SNext, StartScan, StartScanFails, Die
<1>2. CASE Group
  BY <1>2, StageNearer
<1>3. CASE RunStep
  <2>1. CASE ReuseOwn \/ ReuseAcross \/ CopyAcross \/ NeedsReview
    BY <2>1, LookUpNearer
  <2>2. CASE ReuseFails \/ Reject \/ PersistFails \/ Finish
    BY <2>2, StageNearer
  <2>3. ASSUME NEW i \in DOMAIN tasks,
               \/ \E c \in Costs : ModelCall(i, c)
               \/ Charge(i) \/ CallbackFails(i)
               \/ \E st \in {"err", "panic"} : TaskFails(i, st)
        PROVE  Nearer
    BY <1>0, <2>3, CallNearer
  <2>4. ASSUME NEW i \in DOMAIN tasks, NEW r \in BOOLEAN, ItemComplete(i, r)
        PROVE  Nearer
    BY <1>0, <2>4, ItemNearer
  <2>5. ASSUME NEW i \in DOMAIN tasks, BatchFails(i)
        PROVE  Nearer
    BY <1>0, <2>5, BatchFailsNearer
  <2>6. ASSUME NEW i \in DOMAIN tasks, JoinOk(i) \/ JoinErr(i) \/ JoinPanic(i) \/ Drain(i)
        PROVE  Nearer
    BY <1>0, <2>6, LeaveNearer
  <2>7. ASSUME NEW i \in pending, StartTask(i)
        PROVE  Nearer
    BY <1>0, <2>7, SpawnNearer
  <2>8. CASE PersistOutcome \/ PushCompleted
    BY <1>0, <2>8, PersistNearer
  <2> QED
    BY <1>3, <2>1, <2>2, <2>3, <2>4, <2>5, <2>6, <2>7, <2>8 DEF RunStep
<1> QED
  BY <1>1, <1>2, <1>3

(***************************************************************************)
(* Every step of a run brings it nearer to its end, whatever fails: the    *)
(* look-up, the batches that are split, their outcomes and the tasks that  *)
(* are drained have each less ahead, and nothing gets more.  So a run that *)
(* is not killed has only finitely many steps.                             *)
(***************************************************************************)
THEOREM StageRunShrinks == SSpec => RunShrinks
  BY StageInvariant, StageWork, NextNearer, PTL DEF SSpec, RunShrinks
=============================================================================
