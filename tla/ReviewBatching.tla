---------------------------- MODULE ReviewBatching ----------------------------
(***************************************************************************)
(* How pending reviews become requests: group_pending_reviews              *)
(* (src/src/analyzer_engine_jobs.rs).  A first pass cuts the queue into    *)
(* chunks of consecutive methods of one file, a second packs consecutive   *)
(* chunks into one batch.  Both respect the batch size and the estimated   *)
(* prompt size.  A job is a record: its unit id, its file's path, whether  *)
(* it reviews a method or the file, and the prompt characters of its own.  *)
(***************************************************************************)
EXTENDS Naturals, Sequences, FiniteSets, FiniteSetsExt, SequencesExt

CONSTANTS
  SharedChars,  \* characters of a file's source and of the fixed prompt parts
  UsizeMax,     \* usize::MAX: no prompt limit reaches it
  NoFile        \* method_file_path() of a file review

SaturatingAdd(a, b) == IF a + b > UsizeMax THEN UsizeMax ELSE a + b

\* parse_method_batch_size: value.clamp(1, 8)
ClampBatchSize(n) == IF n < 1 THEN 1 ELSE IF n > 8 THEN 8 ELSE n

\* method_file_path()
MethodFilePath(job) == IF job.method THEN job.path ELSE NoFile

\* estimated_method_prompt_chars(..).unwrap_or(usize::MAX)
Estimate(job, includeSharedFile) ==
  IF ~job.method THEN UsizeMax
  ELSE job.chars + (IF includeSharedFile THEN SharedChars[job.path] ELSE 0)

\* Estimated prompt of a batch: a file is paid for where it first occurs.
BatchEstimate(batch) ==
  LET FirstOfFile(i) == \A j \in 1..(i - 1) : batch[j].path # batch[i].path
  IN  FoldLeftDomain(LAMBDA sum, i : SaturatingAdd(sum, Estimate(batch[i], FirstOfFile(i))),
                     0, batch)

\* joins_current
JoinsCurrent(c, job, batchSize, maxChars) ==
  /\ c.current # << >>
  /\ job.method /\ job.path = c.file
  /\ Len(c.current) < batchSize
  /\ SaturatingAdd(c.estimate, Estimate(job, FALSE)) <= maxChars

\* One turn of the first loop, over the state of its four locals.
ChunkStep(c, job, batchSize, maxChars) ==
  LET joins   == JoinsCurrent(c, job, batchSize, maxChars)
      flushed == IF joins THEN c
                 ELSE [c EXCEPT !.chunks = IF c.current = << >> THEN @
                                           ELSE Append(@, c.current),
                                !.current = << >>,
                                !.estimate = IF c.current = << >> THEN @ ELSE 0]
      grown   == [flushed EXCEPT
                    !.file = MethodFilePath(job),
                    !.estimate = SaturatingAdd(@, Estimate(job, flushed.current = << >>)),
                    !.current = Append(@, job)]
  IN  IF Len(grown.current) >= batchSize \/ ~job.method
      THEN [chunks |-> Append(grown.chunks, grown.current), current |-> << >>,
            file |-> NoFile, estimate |-> 0]
      ELSE grown

FileChunks(pending, batchSize, maxChars) ==
  LET end == FoldLeft(LAMBDA c, job : ChunkStep(c, job, batchSize, maxChars),
               [chunks |-> << >>, current |-> << >>, file |-> NoFile, estimate |-> 0],
               pending)
  IN  IF end.current = << >> THEN end.chunks ELSE Append(end.chunks, end.current)

\* Mutant: a file review is packed like a chunk of methods.
PackStepAlways(p, chunk, batchSize, maxChars) ==
  LET full == Len(p.packed) + Len(chunk) > batchSize
  IN  IF p.packed # << >> /\ full
      THEN [grouped |-> Append(p.grouped, p.packed), packed |-> chunk]
      ELSE [p EXCEPT !.packed = @ \o chunk]

\* One turn of the second loop: a file review stands alone, a chunk of
\* methods joins the packed batch unless the two are too many or too long.
PackStep(p, chunk, batchSize, maxChars) ==
  LET closed == IF p.packed = << >> THEN p.grouped ELSE Append(p.grouped, p.packed)
      full   == \/ Len(p.packed) + Len(chunk) > batchSize
                \/ BatchEstimate(p.packed \o chunk) > maxChars
  IN  CASE ~chunk[1].method ->
             [grouped |-> Append(closed, chunk), packed |-> << >>]
        [] chunk[1].method /\ full ->
             [grouped |-> closed, packed |-> chunk]
        [] OTHER -> [p EXCEPT !.packed = @ \o chunk]

GroupPendingReviews(pending, batchSize, maxChars) ==
  LET end == FoldLeft(LAMBDA p, chunk : PackStep(p, chunk, batchSize, maxChars),
                      [grouped |-> << >>, packed |-> << >>],
                      FileChunks(pending, batchSize, maxChars))
  IN  IF end.packed = << >> THEN end.grouped ELSE Append(end.grouped, end.packed)

\* review_unit_cache_keys: a batch claims the files of its jobs.
CacheKeys(batch) == {batch[i].path : i \in DOMAIN batch}
=============================================================================
