--------------------------- MODULE MCReviewJournal ---------------------------
(***************************************************************************)
(* Three scans, two of them under one review context, so that an entry is  *)
(* reused across scans and refused across contexts; two stages that share  *)
(* unit ids; one failing append; files of at most MaxLines lines.          *)
(***************************************************************************)
EXTENDS ReviewJournal

CONSTANT MaxLines

MCContextOf == [s \in Scans |-> IF s = "edited" THEN "model-b" ELSE "model-a"]

LinesBound == Len(lines) <= MaxLines
=============================================================================
