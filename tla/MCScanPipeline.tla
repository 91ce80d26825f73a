--------------------------- MODULE MCScanPipeline ---------------------------
(***************************************************************************)
(* Two repositories are scanned from the directory above them, so that     *)
(* they share a report directory and a journal; the first one is also      *)
(* scanned from inside, edited, and started with a budget of zero.  The    *)
(* edit keeps one of its two units.                                        *)
(***************************************************************************)
EXTENDS ScanPipeline

CONSTANTS p1, p2, top, repoX, repoY, sX, sEdited, sY, sZero, c1, c2, u, v, w, y

MCProcs == {p1, p2}
MCSymmetry == Permutations(MCProcs)

MCDirs == {top, repoX, repoY}
MCScans == {sX, sEdited, sY, sZero}

MCContextOf == [s \in MCScans |-> IF s = sY THEN c2 ELSE c1]

MCUnitsOf ==
  (sX :> {u, v}) @@ (sEdited :> {u, w}) @@ (sY :> {y}) @@ (sZero :> {u, v})

\* For the violation: both repositories have as many units.
MCUnitsOfDoc == [s \in MCScans |-> IF s = sY THEN {y} ELSE {u}]

\* The one unit that both versions of the first repository have is slop,
\* and so is one of the two that are in one version alone.
MCTiers == [x \in {u, v, w, y} |-> IF x \in {u, v} THEN {"slop"} ELSE {"clean"}]

Job(r, d, s, b) == [repository |-> r, reports |-> d, scan |-> s, zeroBudget |-> b]

MCJobs ==
  {Job(repoX, top, sX, FALSE), Job(repoX, top, sEdited, FALSE),
   Job(repoY, top, sY, FALSE), Job(repoX, top, sZero, TRUE),
   Job(repoX, repoX, sX, FALSE)}
=============================================================================
