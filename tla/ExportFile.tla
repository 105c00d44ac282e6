----------------------------- MODULE ExportFile -----------------------------
(* The file that a completed export leaves behind its link. *)
EXTENDS ExportPanel, CsvUtil

CONSTANTS MaxTitle, MaxDescription  \* the lengths that the API accepts

ASSUME LengthsAssumption == MaxTitle \in Nat /\ MaxDescription \in Nat

\* Without the exports, so that TLC evaluates it once and not in every state.
FileReadsBack == ReadsBack(MaxTitle, MaxDescription)

\* The file behind the link of a completed export says what its tasks say, for
\* any title and description that the API accepts.
CsvReadsBack == (\E e \in Exports : row[e].status = "completed") => FileReadsBack

=============================================================================
