-------------------------- MODULE MCExportPipeline --------------------------
(* Instances of ExportPipeline for TLC: which message carries which export. *)
EXTENDS ExportPipeline, TLC

CONSTANTS e1, m1, m2

\* Two copies of one export's message.
MCOneExport == {e1}
MCTwoCopies == {m1, m2}
MCBothOfOne == (m1 :> e1) @@ (m2 :> e1)

\* One message, one export.
MCOneMessage == {m1}
MCSingle == (m1 :> e1)

\* Workers are interchangeable, and so are two messages that carry the same export.
Symmetry == Permutations(Workers) \cup Permutations(Messages)

=============================================================================
