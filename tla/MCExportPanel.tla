--------------------------- MODULE MCExportPanel ----------------------------
(* Instances of ExportPanel, through it of ExportPipeline, and of ExportFile, for TLC. *)
EXTENDS ExportFile

CONSTANTS e1, m1

\* One message, one export.
MCOneExport == {e1}
MCOneMessage == {m1}
MCSingle == (m1 :> e1)

\* One character stands for all that mean nothing in a CSV file.
MCChars == {"x", Quote, Comma, Cr, Lf}

=============================================================================
