---------------------------- MODULE MCProjectPage ----------------------------
(* ProjectPage for TLC. *)
EXTENDS ProjectPage, TLC

\* superseded is a history that no guard reads, and of which no property of the
\* run says more than its type: states that differ in it only are one.
View == <<version, entry, reader, writer, blame, pageVars>>

\* The mutations are interchangeable.
Symmetry == Permutations(Writers)

=============================================================================
