---------------------------- MODULE MCWebSession ----------------------------
(* WebSession for TLC: two tabs, two forms submitted by one of them or by both, *)
(* two addresses, one of them in two spellings.                                 *)
EXTENDS WebSession, TLC

CONSTANTS Ann, ann, bob

MCLower == (Ann :> ann) @@ (ann :> ann) @@ (bob :> bob)

\* Tabs, forms, ids and passwords are interchangeable, and so are the two
\* addresses, of which only the lower case is ever stored.
Symmetry ==
    Permutations(Tabs) \cup Permutations(Clients) \cup Permutations(UserIds)
    \cup Permutations(Passwords) \cup {(ann :> bob) @@ (bob :> ann)}

=============================================================================
