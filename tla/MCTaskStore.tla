----------------------------- MODULE MCTaskStore -----------------------------
(* TaskStore with its symmetries, and TaskListing, for TLC.  They have no variable *)
(* in common, and no property is about both: a behaviour is one of the store, while *)
(* the listing waits in its initial state, or one of the listing.                   *)
EXTENDS TaskStore, TaskListing, TLC

MCInit == Init /\ ListInit

MCNext ==
    \/ ListInit /\ Next /\ UNCHANGED listVars
    \/ Init /\ ListNext /\ UNCHANGED vars

MCSpec == MCInit /\ [][MCNext]_<<vars, listVars>>

\* Requests, users, the ids of each kind and the values are interchangeable.
Symmetry == Permutations(Requests) \cup Permutations(Users) \cup Permutations(Values)
            \cup Permutations(Projects) \cup Permutations(Tasks)

=============================================================================
