--------------------------- MODULE ExportLifecycle --------------------------
(***************************************************************************)
(* What a client may rely on once requestExport answered 202: the export is *)
(* promised; it completes, once and for good, unless its project is removed *)
(* or its message is parked in the dead-letter queue, and it does not stay  *)
(* promised for ever.  ExportPipeline implements this.                      *)
(***************************************************************************)
CONSTANT Exports

VARIABLE phase

Phase == {"none", "promised", "parked", "completed", "gone"}

Init == phase = [e \in Exports |-> "none"]

Move(e, from, to) ==
    /\ phase[e] \in from
    /\ phase' = [phase EXCEPT ![e] = to]

\* The 202; the project may be removed between the row and the answer.
Promise(e) == Move(e, {"none"}, "promised") \/ Move(e, {"none"}, "gone")

\* The queue gave up on the message.
Park(e) == Move(e, {"promised"}, "parked")

\* A worker that received the message in time may finish even after it was parked.
Complete(e) == Move(e, {"promised", "parked"}, "completed")

\* The project is removed.
Drop(e) == Move(e, {"promised", "parked", "completed"}, "gone")

Settle(e) == phase[e] = "promised" /\ (Park(e) \/ Complete(e) \/ Drop(e))

Next == \E e \in Exports : Promise(e) \/ Park(e) \/ Complete(e) \/ Drop(e)

SafeSpec == Init /\ [][Next]_phase

Spec == SafeSpec /\ \A e \in Exports : WF_phase(Settle(e))

=============================================================================
