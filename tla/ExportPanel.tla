----------------------------- MODULE ExportPanel ----------------------------
(***************************************************************************)
(* The export panel of the web page on top of the export pipeline: it shows *)
(* an export whose request was answered 202, polls GET /exports/:id every   *)
(* 1.5 s and stops polling at completed or failed.                          *)
(***************************************************************************)
EXTENDS ExportPipeline

VARIABLE panel  \* panel[e]: not shown, still polling, or the status it stopped at

panelVars == <<vars, panel>>

PanelInit == Init /\ panel = [e \in Exports |-> "hidden"]

\* onSuccess of the request: the panel keeps the export id and starts to poll.
Show(e) ==
    /\ panel[e] = "hidden"
    /\ Accepted(e)
    /\ panel' = [panel EXCEPT ![e] = "polling"]
    /\ UNCHANGED vars

\* Mutant: refetchInterval looks for a status the API never sends.
PollForDone(e) ==
    /\ panel[e] = "polling"
    /\ row[e].status \in {"done", "failed"}
    /\ panel' = [panel EXCEPT ![e] = row[e].status]
    /\ UNCHANGED vars

\* One refetch: ExportsService.getExport answers with the row's status and
\* refetchInterval turns polling off at a status it takes for terminal.  Any
\* other status, an error, or the 404 of a row that is gone, polls again.
Poll(e) ==
    /\ panel[e] = "polling"
    /\ row[e].status \in {"completed", "failed"}
    /\ panel' = [panel EXCEPT ![e] = row[e].status]
    /\ UNCHANGED vars

PanelNext ==
    \/ Next /\ UNCHANGED panel
    \/ \E e \in Exports : Show(e) \/ Poll(e)

PanelSafeSpec == PanelInit /\ [][PanelNext]_panelVars

\* The page shows an accepted export and its timer keeps firing.
PanelSpec ==
    /\ PanelSafeSpec
    /\ Fairness
    /\ \A e \in Exports : WF_panelVars(Show(e)) /\ WF_panelVars(Poll(e))

-----------------------------------------------------------------------------
(* Properties of the panel *)

\* A panel that stopped at completed is right about it for ever: nothing takes
\* the completion back, so the link it shows is that of a finished export.
PanelIsRightAboutCompleted ==
    \A e \in Exports :
        panel[e] = "completed" => row[e].status \in {"completed", "none"}

\* The inductive strengthening of PanelIsRightAboutCompleted: the panel shows
\* accepted exports only, and what it says of a completed one the abstract life
\* of the export says as well.
PanelAgrees ==
    \A e \in Exports :
        /\ panel[e] # "hidden" => Accepted(e)
        /\ panel[e] = "completed" => Promised(e) \in {"completed", "gone"}

\* The user is told: the panel of a completed export stops polling, unless the
\* export goes away with its project.
PanelStops ==
    \A e \in Exports :
        row[e].status = "completed" /\ Accepted(e)
            ~> panel[e] \in {"completed", "failed"} \/ row[e].status = "none"

\* The comment over refetchInterval: the state polling stops at is terminal.
FailedIsTerminal ==
    \A e \in Exports :
        panel[e] = "failed" => row[e].status \in {"failed", "none"}

=============================================================================
