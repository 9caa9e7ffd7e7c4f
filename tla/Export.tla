------------------------------- MODULE Export -------------------------------
(***************************************************************************)
(* Export tasks: a request writes a pending row and puts one message on    *)
(* the queue; a worker claims the row, builds and uploads the file under a *)
(* fixed object key, marks the row and tells the user.  Only the message   *)
(* drives a task: no dispatcher looks for pending rows again.              *)
(***************************************************************************)
EXTENDS Naturals, FiniteSets, Sequences

CONSTANTS Exports,        \* ids of export tasks, each submitted once
          Exporters,      \* worker goroutines that handle a message
          MaxExportFaults \* bound: calls that fail or lose an answer, stalls, deaths

VARIABLES export,     \* export_tasks
          submission, \* where the request that submits a task stands
          parcel,     \* the messages on the queue
          exporter,   \* Run under way
          told,       \* the outcomes the user was notified of
          exportFaults

exportVars == <<export, submission, parcel, exporter, told, exportFaults>>

NoExport == [status |-> "none", gone |-> FALSE, token |-> 0, owned |-> FALSE, held |-> FALSE]
OffDuty == [at |-> "rest", task |-> "none", token |-> 0, lost |-> FALSE]

ExportInit ==
  /\ export = [e \in Exports |-> NoExport]
  /\ submission = [e \in Exports |-> "none"]
  /\ parcel = {} /\ exportFaults = 0
  /\ exporter = [w \in Exporters |-> OffDuty]
  /\ told = [e \in Exports |-> <<>>]

ExportFault == exportFaults < MaxExportFaults /\ exportFaults' = exportFaults + 1
SetExport(e, row) == export' = [export EXCEPT ![e] = row]
SetExporter(w, x) == exporter' = [exporter EXCEPT ![w] = x]
ExportEnded == {"success", "failed"}

(***************************************************************************)
(* The request (user.Service.Export).                                      *)
(***************************************************************************)
CreatePending(e) ==
  /\ submission[e] = "none"
  /\ submission' = [submission EXCEPT ![e] = "created"]
  /\ SetExport(e, [NoExport EXCEPT !.status = "pending"])
  /\ UNCHANGED <<parcel, exporter, told, exportFaults>>

EnqueueRun(e) ==
  /\ submission[e] = "created"
  /\ \/ /\ submission' = [submission EXCEPT ![e] = "accepted"]
        /\ parcel' = parcel \cup {e} /\ UNCHANGED exportFaults
     \/ /\ submission' = [submission EXCEPT ![e] = "refused"]
        /\ parcel' \in {parcel, parcel \cup {e}} /\ ExportFault
  /\ UNCHANGED <<export, exporter, told>>

\* Only a task no worker has claimed yet is failed by the request.
Unclaimed(e) == export[e].status = "pending" /\ ~export[e].gone /\ ~export[e].owned

MarkPendingFailed(e) ==
  /\ submission[e] = "refused"
  /\ submission' = [submission EXCEPT ![e] = "failed"]
  /\ IF Unclaimed(e) THEN SetExport(e, [export[e] EXCEPT !.status = "failed"]) ELSE UNCHANGED export
  /\ UNCHANGED <<parcel, exporter, told, exportFaults>>

\* The request dies or loses MySQL before it is through.
SubmissionStops(e) ==
  /\ submission[e] \in {"created", "refused"} /\ ExportFault
  /\ submission' = [submission EXCEPT ![e] = "stopped"]
  /\ UNCHANGED <<export, parcel, exporter, told>>

\* The owner deletes the row, whatever its status; CleanExpired spares a held one.
DeleteByUser(e) ==
  /\ export[e].status # "none" /\ ~export[e].gone
  /\ SetExport(e, [export[e] EXCEPT !.gone = TRUE])
  /\ UNCHANGED <<submission, parcel, exporter, told, exportFaults>>

(***************************************************************************)
(* A worker (Service.Run).                                                 *)
(***************************************************************************)
Claimable(e) == export[e].status = "pending" /\ ~export[e].gone /\ ~export[e].held

\* A message whose task cannot be claimed is done with.
ClaimExport(w, e) ==
  /\ exporter[w].at = "rest" /\ e \in parcel
  /\ \/ parcel' = parcel \ {e} /\ UNCHANGED exportFaults
     \/ UNCHANGED parcel /\ ExportFault  \* delivered again while this one runs
  /\ IF Claimable(e)
     THEN LET token == export[e].token + 1
          IN /\ SetExport(e, [export[e] EXCEPT !.token = token, !.owned = TRUE, !.held = TRUE])
             /\ SetExporter(w, [at |-> "claimed", task |-> e, token |-> token, lost |-> FALSE])
     ELSE UNCHANGED <<export, exporter>>
  /\ UNCHANGED <<submission, told>>

\* Fault: the marks name the task only.
ClaimAssumed(w) == ~export[exporter[w].task].gone

ClaimStands(w) ==
  LET row == export[exporter[w].task]
  IN row.status = "pending" /\ ~row.gone /\ row.token = exporter[w].token /\ row.held

ExportRenewalEnds(w) ==
  /\ exporter[w].at \in {"claimed", "uploaded"} /\ ~exporter[w].lost
  /\ IF ClaimStands(w) THEN ExportFault ELSE UNCHANGED exportFaults
  /\ SetExporter(w, [exporter[w] EXCEPT !.lost = TRUE])
  /\ UNCHANGED <<export, submission, parcel, told>>

ExportClaimLapses(e) ==
  /\ export[e].held
  /\ IF \E w \in Exporters : exporter[w].task = e /\ exporter[w].token = export[e].token
     THEN ExportFault ELSE UNCHANGED exportFaults
  /\ SetExport(e, [export[e] EXCEPT !.held = FALSE])
  /\ UNCHANGED <<submission, parcel, exporter, told>>

\* The object key depends on the task alone: a later upload, by a claim that
\* is lost as well, replaces the file.
BuildAndUpload(w) ==
  /\ exporter[w].at = "claimed"
  /\ SetExporter(w, [exporter[w] EXCEPT !.at = "uploaded"])
  /\ UNCHANGED <<export, submission, parcel, told, exportFaults>>

BuildFails(w) ==
  /\ exporter[w].at = "claimed" /\ ~exporter[w].lost /\ ExportFault
  /\ SetExporter(w, [exporter[w] EXCEPT !.at = "broken"])
  /\ UNCHANGED <<export, submission, parcel, told>>

\* The handler returns an error and the queue delivers the message again.
ReturnError(w) ==
  /\ SetExporter(w, OffDuty)
  /\ parcel' = parcel \cup {exporter[w].task}

EndExport(w, status) ==
  LET e == exporter[w].task
  IN /\ IF ClaimStands(w)
        THEN /\ SetExport(e, [export[e] EXCEPT !.status = status, !.owned = FALSE, !.held = FALSE])
             /\ SetExporter(w, [exporter[w] EXCEPT !.at = "marked"])
             /\ UNCHANGED parcel
        ELSE ReturnError(w) /\ UNCHANGED export
     /\ UNCHANGED <<submission, told, exportFaults>>

MarkExportSuccess(w) == exporter[w].at = "uploaded" /\ ~exporter[w].lost /\ EndExport(w, "success")

MarkExportFailed(w) == exporter[w].at = "broken" /\ EndExport(w, "failed")

\* A failed run still returns its error; the retry finds nothing to claim.
NotifyExport(w) ==
  LET e == exporter[w].task
  IN /\ exporter[w].at = "marked"
     /\ \/ told' = [told EXCEPT ![e] = Append(@, export[e].status)] /\ UNCHANGED exportFaults
        \/ ExportFault /\ UNCHANGED told
     /\ SetExporter(w, OffDuty)
     /\ parcel' = IF export[e].status = "failed" THEN parcel \cup {e} ELSE parcel
     /\ UNCHANGED <<export, submission>>

LeaveLostExport(w) ==
  /\ exporter[w].at \in {"claimed", "uploaded"} /\ exporter[w].lost
  /\ ReturnError(w)
  /\ UNCHANGED <<export, submission, told, exportFaults>>

\* The worker dies or is shut down, the task times out, or a mark's answer is lost.
ExporterStops(w) ==
  /\ exporter[w].at # "rest" /\ ExportFault
  /\ ReturnError(w)
  /\ UNCHANGED <<export, submission, told>>

ExporterStep(w) ==
  BuildAndUpload(w) \/ MarkExportSuccess(w) \/ MarkExportFailed(w) \/ NotifyExport(w) \/ LeaveLostExport(w)

ExportNext ==
  \/ \E e \in Exports : \/ CreatePending(e) \/ EnqueueRun(e) \/ MarkPendingFailed(e)
                        \/ SubmissionStops(e) \/ DeleteByUser(e) \/ ExportClaimLapses(e)
  \/ \E w \in Exporters : \/ \E e \in Exports : ClaimExport(w, e)
                          \/ ExporterStep(w) \/ ExportRenewalEnds(w) \/ BuildFails(w) \/ ExporterStops(w)

ExportFairness ==
  /\ \A e \in Exports : /\ WF_exportVars(EnqueueRun(e)) /\ WF_exportVars(MarkPendingFailed(e))
                        /\ WF_exportVars(\E w \in Exporters : ClaimExport(w, e))
                        /\ WF_exportVars(ExportClaimLapses(e) /\ UNCHANGED exportFaults)
  /\ \A w \in Exporters : WF_exportVars(ExporterStep(w))

ExportSpec == ExportInit /\ [][ExportNext]_exportVars

FairExportSpec == ExportSpec /\ ExportFairness

(***************************************************************************)
(* Correctness.                                                            *)
(***************************************************************************)
\* The user hears of a task once, and hears the outcome its row keeps, however
\* many workers ran it and whichever of them was late (MarkSuccess, failRun).
ExportToldOnce ==
  \A e \in Exports : told[e] \in {<<>>, <<export[e].status>>}

\* A submitted export ends, and so its user is notified: "导出任务已提交，完成后将通知您".
ExportsEnd ==
  \A e \in Exports :
    submission[e] = "accepted" ~> export[e].status \in ExportEnded \/ export[e].gone
=============================================================================
