----------------------------- MODULE WorkProofs -----------------------------
(***************************************************************************)
(* Background work.  What several processes may claim: the firing of a     *)
(* job, an export, a notification task; a claim is a fencing token with an *)
(* expiry, and whoever lost it may still be working.  The events that      *)
(* report such work to the connections of a user.  And the paid image and  *)
(* text tasks.                                                             *)
(***************************************************************************)
EXTENDS JobLease, Export, Notice, Realtime, BilledTask, FiniteSetTheorems, TLAPS

-----------------------------------------------------------------------------
(***************************************************************************)
(* Of all firings of a job, on any number of processes, one at most runs   *)
(* under a lease that has not lapsed.                                      *)
(***************************************************************************)

Leases == [owner : Hosts \cup {"nobody"}, token : Nat]

LeaseTypeOK ==
  /\ fence \in Nat /\ lease \in Leases
  /\ firing \in [Firings -> [at : {"rest", "leased", "logged", "sent", "refused", "done"},
                             lease : Leases, lapsed : BOOLEAN, cancelled : BOOLEAN,
                             log : {"none", "running", "success", "failed"}]]

\* The fencing counter is ahead of every token that was handed out.
TokensIssued ==
  /\ lease.token <= fence
  /\ \A f \in Firings : firing[f].lease.token <= fence

\* A firing under way has a token, of its own.
TokensDiffer ==
  /\ \A f \in Firings : Underway(f) => firing[f].lease.token # 0
  /\ \A f, g \in Firings :
       Underway(f) /\ Underway(g) /\ firing[f].lease.token = firing[g].lease.token => f = g

\* Nobody frees the lease under a firing that goes on.
LeaseKept == \A f \in Firings : Underway(f) /\ ~firing[f].lapsed => Owns(f)

LeaseInv == LeaseTypeOK /\ TokensIssued /\ TokensDiffer /\ LeaseKept

-----------------------------------------------------------------------------
\* No firing is under way at first.
LEMMA LeaseInvHoldsAtFirst == JobInit => LeaseInv
  BY DEF JobInit, LeaseInv, LeaseTypeOK, TokensIssued, TokensDiffer, LeaseKept, Leases, FreeLease,
         NotFired, Underway

\* A grant comes only when nobody's lease is left, under a token nobody has.
LEMMA LeaseAcquireKeeps ==
  ASSUME LeaseInv, NEW f \in Firings, NEW h \in Hosts, Acquire(f, h) \/ AcquireUnanswered(h)
  PROVE  LeaseInv'
  <1>0. /\ lease.token = 0 /\ fence' = fence + 1 /\ lease' = [owner |-> h, token |-> fence + 1]
        /\ fence \in Nat
    BY DEF Acquire, AcquireUnanswered, GrantTo, LeaseInv, LeaseTypeOK
  <1>1. \A g \in Firings : Underway(g) => firing[g].lapsed
    BY <1>0 DEF LeaseInv, TokensDiffer, LeaseKept, Owns
  <1>2. CASE Acquire(f, h)
    <2> DEFINE e == [NotFired EXCEPT !.at = "leased", !.lease = lease']
               Row == [at : {"rest", "leased", "logged", "sent", "refused", "done"}, lease : Leases,
                       lapsed : BOOLEAN, cancelled : BOOLEAN, log : {"none", "running", "success", "failed"}]
    <2>1. firing' = [firing EXCEPT ![f] = e] /\ e \in Row /\ e.lease = lease' /\ lease' \in Leases
      <3>1. NotFired \in Row
        BY DEF NotFired, FreeLease, Leases
      <3>2. lease' \in Leases
        BY <1>0 DEF Leases
      <3>3. e \in Row /\ e.lease = lease'
        BY <3>1, <3>2
      <3> QED  BY <1>2, <3>2, <3>3 DEF Acquire, Advance
    <2> HIDE DEF e
    <2>2. LeaseTypeOK'
      BY <1>0, <2>1 DEF LeaseInv, LeaseTypeOK
    <2>3. \A g \in Firings \ {f} : firing'[g] = firing[g]
      BY <2>1 DEF LeaseInv, LeaseTypeOK
    <2>4. firing'[f].lease.token = fence + 1 /\ Owns(f)'
      BY <1>0, <2>1 DEF LeaseInv, LeaseTypeOK, Owns
    <2>5. TokensIssued'
      BY <1>0, <2>3, <2>4 DEF LeaseInv, TokensIssued, LeaseTypeOK, Leases
    <2>6. TokensDiffer'
      BY <1>0, <2>3, <2>4 DEF LeaseInv, TokensDiffer, TokensIssued, LeaseTypeOK, Leases, Underway
    <2>7. LeaseKept'
      BY <1>1, <2>3, <2>4 DEF LeaseKept, Underway
    <2> QED  BY <2>2, <2>5, <2>6, <2>7 DEF LeaseInv
  <1>3. CASE AcquireUnanswered(h)
    <2>1. UNCHANGED firing
      BY <1>3 DEF AcquireUnanswered
    <2> QED
      BY <1>0, <1>1, <2>1 DEF LeaseInv, LeaseTypeOK, Leases, TokensIssued, TokensDiffer, LeaseKept, Underway, Owns
  <1> QED  BY <1>2, <1>3

\* A lapse is marked on whoever had the lease.
LEMMA LeaseLapseKeeps == ASSUME LeaseInv, LeaseLapses PROVE LeaseInv'
  <1>1. \A f \in Firings : /\ firing'[f].lease = firing[f].lease
                           /\ Underway(f)' = Underway(f)
                           /\ Underway(f) /\ ~firing'[f].lapsed => ~Owns(f) /\ ~firing[f].lapsed
    BY DEF LeaseInv, LeaseTypeOK, LeaseLapses, Underway
  <1>2. LeaseTypeOK'
    BY DEF LeaseInv, LeaseTypeOK, LeaseLapses, FreeLease, Leases
  <1> QED
    BY <1>1, <1>2 DEF LeaseInv, LeaseTypeOK, Leases, LeaseLapses, FreeLease, TokensIssued, TokensDiffer, LeaseKept

\* The other steps of a firing keep its lease and its lapse, and free the
\* lease only when it is theirs and they are at their end.
LEMMA FiringStepKeeps ==
  ASSUME LeaseInv, NEW f \in Firings,
         \/ RenewFails(f) \/ Release(f) \/ ReleaseFails(f) \/ LogStart(f) \/ LogStartFails(f)
         \/ Enqueue(f) \/ EnqueueFails(f) \/ LogEnd(f) \/ LogEndFails(f)
  PROVE  LeaseInv'
  <1>0. PICK e \in [at : {"rest", "leased", "logged", "sent", "refused", "done"}, lease : Leases,
                    lapsed : BOOLEAN, cancelled : BOOLEAN, log : {"none", "running", "success", "failed"}] :
          firing' = [firing EXCEPT ![f] = e] /\ e.lease = firing[f].lease /\ e.lapsed = firing[f].lapsed
    <2> DEFINE Row == [at : {"rest", "leased", "logged", "sent", "refused", "done"}, lease : Leases,
                       lapsed : BOOLEAN, cancelled : BOOLEAN, log : {"none", "running", "success", "failed"}]
               Kept(e) == e \in Row /\ e.lease = firing[f].lease /\ e.lapsed = firing[f].lapsed
    <2>0. firing[f] \in Row
      BY DEF LeaseInv, LeaseTypeOK
    <2>1. CASE RenewFails(f)
      <3>1. Kept([firing[f] EXCEPT !.cancelled = TRUE])
        BY <2>0
      <3> QED  BY <2>1, <3>1 DEF RenewFails, Advance
    <2>2. CASE Release(f) \/ ReleaseFails(f)
      <3>1. Kept([firing[f] EXCEPT !.at = "rest"])
        BY <2>0
      <3> QED  BY <2>2, <3>1 DEF Release, ReleaseFails, Advance
    <2>3. CASE LogStart(f) \/ LogStartFails(f)
      <3>1. Kept([firing[f] EXCEPT !.at = "done"]) /\ Kept([firing[f] EXCEPT !.at = "logged", !.log = "running"])
        BY <2>0
      <3> QED  BY <2>3, <3>1 DEF LogStart, LogStartFails, Advance
    <2>4. CASE Enqueue(f) \/ EnqueueFails(f)
      <3>1. /\ Kept([firing[f] EXCEPT !.at = "done", !.log = "failed"])
            /\ Kept([firing[f] EXCEPT !.at = "sent"]) /\ Kept([firing[f] EXCEPT !.at = "refused"])
        BY <2>0
      <3> QED  BY <2>4, <3>1 DEF Enqueue, EnqueueFails, Advance
    <2>5. CASE LogEnd(f) \/ LogEndFails(f)
      <3> DEFINE closed == IF firing[f].cancelled THEN firing[f].log
                           ELSE IF firing[f].at = "sent" THEN "success" ELSE "failed"
      <3>1. Kept([firing[f] EXCEPT !.at = "done"]) /\ Kept([firing[f] EXCEPT !.at = "done", !.log = closed])
        BY <2>0
      <3> QED  BY <2>5, <3>1 DEF LogEnd, LogEndFails, Advance
    <2> QED  BY <2>1, <2>2, <2>3, <2>4, <2>5
  <1>1. /\ LeaseTypeOK' /\ UNCHANGED fence /\ Underway(f)
        /\ \A g \in Firings \ {f} : firing'[g] = firing[g]
        /\ firing'[f].lease = firing[f].lease /\ firing'[f].lapsed = firing[f].lapsed
    <2>1. UNCHANGED fence /\ Underway(f) /\ (UNCHANGED lease \/ lease' = FreeLease)
      BY DEF RenewFails, Release, ReleaseFails, LogStart, LogStartFails, Enqueue, EnqueueFails,
             LogEnd, LogEndFails, Underway
    <2> QED
      BY <1>0, <2>1 DEF LeaseInv, LeaseTypeOK, FreeLease, Leases
  <1>2. \/ UNCHANGED lease
        \/ lease' = FreeLease /\ Owns(f) /\ ~Underway(f)'
    BY DEF LeaseInv, LeaseTypeOK, RenewFails, Release, ReleaseFails, LogStart, LogStartFails, Enqueue,
           EnqueueFails, LogEnd, LogEndFails, Advance, Underway
  <1>3. TokensIssued'
    BY <1>1, <1>2 DEF LeaseInv, LeaseTypeOK, Leases, TokensIssued, FreeLease
  <1>4. TokensDiffer'
    BY <1>1 DEF LeaseInv, TokensDiffer, Underway
  <1>5. LeaseKept'
    <2> SUFFICES ASSUME NEW g \in Firings, Underway(g)', ~firing'[g].lapsed PROVE Owns(g)'
      BY DEF LeaseKept
    <2>1. Underway(g) /\ ~firing[g].lapsed /\ Owns(g)
      BY <1>1 DEF LeaseInv, LeaseKept, Underway
    <2>2. CASE UNCHANGED lease
      BY <1>1, <2>1, <2>2 DEF Owns
    <2>3. CASE lease' = FreeLease /\ Owns(f) /\ ~Underway(f)'
      BY <1>1, <2>1, <2>3 DEF LeaseInv, TokensDiffer, Owns
    <2> QED  BY <1>2, <2>2, <2>3
  <1> QED  BY <1>1, <1>3, <1>4, <1>5 DEF LeaseInv

\* A process that dies leaves the lease to lapse, and its firings end.
LEMMA HostCrashKeeps == ASSUME LeaseInv, NEW h \in Hosts, HostCrash(h) PROVE LeaseInv'
  <1>1. /\ LeaseTypeOK' /\ UNCHANGED <<lease, fence>>
        /\ \A f \in Firings : /\ firing'[f].lease = firing[f].lease /\ firing'[f].lapsed = firing[f].lapsed
                              /\ Underway(f)' => Underway(f)
    BY DEF LeaseInv, LeaseTypeOK, HostCrash, Underway
  <1> QED
    BY <1>1 DEF LeaseInv, TokensIssued, TokensDiffer, LeaseKept, Owns

\* The invariant is inductive.
LEMMA LeaseInvInductive == LeaseInv /\ [JobNext]_leaseVars => LeaseInv'
  <1> SUFFICES ASSUME LeaseInv, [JobNext]_leaseVars PROVE LeaseInv'
    OBVIOUS
  <1>1. ASSUME NEW f \in Firings, NEW h \in Hosts, Acquire(f, h) PROVE LeaseInv'
    BY <1>1, LeaseAcquireKeeps
  <1>2. ASSUME NEW h \in Hosts, AcquireUnanswered(h) PROVE LeaseInv'
    <2>1. CASE Firings = {}
      BY <1>2, <2>1 DEF AcquireUnanswered, GrantTo, LeaseInv, LeaseTypeOK, Leases, TokensIssued, TokensDiffer, LeaseKept
    <2>2. CASE Firings # {}
      BY <1>2, <2>2, LeaseAcquireKeeps
    <2> QED  BY <2>1, <2>2
  <1>3. ASSUME NEW h \in Hosts, HostCrash(h) PROVE LeaseInv'
    BY <1>3, HostCrashKeeps
  <1>4. CASE LeaseLapses
    BY <1>4, LeaseLapseKeeps
  <1>5. ASSUME NEW f \in Firings,
               \/ RenewFails(f) \/ Release(f) \/ ReleaseFails(f) \/ LogStart(f) \/ LogStartFails(f)
               \/ Enqueue(f) \/ EnqueueFails(f) \/ LogEnd(f) \/ LogEndFails(f)
        PROVE  LeaseInv'
    BY <1>5, FiringStepKeeps
  <1>6. CASE UNCHANGED leaseVars
    BY <1>6 DEF leaseVars, LeaseInv, LeaseTypeOK, TokensIssued, TokensDiffer, LeaseKept, Underway, Owns
  <1> QED  BY <1>1, <1>2, <1>3, <1>4, <1>5, <1>6 DEF JobNext

\* Two firings that go on under leases that stand hold the one lease there is,
\* under one token, and so are the same firing (Lease, SchedulerService).
THEOREM OneFiringAtATime == JobSpec => []OneLiveFiring
  <1>1. LeaseInv => OneLiveFiring
    BY DEF LeaseInv, LeaseKept, TokensDiffer, OneLiveFiring, Owns
  <1> QED
    BY <1>1, LeaseInvHoldsAtFirst, LeaseInvInductive, PTL DEF JobSpec

\* Every value the rows and the lease take is of its type (leaseVars).
THEOREM LeaseTypeCorrect == JobSpec => []LeaseTypeOK
  <1>1. LeaseInv => LeaseTypeOK
    BY DEF LeaseInv
  <1> QED
    BY <1>1, LeaseInvHoldsAtFirst, LeaseInvInductive, PTL DEF JobSpec

-----------------------------------------------------------------------------
(***************************************************************************)
(* Any number of workers, whose claims lapse and whose messages come again, *)
(* tell the user of an export once, and what its row says.                 *)
(***************************************************************************)

ExportRows == [status : {"none", "pending"} \cup ExportEnded, gone : BOOLEAN, token : Nat,
               owned : BOOLEAN, held : BOOLEAN]
ExporterRows == [at : {"rest", "claimed", "uploaded", "broken", "marked"},
                 task : Exports \cup {"none"}, token : Nat, lost : BOOLEAN]

ExportTypeOK ==
  /\ export \in [Exports -> ExportRows]
  /\ exporter \in [Exporters -> ExporterRows]
  /\ submission \in [Exports -> {"none", "created", "accepted", "refused", "failed", "stopped"}]
  /\ told \in [Exports -> {<<>>} \cup {<<status>> : status \in ExportEnded}]

\* A worker that is not at rest has a task, and a task exists only once it was
\* submitted.
WorkersHaveTasks ==
  /\ \A w \in Exporters : exporter[w].at # "rest" => exporter[w].task \in Exports
  /\ \A e \in Exports : submission[e] = "none" => export[e].status = "none"

\* The worker that has marked a row is the only one, and has yet to tell.
MarkersAlone ==
  /\ \A w \in Exporters : exporter[w].at = "marked" =>
       export[exporter[w].task].status \in ExportEnded /\ told[exporter[w].task] = <<>>
  /\ \A v, w \in Exporters : exporter[v].at = "marked" /\ exporter[w].at = "marked"
                               /\ exporter[v].task = exporter[w].task => v = w

ToldIsKept ==
  \A e \in Exports : told[e] # <<>> => export[e].status \in ExportEnded /\ told[e] = <<export[e].status>>

ExportInv == ExportTypeOK /\ WorkersHaveTasks /\ MarkersAlone /\ ToldIsKept

-----------------------------------------------------------------------------
\* No task is submitted at first.
LEMMA ExportInvHoldsAtFirst == ExportInit => ExportInv
  BY DEF ExportInit, ExportInv, ExportTypeOK, ExportRows, ExporterRows, WorkersHaveTasks, MarkersAlone,
         ToldIsKept, NoExport, OffDuty, ExportEnded

\* A step of the request, the owner or a clock changes one row, of a task that
\* has not ended, or leaves its status.
LEMMA ExportRowStepKeeps ==
  ASSUME ExportInv, NEW e \in Exports, NEW row \in ExportRows,
         UNCHANGED <<exporter, told>>,
         SetExport(e, row), row.status = export[e].status \/ export[e].status \notin ExportEnded,
         submission' \in [Exports -> {"none", "created", "accepted", "refused", "failed", "stopped"}],
         \A d \in Exports : submission'[d] = "none" => submission[d] = "none" /\ (d = e => row.status = "none")
  PROVE  ExportInv'
  <1>1. export' \in [Exports -> ExportRows] /\ export'[e] = row /\ \A d \in Exports \ {e} : export'[d] = export[d]
    BY DEF SetExport, ExportInv, ExportTypeOK
  <1>2. ExportTypeOK'
    BY <1>1 DEF ExportInv, ExportTypeOK
  <1>3. WorkersHaveTasks'
    BY <1>1 DEF ExportInv, WorkersHaveTasks
  <1>4. MarkersAlone'
    BY <1>1 DEF ExportInv, MarkersAlone, WorkersHaveTasks
  <1>5. ToldIsKept'
    BY <1>1 DEF ExportInv, ToldIsKept
  <1> QED  BY <1>2, <1>3, <1>4, <1>5 DEF ExportInv

\* A worker that goes on without having marked a row, or goes to rest.
LEMMA ExportWorkerStepKeeps ==
  ASSUME ExportInv, NEW w \in Exporters, NEW x \in ExporterRows,
         UNCHANGED <<export, submission, told>>,
         SetExporter(w, x), x.at # "marked", x.at # "rest" => x.task \in Exports
  PROVE  ExportInv'
  <1>1. exporter' \in [Exporters -> ExporterRows] /\ exporter'[w] = x
        /\ \A v \in Exporters \ {w} : exporter'[v] = exporter[v]
    BY DEF SetExporter, ExportInv, ExportTypeOK
  <1> QED
    BY <1>1 DEF ExportInv, ExportTypeOK, WorkersHaveTasks, MarkersAlone, ToldIsKept

\* The request, the owner and the clock end a row only while nobody has claimed it.
LEMMA ExportRequestKeeps ==
  ASSUME ExportInv, NEW e \in Exports,
         \/ CreatePending(e) \/ EnqueueRun(e) \/ MarkPendingFailed(e)
         \/ SubmissionStops(e) \/ DeleteByUser(e) \/ ExportClaimLapses(e)
  PROVE  ExportInv'
  <1> USE DEF ExportInv, ExportTypeOK, WorkersHaveTasks
  <1>0. export[e] \in ExportRows /\ export' = [export EXCEPT ![e] = export'[e]] /\ UNCHANGED <<exporter, told>>
    BY DEF CreatePending, EnqueueRun, MarkPendingFailed, SubmissionStops, DeleteByUser, ExportClaimLapses, SetExport
  <1>1. /\ export'[e] \in ExportRows
        /\ export'[e].status = export[e].status \/ export[e].status \notin ExportEnded
    <2> DEFINE Fits(row) == row \in ExportRows /\ (row.status = export[e].status \/ export[e].status \notin ExportEnded)
    <2>1. CASE CreatePending(e)
      <3>1. NoExport \in ExportRows
        BY DEF NoExport, ExportRows
      <3>2. Fits([NoExport EXCEPT !.status = "pending"])
        BY <2>1, <3>1 DEF CreatePending, ExportRows, ExportEnded
      <3> QED  BY <2>1, <3>2 DEF CreatePending, SetExport
    <2>2. CASE EnqueueRun(e) \/ SubmissionStops(e)
      BY <1>0, <2>2 DEF EnqueueRun, SubmissionStops
    <2>3. CASE MarkPendingFailed(e)
      <3>1. Unclaimed(e) => Fits([export[e] EXCEPT !.status = "failed"])
        BY <1>0 DEF Unclaimed, ExportRows, ExportEnded
      <3> QED  BY <1>0, <2>3, <3>1 DEF MarkPendingFailed, SetExport
    <2>4. CASE DeleteByUser(e)
      <3>1. Fits([export[e] EXCEPT !.gone = TRUE])
        BY <1>0 DEF ExportRows
      <3> QED  BY <2>4, <3>1 DEF DeleteByUser, SetExport
    <2>5. CASE ExportClaimLapses(e)
      <3>1. Fits([export[e] EXCEPT !.held = FALSE])
        BY <1>0 DEF ExportRows
      <3> QED  BY <2>5, <3>1 DEF ExportClaimLapses, SetExport
    <2> QED  BY <2>1, <2>2, <2>3, <2>4, <2>5
  <1>2. /\ submission' \in [Exports -> {"none", "created", "accepted", "refused", "failed", "stopped"}]
        /\ \A d \in Exports : submission'[d] = "none" =>
             submission[d] = "none" /\ (d = e => export'[e].status = "none")
    BY DEF CreatePending, EnqueueRun, MarkPendingFailed, SubmissionStops, DeleteByUser, ExportClaimLapses, SetExport,
           ExportRows
  <1> QED
    BY <1>0, <1>1, <1>2, ExportRowStepKeeps DEF SetExport

\* A claim raises the token of a pending row and leaves its status.
LEMMA ExportClaimKeeps ==
  ASSUME ExportInv, NEW w \in Exporters, NEW e \in Exports, ClaimExport(w, e)
  PROVE  ExportInv'
  <1> USE DEF ExportInv, ExportTypeOK
  <1>1. CASE Claimable(e)
    <2> DEFINE row == [export[e] EXCEPT !.token = export[e].token + 1, !.owned = TRUE, !.held = TRUE]
               x == [at |-> "claimed", task |-> e, token |-> export[e].token + 1, lost |-> FALSE]
    <2>1. row \in ExportRows /\ row.status = export[e].status /\ x \in ExporterRows
      <3>1. export[e] \in ExportRows /\ export[e].token + 1 \in Nat
        BY DEF ExportRows
      <3> QED  BY <3>1 DEF ExportRows, ExporterRows
    <2>2. /\ export' = [export EXCEPT ![e] = row] /\ exporter' = [exporter EXCEPT ![w] = x]
          /\ UNCHANGED <<submission, told>> /\ exporter[w].at = "rest"
      BY <1>1 DEF ClaimExport, SetExport, SetExporter
    <2> HIDE DEF row
    <2>3. \A d \in Exports : export'[d].status = export[d].status
      BY <2>1, <2>2
    <2> QED
      BY <2>1, <2>2, <2>3 DEF WorkersHaveTasks, MarkersAlone, ToldIsKept
  <1>2. CASE ~Claimable(e)
    BY <1>2 DEF ClaimExport, WorkersHaveTasks, MarkersAlone, ToldIsKept
  <1> QED  BY <1>1, <1>2

\* Whoever ends a row found it pending: nobody has marked it, nobody was told.
LEMMA ExportMarkKeeps ==
  ASSUME ExportInv, NEW w \in Exporters, NEW status \in ExportEnded, exporter[w].at \in {"uploaded", "broken"},
         EndExport(w, status)
  PROVE  ExportInv'
  <1> USE DEF ExportInv, ExportTypeOK
  <1> DEFINE e == exporter[w].task
  <1>0. e \in Exports /\ exporter[w] \in ExporterRows
    BY DEF WorkersHaveTasks
  <1>1. CASE ClaimStands(w)
    <2> DEFINE row == [export[e] EXCEPT !.status = status, !.owned = FALSE, !.held = FALSE]
               x == [exporter[w] EXCEPT !.at = "marked"]
    <2>1. row \in ExportRows /\ row.status = status
      BY <1>0 DEF ExportRows
    <2>2. x \in ExporterRows /\ x.at = "marked" /\ x.task = e
      BY <1>0 DEF ExporterRows
    <2>3. /\ export' = [export EXCEPT ![e] = row] /\ exporter' = [exporter EXCEPT ![w] = x]
          /\ UNCHANGED <<submission, told>>
      BY <1>1 DEF EndExport, SetExport, SetExporter
    <2>4. export[e].status = "pending"
      BY <1>1 DEF ClaimStands
    <2> HIDE DEF row, x
    <2>5. /\ export'[e].status = status /\ \A d \in Exports \ {e} : export'[d] = export[d]
          /\ exporter'[w].at = "marked" /\ exporter'[w].task = e /\ \A v \in Exporters \ {w} : exporter'[v] = exporter[v]
      BY <1>0, <2>1, <2>2, <2>3
    <2>6. ExportTypeOK'
      BY <1>0, <2>1, <2>2, <2>3
    <2>7. told[e] = <<>> /\ \A v \in Exporters : exporter[v].at = "marked" => exporter[v].task # e
      BY <1>0, <2>4 DEF ToldIsKept, MarkersAlone, ExportEnded
    <2>8. WorkersHaveTasks'
      BY <1>0, <2>3, <2>4, <2>5 DEF WorkersHaveTasks
    <2>9. MarkersAlone'
      BY <1>0, <2>3, <2>5, <2>7 DEF MarkersAlone, WorkersHaveTasks
    <2>10. ToldIsKept'
      BY <1>0, <2>3, <2>5, <2>7 DEF ToldIsKept
    <2> QED  BY <2>6, <2>8, <2>9, <2>10
  <1>2. CASE ~ClaimStands(w)
    <2>1. OffDuty \in ExporterRows /\ OffDuty.at = "rest"
      BY DEF OffDuty, ExporterRows
    <2> QED
      BY <1>2, <2>1, ExportWorkerStepKeeps DEF EndExport, ReturnError
  <1> QED  BY <1>1, <1>2

\* The one marker tells, and rests.
LEMMA ExportNotifyKeeps ==
  ASSUME ExportInv, NEW w \in Exporters, NotifyExport(w)
  PROVE  ExportInv'
  <1> USE DEF ExportInv, ExportTypeOK
  <1> DEFINE e == exporter[w].task
  <1>0. /\ e \in Exports /\ exporter[w].at = "marked" /\ told[e] = <<>> /\ export[e].status \in ExportEnded
        /\ UNCHANGED <<export, submission>>
    BY DEF NotifyExport, WorkersHaveTasks, MarkersAlone
  <1>1. OffDuty \in ExporterRows /\ OffDuty.at = "rest"
    BY DEF OffDuty, ExporterRows
  <1>2. exporter' = [exporter EXCEPT ![w] = OffDuty]
    BY DEF NotifyExport, SetExporter
  <1>3. CASE UNCHANGED told
    BY <1>0, <1>1, <1>2, <1>3, ExportWorkerStepKeeps DEF SetExporter
  <1>4. CASE told' = [told EXCEPT ![e] = Append(@, export[e].status)]
    <2>1. told' = [told EXCEPT ![e] = <<export[e].status>>]
      BY <1>0, <1>4
    <2>2. exporter'[w].at = "rest" /\ \A v \in Exporters \ {w} : exporter'[v] = exporter[v]
      BY <1>1, <1>2
    <2>3. \A v \in Exporters \ {w} : exporter[v].at = "marked" => exporter[v].task # e
      BY <1>0 DEF MarkersAlone
    <2>4. ExportTypeOK'
      BY <1>0, <1>1, <1>2, <2>1
    <2>5. MarkersAlone'
      BY <1>0, <2>1, <2>2, <2>3 DEF MarkersAlone, WorkersHaveTasks
    <2>6. ToldIsKept'
      BY <1>0, <2>1 DEF ToldIsKept
    <2>7. WorkersHaveTasks'
      BY <1>0, <2>2 DEF WorkersHaveTasks
    <2> QED  BY <2>4, <2>5, <2>6, <2>7
  <1> QED
    BY <1>3, <1>4 DEF NotifyExport

\* A worker that builds, gives up or dies has marked nothing.
LEMMA ExportWorkKeeps ==
  ASSUME ExportInv, NEW w \in Exporters,
         \/ BuildAndUpload(w) \/ LeaveLostExport(w) \/ ExportRenewalEnds(w) \/ BuildFails(w) \/ ExporterStops(w)
  PROVE  ExportInv'
  <1>0. exporter[w] \in ExporterRows /\ (exporter[w].at # "rest" => exporter[w].task \in Exports)
    BY DEF ExportInv, ExportTypeOK, WorkersHaveTasks
  <1> DEFINE Fits(x) == x \in ExporterRows /\ x.at # "marked" /\ (x.at # "rest" => x.task \in Exports)
  <1>1. Fits(OffDuty)
    BY DEF OffDuty, ExporterRows
  <1>2. exporter[w].at = "claimed" =>
          Fits([exporter[w] EXCEPT !.at = "uploaded"]) /\ Fits([exporter[w] EXCEPT !.at = "broken"])
    BY <1>0 DEF ExporterRows
  <1>3. exporter[w].at \in {"claimed", "uploaded"} => Fits([exporter[w] EXCEPT !.lost = TRUE])
    BY <1>0 DEF ExporterRows
  <1>4. UNCHANGED <<export, submission, told>>
    BY DEF BuildAndUpload, LeaveLostExport, ExportRenewalEnds, BuildFails, ExporterStops
  <1>5. \E x : Fits(x) /\ SetExporter(w, x)
    BY <1>1, <1>2, <1>3 DEF BuildAndUpload, LeaveLostExport, ExportRenewalEnds, BuildFails, ExporterStops, ReturnError
  <1> QED
    BY <1>4, <1>5, ExportWorkerStepKeeps

\* The invariant is inductive.
LEMMA ExportInvInductive == ExportInv /\ [ExportNext]_exportVars => ExportInv'
  <1> SUFFICES ASSUME ExportInv, [ExportNext]_exportVars PROVE ExportInv'
    OBVIOUS
  <1>1. ASSUME NEW e \in Exports,
               \/ CreatePending(e) \/ EnqueueRun(e) \/ MarkPendingFailed(e)
               \/ SubmissionStops(e) \/ DeleteByUser(e) \/ ExportClaimLapses(e)
        PROVE  ExportInv'
    BY <1>1, ExportRequestKeeps
  <1>2. ASSUME NEW w \in Exporters, NEW e \in Exports, ClaimExport(w, e) PROVE ExportInv'
    BY <1>2, ExportClaimKeeps
  <1>3. ASSUME NEW w \in Exporters, MarkExportSuccess(w) \/ MarkExportFailed(w) PROVE ExportInv'
    BY <1>3, ExportMarkKeeps DEF MarkExportSuccess, MarkExportFailed, ExportEnded
  <1>4. ASSUME NEW w \in Exporters, NotifyExport(w) PROVE ExportInv'
    BY <1>4, ExportNotifyKeeps
  <1>5. ASSUME NEW w \in Exporters,
               \/ BuildAndUpload(w) \/ LeaveLostExport(w) \/ ExportRenewalEnds(w) \/ BuildFails(w) \/ ExporterStops(w)
        PROVE  ExportInv'
    BY <1>5, ExportWorkKeeps
  <1>6. CASE UNCHANGED exportVars
    BY <1>6 DEF exportVars, ExportInv, ExportTypeOK, WorkersHaveTasks, MarkersAlone, ToldIsKept
  <1> QED
    BY <1>1, <1>2, <1>3, <1>4, <1>5, <1>6 DEF ExportNext, ExporterStep

\* The user hears of an export once, and hears the outcome its row keeps
\* (MarkSuccess and failRun compare the claim's token and its expiry).
THEOREM ExportIsToldOnce == ExportSpec => []ExportToldOnce
  <1>1. ExportInv => ExportToldOnce
    BY DEF ExportInv, ExportTypeOK, ToldIsKept, ExportToldOnce
  <1> QED
    BY <1>1, ExportInvHoldsAtFirst, ExportInvInductive, PTL DEF ExportSpec

-----------------------------------------------------------------------------
(***************************************************************************)
(* However many workers deliver a notification task, and whichever of them *)
(* has lost its claim, each user gets it once; a task that reports success *)
(* reached everybody, and a cancelled one nobody.                          *)
(***************************************************************************)

Rows == [status : {"none", "pending", "sending", "success", "failed"},
         gone : {"no", "cancelled", "deleted"}, due : BOOLEAN, token : Nat,
         held : BOOLEAN, sent : Nat, total : Nat]
Rounds == [at : {"rest", "claimed", "batch", "progress", "error"}, task : Notices \cup {"none"},
           token : Nat, todo : SUBSET Audience, sent : Nat, lost : BOOLEAN]

NoticeTypeOK ==
  /\ notice \in [Notices -> Rows]
  /\ delivered \in [Notices -> [Audience -> {0, 1}]]
  /\ courier \in [Couriers -> Rounds]

Untaken == {"none", "pending"}

\* A courier under way has a task that was claimed.
CouriersHaveTasks ==
  \A w \in Couriers : courier[w].at # "rest" =>
    courier[w].task \in Notices /\ notice[courier[w].task].status \notin Untaken

\* The users a courier has been through have their notification, and are
\* those it has counted.
Counted(c) ==
  /\ c.at = "claimed" => c.sent = 0
  /\ c.at \in {"batch", "progress"} =>
       /\ \A u \in Audience \ c.todo : delivered[c.task][u] = 1
       /\ c.sent + Cardinality(c.todo) = Cardinality(Audience)

CountedIsDelivered == \A w \in Couriers : Counted(courier[w])

\* Nothing is delivered of a task nobody has claimed, and a cancelled task
\* was not claimed.
CancelledIsUntaken ==
  \A n \in Notices :
    /\ notice[n].status \in Untaken => \A u \in Audience : delivered[n][u] = 0
    /\ notice[n].gone = "cancelled" => notice[n].status = "pending"

SuccessIsWhole ==
  \A n \in Notices :
    /\ notice[n].status # "none" => notice[n].total = Cardinality(Audience)
    /\ notice[n].status = "success" =>
         notice[n].sent = Cardinality(Audience) /\ \A u \in Audience : delivered[n][u] = 1

NoticeInv ==
  NoticeTypeOK /\ CouriersHaveTasks /\ CountedIsDelivered /\ CancelledIsUntaken /\ SuccessIsWhole

-----------------------------------------------------------------------------
\* No task is written and no courier is under way at first.
LEMMA NoticeInvHoldsAtFirst == NoticeInit => NoticeInv
  <1>1. Unwritten \in Rows /\ OffRound \in Rounds
    BY DEF Unwritten, OffRound, Rows, Rounds
  <1> QED
    BY <1>1 DEF NoticeInit, NoticeInv, NoticeTypeOK, CouriersHaveTasks, CountedIsDelivered, Counted,
                CancelledIsUntaken, SuccessIsWhole, Unwritten, OffRound, Untaken

\* The size of the audience is a number.
LEMMA AudienceCounts == Cardinality(Audience) \in Nat
  BY AudienceAssumption, FS_CardinalityType

\* A step that writes one row and delivers nothing: the row keeps its place in
\* the life of a task, its audience and, once it has ended, its outcome.
LEMMA NoticeRowStepKeeps ==
  ASSUME NoticeInv, NEW n \in Notices, NEW row \in Rows,
         SetNotice(n, row), UNCHANGED <<delivered, courier>>,
         row.status # notice[n].status => notice[n].status = "none" /\ row.status = "pending",
         row.status = notice[n].status => row.total = notice[n].total /\ row.sent = notice[n].sent,
         row.status # "none" => row.total = Cardinality(Audience),
         row.gone = "cancelled" => row.status = "pending"
  PROVE  NoticeInv'
  <1> USE DEF NoticeInv, NoticeTypeOK
  <1>1. notice'[n] = row /\ \A m \in Notices \ {n} : notice'[m] = notice[m]
    BY DEF SetNotice
  <1>2. NoticeTypeOK'
    BY DEF SetNotice
  <1>3. CouriersHaveTasks'
    BY <1>1 DEF CouriersHaveTasks, Untaken
  <1>4. CountedIsDelivered'
    BY DEF CountedIsDelivered, Counted, Counted
  <1>5. CancelledIsUntaken'
    BY <1>1 DEF CancelledIsUntaken, Untaken
  <1>6. SuccessIsWhole'
    BY <1>1 DEF SuccessIsWhole
  <1> QED  BY <1>2, <1>3, <1>4, <1>5, <1>6

\* The administrator and the clocks.
LEMMA NoticeOfficeKeeps ==
  ASSUME NoticeInv, NEW n \in Notices,
         \/ CreateNotice(n) \/ ReadToCancel(n) \/ CancelPending(n) \/ DeleteNotice(n)
         \/ SendAtPasses(n) \/ ClaimLapses(n)
  PROVE  NoticeInv'
  <1>0. notice[n] \in Rows /\ (notice[n].status # "none" => notice[n].total = Cardinality(Audience))
        /\ (notice[n].gone = "cancelled" => notice[n].status = "pending")
    BY DEF NoticeInv, NoticeTypeOK, SuccessIsWhole, CancelledIsUntaken
  <1>1. ASSUME NEW row \in Rows, SetNotice(n, row), UNCHANGED <<delivered, courier>>,
               row.status = notice[n].status, row.total = notice[n].total, row.sent = notice[n].sent,
               row.gone = "cancelled" => row.status = "pending"
        PROVE  NoticeInv'
    BY <1>0, <1>1, NoticeRowStepKeeps
  <1>2. CASE CreateNotice(n)
    <2>1. PICK now \in BOOLEAN :
            SetNotice(n, [Unwritten EXCEPT !.status = "pending", !.due = now, !.total = Cardinality(Audience)])
      BY <1>2 DEF CreateNotice
    <2> DEFINE row == [Unwritten EXCEPT !.status = "pending", !.due = now, !.total = Cardinality(Audience)]
    <2>2. row \in Rows /\ row.status = "pending" /\ row.total = Cardinality(Audience) /\ row.gone = "no"
      BY AudienceCounts DEF Unwritten, Rows
    <2>3. notice[n].status = "none"
      <3>1. notice[n] = Unwritten
        BY <1>2 DEF CreateNotice
      <3> QED  BY <3>1 DEF Unwritten
    <2>4. SetNotice(n, row) /\ UNCHANGED <<delivered, courier>>
      BY <1>2, <2>1 DEF CreateNotice
    <2> HIDE DEF row
    <2> QED  BY <2>2, <2>3, <2>4, NoticeRowStepKeeps
  <1>3. CASE ReadToCancel(n)
    BY <1>3 DEF ReadToCancel, NoticeInv, NoticeTypeOK, CouriersHaveTasks, CountedIsDelivered, Counted,
                CancelledIsUntaken, SuccessIsWhole
  <1>4. CASE CancelPending(n)
    <2>1. CASE Cancellable(n)
      <3> DEFINE row == [notice[n] EXCEPT !.gone = "cancelled"]
      <3>1. row \in Rows /\ row.status = notice[n].status /\ row.total = notice[n].total
            /\ row.sent = notice[n].sent /\ row.status = "pending"
        BY <1>0, <2>1 DEF Rows, Cancellable
      <3> HIDE DEF row
      <3> QED  BY <1>1, <1>4, <2>1, <3>1 DEF CancelPending, row
    <2>2. CASE ~Cancellable(n)
      BY <1>4, <2>2 DEF CancelPending, NoticeInv, NoticeTypeOK, CouriersHaveTasks, CountedIsDelivered, Counted,
                  CancelledIsUntaken, SuccessIsWhole
    <2> QED  BY <2>1, <2>2
  <1>5. CASE DeleteNotice(n)
    <2> DEFINE row == [notice[n] EXCEPT !.gone = "deleted"]
    <2>1. row \in Rows /\ row.status = notice[n].status /\ row.total = notice[n].total
          /\ row.sent = notice[n].sent /\ row.gone = "deleted"
      BY <1>0 DEF Rows
    <2> HIDE DEF row
    <2> QED  BY <1>1, <1>5, <2>1 DEF DeleteNotice, row
  <1>6. CASE SendAtPasses(n)
    <2> DEFINE row == [notice[n] EXCEPT !.due = TRUE]
    <2>1. row \in Rows /\ row.status = notice[n].status /\ row.total = notice[n].total
          /\ row.sent = notice[n].sent /\ row.gone = notice[n].gone
      BY <1>0 DEF Rows
    <2> HIDE DEF row
    <2> QED  BY <1>0, <1>1, <1>6, <2>1 DEF SendAtPasses, row
  <1>7. CASE ClaimLapses(n)
    <2> DEFINE row == [notice[n] EXCEPT !.held = FALSE]
    <2>1. row \in Rows /\ row.status = notice[n].status /\ row.total = notice[n].total
          /\ row.sent = notice[n].sent /\ row.gone = notice[n].gone
      BY <1>0 DEF Rows
    <2> HIDE DEF row
    <2> QED  BY <1>0, <1>1, <1>7, <2>1 DEF ClaimLapses, row
  <1> QED  BY <1>2, <1>3, <1>4, <1>5, <1>6, <1>7

\* A courier that goes on without having delivered more, or goes to rest; the
\* rows stay, or one of them ends or counts what its courier delivered.
LEMMA CourierStepKeeps ==
  ASSUME NoticeInv, NEW w \in Couriers, NEW c \in Rounds,
         UNCHANGED <<notice, delivered>>, SetCourier(w, c),
         c.at # "rest" => c.task \in Notices /\ notice[c.task].status \notin Untaken,
         Counted(c)
  PROVE  NoticeInv'
  <1> USE DEF NoticeInv, NoticeTypeOK
  <1>1. courier'[w] = c /\ \A v \in Couriers \ {w} : courier'[v] = courier[v]
    BY DEF SetCourier
  <1>2. NoticeTypeOK'
    BY DEF SetCourier
  <1>3. CouriersHaveTasks'
    BY <1>1 DEF CouriersHaveTasks
  <1>4. CountedIsDelivered'
    BY <1>1 DEF CountedIsDelivered, Counted, Counted
  <1>5. CancelledIsUntaken' /\ SuccessIsWhole'
    BY DEF CancelledIsUntaken, SuccessIsWhole
  <1> QED  BY <1>2, <1>3, <1>4, <1>5

\* A claim moves a due task on, and starts with nothing delivered by it.
LEMMA NoticeClaimKeeps ==
  ASSUME NoticeInv, NEW w \in Couriers, NEW n \in Notices, ClaimNotice(w, n)
  PROVE  NoticeInv'
  <1> USE DEF NoticeInv, NoticeTypeOK
  <1>1. CASE DueTask(n)
    <2> DEFINE row == [notice[n] EXCEPT !.status = "sending", !.token = notice[n].token + 1, !.held = TRUE]
               c == [OffRound EXCEPT !.at = "claimed", !.task = n, !.token = notice[n].token + 1]
    <2>0. notice[n] \in Rows /\ notice[n].gone = "no" /\ notice[n].status \in {"pending", "sending"}
      BY <1>1 DEF DueTask
    <2>1. /\ row \in Rows /\ row.status = "sending" /\ row.gone = "no"
          /\ row.total = notice[n].total
      <3>1. notice[n].token + 1 \in Nat
        BY <2>0 DEF Rows
      <3> QED  BY <2>0, <3>1 DEF Rows
    <2>2. c \in Rounds /\ c.at = "claimed" /\ c.task = n /\ c.sent = 0
      <3>1. notice[n].token + 1 \in Nat
        BY <2>0 DEF Rows
      <3> QED  BY <3>1 DEF OffRound, Rounds
    <2>3. notice' = [notice EXCEPT ![n] = row] /\ courier' = [courier EXCEPT ![w] = c] /\ UNCHANGED delivered
      BY <1>1 DEF ClaimNotice, SetNotice, SetCourier
    <2> HIDE DEF row, c
    <2>4. /\ notice'[n] = row /\ \A m \in Notices \ {n} : notice'[m] = notice[m]
          /\ courier'[w] = c /\ \A v \in Couriers \ {w} : courier'[v] = courier[v]
      BY <2>3
    <2>5. NoticeTypeOK'
      BY <2>1, <2>2, <2>3
    <2>6. CouriersHaveTasks'
      BY <2>1, <2>2, <2>4 DEF CouriersHaveTasks, Untaken
    <2>7. CountedIsDelivered'
      BY <2>2, <2>3, <2>4 DEF CountedIsDelivered, Counted, Counted
    <2>8. CancelledIsUntaken'
      BY <2>1, <2>3, <2>4 DEF CancelledIsUntaken, Untaken
    <2>9. SuccessIsWhole'
      BY <2>0, <2>1, <2>3, <2>4 DEF SuccessIsWhole
    <2> QED  BY <2>5, <2>6, <2>7, <2>8, <2>9
  <1>2. CASE ~DueTask(n)
    BY <1>2 DEF ClaimNotice, CouriersHaveTasks, CountedIsDelivered, Counted, CancelledIsUntaken, SuccessIsWhole
  <1> QED  BY <1>1, <1>2

\* The steps of a courier that write neither a row nor a notification.
LEMMA NoticeRoundKeeps ==
  ASSUME NoticeInv, NEW w \in Couriers,
         TargetUserIDs(w) \/ LeaveLost(w) \/ RenewalEnds(w) \/ WorkFails(w) \/ CourierStops(w)
  PROVE  NoticeInv'
  <1>0. /\ courier[w] \in Rounds
        /\ courier[w].at # "rest" => courier[w].task \in Notices /\ notice[courier[w].task].status \notin Untaken
        /\ Counted(courier[w])
    BY DEF NoticeInv, NoticeTypeOK, CouriersHaveTasks, CountedIsDelivered
  <1> DEFINE Fits(c) == /\ c \in Rounds /\ Counted(c)
                        /\ c.at # "rest" => c.task \in Notices /\ notice[c.task].status \notin Untaken
  <1>1. Fits(OffRound)
    BY DEF OffRound, Rounds, Counted
  <1>2. courier[w].at # "rest" =>
          Fits([courier[w] EXCEPT !.lost = TRUE]) /\ Fits([courier[w] EXCEPT !.at = "error"])
    BY <1>0 DEF Rounds, Counted
  <1>3. courier[w].at = "claimed" => Fits([courier[w] EXCEPT !.at = "batch", !.todo = Audience])
    <2> SUFFICES ASSUME courier[w].at = "claimed"
                 PROVE  Fits([courier[w] EXCEPT !.at = "batch", !.todo = Audience])
      OBVIOUS
    <2> DEFINE c == [courier[w] EXCEPT !.at = "batch", !.todo = Audience]
    <2>1. /\ c \in Rounds /\ c.at = "batch" /\ c.todo = Audience /\ c.task = courier[w].task /\ c.sent = 0
      BY <1>0 DEF Rounds, Counted
    <2>2. Counted(c)
      BY <2>1, AudienceCounts DEF Counted
    <2> QED  BY <1>0, <2>1, <2>2
  <1>4. UNCHANGED <<notice, delivered>> /\ \E c : Fits(c) /\ SetCourier(w, c)
    BY <1>1, <1>2, <1>3 DEF TargetUserIDs, LeaveLost, RenewalEnds, WorkFails, CourierStops, GiveUp
  <1> QED
    BY <1>4, CourierStepKeeps

\* A batch gives a user the notification unless it is there, and counts it.
LEMMA NoticeBatchKeeps ==
  ASSUME NoticeInv, NEW w \in Couriers, InsertNotifications(w)
  PROVE  NoticeInv'
  <1> USE DEF NoticeInv, NoticeTypeOK
  <1> DEFINE n == courier[w].task
  <1>0. /\ courier[w] \in Rounds /\ n \in Notices /\ notice[n].status \notin Untaken
        /\ Counted(courier[w]) /\ courier[w].at = "batch" /\ UNCHANGED notice
    BY DEF CouriersHaveTasks, CountedIsDelivered, InsertNotifications
  <1>1. PICK u \in courier[w].todo :
          /\ delivered' = [delivered EXCEPT ![n][u] = Inserted(n, u)]
          /\ \/ SetCourier(w, [courier[w] EXCEPT !.at = "progress", !.todo = @ \ {u}, !.sent = @ + 1])
             \/ SetCourier(w, [courier[w] EXCEPT !.at = "error"])
    BY DEF InsertNotifications
  <1>2. u \in Audience /\ Inserted(n, u) = 1
    BY <1>0, <1>1 DEF Rounds, Inserted
  <1>3. /\ delivered' \in [Notices -> [Audience -> {0, 1}]] /\ delivered'[n][u] = 1
        /\ \A v \in Audience \ {u} : delivered'[n][v] = delivered[n][v]
        /\ \A m \in Notices \ {n} : delivered'[m] = delivered[m]
    BY <1>0, <1>1, <1>2
  <1> DEFINE Fits(c) == /\ c \in Rounds /\ c.at # "claimed" /\ c.task = n
                        /\ c.at # "error" =>
                             /\ \A v \in Audience \ c.todo : delivered'[n][v] = 1
                             /\ c.sent + Cardinality(c.todo) = Cardinality(Audience)
  <1>4. Fits([courier[w] EXCEPT !.at = "progress", !.todo = @ \ {u}, !.sent = @ + 1])
    <2>1. /\ IsFiniteSet(courier[w].todo)
          /\ Cardinality(courier[w].todo \ {u}) = Cardinality(courier[w].todo) - 1
          /\ Cardinality(courier[w].todo) \in Nat /\ courier[w].sent \in Nat
      <3>1. courier[w].todo \subseteq Audience /\ courier[w].sent \in Nat
        BY <1>0 DEF Rounds
      <3>2. IsFiniteSet(courier[w].todo)
        BY <3>1, AudienceAssumption, FS_Subset
      <3> QED  BY <3>1, <3>2, FS_RemoveElement, FS_CardinalityType
    <2> DEFINE c == [courier[w] EXCEPT !.at = "progress", !.todo = @ \ {u}, !.sent = @ + 1]
    <2>2. /\ c \in Rounds /\ c.at = "progress" /\ c.task = n
          /\ c.todo = courier[w].todo \ {u} /\ c.sent = courier[w].sent + 1
      <3>1. courier[w].todo \ {u} \in SUBSET Audience /\ courier[w].sent + 1 \in Nat
        BY <1>0, <2>1 DEF Rounds
      <3> QED  BY <1>0, <3>1 DEF Rounds
    <2> HIDE DEF c
    <2>3. \A v \in Audience \ c.todo : delivered'[n][v] = 1
      BY <1>0, <1>3, <2>2 DEF Counted
    <2>4. c.sent + Cardinality(c.todo) = Cardinality(Audience)
      <3>1. courier[w].sent + Cardinality(courier[w].todo) = Cardinality(Audience)
        BY <1>0 DEF Counted
      <3>2. Cardinality(c.todo) = Cardinality(courier[w].todo) - 1
        BY <2>1, <2>2
      <3>3. c.sent = courier[w].sent + 1 /\ courier[w].sent \in Nat /\ Cardinality(courier[w].todo) \in Nat
        BY <2>1, <2>2
      <3> QED  BY ONLY <3>1, <3>2, <3>3
    <2>5. Fits(c)
      BY <2>2, <2>3, <2>4
    <2> QED  BY <2>5 DEF c
  <1>5. Fits([courier[w] EXCEPT !.at = "error"])
    BY <1>0 DEF Rounds
  <1>6. PICK c : Fits(c) /\ SetCourier(w, c)
    BY <1>1, <1>4, <1>5
  <1>7. courier'[w] = c /\ (\A v \in Couriers \ {w} : courier'[v] = courier[v]) /\ NoticeTypeOK'
    BY <1>0, <1>3, <1>6 DEF SetCourier
  <1>8. CouriersHaveTasks'
    BY <1>0, <1>6, <1>7 DEF CouriersHaveTasks
  <1>9. CountedIsDelivered'
    <2>1. Counted(courier[w])'
      BY <1>6, <1>7 DEF Counted, Rounds
    <2>2. ASSUME NEW v \in Couriers \ {w} PROVE Counted(courier[v])'
      <3>1. /\ Counted(courier[v]) /\ courier[v].todo \subseteq Audience
            /\ courier[v].at # "rest" => courier[v].task \in Notices
        BY DEF CountedIsDelivered, CouriersHaveTasks, Rounds
      <3>2. \A m \in Notices, x \in Audience : delivered[m][x] = 1 => delivered'[m][x] = 1
        BY <1>0, <1>2, <1>3
      <3>3. ASSUME courier[v].at \in {"batch", "progress"}, NEW x \in Audience \ courier[v].todo
            PROVE  delivered'[courier[v].task][x] = 1
        BY <3>1, <3>2, <3>3 DEF Counted
      <3>4. /\ courier[v].at = "claimed" => courier[v].sent = 0
            /\ courier[v].at \in {"batch", "progress"} =>
                 courier[v].sent + Cardinality(courier[v].todo) = Cardinality(Audience)
        BY <3>1 DEF Counted
      <3>5. courier'[v] = courier[v]
        BY <1>7
      <3> QED  BY ONLY <3>3, <3>4, <3>5 DEF Counted
    <2> QED  BY <2>1, <2>2 DEF CountedIsDelivered
  <1>10. CancelledIsUntaken'
    BY <1>0, <1>3 DEF CancelledIsUntaken
  <1>11. SuccessIsWhole'
    BY <1>0, <1>3 DEF SuccessIsWhole
  <1> QED  BY <1>7, <1>8, <1>9, <1>10, <1>11

\* A row that is sending, under the claim of its courier, counts or ends: it
\* is a success only with everybody delivered.
LEMMA FencedWriteKeeps ==
  ASSUME NoticeInv, NEW w \in Couriers, NEW row \in Rows, NEW c \in Rounds, courier[w].at # "rest", Fenced(w),
         SetNotice(courier[w].task, row), SetCourier(w, c), UNCHANGED delivered,
         row.status \in {"sending", "success", "failed"}, row.gone = "no",
         row.total = Cardinality(Audience),
         row.status = "success" =>
           row.sent = Cardinality(Audience) /\ \A u \in Audience : delivered[courier[w].task][u] = 1,
         c.at # "rest" => c.task = courier[w].task,
         Counted(c)
  PROVE  NoticeInv'
  <1> USE DEF NoticeInv, NoticeTypeOK
  <1> DEFINE n == courier[w].task
  <1>0. n \in Notices
    BY DEF CouriersHaveTasks
  <1>1. /\ notice'[n] = row /\ (\A m \in Notices \ {n} : notice'[m] = notice[m])
        /\ courier'[w] = c /\ (\A v \in Couriers \ {w} : courier'[v] = courier[v])
        /\ NoticeTypeOK'
    BY <1>0 DEF SetNotice, SetCourier
  <1>2. CouriersHaveTasks'
    <2> SUFFICES ASSUME NEW v \in Couriers, courier'[v].at # "rest"
                 PROVE  courier'[v].task \in Notices /\ notice'[courier'[v].task].status \notin Untaken
      BY DEF CouriersHaveTasks
    <2>1. courier'[v].task \in Notices
      BY <1>0, <1>1 DEF CouriersHaveTasks
    <2>2. CASE courier'[v].task = n
      BY <1>1, <2>1, <2>2 DEF Untaken
    <2>3. CASE courier'[v].task # n
      BY <1>1, <2>1, <2>3 DEF CouriersHaveTasks
    <2> QED  BY <2>1, <2>2, <2>3
  <1>3. CountedIsDelivered'
    BY <1>1 DEF CountedIsDelivered, Counted
  <1>4. CancelledIsUntaken'
    BY <1>0, <1>1 DEF CancelledIsUntaken, Untaken
  <1>5. SuccessIsWhole'
    BY <1>0, <1>1 DEF SuccessIsWhole
  <1> QED  BY <1>1, <1>2, <1>3, <1>4, <1>5

\* The progress, the success and the failure of a courier.
LEMMA NoticeMarkKeeps ==
  ASSUME NoticeInv, NEW w \in Couriers, UpdateProgress(w) \/ MarkSuccess(w) \/ MarkFailed(w)
  PROVE  NoticeInv'
  <1> DEFINE n == courier[w].task
  <1>0. /\ courier[w] \in Rounds /\ n \in Notices /\ notice[n] \in Rows /\ notice[n].status \notin Untaken
        /\ Counted(courier[w]) /\ courier[w].at # "rest"
        /\ notice[n].total = Cardinality(Audience) /\ UNCHANGED delivered
    BY DEF NoticeInv, NoticeTypeOK, CouriersHaveTasks, CountedIsDelivered, SuccessIsWhole, Untaken,
           UpdateProgress, MarkSuccess, MarkFailed
  <1>1. OffRound \in Rounds /\ OffRound.at = "rest" /\ Counted(OffRound)
    BY DEF OffRound, Rounds, Counted
  <1>2. CASE ~Fenced(w)
    <2>1. SetCourier(w, OffRound) /\ UNCHANGED notice
      BY <1>2 DEF UpdateProgress, MarkSuccess, MarkFailed, EndClaim, GiveUp
    <2> QED  BY <1>0, <1>1, <2>1, CourierStepKeeps
  <1>3. CASE Fenced(w) /\ UpdateProgress(w)
    <2> DEFINE row == [notice[n] EXCEPT !.sent = courier[w].sent, !.total = Cardinality(Audience)]
               c == [courier[w] EXCEPT !.at = "batch"]
    <2>1. SetNotice(n, row) /\ SetCourier(w, c) /\ courier[w].at = "progress"
      BY <1>3 DEF UpdateProgress
    <2>2. /\ row \in Rows /\ row.status = "sending" /\ row.gone = "no" /\ row.total = Cardinality(Audience)
      BY <1>0, <1>3, AudienceCounts DEF Rows, Rounds, Fenced
    <2>3. c \in Rounds /\ c.task = n /\ Counted(c)
      BY <1>0, <2>1 DEF Rounds, Counted
    <2> HIDE DEF row, c
    <2> QED  BY <1>0, <1>3, <2>1, <2>2, <2>3, FencedWriteKeeps
  <1>4. CASE Fenced(w) /\ MarkSuccess(w)
    <2> DEFINE row == [notice[n] EXCEPT !.status = "success", !.held = FALSE, !.sent = courier[w].sent]
    <2>1. SetNotice(n, row) /\ SetCourier(w, OffRound) /\ courier[w].at = "batch" /\ courier[w].todo = {}
      BY <1>4 DEF MarkSuccess, EndClaim
    <2>2. /\ row \in Rows /\ row.status = "success" /\ row.gone = "no" /\ row.total = Cardinality(Audience)
          /\ row.sent = courier[w].sent
      BY <1>0, <1>4 DEF Rows, Rounds, Fenced
    <2>3. courier[w].sent = Cardinality(Audience) /\ \A u \in Audience : delivered[n][u] = 1
      BY <1>0, <2>1, FS_EmptySet DEF Counted, Rounds
    <2> HIDE DEF row
    <2> QED  BY <1>0, <1>1, <1>4, <2>1, <2>2, <2>3, FencedWriteKeeps
  <1>5. CASE Fenced(w) /\ MarkFailed(w)
    <2> DEFINE row == [notice[n] EXCEPT !.status = "failed", !.held = FALSE, !.sent = notice[n].sent]
    <2>1. SetNotice(n, row) /\ SetCourier(w, OffRound)
      BY <1>5 DEF MarkFailed, EndClaim, GiveUp
    <2>2. /\ row \in Rows /\ row.status = "failed" /\ row.gone = "no" /\ row.total = Cardinality(Audience)
      BY <1>0, <1>5 DEF Rows, Rounds, Fenced
    <2> HIDE DEF row
    <2> QED  BY <1>0, <1>1, <1>5, <2>1, <2>2, FencedWriteKeeps
  <1> QED  BY <1>2, <1>3, <1>4, <1>5

\* The invariant is inductive.
LEMMA NoticeInvInductive == NoticeInv /\ [NoticeNext]_noticeVars => NoticeInv'
  <1> SUFFICES ASSUME NoticeInv, [NoticeNext]_noticeVars PROVE NoticeInv'
    OBVIOUS
  <1>1. ASSUME NEW n \in Notices,
               \/ CreateNotice(n) \/ ReadToCancel(n) \/ CancelPending(n) \/ DeleteNotice(n)
               \/ SendAtPasses(n) \/ ClaimLapses(n)
        PROVE  NoticeInv'
    BY <1>1, NoticeOfficeKeeps
  <1>2. ASSUME NEW w \in Couriers, NEW n \in Notices, ClaimNotice(w, n) PROVE NoticeInv'
    BY <1>2, NoticeClaimKeeps
  <1>3. ASSUME NEW w \in Couriers, CourierStep(w) \/ RenewalEnds(w) \/ WorkFails(w) \/ CourierStops(w)
        PROVE  NoticeInv'
    BY <1>3, NoticeRoundKeeps, NoticeBatchKeeps, NoticeMarkKeeps DEF CourierStep
  <1>4. CASE DispatchDue \/ UNCHANGED noticeVars
    BY <1>4 DEF DispatchDue, noticeVars, NoticeInv, NoticeTypeOK, CouriersHaveTasks, CountedIsDelivered, Counted,
                CancelledIsUntaken, SuccessIsWhole
  <1> QED  BY <1>1, <1>2, <1>3, <1>4 DEF NoticeNext

\* Each user is notified once, a success reached everybody it counted, and a
\* cancelled task nobody (InsertNotifications, MarkSuccess, CancelPending).
THEOREM EveryoneIsNotifiedOnce == NoticeSpec => []NotifiedOnce
  <1>1. NoticeInv => NotifiedOnce
    BY AudienceCounts DEF NoticeInv, NoticeTypeOK, CancelledIsUntaken, SuccessIsWhole, NotifiedOnce, Untaken
  <1> QED
    BY <1>1, NoticeInvHoldsAtFirst, NoticeInvInductive, PTL DEF NoticeSpec

-----------------------------------------------------------------------------
(* Outcomes stand.                                                         *)

OutcomeKept(n) ==
  notice[n].status \in Ended => notice'[n].status = notice[n].status /\ notice'[n].sent = notice[n].sent

\* A row is written only while its task goes on, or keeps status and count.
LEMMA NoticeWriteStands ==
  ASSUME NoticeInv, NEW n \in Notices, NEW row, SetNotice(n, row),
         notice[n].status \in Ended => row.status = notice[n].status /\ row.sent = notice[n].sent,
         NEW m \in Notices
  PROVE  OutcomeKept(m)
  <1>1. notice \in [Notices -> Rows]
    BY DEF NoticeInv, NoticeTypeOK
  <1>2. CASE m = n
    BY <1>1, <1>2 DEF SetNotice, OutcomeKept
  <1>3. CASE m # n
    BY <1>1, <1>3 DEF SetNotice, OutcomeKept
  <1> QED  BY <1>2, <1>3

\* The administrator and the clocks leave status and count of an ended task.
LEMMA NoticeOfficeStands ==
  ASSUME NoticeInv, NEW n \in Notices, NEW m \in Notices,
         \/ CreateNotice(n) \/ ReadToCancel(n) \/ CancelPending(n) \/ DeleteNotice(n)
         \/ SendAtPasses(n) \/ ClaimLapses(n)
  PROVE  OutcomeKept(m)
  <1>1. notice[n] \in Rows
    BY DEF NoticeInv, NoticeTypeOK
  <1>2. UNCHANGED notice => OutcomeKept(m)
    BY DEF OutcomeKept
  <1>3. CASE CreateNotice(n)
    <2>1. notice[n] = Unwritten /\ notice[n].status = "none"
      <3>1. notice[n] = Unwritten
        BY <1>3 DEF CreateNotice
      <3> QED  BY <3>1 DEF Unwritten
    <2>2. PICK now \in BOOLEAN :
            SetNotice(n, [Unwritten EXCEPT !.status = "pending", !.due = now, !.total = Cardinality(Audience)])
      BY <1>3 DEF CreateNotice
    <2> DEFINE row == [Unwritten EXCEPT !.status = "pending", !.due = now, !.total = Cardinality(Audience)]
    <2>3. SetNotice(n, row)
      BY <2>2
    <2> HIDE DEF row
    <2> QED  BY <2>1, <2>3, NoticeWriteStands DEF Ended
  <1>4. CASE ReadToCancel(n)
    BY <1>2, <1>4 DEF ReadToCancel
  <1>5. ASSUME NEW row, SetNotice(n, row), row.status = notice[n].status, row.sent = notice[n].sent
        PROVE  OutcomeKept(m)
    BY <1>5, NoticeWriteStands
  <1>6. /\ [notice[n] EXCEPT !.gone = "cancelled"].status = notice[n].status
        /\ [notice[n] EXCEPT !.gone = "cancelled"].sent = notice[n].sent
        /\ [notice[n] EXCEPT !.gone = "deleted"].status = notice[n].status
        /\ [notice[n] EXCEPT !.gone = "deleted"].sent = notice[n].sent
        /\ [notice[n] EXCEPT !.due = TRUE].status = notice[n].status
        /\ [notice[n] EXCEPT !.due = TRUE].sent = notice[n].sent
        /\ [notice[n] EXCEPT !.held = FALSE].status = notice[n].status
        /\ [notice[n] EXCEPT !.held = FALSE].sent = notice[n].sent
    BY <1>1 DEF Rows
  <1>7. CASE CancelPending(n)
    BY <1>2, <1>5, <1>6, <1>7 DEF CancelPending
  <1>8. CASE DeleteNotice(n)
    BY <1>5, <1>6, <1>8 DEF DeleteNotice
  <1>9. CASE SendAtPasses(n)
    BY <1>5, <1>6, <1>9 DEF SendAtPasses
  <1>10. CASE ClaimLapses(n)
    BY <1>5, <1>6, <1>10 DEF ClaimLapses
  <1> QED  BY <1>3, <1>4, <1>7, <1>8, <1>9, <1>10

\* A courier writes a row that is pending or sending; a late one writes none.
LEMMA CourierStands ==
  ASSUME NoticeInv, NEW w \in Couriers, NEW m \in Notices,
         \/ \E n \in Notices : ClaimNotice(w, n)
         \/ CourierStep(w) \/ RenewalEnds(w) \/ WorkFails(w) \/ CourierStops(w)
  PROVE  OutcomeKept(m)
  <1>1. UNCHANGED notice => OutcomeKept(m)
    BY DEF OutcomeKept
  <1>2. ASSUME NEW n \in Notices, ClaimNotice(w, n) PROVE OutcomeKept(m)
    <2>1. CASE DueTask(n)
      <3> DEFINE row == [notice[n] EXCEPT !.status = "sending", !.token = notice[n].token + 1, !.held = TRUE]
      <3>1. notice[n].status \notin Ended /\ SetNotice(n, row)
        BY <1>2, <2>1 DEF DueTask, ClaimNotice, Ended
      <3> HIDE DEF row
      <3> QED  BY <3>1, NoticeWriteStands
    <2>2. CASE ~DueTask(n)
      BY <1>1, <1>2, <2>2 DEF ClaimNotice
    <2> QED  BY <2>1, <2>2
  <1>3. CASE UpdateProgress(w) \/ MarkSuccess(w) \/ MarkFailed(w)
    <2>1. courier[w].task \in Notices
      BY <1>3 DEF UpdateProgress, MarkSuccess, MarkFailed, NoticeInv, CouriersHaveTasks
    <2>2. CASE Fenced(w)
      <3>1. notice[courier[w].task].status \notin Ended
        BY <2>2 DEF Fenced, Ended
      <3>2. \E row : SetNotice(courier[w].task, row)
        BY <1>3, <2>2 DEF UpdateProgress, MarkSuccess, MarkFailed, EndClaim
      <3> QED  BY <2>1, <3>1, <3>2, NoticeWriteStands
    <2>3. CASE ~Fenced(w)
      BY <1>1, <1>3, <2>3 DEF UpdateProgress, MarkSuccess, MarkFailed, EndClaim
    <2> QED  BY <2>2, <2>3
  <1>4. CASE TargetUserIDs(w) \/ InsertNotifications(w) \/ LeaveLost(w) \/ RenewalEnds(w)
             \/ WorkFails(w) \/ CourierStops(w)
    BY <1>1, <1>4 DEF TargetUserIDs, InsertNotifications, LeaveLost, RenewalEnds, WorkFails, CourierStops
  <1> QED  BY <1>2, <1>3, <1>4 DEF CourierStep

\* A success or a failure that an administrator has seen, and its count, stay,
\* whatever a worker does that lost its claim, is late or is retried (EndClaim,
\* ClaimByID).
THEOREM OutcomesOfNoticesStand == NoticeSpec => NoticeOutcomeStands
  <1>1. NoticeInv /\ [NoticeNext]_noticeVars => [\A n \in Notices : OutcomeKept(n)]_notice
    <2> SUFFICES ASSUME NoticeInv, [NoticeNext]_noticeVars, NEW n \in Notices PROVE OutcomeKept(n)
      OBVIOUS
    <2>1. CASE DispatchDue \/ UNCHANGED noticeVars
      BY <2>1 DEF DispatchDue, noticeVars, OutcomeKept
    <2> QED  BY <2>1, NoticeOfficeStands, CourierStands DEF NoticeNext
  <1>2. NoticeOutcomeStands <=> [][\A n \in Notices : OutcomeKept(n)]_notice
    BY DEF NoticeOutcomeStands, OutcomeKept
  <1> QED
    BY <1>1, <1>2, NoticeInvHoldsAtFirst, NoticeInvInductive, PTL DEF NoticeSpec

-----------------------------------------------------------------------------
(***************************************************************************)
(* A client that is not told to reload misses nothing, for any number of   *)
(* events and connections and any capacity of a queue, as long as no       *)
(* retention step falls between the reads of a resume.                     *)
(***************************************************************************)

\* CleanupExpired never runs between two reads of a resume.
NoRace == \A scene \in RealtimeScenes : "race" \notin scene

Cursors == 0..MaxSequence
Envelopes == [kind : {"event", "resync"}, seq : Cursors]
SessionRows == [at : {"new", "open", "closed", "gone"}, subscribed : BOOLEAN,
                queue : Seq(Envelopes), owed : SUBSET Sequences]
ResumeRows == [at : {"none", "latest", "watermark", "replay"}, by : Connections \cup {"none"},
               after : Cursors, latest : Cursors, asked : SUBSET Sequences, todo : Seq(Envelopes)]

RealtimeTypeOK ==
  /\ "race" \notin rtScene
  /\ events \in [Sequences -> {"none", "open", "kept", "deleted", "undone"}]
  /\ watermark \in Cursors /\ unpublished \subseteq Sequences
  /\ session \in [Connections -> SessionRows]
  /\ resume \in ResumeRows
  /\ client \in [cursor : Cursors, seen : SUBSET Cursors]

OpenIsCurrent == \A s \in Connections : Connected(s) => current = s

\* What is published, or owed to a connection, was committed.
OwedIsCommitted ==
  unpublished \subseteq Committed /\ \A s \in Connections : session[s].owed \subseteq Committed

DeletedBelowWatermark == \A q \in Having("deleted") : q <= watermark

\* What a resume may rely on between its reads.
ResumeIsSound ==
  resume.at # "none" =>
    /\ resume.by \in Connections /\ session[resume.by].at # "new"
    /\ resume.asked \subseteq Committed
    /\ resume.at = "watermark" => watermark <= resume.after

RealtimeInv ==
  /\ RealtimeTypeOK /\ OpenIsCurrent /\ OwedIsCommitted /\ DeletedBelowWatermark
  /\ ResumeIsSound /\ DeliveryIsWhole

-----------------------------------------------------------------------------
(* Lists of messages, and the newest of a set of sequences.                *)

Events(l) == \A i \in DOMAIN l : l[i].kind = "event"
SeqsOf(l) == {l[i].seq : i \in DOMAIN l}

\* ReplayIsWhole of a connection with queue l, a resume r and a client that has seen S.
Covers(r, l, S) == Events(r.todo) /\ Events(l) =>
  {q \in r.asked : q > r.after} \subseteq SeqsOf(r.todo) \cup SeqsOf(l) \cup S

LEMMA WholeMeansCovers ==
  ReplayIsWhole <=>
    (resume.at = "replay" /\ Connected(resume.by) => Covers(resume, session[resume.by].queue, client.seen))
BY DEF ReplayIsWhole, Covers, Events, SeqsOf, Queued

LEMMA AppendedList ==
  ASSUME NEW l \in Seq(Envelopes), NEW m \in Envelopes
  PROVE  /\ Append(l, m) \in Seq(Envelopes)
         /\ SeqsOf(Append(l, m)) = SeqsOf(l) \cup {m.seq}
         /\ Events(Append(l, m)) <=> Events(l) /\ m.kind = "event"
<1>1. /\ Append(l, m) \in Seq(Envelopes) /\ DOMAIN Append(l, m) = DOMAIN l \cup {Len(l) + 1}
      /\ Append(l, m)[Len(l) + 1] = m /\ \A i \in DOMAIN l : Append(l, m)[i] = l[i]
  OBVIOUS
<1> QED
  BY <1>1 DEF SeqsOf, Events

LEMMA TakenList ==
  ASSUME NEW l \in Seq(Envelopes), l # <<>>
  PROVE  /\ Head(l) \in Envelopes /\ Tail(l) \in Seq(Envelopes)
         /\ SeqsOf(l) = SeqsOf(Tail(l)) \cup {Head(l).seq}
         /\ Events(l) <=> Events(Tail(l)) /\ Head(l).kind = "event"
<1>1. /\ Head(l) \in Envelopes /\ Tail(l) \in Seq(Envelopes) /\ Head(l) = l[1] /\ 1 \in DOMAIN l
      /\ \A i \in DOMAIN Tail(l) : i + 1 \in DOMAIN l /\ Tail(l)[i] = l[i + 1]
      /\ \A i \in DOMAIN l \ {1} : i - 1 \in DOMAIN Tail(l) /\ l[i] = Tail(l)[i - 1]
  OBVIOUS
<1>2. SeqsOf(l) \subseteq SeqsOf(Tail(l)) \cup {Head(l).seq}
  <2>1. ASSUME NEW i \in DOMAIN l PROVE l[i].seq \in SeqsOf(Tail(l)) \cup {Head(l).seq}
    <3>1. CASE i = 1
      BY <1>1, <3>1
    <3>2. CASE i # 1
      BY <1>1, <3>2 DEF SeqsOf
    <3> QED  BY <3>1, <3>2
  <2> QED
    BY <2>1 DEF SeqsOf
<1>3. SeqsOf(Tail(l)) \cup {Head(l).seq} \subseteq SeqsOf(l)
  BY <1>1 DEF SeqsOf
<1>4. Events(l) => Events(Tail(l)) /\ Head(l).kind = "event"
  BY <1>1 DEF Events
<1>5. ASSUME Events(Tail(l)), Head(l).kind = "event", NEW i \in DOMAIN l PROVE l[i].kind = "event"
  <2>1. CASE i = 1
    BY <1>1, <1>5, <2>1
  <2>2. CASE i # 1
    BY <1>1, <1>5, <2>2 DEF Events
  <2> QED  BY <2>1, <2>2
<1> QED
  BY <1>1, <1>2, <1>3, <1>4, <1>5 DEF Events

\* Of the sets of what is at least a member of S, a smallest one is that of the greatest.
LEMMA GreatestExists ==
  ASSUME NEW n \in Nat, NEW S \in SUBSET (0..n), S # {}
  PROVE  \E m \in S : \A k \in S : k <= m
<1> DEFINE F == {S \cap (k..n) : k \in S}
<1>1. IsFiniteSet(0..n)
  BY FS_Interval
<1>2. IsWellFoundedOn(StrictSubsetOrdering(0..n), SUBSET (0..n))
  BY <1>1, FS_StrictSubsetOrderingWellFounded, FS_FiniteSubsetsOfFinite
<1>3. F \subseteq SUBSET (0..n) /\ F # {}
  OBVIOUS
<1>4. PICK A \in F : \A B \in F : <<B, A>> \notin StrictSubsetOrdering(0..n)
  BY <1>2, <1>3, WFMin
<1>5. PICK m \in S : A = S \cap (m..n)
  BY <1>4
<1>6. ASSUME NEW k \in S, m < k PROVE FALSE
  <2>1. S \cap (k..n) \in F /\ A \in F
    OBVIOUS
  <2>2. S \cap (k..n) \subseteq A /\ m \in A /\ m \notin S \cap (k..n)
    BY <1>5, <1>6
  <2>3. <<S \cap (k..n), A>> \in StrictSubsetOrdering(0..n)
    BY <2>1, <2>2, <1>3 DEF StrictSubsetOrdering
  <2> QED
    BY <1>4, <2>1, <2>3
<1>7. S \subseteq Int
  OBVIOUS
<1> QED
  BY <1>6, <1>7

LEMMA NewestIsGreatest ==
  ASSUME NEW S \in SUBSET Cursors
  PROVE  Newest(S) \in Cursors /\ \A k \in S : k <= Newest(S)
<1>1. MaxSequence \in Nat
  BY RealtimeAssumption
<1>2. S \cup {0} \in SUBSET (0..MaxSequence) /\ S \cup {0} # {}
  BY <1>1 DEF Cursors
<1>3. \E m \in S \cup {0} : \A k \in S \cup {0} : k <= m
  BY <1>1, <1>2, GreatestExists
<1> QED
  BY <1>2, <1>3 DEF Newest, Cursors

LEMMA SequencesFinite == \A found \in SUBSET Sequences : IsFiniteSet(found) /\ found \subseteq Int
<1> SUFFICES ASSUME NEW found \in SUBSET Sequences PROVE IsFiniteSet(found) /\ found \subseteq Int
  OBVIOUS
<1>1. MaxSequence \in Nat /\ found \in SUBSET (1..MaxSequence)
  BY RealtimeAssumption DEF Sequences
<1>2. IsFiniteSet(1..MaxSequence)
  BY <1>1, FS_Interval
<1>3. IsFiniteSet(found)
  BY <1>1, <1>2, FS_Subset
<1> QED
  BY <1>1, <1>3

\* ReadEvents lists what it found, each once and in order.
LEMMA FoundInOrder ==
  ASSUME NEW found \in SUBSET Sequences, NEW q \in found
  PROVE  /\ Cardinality({r \in found : r <= q}) \in 1..Cardinality(found)
         /\ \A p \in found : Cardinality({r \in found : r <= p}) = Cardinality({r \in found : r <= q}) => p = q
<1>1. IsFiniteSet(found) /\ found \subseteq Int
  BY SequencesFinite
<1>2. \A p \in found : IsFiniteSet({r \in found : r <= p})
  BY <1>1, FS_Subset
<1>3. ASSUME NEW p \in found, NEW t \in found, p < t
      PROVE  Cardinality({r \in found : r <= p}) # Cardinality({r \in found : r <= t})
  <2>1. p \in Int /\ t \in Int /\ \A r \in found : r \in Int
    BY <1>1
  <2>2. \A r \in found : r <= p => r <= t
    BY <1>3, <2>1
  <2>3. {r \in found : r <= p} \in SUBSET {r \in found : r <= t}
    BY <2>2
  <2>4. t \in {r \in found : r <= t} /\ t \notin {r \in found : r <= p}
    BY <1>3, <2>1
  <2> DEFINE P == {r \in found : r <= p}
             T == {r \in found : r <= t}
  <2>5. IsFiniteSet(T) /\ P \in SUBSET T /\ P # T
    BY <1>2, <2>3, <2>4
  <2> HIDE DEF P, T
  <2>6. Cardinality(P) # Cardinality(T)
    BY <2>5, FS_Subset
  <2> QED
    BY <2>6 DEF P, T
<1>4. /\ Cardinality({r \in found : r <= q}) <= Cardinality(found) /\ Cardinality(found) \in Nat
      /\ Cardinality({r \in found : r <= q}) \in Nat /\ Cardinality({r \in found : r <= q}) # 0
  BY <1>1, <1>2, FS_Subset, FS_CardinalityType, FS_EmptySet
<1> QED
  BY <1>1, <1>3, <1>4

LEMMA EveryPlaceIsTaken ==
  ASSUME NEW found \in SUBSET Sequences, NEW i \in 1..Cardinality(found)
  PROVE  \E q \in found : Cardinality({r \in found : r <= q}) = i
<1> DEFINE n == Cardinality(found)
           place == [q \in found |-> Cardinality({r \in found : r <= q})]
<1>1. IsFiniteSet(found) /\ n \in Nat
  BY SequencesFinite, FS_CardinalityType
<1>2. IsFiniteSet(1..n) /\ Cardinality(1..n) = n
  BY <1>1, FS_Interval
<1>3. place \in Injection(found, 1..n)
  <2>1. \A q \in found : place[q] \in 1..n /\ \A p \in found : place[p] = place[q] => p = q
    BY FoundInOrder
  <2>2. place \in [found -> 1..n]
    BY <2>1
  <2> QED
    BY <2>1, <2>2 DEF Injection, IsInjective
<1>4. place \in Surjection(found, 1..n)
  <2> HIDE DEF place
  <2> QED
    BY <1>1, <1>2, <1>3, FS_Injection
<1> QED
  BY <1>4 DEF Surjection

\* The list ReadEvents makes of what it found.
LEMMA ListOfFound ==
  ASSUME NEW found \in SUBSET Sequences, NEW list,
         list = [i \in 1..Cardinality(found) |->
                   Message("event", CHOOSE q \in found : Cardinality({r \in found : r <= q}) = i)]
  PROVE  list \in Seq(Envelopes) /\ Events(list) /\ found \subseteq SeqsOf(list)
<1> DEFINE nth == [i \in 1..Cardinality(found) |->
                     CHOOSE q \in found : Cardinality({r \in found : r <= q}) = i]
<1>1. \A i \in 1..Cardinality(found) :
        nth[i] \in found /\ Cardinality({r \in found : r <= nth[i]}) = i
  <2>1. ASSUME NEW i \in 1..Cardinality(found)
        PROVE  nth[i] \in found /\ Cardinality({r \in found : r <= nth[i]}) = i
    <3>1. \E q \in found : Cardinality({r \in found : r <= q}) = i
      BY EveryPlaceIsTaken
    <3>2. nth[i] = CHOOSE q \in found : Cardinality({r \in found : r <= q}) = i
      OBVIOUS
    <3> QED
      BY <3>1, <3>2
  <2> QED
    BY <2>1
<1>2. list = [i \in 1..Cardinality(found) |-> [kind |-> "event", seq |-> nth[i]]]
  BY DEF Message
<1> HIDE DEF nth
<1>3. Cardinality(found) \in Nat
  BY SequencesFinite, FS_CardinalityType
<1>4. found \subseteq Cursors
  BY RealtimeAssumption DEF Sequences, Cursors
<1>5. ASSUME NEW i \in 1..Cardinality(found)
      PROVE  [kind |-> "event", seq |-> nth[i]] \in Envelopes
  <2>1. nth[i] \in Cursors
    BY <1>1, <1>4
  <2> QED
    BY <2>1 DEF Envelopes
<1>6. list \in Seq(Envelopes) /\ Events(list)
  <2> DEFINE n == Cardinality(found)
             row == [i \in 1..n |-> [kind |-> "event", seq |-> nth[i]]]
  <2>1. list = row /\ n \in Nat
    BY <1>2, <1>3
  <2>2. row \in [1..n -> Envelopes] /\ \A i \in 1..n : row[i].kind = "event"
    BY <1>5
  <2>3. DOMAIN row = 1..n
    OBVIOUS
  <2> HIDE DEF n, row
  <2>4. row \in Seq(Envelopes)
    BY <2>1, <2>2
  <2>5. Events(row)
    BY <2>2, <2>3 DEF Events
  <2> QED
    BY <2>1, <2>4, <2>5
<1>7. ASSUME NEW q \in found PROVE q \in SeqsOf(list)
  <2> DEFINE i == Cardinality({r \in found : r <= q})
  <2>1. i \in 1..Cardinality(found) /\ \A p \in found : Cardinality({r \in found : r <= p}) = i => p = q
    BY FoundInOrder
  <2>2. nth[i] = q
    BY <1>1, <2>1
  <2> HIDE DEF i
  <2>3. i \in DOMAIN list /\ list[i].seq = q
    BY <1>2, <2>1, <2>2
  <2> QED
    BY <2>3 DEF SeqsOf
<1> QED
  BY <1>6, <1>7

-----------------------------------------------------------------------------
(* The steps.                                                              *)

LEMMA RealtimeInvHoldsAtFirst == NoRace /\ RealtimeInit => RealtimeInv
<1> SUFFICES ASSUME NoRace, RealtimeInit PROVE RealtimeInv
  OBVIOUS
<1>1. MaxSequence \in Nat /\ 0 \in Cursors
  BY RealtimeAssumption DEF Cursors
<1>2. NewSession \in SessionRows /\ NoResume \in ResumeRows
  BY <1>1 DEF NewSession, NoResume, SessionRows, ResumeRows
<1>3. RealtimeTypeOK
  BY <1>1, <1>2 DEF RealtimeInit, RealtimeTypeOK, NoRace
<1> QED
  BY <1>3 DEF RealtimeInit, RealtimeInv, OpenIsCurrent, OwedIsCommitted, DeletedBelowWatermark,
     ResumeIsSound, DeliveryIsWhole, NoSilentDrop, ReplayIsWhole, Connected, NewSession, NoResume, Having

\* What every step uses.
LEMMA RealtimeTyped ==
  ASSUME RealtimeInv
  PROVE  /\ MaxSequence \in Nat /\ Sequences \subseteq Cursors /\ Committed \subseteq Sequences
         /\ \A s \in Connections : session[s] \in SessionRows
         /\ resume \in ResumeRows
BY RealtimeAssumption DEF RealtimeInv, RealtimeTypeOK, Sequences, Cursors, Committed, Having

\* Committed events stay committed, and no client forgets: what was whole stays so.
LEMMA EventsMoveKeeps ==
  ASSUME RealtimeInv, UNCHANGED <<rtScene, current, session, client>>,
         UNCHANGED resume \/ resume' = NoResume,
         events' \in [Sequences -> {"none", "open", "kept", "deleted", "undone"}],
         watermark' \in Cursors, unpublished' \subseteq Committed',
         Committed \subseteq Committed',
         DeletedBelowWatermark', resume'.at # "none" => watermark' = watermark
  PROVE  RealtimeInv'
<1>1. NoResume \in ResumeRows /\ NoResume.at = "none"
  BY RealtimeAssumption DEF NoResume, ResumeRows, Cursors
<1>2. RealtimeTypeOK'
  BY <1>1 DEF RealtimeInv, RealtimeTypeOK, Committed, Having
<1>3. OpenIsCurrent' /\ OwedIsCommitted' /\ NoSilentDrop'
  BY DEF RealtimeInv, OpenIsCurrent, OwedIsCommitted, DeliveryIsWhole, NoSilentDrop, Connected, Queued
<1>4. ResumeIsSound'
  BY <1>1 DEF RealtimeInv, ResumeIsSound
<1>5. ReplayIsWhole'
  <2>1. CASE UNCHANGED resume
    BY <2>1 DEF RealtimeInv, DeliveryIsWhole, ReplayIsWhole, Connected, Queued
  <2>2. CASE resume' = NoResume
    BY <1>1, <2>2 DEF ReplayIsWhole
  <2> QED  BY <2>1, <2>2
<1> QED
  BY <1>2, <1>3, <1>4, <1>5 DEF RealtimeInv, DeliveryIsWhole

LEMMA StoreKeeps ==
  ASSUME RealtimeInv,
         AppendTx \/ CleanupExpired \/ (\E q \in Sequences : CommitEvent(q) \/ PublishFails(q))
  PROVE  RealtimeInv'
<1> USE DEF Committed, Having
<1>0. /\ events \in [Sequences -> {"none", "open", "kept", "deleted", "undone"}]
      /\ watermark \in Cursors /\ unpublished \subseteq Committed /\ DeletedBelowWatermark
      /\ "race" \notin rtScene
  BY DEF RealtimeInv, RealtimeTypeOK, OwedIsCommitted
<1>1. CASE AppendTx
  <2>1. PICK q \in Having("none") : events' = [events EXCEPT ![q] = "open"]
    BY <1>1 DEF AppendTx
  <2>2. /\ events' \in [Sequences -> {"none", "open", "kept", "deleted", "undone"}]
        /\ Committed' = Committed /\ Having("deleted")' = Having("deleted")
    BY <1>0, <2>1
  <2> QED
    BY <1>0, <1>1, <2>2, EventsMoveKeeps DEF AppendTx, DeletedBelowWatermark
<1>2. ASSUME NEW q \in Sequences, CommitEvent(q) PROVE RealtimeInv'
  <2>1. /\ events' \in [Sequences -> {"none", "open", "kept", "deleted", "undone"}]
        /\ Committed \subseteq Committed' /\ Having("deleted")' = Having("deleted")
        /\ unpublished' \subseteq Committed'
    BY <1>0, <1>2 DEF CommitEvent
  <2> QED
    BY <1>0, <1>2, <2>1, EventsMoveKeeps DEF CommitEvent, DeletedBelowWatermark
<1>3. ASSUME NEW q \in Sequences, PublishFails(q) PROVE RealtimeInv'
  BY <1>0, <1>3, EventsMoveKeeps DEF PublishFails, DeletedBelowWatermark
<1>4. CASE CleanupExpired
  <2>1. PICK old \in SUBSET Having("kept") :
          /\ events' = [q \in Sequences |-> IF q \in old THEN "deleted" ELSE events[q]]
          /\ watermark' = Newest(old \cup {watermark})
    BY <1>4 DEF CleanupExpired
  <2>2. old \cup {watermark} \in SUBSET Cursors /\ Sequences \subseteq Cursors /\ Cursors \subseteq Int
    BY <1>0, RealtimeTyped DEF Cursors
  <2>3. watermark' \in Cursors /\ watermark <= watermark' /\ \A q \in old : q <= watermark'
    BY <2>1, <2>2, NewestIsGreatest
  <2>4. /\ events' \in [Sequences -> {"none", "open", "kept", "deleted", "undone"}]
        /\ Committed' = Committed /\ Having("deleted")' = Having("deleted") \cup old
    BY <1>0, <2>1
  <2>5. DeletedBelowWatermark'
    <3>1. \A q \in Having("deleted") : q <= watermark /\ q \in Int /\ watermark \in Int /\ watermark' \in Int
      BY <1>0, <2>2, <2>3 DEF DeletedBelowWatermark
    <3> QED
      BY <2>3, <2>4, <3>1 DEF DeletedBelowWatermark
  <2> QED
    BY <1>0, <1>4, <2>3, <2>4, <2>5, EventsMoveKeeps DEF CleanupExpired
<1> QED
  BY <1>1, <1>2, <1>3, <1>4

\* A connection changes: what it is owed is in its queue or was seen, and its
\* queue keeps covering the resume that is replayed into it.
LEMMA SessionKeeps ==
  ASSUME RealtimeInv, NEW s \in Connections, NEW row \in SessionRows,
         session' = [session EXCEPT ![s] = row],
         UNCHANGED <<rtScene, events, watermark>>,
         unpublished' \subseteq unpublished, current' = current,
         row.at # session[s].at => row.at # "open" /\ row.at # "new",
         row.owed \subseteq Committed,
         row.at = "open" => row.owed \subseteq client'.seen \cup SeqsOf(row.queue),
         client' \in [cursor : Cursors, seen : SUBSET Cursors], client.seen \subseteq client'.seen,
         resume' \in ResumeRows, resume'.at = "none" \/ 
           /\ resume'.at = resume.at /\ resume'.by = resume.by /\ resume'.asked = resume.asked
           /\ resume'.after = resume.after,
         resume'.at # "none" /\ resume'.by # s => resume' = resume,
         resume'.at = "replay" /\ resume'.by = s /\ row.at = "open" => Covers(resume', row.queue, client'.seen)
  PROVE  RealtimeInv'
<1>1. /\ session'[s] = row /\ \A k \in Connections \ {s} : session'[k] = session[k]
      /\ session' \in [Connections -> SessionRows]
  BY DEF RealtimeInv, RealtimeTypeOK
<1>2. RealtimeTypeOK'
  BY <1>1 DEF RealtimeInv, RealtimeTypeOK
<1>3. OpenIsCurrent'
  BY <1>1 DEF RealtimeInv, OpenIsCurrent, Connected
<1>4. OwedIsCommitted' /\ DeletedBelowWatermark'
  BY <1>1 DEF RealtimeInv, OwedIsCommitted, Committed, Having, DeletedBelowWatermark
<1>5. NoSilentDrop'
  <2>1. Connected(s)' => session'[s].owed \subseteq client'.seen \cup Queued(s)'
    BY <1>1 DEF Connected, Queued, SeqsOf
  <2>2. ASSUME NEW k \in Connections \ {s}, Connected(k)'
        PROVE  session'[k].owed \subseteq client'.seen \cup Queued(k)'
    BY <1>1, <2>2 DEF RealtimeInv, DeliveryIsWhole, NoSilentDrop, Connected, Queued
  <2> QED
    BY <2>1, <2>2 DEF NoSilentDrop
<1>6. ResumeIsSound'
  BY <1>1 DEF RealtimeInv, ResumeIsSound, Committed, Having
<1>7. ReplayIsWhole'
  <2> SUFFICES ASSUME resume'.at = "replay", Connected(resume.by)'
               PROVE  Covers(resume, session[resume.by].queue, client.seen)'
    BY DEF ReplayIsWhole, Covers, Events, SeqsOf, Queued, Connected
  <2>1. resume'.by \in Connections
    BY <1>6 DEF ResumeIsSound
  <2>2. CASE resume'.by = s
    BY <1>1, <2>2 DEF Connected
  <2>3. CASE resume'.by # s
    <3>1. resume' = resume /\ session'[resume.by] = session[resume.by] /\ resume.by \in Connections
      BY <1>1, <2>1, <2>3
    <3>2. Covers(resume, session[resume.by].queue, client.seen)
      BY <3>1, WholeMeansCovers DEF RealtimeInv, DeliveryIsWhole, Connected
    <3> QED
      BY <3>1, <3>2 DEF Covers
  <2> QED  BY <2>2, <2>3
<1> QED
  BY <1>2, <1>3, <1>4, <1>5, <1>6, <1>7 DEF RealtimeInv, DeliveryIsWhole

\* A message is appended to the queue of the one open connection, or closes it.
LEMMA PublishKeeps ==
  ASSUME RealtimeInv, NEW q \in Sequences, Publish(q)
  PROVE  RealtimeInv'
<1>0. q \in Committed /\ unpublished' \subseteq unpublished /\ client' = client /\ resume' = resume
  BY DEF Publish, RealtimeInv, OwedIsCommitted
<1>1. CASE \E s \in Connections : Connected(s) /\ session[s].subscribed
  <2>1. PICK s \in Connections : Connected(s) /\ session[s].subscribed
    BY <1>1
  <2>2. session[s] \in SessionRows /\ s = current /\ \A k \in Connections \ {s} : ~Connected(k)
    BY <2>1, RealtimeTyped DEF RealtimeInv, OpenIsCurrent
  <2>3. session' = [session EXCEPT ![s] = Enqueued(s, Message("event", q))]
    BY <2>1, <2>2 DEF Publish, RealtimeInv, RealtimeTypeOK
  <2> DEFINE m == Message("event", q)
             l == session[s].queue
             row == Enqueued(s, m)
  <2>4. m \in Envelopes /\ m.kind = "event" /\ m.seq = q /\ l \in Seq(Envelopes)
    BY <2>2, RealtimeTyped DEF Message, Envelopes, SessionRows
  <2>5. /\ Append(l, m) \in Seq(Envelopes) /\ SeqsOf(Append(l, m)) = SeqsOf(l) \cup {q}
        /\ Events(Append(l, m)) => Events(l)
    BY <2>4, AppendedList
  <2>6. session[s].owed \subseteq Committed /\ session[s].owed \subseteq client.seen \cup SeqsOf(l)
    BY <2>1 DEF RealtimeInv, OwedIsCommitted, DeliveryIsWhole, NoSilentDrop, Queued, SeqsOf
  <2>7. resume.at = "replay" /\ resume.by = s => Covers(resume, l, client.seen)
    BY <2>1, WholeMeansCovers DEF RealtimeInv, DeliveryIsWhole
  <2>8. CASE Len(l) < SendBuffer
    <3>1. /\ row \in SessionRows /\ row.at = session[s].at
          /\ row.queue = Append(l, m) /\ row.owed = session[s].owed \cup {q}
      BY <2>2, <2>4, <2>5, <2>8 DEF Enqueued, SessionRows
    <3>2. resume.at = "replay" /\ resume.by = s => Covers(resume, row.queue, client.seen)
      BY <2>5, <2>7, <3>1 DEF Covers
    <3>3. /\ session' = [session EXCEPT ![s] = row]
          /\ UNCHANGED <<rtScene, events, watermark, current, resume, client>>
          /\ resume \in ResumeRows /\ client \in [cursor : Cursors, seen : SUBSET Cursors]
      BY <2>3 DEF Publish, RealtimeInv, RealtimeTypeOK
    <3>4. /\ row.owed \subseteq Committed
          /\ row.at = "open" => row.owed \subseteq client.seen \cup SeqsOf(row.queue)
      BY <1>0, <2>5, <2>6, <3>1
    <3> HIDE DEF row, l, m
    <3> QED
      BY <1>0, <3>1, <3>2, <3>3, <3>4, SessionKeeps
  <2>9. CASE ~(Len(l) < SendBuffer)
    <3>1. /\ row \in SessionRows /\ row.at = "closed" /\ row.owed = session[s].owed
      BY <2>2, <2>9 DEF Enqueued, SessionRows
    <3>3. /\ session' = [session EXCEPT ![s] = row]
          /\ UNCHANGED <<rtScene, events, watermark, current, resume, client>>
          /\ resume \in ResumeRows /\ client \in [cursor : Cursors, seen : SUBSET Cursors]
      BY <2>3 DEF Publish, RealtimeInv, RealtimeTypeOK
    <3>4. /\ row.owed \subseteq Committed
          /\ row.at = "open" => row.owed \subseteq client.seen \cup SeqsOf(row.queue)
      BY <1>0, <2>5, <2>6, <3>1
    <3> HIDE DEF row, l, m
    <3> QED
      BY <1>0, <3>1, <3>3, <3>4, SessionKeeps
  <2> QED
    BY <2>8, <2>9
<1>2. CASE ~\E s \in Connections : Connected(s) /\ session[s].subscribed
  <2>1. session' = session
    BY <1>2 DEF Publish, RealtimeInv, RealtimeTypeOK
  <2> QED
    BY <1>0, <2>1, EventsMoveKeeps
       DEF Publish, RealtimeInv, RealtimeTypeOK, OwedIsCommitted, DeletedBelowWatermark, Committed, Having
<1> QED
  BY <1>1, <1>2

\* A connection that goes, subscribes, or is written to the client.
LEMMA ConnectionKeeps ==
  ASSUME RealtimeInv, NEW s \in Connections, Disconnect(s) \/ Subscribe(s)
  PROVE  RealtimeInv'
<1> DEFINE gone == [session[s] EXCEPT !.at = "closed"]
           heard == [session[s] EXCEPT !.subscribed = TRUE]
<1>1. session[s] \in SessionRows /\ Connected(s)
  BY RealtimeTyped DEF Disconnect, Subscribe
<1>2. /\ gone \in SessionRows /\ gone.at = "closed" /\ gone.owed = session[s].owed
      /\ heard \in SessionRows /\ heard.at = session[s].at /\ heard.owed = session[s].owed
      /\ heard.queue = session[s].queue
  BY <1>1 DEF SessionRows
<1>3. /\ UNCHANGED <<rtScene, events, watermark, unpublished, current, resume, client>>
      /\ resume \in ResumeRows /\ client \in [cursor : Cursors, seen : SUBSET Cursors]
      /\ session' = [session EXCEPT ![s] = gone] \/ session' = [session EXCEPT ![s] = heard]
  BY DEF Disconnect, Subscribe, RealtimeInv, RealtimeTypeOK
<1>4. session[s].owed \subseteq Committed /\ session[s].owed \subseteq client.seen \cup SeqsOf(session[s].queue)
  BY <1>1 DEF RealtimeInv, OwedIsCommitted, DeliveryIsWhole, NoSilentDrop, Queued, SeqsOf
<1>5. resume.at = "replay" /\ resume.by = s => Covers(resume, session[s].queue, client.seen)
  BY <1>1, WholeMeansCovers DEF RealtimeInv, DeliveryIsWhole
<1> HIDE DEF gone, heard
<1> QED
  BY <1>1, <1>2, <1>3, <1>4, <1>5, SessionKeeps

\* What leaves the queue is seen; a reload sees everything that is committed.
LEMMA WritePumpKeeps ==
  ASSUME RealtimeInv, NEW s \in Connections, WritePump(s)
  PROVE  RealtimeInv'
<1> DEFINE l == session[s].queue
           row == [session[s] EXCEPT !.queue = Tail(l)]
<1>1. session[s] \in SessionRows /\ Connected(s) /\ l \in Seq(Envelopes) /\ l # <<>>
  BY RealtimeTyped DEF WritePump, SessionRows
<1>2. /\ Head(l) \in Envelopes /\ Tail(l) \in Seq(Envelopes)
      /\ SeqsOf(l) = SeqsOf(Tail(l)) \cup {Head(l).seq}
      /\ Events(l) <=> Events(Tail(l)) /\ Head(l).kind = "event"
  BY <1>1, TakenList
<1>3. /\ row \in SessionRows /\ row.at = session[s].at /\ row.owed = session[s].owed
      /\ row.queue = Tail(l) /\ session' = [session EXCEPT ![s] = row]
  BY <1>1, <1>2 DEF SessionRows, WritePump
<1>4. /\ UNCHANGED <<rtScene, events, watermark, unpublished, current, resume>>
      /\ resume \in ResumeRows
      /\ session[s].owed \subseteq Committed /\ session[s].owed \subseteq client.seen \cup SeqsOf(l)
      /\ Committed \subseteq Sequences /\ client \in [cursor : Cursors, seen : SUBSET Cursors]
  BY <1>1, RealtimeTyped
     DEF WritePump, RealtimeInv, RealtimeTypeOK, OwedIsCommitted, DeliveryIsWhole, NoSilentDrop, Queued, SeqsOf
<1>5. resume.at = "replay" /\ resume.by = s => Covers(resume, l, client.seen) /\ resume.asked \subseteq Committed
  BY <1>1, WholeMeansCovers DEF RealtimeInv, DeliveryIsWhole, ResumeIsSound
<1>6. /\ client' \in [cursor : Cursors, seen : SUBSET Cursors] /\ client.seen \subseteq client'.seen
      /\ Head(l).kind = "event" => client'.seen = client.seen \cup {Head(l).seq}
      /\ Head(l).kind # "event" => client'.seen = client.seen \cup Committed
  <2>1. Head(l).seq \in Cursors /\ Sequences \subseteq Cursors
    BY <1>2, RealtimeTyped DEF Envelopes
  <2> QED
    BY <1>4, <2>1 DEF WritePump
<1>7. row.owed \subseteq client'.seen \cup SeqsOf(row.queue)
  BY <1>2, <1>3, <1>4, <1>6
<1>8. resume.at = "replay" /\ resume.by = s => Covers(resume, row.queue, client'.seen)
  BY <1>2, <1>3, <1>5, <1>6 DEF Covers
<1> HIDE DEF l, row
<1> QED
  BY <1>3, <1>4, <1>6, <1>7, <1>8, SessionKeeps

\* A message of the replay moves to the queue; with the last one the resume ends.
LEMMA SendReplayKeeps ==
  ASSUME RealtimeInv, NEW s \in Connections, SendReplay(s)
  PROVE  RealtimeInv'
<1> DEFINE l == session[s].queue
           t == resume.todo
           row == [session[s] EXCEPT !.queue = Append(l, Head(t))]
<1>1. /\ session[s] \in SessionRows /\ Connected(s) /\ l \in Seq(Envelopes) /\ t \in Seq(Envelopes)
      /\ resume \in ResumeRows /\ resume.by = s /\ resume.at = "replay"
      /\ UNCHANGED <<rtScene, events, watermark, unpublished, current, client>>
      /\ client \in [cursor : Cursors, seen : SUBSET Cursors]
  BY RealtimeTyped DEF SendReplay, SessionRows, ResumeRows, RealtimeInv, RealtimeTypeOK
<1>2. /\ session[s].owed \subseteq Committed /\ session[s].owed \subseteq client.seen \cup SeqsOf(l)
      /\ Covers(resume, l, client.seen)
  BY <1>1, WholeMeansCovers
     DEF RealtimeInv, OwedIsCommitted, DeliveryIsWhole, NoSilentDrop, Queued, SeqsOf
<1>3. CASE t = <<>>
  BY <1>1, <1>3, EventsMoveKeeps
     DEF SendReplay, RealtimeInv, RealtimeTypeOK, OwedIsCommitted, DeletedBelowWatermark, Committed, Having,
         NoResume
<1>4. CASE t # <<>>
  <2>1. /\ Head(t) \in Envelopes /\ Tail(t) \in Seq(Envelopes)
        /\ SeqsOf(t) = SeqsOf(Tail(t)) \cup {Head(t).seq}
        /\ Events(t) <=> Events(Tail(t)) /\ Head(t).kind = "event"
    BY <1>1, <1>4, TakenList
  <2>2. /\ Append(l, Head(t)) \in Seq(Envelopes) /\ SeqsOf(Append(l, Head(t))) = SeqsOf(l) \cup {Head(t).seq}
        /\ Events(Append(l, Head(t))) <=> Events(l) /\ Head(t).kind = "event"
    BY <1>1, <2>1, AppendedList
  <2>3. /\ row \in SessionRows /\ row.at = session[s].at /\ row.owed = session[s].owed
        /\ row.queue = Append(l, Head(t)) /\ session' = [session EXCEPT ![s] = row]
    BY <1>1, <1>4, <2>2 DEF SessionRows, SendReplay
  <2>4. /\ resume' \in ResumeRows /\ resume'.at = resume.at /\ resume'.by = s
        /\ resume'.asked = resume.asked /\ resume'.after = resume.after /\ resume'.todo = Tail(t)
    BY <1>1, <1>4, <2>1 DEF SendReplay, ResumeRows
  <2>5. Covers(resume', row.queue, client.seen)
    BY <1>2, <2>1, <2>2, <2>3, <2>4 DEF Covers
  <2>6. row.owed \subseteq client.seen \cup SeqsOf(row.queue)
    BY <1>2, <2>2, <2>3
  <2> HIDE DEF l, t, row
  <2> QED
    BY <1>1, <1>2, <2>3, <2>4, <2>5, <2>6, SessionKeeps
<1> QED
  BY <1>3, <1>4

\* A new connection closes the one before it; only it may have been in a resume.
LEMMA RegisterKeeps ==
  ASSUME RealtimeInv, NEW s \in Connections, Register(s) \/ Unregister(s)
  PROVE  RealtimeInv'
<1> USE DEF RealtimeInv, RealtimeTypeOK
<1>0. /\ \A k \in Connections : session[k] \in SessionRows
      /\ NoResume \in ResumeRows /\ NoResume.at = "none"
      /\ [NewSession EXCEPT !.at = "open"] \in SessionRows
      /\ [NewSession EXCEPT !.at = "open"].owed = {} /\ [NewSession EXCEPT !.at = "open"].at = "open"
  <2>1. 0 \in Cursors /\ <<>> \in Seq(Envelopes)
    BY RealtimeAssumption DEF Cursors
  <2>2. NoResume \in ResumeRows /\ NoResume.at = "none"
    BY <2>1 DEF NoResume, ResumeRows
  <2>3. /\ [NewSession EXCEPT !.at = "open"] \in SessionRows
        /\ [NewSession EXCEPT !.at = "open"].owed = {} /\ [NewSession EXCEPT !.at = "open"].at = "open"
    BY <2>1 DEF NewSession, SessionRows
  <2> QED
    BY <2>2, <2>3, RealtimeTyped
<1>1. CASE Register(s)
  <2>1. /\ session[s].at = "new" /\ current' = s
        /\ UNCHANGED <<rtScene, events, watermark, unpublished, resume, client>>
        /\ session' \in [Connections -> SessionRows]
        /\ \A k \in Connections : session'[k].owed = {} \/ session'[k].owed = session[k].owed
        /\ \A k \in Connections \ {s} : session'[k] = session[k] \/ session'[k].at = "closed"
        /\ session'[s].owed = {}
        /\ \A k \in Connections \ {s} : session'[k].at # "open"
    <3>1. session[s].at = "new"
      BY <1>1 DEF Register, NewSession
    <3>2. \A k \in Connections :
            /\ k = s => session'[k] = [NewSession EXCEPT !.at = "open"]
            /\ k # s /\ k = current => session'[k] = [session[k] EXCEPT !.at = "closed"]
            /\ k # s /\ k # current => session'[k] = session[k] /\ session[k].at # "open"
      BY <1>1 DEF Register, OpenIsCurrent, Connected
    <3>3. \A k \in Connections :
            /\ [session[k] EXCEPT !.at = "closed"] \in SessionRows
            /\ [session[k] EXCEPT !.at = "closed"].owed = session[k].owed
            /\ [session[k] EXCEPT !.at = "closed"].at = "closed"
      BY <1>0 DEF SessionRows
    <3>4. DOMAIN session' = Connections /\ session' = [k \in Connections |-> session'[k]]
      BY <1>1 DEF Register
    <3> QED
      BY <1>0, <1>1, <3>1, <3>2, <3>3, <3>4 DEF Register
  <2>2. RealtimeTypeOK' /\ OpenIsCurrent' /\ OwedIsCommitted' /\ DeletedBelowWatermark' /\ NoSilentDrop'
    BY <2>1 DEF OpenIsCurrent, Connected, OwedIsCommitted, Committed, Having, DeletedBelowWatermark, NoSilentDrop
  <2>3. ResumeIsSound' /\ (resume.at # "none" => resume.by \in Connections \ {s})
    BY <2>1 DEF ResumeIsSound, Committed, Having
  <2>4. ReplayIsWhole'
    BY <2>1, <2>3 DEF ReplayIsWhole, Connected
  <2> QED
    BY <2>2, <2>3, <2>4 DEF DeliveryIsWhole
<1>2. CASE Unregister(s)
  <2>1. /\ session[s].at = "closed" /\ UNCHANGED <<rtScene, events, watermark, unpublished, client>>
        /\ session' = [session EXCEPT ![s].at = "gone"]
        /\ resume' = resume \/ resume' = NoResume
        /\ current' = current \/ current = s
    BY <1>2 DEF Unregister, AfterUnregister
  <2>2. /\ session' \in [Connections -> SessionRows] /\ session'[s].at = "gone"
        /\ session'[s].owed = session[s].owed /\ \A k \in Connections \ {s} : session'[k] = session[k]
    BY <1>0, <2>1 DEF SessionRows
  <2>3. RealtimeTypeOK' /\ OpenIsCurrent' /\ OwedIsCommitted' /\ DeletedBelowWatermark'
    BY <1>0, <2>1, <2>2 DEF OpenIsCurrent, Connected, OwedIsCommitted, Committed, Having, DeletedBelowWatermark
  <2>4. NoSilentDrop'
    BY <2>1, <2>2 DEF DeliveryIsWhole, NoSilentDrop, Connected, Queued
  <2>5. ResumeIsSound'
    BY <1>0, <2>1, <2>2 DEF ResumeIsSound, Committed, Having
  <2>6. ReplayIsWhole'
    <3>1. CASE resume' = NoResume
      BY <1>0, <3>1 DEF ReplayIsWhole
    <3>2. CASE resume' = resume
      BY <2>1, <2>2, <3>2 DEF DeliveryIsWhole, ReplayIsWhole, Connected, Queued, ResumeIsSound
    <3> QED  BY <2>1, <3>1, <3>2
  <2> QED
    BY <2>3, <2>4, <2>5, <2>6 DEF DeliveryIsWhole
<1> QED
  BY <1>1, <1>2

\* The reads of a resume: whatever is above the cursor when it starts is still
\* kept when it is read, for the watermark is at or below the cursor.
LEMMA ReadKeeps ==
  ASSUME RealtimeInv, NEW s \in Connections,
         ReadLatest(s) \/ ReadWatermark(s) \/ ReadEvents(s) \/ ReadFails(s)
  PROVE  RealtimeInv'
<1> USE DEF RealtimeInv, RealtimeTypeOK
<1>0. /\ UNCHANGED <<rtScene, events, watermark, unpublished, current, session, client>>
      /\ 0 \in Cursors /\ Sequences \subseteq Cursors /\ Cursors \subseteq Int /\ Committed \subseteq Sequences
  BY RealtimeTyped DEF ReadLatest, ReadWatermark, ReadEvents, ReadFails, Cursors
<1>1. ASSUME resume' \in ResumeRows, ResumeIsSound', ReplayIsWhole' PROVE RealtimeInv'
  BY <1>0, <1>1 DEF OpenIsCurrent, Connected, OwedIsCommitted, Committed, Having, DeletedBelowWatermark,
     DeliveryIsWhole, NoSilentDrop, Queued
<1>2. CASE ReadLatest(s)
  <2>1. Newest(Having("kept")) \in Cursors
    BY <1>0, NewestIsGreatest DEF Committed
  <2>2. /\ resume' \in ResumeRows /\ resume'.at = "latest" /\ resume'.by = s
        /\ resume'.asked = Committed /\ Connected(s)
    <3>1. client.cursor \in Cursors /\ Committed \in SUBSET Sequences /\ <<>> \in Seq(Envelopes) /\ Connected(s)
      BY <1>0, <1>2 DEF ReadLatest
    <3>2. resume' = [at |-> "latest", by |-> s, after |-> client.cursor, latest |-> Newest(Having("kept")),
                     asked |-> Committed, todo |-> <<>>]
      BY <1>2 DEF ReadLatest, NoResume
    <3> QED
      BY <2>1, <3>1, <3>2 DEF ResumeRows
  <2>3. ResumeIsSound' /\ ReplayIsWhole'
    BY <1>0, <2>2 DEF ResumeIsSound, ReplayIsWhole, Connected, Committed, Having
  <2> QED
    BY <1>1, <2>2, <2>3
<1>3. CASE ReadWatermark(s)
  <2> DEFINE latest == Newest({resume.latest, watermark})
             note == Message("resync", latest)
  <2>1. /\ latest \in Cursors /\ resume.at = "latest" /\ resume.by = s
        /\ resume.after \in Cursors /\ watermark \in Cursors
    BY <1>0, <1>3, NewestIsGreatest DEF ReadWatermark, ResumeRows
  <2>2. note \in Envelopes /\ note.kind = "resync" /\ <<note>> \in Seq(Envelopes) /\ <<>> \in Seq(Envelopes)
    BY <2>1 DEF Message, Envelopes
  <2>3. /\ resume' \in ResumeRows /\ resume'.by = s /\ resume'.asked = resume.asked
        /\ \/ resume'.at = "replay" /\ resume'.todo = <<note>>
           \/ resume'.at = "watermark" /\ watermark <= resume'.after
    <3>1. CASE Behind(resume.after)
      <4>1. resume' = [resume EXCEPT !.latest = latest, !.at = "replay", !.todo = <<note>>]
        BY <1>3, <3>1 DEF ReadWatermark
      <4> HIDE DEF latest, note
      <4> QED
        BY <1>0, <2>1, <2>2, <4>1 DEF ResumeRows
    <3>2. CASE ~Behind(resume.after)
      <4>1. resume' = [resume EXCEPT !.latest = latest, !.at = "watermark", !.todo = <<>>]
        BY <1>3, <3>2 DEF ReadWatermark
      <4>2. watermark <= resume.after
        <5>1. watermark \in Int /\ resume.after \in Int
          BY <1>0, <2>1
        <5> QED
          BY <5>1, <3>2 DEF Behind
      <4> HIDE DEF latest, note
      <4> QED
        BY <1>0, <2>1, <2>2, <4>1, <4>2 DEF ResumeRows
    <3> QED  BY <3>1, <3>2
  <2>4. ResumeIsSound'
    BY <1>0, <2>1, <2>3 DEF ResumeIsSound, Committed, Having
  <2>5. ReplayIsWhole'
    BY <2>2, <2>3 DEF ReplayIsWhole
  <2> QED
    BY <1>1, <2>3, <2>4, <2>5
<1>4. CASE ReadEvents(s)
  <2> DEFINE found == {q \in Having("kept") : q > resume.after}
             list == [i \in 1..Cardinality(found) |->
                        Message("event", CHOOSE q \in found : Cardinality({r \in found : r <= q}) = i)]
             note == Message("resync", resume.latest)
  <2>1. /\ resume.at = "watermark" /\ resume.by = s /\ resume.after \in Cursors /\ resume.latest \in Cursors
        /\ found \in SUBSET Sequences /\ resume.asked \subseteq Committed /\ watermark <= resume.after
    BY <1>4 DEF ReadEvents, ResumeRows, Having, ResumeIsSound
  <2>2. {q \in resume.asked : q > resume.after} \subseteq found
    <3>1. \A q \in Having("deleted") : q <= watermark /\ q \in Int
      BY <1>0 DEF DeletedBelowWatermark, Committed
    <3> QED
      BY <1>0, <2>1, <3>1 DEF Committed
  <2>3. list \in Seq(Envelopes) /\ Events(list) /\ found \subseteq SeqsOf(list)
    <3> HIDE DEF found
    <3> QED
      BY <2>1, ListOfFound
  <2>4. note \in Envelopes /\ note.kind = "resync" /\ <<note>> \in Seq(Envelopes)
    BY <2>1 DEF Message, Envelopes
  <2>5. \/ resume' = [resume EXCEPT !.at = "replay", !.todo = <<note>>]
        \/ resume' = [resume EXCEPT !.at = "replay", !.todo = list]
    BY <1>4 DEF ReadEvents
  <2> HIDE DEF list, note
  <2>6. /\ resume' \in ResumeRows /\ resume'.by = s /\ resume'.asked = resume.asked
        /\ resume'.at = "replay" /\ resume'.after = resume.after
        /\ resume'.todo = <<note>> \/ resume'.todo = list
    BY <2>3, <2>4, <2>5, <2>1 DEF ResumeRows
  <2>7. ResumeIsSound'
    BY <1>0, <2>1, <2>6 DEF ResumeIsSound, Committed, Having
  <2>8. ReplayIsWhole'
    BY <2>2, <2>3, <2>4, <2>6 DEF ReplayIsWhole, SeqsOf
  <2> QED
    BY <1>1, <2>6, <2>7, <2>8
<1>5. CASE ReadFails(s)
  BY <1>0, <1>1, <1>5 DEF ReadFails, NoResume, ResumeRows, ResumeIsSound, ReplayIsWhole
<1> QED
  BY <1>2, <1>3, <1>4, <1>5

\* Together: every step keeps the invariant.
LEMMA RealtimeInvInductive == RealtimeInv /\ [RealtimeNext]_realtimeVars => RealtimeInv'
<1> SUFFICES ASSUME RealtimeInv, [RealtimeNext]_realtimeVars PROVE RealtimeInv'
  OBVIOUS
<1>1. CASE AppendTx \/ CleanupExpired
  BY <1>1, StoreKeeps
<1>2. ASSUME NEW q \in Sequences, CommitEvent(q) \/ Publish(q) \/ PublishFails(q) PROVE RealtimeInv'
  BY <1>2, StoreKeeps, PublishKeeps
<1>3. ASSUME NEW s \in Connections, Register(s) \/ Unregister(s) PROVE RealtimeInv'
  BY <1>3, RegisterKeeps
<1>4. ASSUME NEW s \in Connections, Disconnect(s) \/ Subscribe(s) PROVE RealtimeInv'
  BY <1>4, ConnectionKeeps
<1>5. ASSUME NEW s \in Connections, ReadLatest(s) \/ ReadWatermark(s) \/ ReadEvents(s) \/ ReadFails(s)
      PROVE  RealtimeInv'
  BY <1>5, ReadKeeps
<1>6. ASSUME NEW s \in Connections, SendReplay(s) \/ WritePump(s) PROVE RealtimeInv'
  BY <1>6, SendReplayKeeps, WritePumpKeeps
<1>7. CASE UNCHANGED realtimeVars
  BY <1>7 DEF realtimeVars, RealtimeInv, RealtimeTypeOK, OpenIsCurrent, OwedIsCommitted,
     DeletedBelowWatermark, ResumeIsSound, DeliveryIsWhole, NoSilentDrop, ReplayIsWhole, Connected,
     Queued, Committed, Having
<1> QED
  BY <1>1, <1>2, <1>3, <1>4, <1>5, <1>6, <1>7 DEF RealtimeNext

\* What is delivered is delivered whole: an open connection has, queued or
\* delivered, every live event it is owed, and a replay without a reload holds
\* every event above the cursor it was asked for that was committed by then, as
\* long as retention does not run between the reads of a resume.  An event that
\* was not published and that the cursor has passed is not among them: see
\* DeferredIsResumed (Session.Send, Manager.Register, ResumeUser,
\* CleanupExpired).
THEOREM DeliveriesAreWhole == ASSUME NoRace PROVE RealtimeSpec => []DeliveryIsWhole
<1>1. RealtimeInit => RealtimeInv
  BY NoRace, RealtimeInvHoldsAtFirst
<1>2. RealtimeInv => DeliveryIsWhole
  BY DEF RealtimeInv
<1> QED
  BY <1>1, <1>2, RealtimeInvInductive, PTL DEF RealtimeSpec

-----------------------------------------------------------------------------
(***************************************************************************)
(* Paid image and text tasks end whole, for any number of tasks, workers,  *)
(* retries and faults.                                                     *)
(*                                                                         *)
(* Two facts carry the proof.  The rows of a task agree (RowsAgree): money *)
(* is held before an attempt is prepared, a prepared attempt has not been  *)
(* sent, and nothing changes once the charge is closed.  And the lease of  *)
(* an image leaves its worker alone with it (WorkerIsSound): what that     *)
(* worker saw of the rows is still so.                                     *)
(***************************************************************************)


Outcome == Delivered \cup {"failed", "unsent", "unknown"}
Points == {"rest", "look", "doubt", "reserve", "send", "call", "record", "judge", "fail", "save", "settle"}
AttemptStates == {"none", "prepared", "dispatched"} \cup Terminal

TaskRow == [kind: {"image", "text"}, status: {"none", "pending", "running", "success", "failed"},
            code: {"none", "insufficient", "error"}, token: Nat, leased: BOOLEAN, answer: BOOLEAN]
AttemptRow == [state: AttemptStates, stale: BOOLEAN, seen: BOOLEAN, doomed: BOOLEAN]
BillRow == [charge: {"none", "open", "settled", "released", "unbilled"},
            hold: {"none", "active", "captured", "released"}]
WorkerRow == [at: Points, task: Tasks \cup {0}, token: Nat, note: AttemptStates, stray: BOOLEAN]

RowsTyped ==
  /\ tasks \in [Tasks -> TaskRow] /\ attempt \in [Tasks -> AttemptRow]
  /\ bills \in [Tasks -> BillRow] /\ sends \in [Tasks -> Nat]

Closed(t) == bills[t].charge \in {"settled", "released", "unbilled"}

\* The rows of task, attempt and charge of one task agree.
RowsAgree(t) ==
  /\ tasks[t].status = "none" <=> bills[t].charge = "none"
  /\ TaskEnded(t) <=> Closed(t)
  /\ Closed(t) => bills[t].hold # "active" /\ AttemptState(t) \notin {"prepared", "dispatched"}
  /\ ~Closed(t) => bills[t].hold \in {"none", "active"}
  /\ bills[t].charge = "none" => bills[t].hold = "none"
  /\ bills[t].charge = "settled" <=> bills[t].hold = "captured"
  /\ AttemptState(t) # "none" => bills[t].hold # "none"
  /\ AttemptState(t) \in {"none", "prepared"} => sends[t] = 0
  /\ sends[t] <= 1
  /\ attempt[t].seen => AttemptState(t) \notin {"none", "prepared", "dispatched"}
  /\ tasks[t].status = "success" => bills[t].charge = "settled" /\ AttemptState(t) = "good"
  /\ bills[t].charge = "settled" => AttemptState(t) \in {"good", "spoiled"}

\* What the lease of an image adds.
ImageAgrees(t) ==
  IsImage(t) =>
    /\ tasks[t].code = "insufficient" => AttemptState(t) = "none"
    /\ bills[t].charge = "settled" => tasks[t].status = "success"
    /\ attempt[t].seen /\ ~attempt[t].doomed /\ AttemptState(t) = "good" =>
         tasks[t].code = "none" /\ tasks[t].status # "failed"

HoldsLease(e) == tasks[e.task].status = "running" /\ tasks[e.task].leased /\ tasks[e.task].token = e.token

\* What a worker may rely on at the call it is at.
WorkerIsSound(e) ==
  e.at # "rest" =>
    /\ e.task \in Tasks
    /\ e.at = "record" => e.note \in Outcome
    /\ e.at = "save" => ~IsImage(e.task)
    /\ IsImage(e.task) => e.token <= tasks[e.task].token
    /\ IsImage(e.task) /\ HoldsLease(e) =>
         /\ e.at = "reserve" /\ e.note = "none" => tasks[e.task].code # "insufficient"
         /\ e.at \in {"call", "record"} /\ AttemptState(e.task) = "dispatched" /\ ~attempt[e.task].doomed =>
              tasks[e.task].code = "none"
         /\ attempt[e.task].seen /\ AttemptState(e.task) = "good" => e.at \in {"look", "settle"}

\* Two workers of one image hold different tokens.
TaskTokensDiffer ==
  \A w, x \in Executors :
    ~Is(w, "rest") /\ ~Is(x, "rest") /\ Of(w) = Of(x) /\ IsImage(Of(w)) /\ executors[w].token = executors[x].token
    => w = x

TaskInv ==
  /\ RowsTyped /\ executors \in [Executors -> WorkerRow]
  /\ \A t \in Tasks : RowsAgree(t) /\ ImageAgrees(t)
  /\ \A w \in Executors : WorkerIsSound(executors[w])
  /\ TaskTokensDiffer

-----------------------------------------------------------------------------
(* What every step uses.                                                   *)

Leased(w) == IsImage(Of(w)) => HoldsLease(executors[w])

LEMMA LeasingIsLeased == \A w : Leasing(w) <=> Leased(w)
BY DEF Leasing, Leased, IsImage, HoldsLease, Of

LEMMA TaskTyped ==
  ASSUME TaskInv, NEW t \in Tasks
  PROVE  /\ tasks[t] \in TaskRow /\ attempt[t] \in AttemptRow /\ bills[t] \in BillRow
         /\ sends[t] \in Nat /\ RowsAgree(t) /\ ImageAgrees(t)
BY DEF TaskInv, RowsTyped

LEMMA WorkerTyped ==
  ASSUME TaskInv, NEW w \in Executors, ~Is(w, "rest")
  PROVE  /\ Of(w) \in Tasks /\ executors[w] \in WorkerRow /\ WorkerIsSound(executors[w])
         /\ executors \in [Executors -> WorkerRow]
BY DEF TaskInv, WorkerIsSound, Is, Of

LEMMA OffWorkIsSound == OffWork \in WorkerRow /\ OffWork.at = "rest" /\ WorkerIsSound(OffWork)
BY DEF OffWork, WorkerRow, Points, AttemptStates, WorkerIsSound

\* Proceed moves one worker and keeps its task and token.
LEMMA ProceedRow ==
  ASSUME TaskInv, NEW w \in Executors, ~Is(w, "rest"), NEW p \in Points, NEW n \in AttemptStates,
         Proceed(w, p, n)
  PROVE  \E e \in WorkerRow : /\ executors' = [executors EXCEPT ![w] = e]
                              /\ e.at = p /\ e.note = n /\ e.task = Of(w)
                              /\ e.token = executors[w].token
<1>1. executors[w] \in WorkerRow
  BY WorkerTyped
<1>2. PICK e : e = [executors[w] EXCEPT !.at = p, !.note = n]
  OBVIOUS
<1>3. e \in WorkerRow /\ e.at = p /\ e.note = n /\ e.task = Of(w) /\ e.token = executors[w].token
  BY <1>1, <1>2 DEF WorkerRow, Of
<1>4. executors' = [executors EXCEPT ![w] = e]
  BY <1>2 DEF Proceed
<1> QED
  BY <1>3, <1>4

\* A change of the rows of t leaves the other workers what they rely on, unless
\* they hold its lease.
LEMMA OthersSound ==
  ASSUME NEW e \in WorkerRow, WorkerIsSound(e), NEW t \in Tasks, RowsTyped, RowsTyped',
         \A u \in Tasks \ {t} : tasks'[u] = tasks[u] /\ attempt'[u] = attempt[u],
         tasks'[t].kind = tasks[t].kind, tasks'[t].token >= tasks[t].token,
         e.at # "rest" /\ e.task = t /\ IsImage(t) =>
           ~HoldsLease(e)' \/ (tasks'[t] = tasks[t] /\ attempt'[t] = attempt[t])
  PROVE  WorkerIsSound(e)'
<1> SUFFICES ASSUME e.at # "rest" PROVE WorkerIsSound(e)'
  BY DEF WorkerIsSound
<1>1. e.task \in Tasks
  BY DEF WorkerIsSound
<1>2. CASE tasks'[e.task] = tasks[e.task] /\ attempt'[e.task] = attempt[e.task]
  BY <1>1, <1>2 DEF WorkerIsSound, IsImage, HoldsLease, AttemptState
<1>3. CASE e.task = t /\ IsImage(t) /\ ~HoldsLease(e)'
  <2>1. e.token <= tasks[t].token /\ e.token \in Nat /\ tasks[t].token \in Nat /\ tasks'[t].token \in Nat
    BY <1>3 DEF WorkerIsSound, RowsTyped, TaskRow, WorkerRow
  <2>2. e.token <= tasks'[t].token
    BY <2>1
  <2> QED
    BY <1>3, <2>2 DEF WorkerIsSound, IsImage
<1>4. CASE e.task = t /\ ~IsImage(t)
  BY <1>4 DEF WorkerIsSound, IsImage
<1> QED
  BY <1>1, <1>2, <1>3, <1>4

\* A worker that holds the lease, or changes neither task nor attempt, moves on.
LEMMA WorkerKeeps ==
  ASSUME TaskInv, NEW w \in Executors, ~Is(w, "rest"), NEW t \in Tasks, t = Of(w), RowsTyped',
         \A u \in Tasks \ {t} : /\ tasks'[u] = tasks[u] /\ attempt'[u] = attempt[u]
                                /\ bills'[u] = bills[u] /\ sends'[u] = sends[u],
         tasks'[t].kind = tasks[t].kind, tasks'[t].token = tasks[t].token,
         IsImage(t) => HoldsLease(executors[w]) \/ (tasks'[t] = tasks[t] /\ attempt'[t] = attempt[t]),
         RowsAgree(t)', ImageAgrees(t)',
         NEW e \in WorkerRow, executors' = [executors EXCEPT ![w] = e],
         e.at = "rest" \/ (e.task = t /\ e.token = executors[w].token),
         WorkerIsSound(e)'
  PROVE  TaskInv'
<1>1. /\ executors' \in [Executors -> WorkerRow] /\ executors'[w] = e
      /\ \A x \in Executors \ {w} : executors'[x] = executors[x]
  BY DEF TaskInv
<1>2. ASSUME NEW u \in Tasks PROVE RowsAgree(u)' /\ ImageAgrees(u)'
  <2>1. CASE u = t
    BY <2>1
  <2>2. CASE u # t
    <3>1. /\ tasks'[u] = tasks[u] /\ attempt'[u] = attempt[u] /\ bills'[u] = bills[u]
          /\ sends'[u] = sends[u] /\ RowsAgree(u) /\ ImageAgrees(u)
      BY <2>2 DEF TaskInv
    <3> QED
      BY <3>1 DEF RowsAgree, ImageAgrees, TaskEnded, Closed, AttemptState, IsImage
  <2> QED
    BY <2>1, <2>2
<1>3. ASSUME NEW x \in Executors PROVE WorkerIsSound(executors[x])'
  <2>1. CASE x = w
    BY <1>1, <2>1
  <2>2. CASE x # w
    <3>1. PICK f : f = executors[x]
      OBVIOUS
    <3>2. f \in WorkerRow /\ WorkerIsSound(f) /\ executors'[x] = f
      BY <1>1, <2>2, <3>1 DEF TaskInv
    <3>3. ASSUME f.at # "rest", f.task = t, IsImage(t)
          PROVE  ~HoldsLease(f)' \/ (tasks'[t] = tasks[t] /\ attempt'[t] = attempt[t])
      <4>1. SUFFICES ASSUME HoldsLease(executors[w]), HoldsLease(f)' PROVE FALSE
        BY <3>3
      <4>2. f.token = executors[w].token
        BY <3>3, <4>1 DEF HoldsLease, Of
      <4> QED
        BY <2>2, <3>1, <3>3, <4>2 DEF TaskInv, TaskTokensDiffer, Is, Of
    <3>4. tasks'[t].token >= tasks[t].token
      BY DEF RowsTyped, TaskRow
    <3>5. WorkerIsSound(f)'
      BY <3>2, <3>3, <3>4, OthersSound DEF TaskInv
    <3> QED
      BY <3>2, <3>5
  <2> QED
    BY <2>1, <2>2
<1>4. TaskTokensDiffer'
  <2>1. \A u \in Tasks : IsImage(u)' <=> IsImage(u)
    BY DEF IsImage
  <2>2. ASSUME NEW x \in Executors, executors'[x].at # "rest"
        PROVE  /\ executors[x].at # "rest" /\ executors'[x].task = executors[x].task
               /\ executors'[x].token = executors[x].token /\ executors[x].task \in Tasks
    BY <1>1, <2>2 DEF TaskInv, WorkerIsSound, Is, Of
  <2> QED
    BY <2>1, <2>2 DEF TaskInv, TaskTokensDiffer, Is, Of
<1> QED
  BY <1>1, <1>2, <1>3, <1>4 DEF TaskInv

\* A worker moves on over rows that stay as they are.
LEMMA MoveKeeps ==
  ASSUME TaskInv, NEW w \in Executors, ~Is(w, "rest"), UNCHANGED <<taskRows, sends>>,
         NEW e \in WorkerRow, executors' = [executors EXCEPT ![w] = e],
         e.at = "rest" \/ (e.task = Of(w) /\ e.token = executors[w].token),
         WorkerIsSound(e)
  PROVE  TaskInv'
<1>1. UNCHANGED <<tasks, attempt, bills, sends>>
  BY DEF taskRows
<1>2. Of(w) \in Tasks /\ RowsTyped
  BY WorkerTyped DEF TaskInv
<1>3. RowsTyped'
  BY <1>1, <1>2 DEF RowsTyped
<1>4. RowsAgree(Of(w)) /\ ImageAgrees(Of(w))
  BY <1>2, TaskTyped
<1>5. PICK t : t = Of(w)
  OBVIOUS
<1>6. RowsAgree(t)' /\ ImageAgrees(t)' /\ WorkerIsSound(e)'
  BY <1>1, <1>4, <1>5 DEF RowsAgree, ImageAgrees, TaskEnded, Closed, AttemptState, IsImage,
     WorkerIsSound, HoldsLease
<1> QED
  BY <1>1, <1>2, <1>3, <1>5, <1>6, WorkerKeeps

\* The end of an execution over rows that stay as they are.
LEMMA RestKeeps ==
  ASSUME TaskInv, NEW w \in Executors, ~Is(w, "rest"), UNCHANGED <<taskRows, sends>>,
         executors' = [executors EXCEPT ![w] = OffWork]
  PROVE  TaskInv'
<1>1. PICK e \in WorkerRow : e = OffWork
  BY OffWorkIsSound
<1>2. e.at = "rest" /\ WorkerIsSound(e) /\ executors' = [executors EXCEPT ![w] = e]
  BY <1>1, OffWorkIsSound
<1> QED
  BY <1>2, MoveKeeps

LEMMA EndsAtRest ==
  \A w : Done(w) \/ Retry(w) => executors' = [executors EXCEPT ![w] = OffWork]
BY DEF Done, Retry

-----------------------------------------------------------------------------
(* The calls of a worker.                                                  *)

\* A worker that moves to a call where it relies on nothing but its lease.
LEMMA GoesOn ==
  ASSUME TaskInv, NEW w \in Executors, ~Is(w, "rest"), UNCHANGED <<taskRows, sends>>,
         NEW p \in Points \ {"rest", "record", "save", "reserve", "call"}, NEW n \in AttemptStates,
         Proceed(w, p, n),
         IsImage(Of(w)) /\ HoldsLease(executors[w]) /\ attempt[Of(w)].seen /\ AttemptState(Of(w)) = "good"
           => p \in {"look", "settle"}
  PROVE  TaskInv'
<1>1. PICK e \in WorkerRow : /\ executors' = [executors EXCEPT ![w] = e]
                             /\ e.at = p /\ e.note = n /\ e.task = Of(w)
                             /\ e.token = executors[w].token
  BY ProceedRow
<1>2. WorkerIsSound(executors[w]) /\ Of(w) \in Tasks
  BY WorkerTyped
<1>3. IsImage(Of(w)) => executors[w].token <= tasks[Of(w)].token
  BY <1>2 DEF WorkerIsSound, Is, Of
<1>4. HoldsLease(e) <=> HoldsLease(executors[w])
  BY <1>1 DEF HoldsLease, Of
<1>5. WorkerIsSound(e)
  BY <1>1, <1>2, <1>3, <1>4 DEF WorkerIsSound
<1> QED
  BY <1>1, <1>5, MoveKeeps

LEMMA LookKeeps ==
  ASSUME TaskInv, NEW w \in Executors, Look(w)
  PROVE  TaskInv'
<1>0. PICK t, s : t = Of(w) /\ s = AttemptState(t)
  OBVIOUS
<1>1. /\ ~Is(w, "rest") /\ UNCHANGED <<taskRows, sends>>
  BY DEF Look, Is
<1>2. /\ t \in Tasks /\ WorkerIsSound(executors[w])
      /\ tasks[t] \in TaskRow /\ s \in AttemptStates
  BY <1>0, <1>1, WorkerTyped, TaskTyped DEF AttemptState, AttemptRow
<1>3. "none" \in AttemptStates
  BY DEF AttemptStates
<1>4. CASE TaskEnded(t)
  BY <1>0, <1>1, <1>4, EndsAtRest, RestKeeps DEF Look
<1>5. CASE ~TaskEnded(t) /\ s \in Terminal
  <2>1. PICK p : p = IF IsImage(t) \/ s \notin Delivered THEN "settle" ELSE IF s = "spoiled" THEN "fail" ELSE "save"
    OBVIOUS
  <2>0. s # "dispatched" /\ s # "none"
    BY <1>5 DEF Terminal, Delivered
  <2>2. Proceed(w, p, "none")
    BY <1>0, <1>5, <2>0, <2>1 DEF Look
  <2>3. CASE p = "save"
    <3>1. PICK e \in WorkerRow : /\ executors' = [executors EXCEPT ![w] = e]
                                 /\ e.at = p /\ e.task = Of(w) /\ e.token = executors[w].token
      BY <1>1, <1>3, <2>2, <2>3, ProceedRow DEF Points
    <3>2. WorkerIsSound(e)
      BY <1>0, <1>2, <2>1, <2>3, <3>1 DEF WorkerIsSound
    <3> QED
      BY <1>1, <3>1, <3>2, MoveKeeps
  <2>4. CASE p # "save"
    <3>1. p \in {"settle", "fail"} /\ (IsImage(t) => p = "settle")
      BY <2>1, <2>4
    <3> QED
      BY <1>0, <1>1, <1>3, <2>2, <3>1, GoesOn DEF Points
  <2> QED
    BY <2>3, <2>4
<1>6. CASE ~TaskEnded(t) /\ s = "dispatched"
  <2>1. s \notin Terminal /\ s # "good"
    BY <1>6 DEF Terminal, Delivered
  <2>2. CASE Proceed(w, "doubt", "none")
    BY <1>0, <1>1, <1>3, <2>1, <2>2, GoesOn DEF Points
  <2>3. CASE Retry(w)
    BY <1>1, <2>3, EndsAtRest, RestKeeps
  <2> QED
    BY <1>0, <1>6, <2>1, <2>2, <2>3 DEF Look
<1>7. CASE ~TaskEnded(t) /\ s = "none" /\ tasks[t].code # "none"
  <2>1. s \notin Terminal /\ s # "good" /\ s # "dispatched"
    BY <1>7 DEF Terminal, Delivered
  <2>2. Proceed(w, "settle", "none")
    BY <1>0, <1>7, <2>1 DEF Look
  <2> QED
    BY <1>0, <1>1, <1>3, <2>1, <2>2, GoesOn DEF Points
<1>8. CASE ~TaskEnded(t) /\ s \notin Terminal /\ s # "dispatched" /\ ~(s = "none" /\ tasks[t].code # "none")
  <2>1. s # "good"
    BY <1>8 DEF Terminal, Delivered
  <2>2. CASE Proceed(w, "fail", "none")
    BY <1>0, <1>1, <1>3, <2>1, <2>2, GoesOn DEF Points
  <2>3. CASE Proceed(w, "reserve", s)
    <3>1. PICK e \in WorkerRow : /\ executors' = [executors EXCEPT ![w] = e]
                                 /\ e.at = "reserve" /\ e.note = s /\ e.task = Of(w)
                                 /\ e.token = executors[w].token
      BY <1>1, <1>2, <2>3, ProceedRow DEF Points
    <3>2. IsImage(t) => e.token <= tasks[t].token
      BY <1>0, <1>1, <1>2, <3>1 DEF WorkerIsSound, Is, Of
    <3>3. WorkerIsSound(e)
      BY <1>0, <1>2, <1>8, <2>1, <3>1, <3>2 DEF WorkerIsSound
    <3> QED
      BY <1>1, <3>1, <3>3, MoveKeeps
  <2> QED
    BY <1>0, <1>8, <2>2, <2>3 DEF Look
<1> QED
  BY <1>4, <1>5, <1>6, <1>7, <1>8

\* Only rows of t are written.
OnlyOf(t) ==
  /\ \A u \in Tasks \ {t} : /\ tasks'[u] = tasks[u] /\ attempt'[u] = attempt[u]
                             /\ bills'[u] = bills[u] /\ sends'[u] = sends[u]
  /\ tasks'[t].kind = tasks[t].kind /\ tasks'[t].token = tasks[t].token

\* The rows of the task of a worker change under its lease, and it goes on.
LEMMA WriteKeeps ==
  ASSUME TaskInv, NEW w \in Executors, ~Is(w, "rest"), NEW t \in Tasks, t = Of(w), RowsTyped',
         OnlyOf(t), IsImage(t) => HoldsLease(executors[w]), RowsAgree(t)', ImageAgrees(t)',
         NEW e \in WorkerRow, executors' = [executors EXCEPT ![w] = e],
         e.at = "rest" \/ (e.task = t /\ e.token = executors[w].token),
         WorkerIsSound(e)'
  PROVE  TaskInv'
BY WorkerKeeps DEF OnlyOf

\* Another outcome of the attempt: an attempt that was sent gets one.
LEMMA OutcomeRow ==
  ASSUME TaskInv, NEW t \in Tasks, NEW o \in Terminal, SetState(t, o)
  PROVE  \E a \in AttemptRow : /\ attempt' = [attempt EXCEPT ![t] = a]
                               /\ a.state = o /\ a.seen = attempt[t].seen /\ a.doomed = attempt[t].doomed
                               /\ attempt'[t] = a
<1>1. PICK a : a = [attempt[t] EXCEPT !.state = o]
  OBVIOUS
<1>2. attempt[t] \in AttemptRow /\ o \in AttemptStates
  BY TaskTyped DEF AttemptStates
<1>3. a \in AttemptRow /\ a.state = o /\ a.seen = attempt[t].seen /\ a.doomed = attempt[t].doomed
  BY <1>1, <1>2 DEF AttemptRow
<1>4. attempt' = [attempt EXCEPT ![t] = a]
  BY <1>1 DEF SetState
<1>5. attempt'[t] = a
  BY <1>4 DEF TaskInv, RowsTyped
<1> QED
  BY <1>3, <1>4, <1>5

LEMMA MarkOutcomeUnknownKeeps ==
  ASSUME TaskInv, NEW w \in Executors, MarkOutcomeUnknown(w)
  PROVE  TaskInv'
<1>0. PICK t : t = Of(w)
  OBVIOUS
<1>1. ~Is(w, "rest") /\ Is(w, "doubt") /\ UNCHANGED <<tasks, bills, sends>>
  BY DEF MarkOutcomeUnknown, Is
<1>2. /\ t \in Tasks /\ WorkerIsSound(executors[w]) /\ tasks[t] \in TaskRow
      /\ bills[t] \in BillRow /\ sends[t] \in Nat /\ RowsAgree(t) /\ ImageAgrees(t)
      /\ "none" \in AttemptStates /\ attempt[t] \in AttemptRow
  BY <1>0, <1>1, WorkerTyped, TaskTyped DEF AttemptStates
<1>3. CASE AttemptState(t) = "dispatched" /\ Leasing(w)
  <2>1. SetState(t, "unknown") /\ Proceed(w, "settle", "none") /\ "unknown" \in Terminal
    BY <1>0, <1>3 DEF MarkOutcomeUnknown, Terminal
  <2>2. PICK a \in AttemptRow : /\ attempt' = [attempt EXCEPT ![t] = a]
                                /\ a.state = "unknown" /\ attempt'[t] = a
    BY <1>2, <2>1, OutcomeRow
  <2>3. PICK e \in WorkerRow : /\ executors' = [executors EXCEPT ![w] = e]
                               /\ e.at = "settle" /\ e.task = Of(w) /\ e.token = executors[w].token
    BY <1>1, <1>2, <2>1, ProceedRow DEF Points
  <2>4. RowsAgree(t)' /\ ImageAgrees(t)'
    BY <1>1, <1>2, <1>3, <2>2 DEF RowsAgree, ImageAgrees, AttemptState, Closed, TaskEnded, IsImage, BillRow
  <2>5. WorkerIsSound(e)'
    BY <1>0, <1>1, <1>2, <2>3 DEF WorkerIsSound, IsImage, Is, Of
  <2>6. IsImage(t) => HoldsLease(executors[w])
    BY <1>0, <1>3, LeasingIsLeased DEF Leased
  <2>7. RowsTyped' /\ OnlyOf(t)
    BY <1>1, <1>2, <2>2 DEF TaskInv, RowsTyped, OnlyOf
  <2>8. e.at = "rest" \/ (e.task = t /\ e.token = executors[w].token)
    BY <1>0, <2>3
  <2> QED
    BY <1>0, <1>1, <1>2, <2>3, <2>4, <2>5, <2>6, <2>7, <2>8, WriteKeeps
<1>4. CASE ~(AttemptState(t) = "dispatched" /\ Leasing(w))
  <2>1. UNCHANGED <<taskRows, sends>>
    BY <1>0, <1>1, <1>4 DEF MarkOutcomeUnknown, taskRows
  <2>2. CASE Proceed(w, "settle", "none")
    BY <1>1, <1>2, <2>1, <2>2, GoesOn DEF Points
  <2>3. CASE Retry(w)
    BY <1>1, <2>1, <2>3, EndsAtRest, RestKeeps
  <2> QED
    BY <1>0, <1>4, <2>2, <2>3 DEF MarkOutcomeUnknown
<1> QED
  BY <1>3, <1>4

\* ReserveAndPrepare without the money: the code is written before any attempt is.
LEMMA PoorKeeps ==
  ASSUME TaskInv, NEW w \in Executors, Is(w, "reserve"), Poor(w), UNCHANGED sends
  PROVE  TaskInv'
<1>0. PICK t : t = Of(w)
  OBVIOUS
<1>1. ~Is(w, "rest") /\ UNCHANGED <<attempt, bills, sends>> /\ bills[t].hold = "none"
  BY <1>0 DEF Is, Poor
<1>2. /\ t \in Tasks /\ WorkerIsSound(executors[w]) /\ tasks[t] \in TaskRow
      /\ bills[t] \in BillRow /\ sends[t] \in Nat /\ RowsAgree(t) /\ ImageAgrees(t)
      /\ "none" \in AttemptStates /\ attempt[t] \in AttemptRow
  BY <1>0, <1>1, WorkerTyped, TaskTyped DEF AttemptStates
<1>3. AttemptState(t) = "none"
  BY <1>1, <1>2 DEF RowsAgree
<1>4. CASE Leasing(w)
  <2>1. PICK row : row = [tasks[t] EXCEPT !.code = "insufficient"]
    OBVIOUS
  <2>2. /\ row \in TaskRow /\ row.kind = tasks[t].kind /\ row.token = tasks[t].token
        /\ row.status = tasks[t].status /\ row.leased = tasks[t].leased /\ row.code = "insufficient"
    BY <1>2, <2>1 DEF TaskRow
  <2>3. tasks' = [tasks EXCEPT ![t] = row] /\ Proceed(w, "settle", "none")
    BY <1>0, <1>4, <2>1 DEF Poor, SetTask
  <2>4. tasks'[t] = row
    BY <1>2, <2>3 DEF TaskInv, RowsTyped
  <2>5. PICK e \in WorkerRow : /\ executors' = [executors EXCEPT ![w] = e]
                               /\ e.at = "settle" /\ e.task = Of(w) /\ e.token = executors[w].token
    BY <1>1, <1>2, <2>3, ProceedRow DEF Points
  <2>6. RowsAgree(t)' /\ ImageAgrees(t)'
    BY <1>1, <1>2, <1>3, <2>2, <2>4 DEF RowsAgree, ImageAgrees, AttemptState, Closed, TaskEnded, IsImage
  <2>7. WorkerIsSound(e)'
    BY <1>0, <1>1, <1>2, <2>2, <2>4, <2>5 DEF WorkerIsSound, IsImage, Is, Of
  <2>8. IsImage(t) => HoldsLease(executors[w])
    BY <1>0, <1>4, LeasingIsLeased DEF Leased
  <2>9. RowsTyped' /\ OnlyOf(t)
    BY <1>1, <1>2, <2>2, <2>3 DEF TaskInv, RowsTyped, OnlyOf
  <2>10. e.at = "rest" \/ (e.task = t /\ e.token = executors[w].token)
    BY <1>0, <2>5
  <2> QED
    BY <1>0, <1>1, <1>2, <2>5, <2>6, <2>7, <2>8, <2>9, <2>10, WriteKeeps
<1>5. CASE ~Leasing(w)
  <2>1. UNCHANGED <<taskRows, sends>> /\ Retry(w)
    BY <1>1, <1>5 DEF Poor, taskRows
  <2> QED
    BY <1>1, <2>1, EndsAtRest, RestKeeps
<1> QED
  BY <1>4, <1>5

\* What a lemma about a worker at one of its calls starts from.
LEMMA AtCall ==
  ASSUME TaskInv, NEW w \in Executors, ~Is(w, "rest"), NEW t, t = Of(w)
  PROVE  /\ t \in Tasks /\ WorkerIsSound(executors[w]) /\ executors[w] \in WorkerRow
         /\ tasks[t] \in TaskRow /\ attempt[t] \in AttemptRow /\ bills[t] \in BillRow
         /\ sends[t] \in Nat /\ RowsAgree(t) /\ ImageAgrees(t) /\ "none" \in AttemptStates
         /\ Leasing(w) => (IsImage(t) => HoldsLease(executors[w]))
         /\ IsImage(t) => executors[w].token <= tasks[t].token
BY WorkerTyped, TaskTyped, LeasingIsLeased DEF AttemptStates, Leased, WorkerIsSound, Is, Of

LEMMA ReserveKeeps ==
  ASSUME TaskInv, NEW w \in Executors, Reserve(w)
  PROVE  TaskInv'
<1>0. PICK t, s : t = Of(w) /\ s = AttemptState(t)
  OBVIOUS
<1>1. ~Is(w, "rest") /\ Is(w, "reserve") /\ UNCHANGED sends
  BY DEF Reserve, Is
<1>2. PICK inserts, known : /\ inserts = (s = "none" /\ executors[w].note = "none")
                            /\ known = (s = "prepared" \/ inserts)
  OBVIOUS
<1>3. /\ t \in Tasks /\ WorkerIsSound(executors[w]) /\ executors[w] \in WorkerRow
      /\ tasks[t] \in TaskRow /\ attempt[t] \in AttemptRow /\ bills[t] \in BillRow
      /\ sends[t] \in Nat /\ RowsAgree(t) /\ ImageAgrees(t) /\ "none" \in AttemptStates
      /\ Leasing(w) => (IsImage(t) => HoldsLease(executors[w]))
      /\ IsImage(t) => executors[w].token <= tasks[t].token
  BY <1>0, <1>1, AtCall
<1>4. CASE ~ChargeOpen(t) \/ ~known
  <2>1. Proceed(w, "judge", "none") /\ UNCHANGED <<taskRows, sends>>
    BY <1>0, <1>1, <1>2, <1>4 DEF Reserve
  <2>2. ~(IsImage(t) /\ HoldsLease(executors[w]) /\ attempt[t].seen /\ AttemptState(t) = "good")
    BY <1>0, <1>1, <1>3 DEF WorkerIsSound, Is, Of
  <2> QED
    BY <1>0, <1>1, <1>3, <2>1, <2>2, GoesOn DEF Points
<1>5. CASE Poor(w)
  BY <1>1, <1>5, PoorKeeps
<1>6. ASSUME ChargeOpen(t), s \in {"none", "prepared"}, Reserved(t), Proceed(w, "send", "none"), UNCHANGED tasks,
             \/ UNCHANGED attempt
             \/ /\ SetState(t, "prepared") /\ Leasing(w) /\ s = "none" /\ executors[w].note = "none"
      PROVE  TaskInv'
  <2>1. PICK a \in AttemptRow : /\ attempt' = [attempt EXCEPT ![t] = a] /\ attempt'[t] = a
                                /\ a.state \in {"none", "prepared"} /\ a.seen = FALSE
                                /\ a = attempt[t] \/ (a.state = "prepared" /\ Leasing(w) /\ s = "none"
                                                      /\ executors[w].note = "none")
    <3>1. attempt[t].seen = FALSE /\ attempt[t].state = s
      BY <1>0, <1>3, <1>6 DEF RowsAgree, AttemptState, AttemptRow
    <3>2. CASE UNCHANGED attempt
      <4>1. attempt' = [attempt EXCEPT ![t] = attempt[t]] /\ attempt'[t] = attempt[t]
        BY <3>2 DEF TaskInv, RowsTyped
      <4> QED
        BY <1>3, <1>6, <3>1, <4>1
    <3>3. CASE SetState(t, "prepared") /\ Leasing(w) /\ s = "none" /\ executors[w].note = "none"
      <4>1. PICK a : a = [attempt[t] EXCEPT !.state = "prepared"]
        OBVIOUS
      <4>2. a \in AttemptRow /\ a.state = "prepared" /\ a.seen = FALSE
        BY <1>3, <3>1, <4>1 DEF AttemptRow, AttemptStates
      <4>3. attempt' = [attempt EXCEPT ![t] = a]
        BY <3>3, <4>1 DEF SetState
      <4>4. attempt'[t] = a
        BY <1>3, <4>3 DEF TaskInv, RowsTyped
      <4> QED
        BY <3>3, <4>2, <4>3, <4>4
    <3> QED
      BY <1>6, <3>2, <3>3
  <2>2. PICK b : b = [bills[t] EXCEPT !.hold = "active"]
    OBVIOUS
  <2>3. b \in BillRow /\ b.charge = "open" /\ b.hold = "active" /\ bills' = [bills EXCEPT ![t] = b]
    BY <1>3, <1>6, <2>2 DEF BillRow, Reserved, ChargeOpen
  <2>4. bills'[t] = b
    BY <1>3, <2>3 DEF TaskInv, RowsTyped
  <2>5. PICK e \in WorkerRow : /\ executors' = [executors EXCEPT ![w] = e]
                               /\ e.at = "send" /\ e.task = Of(w) /\ e.token = executors[w].token
    BY <1>1, <1>3, <1>6, ProceedRow DEF Points
  <2>6. RowsAgree(t)'
    BY <1>0, <1>1, <1>3, <1>6, <2>1, <2>3, <2>4 DEF RowsAgree, AttemptState, Closed, ChargeOpen, TaskEnded
  <2>7. ImageAgrees(t)'
    <3>1. CASE a = attempt[t]
      BY <1>3, <1>6, <2>1, <2>3, <2>4, <3>1 DEF ImageAgrees, AttemptState, IsImage
    <3>2. CASE Leasing(w) /\ s = "none" /\ executors[w].note = "none"
      <4>1. IsImage(t) => tasks[t].code # "insufficient"
        BY <1>0, <1>1, <1>3, <3>2 DEF WorkerIsSound, Is, Of
      <4> QED
        BY <1>6, <2>1, <2>3, <2>4, <4>1 DEF ImageAgrees, AttemptState, IsImage
    <3> QED
      BY <2>1, <3>1, <3>2
  <2>8. WorkerIsSound(e)'
    BY <1>0, <1>3, <1>6, <2>1, <2>5 DEF WorkerIsSound, IsImage
  <2>9. RowsTyped' /\ OnlyOf(t)
    BY <1>1, <1>3, <1>6, <2>1, <2>3 DEF TaskInv, RowsTyped, OnlyOf
  <2>10. e.at = "rest" \/ (e.task = t /\ e.token = executors[w].token)
    BY <1>0, <2>5
  <2>11. IsImage(t) => HoldsLease(executors[w]) \/ (tasks'[t] = tasks[t] /\ attempt'[t] = attempt[t])
    BY <1>3, <1>6
  <2> QED
    BY <1>0, <1>1, <1>3, <2>5, <2>6, <2>7, <2>8, <2>9, <2>10, <2>11, WorkerKeeps DEF OnlyOf
<1>7. CASE ChargeOpen(t) /\ known /\ ~inserts /\ ~Poor(w)
  <2>1. /\ Reserved(t) /\ Proceed(w, "send", "none") /\ UNCHANGED <<tasks, attempt>>
    BY <1>0, <1>1, <1>2, <1>7 DEF Reserve
  <2> QED
    BY <1>2, <1>6, <1>7, <2>1
<1>8. CASE ChargeOpen(t) /\ known /\ inserts /\ ~Poor(w)
  <2>1. \/ Leasing(w) /\ Reserved(t) /\ SetState(t, "prepared") /\ Proceed(w, "send", "none") /\ UNCHANGED tasks
        \/ Retry(w) /\ UNCHANGED taskRows
    BY <1>0, <1>1, <1>2, <1>8 DEF Reserve
  <2>2. CASE Retry(w) /\ UNCHANGED taskRows
    BY <1>1, <2>2, EndsAtRest, RestKeeps
  <2> QED
    BY <1>2, <1>6, <1>8, <2>1, <2>2
<1> QED
  BY <1>2, <1>4, <1>5, <1>7, <1>8

\* MarkDispatched: the only request of a task, and an image is alone with it.
LEMMA MarkSentKeeps ==
  ASSUME TaskInv, NEW w \in Executors, MarkSent(w)
  PROVE  TaskInv'
<1>0. PICK t : t = Of(w)
  OBVIOUS
<1>1. ~Is(w, "rest") /\ Is(w, "send") /\ UNCHANGED <<tasks, bills>>
  BY DEF MarkSent, Is
<1>2. /\ t \in Tasks /\ WorkerIsSound(executors[w])
      /\ tasks[t] \in TaskRow /\ attempt[t] \in AttemptRow /\ bills[t] \in BillRow
      /\ sends[t] \in Nat /\ RowsAgree(t) /\ ImageAgrees(t) /\ "none" \in AttemptStates
      /\ Leasing(w) => (IsImage(t) => HoldsLease(executors[w]))
      /\ IsImage(t) => executors[w].token <= tasks[t].token
  BY <1>0, <1>1, AtCall
<1>3. CASE ~ChargeOpen(t)
  <2>1. Proceed(w, "judge", "none") /\ UNCHANGED <<taskRows, sends>>
    BY <1>0, <1>1, <1>3 DEF MarkSent, taskRows
  <2>2. ~(IsImage(t) /\ HoldsLease(executors[w]) /\ attempt[t].seen /\ AttemptState(t) = "good")
    BY <1>0, <1>1, <1>2 DEF WorkerIsSound, Is, Of
  <2> QED
    BY <1>0, <1>1, <1>2, <2>1, <2>2, GoesOn DEF Points
<1>4. CASE ChargeOpen(t) /\ (AttemptState(t) # "prepared" \/ ~Leasing(w))
  <2>1. Retry(w) /\ UNCHANGED <<taskRows, sends>>
    BY <1>0, <1>1, <1>4 DEF MarkSent, taskRows
  <2> QED
    BY <1>1, <2>1, EndsAtRest, RestKeeps
<1>5. CASE ChargeOpen(t) /\ AttemptState(t) = "prepared" /\ Leasing(w)
  <2>1. /\ attempt' = [attempt EXCEPT ![t].state = "dispatched", ![t].doomed = tasks[t].code # "none"]
        /\ sends' = [sends EXCEPT ![t] = @ + 1]
        /\ Proceed(w, "call", "none")
    BY <1>0, <1>5 DEF MarkSent
  <2>2. PICK a : a = [attempt[t] EXCEPT !.state = "dispatched", !.doomed = tasks[t].code # "none"]
    OBVIOUS
  <2>3. /\ a \in AttemptRow /\ a.state = "dispatched" /\ a.seen = attempt[t].seen
        /\ a.doomed = (tasks[t].code # "none")
    BY <1>2, <2>2 DEF AttemptRow, AttemptStates
  <2>4. attempt' = [attempt EXCEPT ![t] = a]
    BY <2>1, <2>2
  <2>5. /\ attempt'[t] = a /\ sends'[t] = sends[t] + 1 /\ sends[t] = 0
    BY <1>2, <1>5, <2>1, <2>4 DEF TaskInv, RowsTyped, RowsAgree
  <2>6. PICK e \in WorkerRow : /\ executors' = [executors EXCEPT ![w] = e]
                               /\ e.at = "call" /\ e.task = Of(w) /\ e.token = executors[w].token
    BY <1>1, <1>2, <2>1, ProceedRow DEF Points
  <2>7. RowsAgree(t)'
    <3>1. sends'[t] = 1
      BY <2>5
    <3>2. attempt[t].seen = FALSE /\ bills[t].hold # "none" /\ ~Closed(t)
      BY <1>2, <1>5 DEF RowsAgree, AttemptState, AttemptRow, Closed, ChargeOpen
    <3> QED
      BY <1>1, <1>2, <1>5, <2>3, <2>5, <3>1, <3>2 DEF RowsAgree, AttemptState, Closed, TaskEnded
  <2>8. ImageAgrees(t)'
    BY <1>1, <1>2, <1>5, <2>3, <2>5 DEF ImageAgrees, AttemptState, IsImage
  <2>9. WorkerIsSound(e)'
    <3>1. AttemptState(t)' = "dispatched" /\ (~attempt'[t].doomed => tasks'[t].code = "none")
      BY <1>1, <2>3, <2>5 DEF AttemptState
    <3>2. IsImage(t)' => e.token <= tasks'[t].token
      BY <1>0, <1>1, <1>2, <2>6 DEF IsImage
    <3> QED
      BY <1>0, <1>2, <2>6, <3>1, <3>2 DEF WorkerIsSound
  <2>10. RowsTyped' /\ OnlyOf(t)
    <3>1. sends' \in [Tasks -> Nat] /\ \A u \in Tasks \ {t} : sends'[u] = sends[u]
      BY <1>2, <2>1 DEF TaskInv, RowsTyped
    <3>2. attempt' \in [Tasks -> AttemptRow] /\ \A u \in Tasks \ {t} : attempt'[u] = attempt[u]
      BY <1>2, <2>3, <2>4 DEF TaskInv, RowsTyped
    <3> QED
      BY <1>1, <3>1, <3>2 DEF TaskInv, RowsTyped, OnlyOf
  <2>11. e.at = "rest" \/ (e.task = t /\ e.token = executors[w].token)
    BY <1>0, <2>6
  <2>12. IsImage(t) => HoldsLease(executors[w])
    BY <1>2, <1>5
  <2> QED
    BY <1>0, <1>1, <1>2, <2>6, <2>7, <2>8, <2>9, <2>10, <2>11, <2>12, WriteKeeps
<1> QED
  BY <1>3, <1>4, <1>5

\* The calls of the gateway that leave the rows alone.
LEMMA GatewayKeeps ==
  ASSUME TaskInv, NEW w \in Executors, SendRefused(w) \/ Answer(w) \/ GatewayFails(w) \/ Judge(w)
  PROVE  TaskInv'
<1>0. PICK t : t = Of(w)
  OBVIOUS
<1>1. /\ ~Is(w, "rest") /\ UNCHANGED <<taskRows, sends>>
      /\ executors[w].at \in {"reserve", "send", "call", "record", "judge"}
  BY DEF SendRefused, Answer, GatewayFails, Judge, Is
<1>2. /\ t \in Tasks /\ WorkerIsSound(executors[w]) /\ "none" \in AttemptStates
      /\ IsImage(t) => executors[w].token <= tasks[t].token
  BY <1>0, <1>1, AtCall
<1>3. ~(IsImage(t) /\ HoldsLease(executors[w]) /\ attempt[t].seen /\ AttemptState(t) = "good")
  BY <1>0, <1>1, <1>2 DEF WorkerIsSound, Of
<1>4. ASSUME NEW p \in {"judge", "settle", "fail"}, Proceed(w, p, "none") PROVE TaskInv'
  BY <1>0, <1>1, <1>2, <1>3, <1>4, GoesOn DEF Points
<1>5. ASSUME NEW o \in Outcomes(t), Is(w, "call"), Proceed(w, "record", o) PROVE TaskInv'
  <2>1. o \in Outcome /\ o \in AttemptStates
    BY <1>5 DEF Outcomes, Outcome, Delivered, AttemptStates, Terminal
  <2>2. PICK e \in WorkerRow : /\ executors' = [executors EXCEPT ![w] = e]
                               /\ e.at = "record" /\ e.note = o /\ e.task = Of(w)
                               /\ e.token = executors[w].token
    BY <1>1, <1>5, <2>1, ProceedRow DEF Points
  <2>3. HoldsLease(e) <=> HoldsLease(executors[w])
    BY <2>2 DEF HoldsLease, Of
  <2>4. IsImage(t) /\ HoldsLease(e) /\ AttemptState(t) = "dispatched" /\ ~attempt[t].doomed =>
          tasks[t].code = "none"
    BY <1>0, <1>2, <1>5, <2>3 DEF WorkerIsSound, Is, Of
  <2>5. WorkerIsSound(e)
    BY <1>0, <1>2, <1>3, <2>1, <2>2, <2>3, <2>4 DEF WorkerIsSound
  <2> QED
    BY <1>1, <2>2, <2>5, MoveKeeps
<1> QED
  BY <1>0, <1>4, <1>5 DEF SendRefused, Answer, GatewayFails, Judge

\* RecordOutcome: once its worker saw the record of a full answer committed,
\* that worker settles.
LEMMA RecordKeeps ==
  ASSUME TaskInv, NEW w \in Executors, Record(w)
  PROVE  TaskInv'
<1>0. PICK t, o, s : t = Of(w) /\ o = executors[w].note /\ s = AttemptState(t)
  OBVIOUS
<1>1. ~Is(w, "rest") /\ Is(w, "record") /\ UNCHANGED <<tasks, bills, sends>>
  BY DEF Record, Is
<1>2. /\ t \in Tasks /\ WorkerIsSound(executors[w])
      /\ tasks[t] \in TaskRow /\ attempt[t] \in AttemptRow /\ bills[t] \in BillRow
      /\ sends[t] \in Nat /\ RowsAgree(t) /\ ImageAgrees(t) /\ "none" \in AttemptStates
      /\ Leasing(w) => (IsImage(t) => HoldsLease(executors[w]))
      /\ IsImage(t) => executors[w].token <= tasks[t].token
  BY <1>0, <1>1, AtCall
<1>3. /\ o \in Outcome /\ o \in Terminal
      /\ ~(IsImage(t) /\ HoldsLease(executors[w]) /\ attempt[t].seen /\ s = "good")
  BY <1>0, <1>1, <1>2 DEF WorkerIsSound, Is, Of, Outcome, Terminal
<1>4. /\ After(t, o) \in {"judge", "settle", "fail", "save"}
      /\ After(t, o) = "save" => ~IsImage(t)
      /\ IsImage(t) /\ o = "good" => After(t, o) = "settle"
  BY <1>3 DEF After, Outcome, Delivered
<1>5. PICK p : p = After(t, o)
  OBVIOUS
<1>6. ASSUME UNCHANGED attempt, NEW q \in {"judge", "settle", "fail", "save"}, Proceed(w, q, "none"),
             q = "save" => ~IsImage(t)
      PROVE  TaskInv'
  <2>1. PICK e \in WorkerRow : /\ executors' = [executors EXCEPT ![w] = e]
                               /\ e.at = q /\ e.task = Of(w) /\ e.token = executors[w].token
    BY <1>1, <1>2, <1>6, ProceedRow DEF Points
  <2>2. HoldsLease(e) <=> HoldsLease(executors[w])
    BY <2>1 DEF HoldsLease, Of
  <2>3. WorkerIsSound(e)
    BY <1>0, <1>2, <1>3, <1>6, <2>1, <2>2 DEF WorkerIsSound
  <2> QED
    BY <1>1, <1>6, <2>1, <2>3, MoveKeeps DEF taskRows
<1>7. CASE ~ChargeOpen(t)
  BY <1>0, <1>6, <1>7 DEF Record
<1>8. CASE ChargeOpen(t) /\ s = "dispatched" /\ Leasing(w)
  <2>1. PICK q \in {"judge", "settle", "fail", "save"}, a \in AttemptRow :
          /\ Proceed(w, q, "none") /\ attempt' = [attempt EXCEPT ![t] = a]
          /\ a.state = o /\ a.doomed = attempt[t].doomed
          /\ q = "save" => ~IsImage(t)
          /\ a.seen /\ IsImage(t) /\ o = "good" => q = "settle"
    <3>1. attempt[t].seen = FALSE
      BY <1>0, <1>2, <1>8 DEF RowsAgree, AttemptRow
    <3>2. CASE /\ attempt' = [attempt EXCEPT ![t].state = o, ![t].seen = TRUE]
               /\ Proceed(w, After(t, o), "none")
      <4>1. PICK a : a = [attempt[t] EXCEPT !.state = o, !.seen = TRUE]
        OBVIOUS
      <4>2. a \in AttemptRow /\ a.state = o /\ a.doomed = attempt[t].doomed
        BY <1>2, <1>3, <4>1 DEF AttemptRow, AttemptStates
      <4>3. attempt' = [attempt EXCEPT ![t] = a]
        BY <3>2, <4>1
      <4> QED
        BY <1>4, <3>2, <4>2, <4>3
    <3>3. CASE SetState(t, o) /\ Proceed(w, "judge", "none")
      <4>1. PICK a \in AttemptRow : /\ attempt' = [attempt EXCEPT ![t] = a]
                                    /\ a.state = o /\ a.seen = attempt[t].seen
                                    /\ a.doomed = attempt[t].doomed
        BY <1>2, <1>3, <3>3, OutcomeRow
      <4> QED
        BY <3>1, <3>3, <4>1
    <3>4. o # "dispatched"
      BY <1>3 DEF Terminal, Delivered
    <3> QED
      BY <1>0, <1>8, <3>2, <3>3, <3>4 DEF Record
  <2>2. attempt'[t] = a
    BY <1>2, <2>1 DEF TaskInv, RowsTyped
  <2>3. PICK e \in WorkerRow : /\ executors' = [executors EXCEPT ![w] = e]
                               /\ e.at = q /\ e.task = Of(w) /\ e.token = executors[w].token
    BY <1>1, <1>2, <2>1, ProceedRow DEF Points
  <2>4. o \notin {"none", "prepared", "dispatched"}
    BY <1>3 DEF Terminal, Delivered
  <2>5. RowsAgree(t)'
    <3>1. ~Closed(t) /\ bills[t].hold # "none"
      BY <1>0, <1>2, <1>8 DEF RowsAgree, Closed, ChargeOpen
    <3> QED
      BY <1>1, <1>2, <2>1, <2>2, <2>4, <3>1 DEF RowsAgree, AttemptState, Closed, TaskEnded
  <2>6. ImageAgrees(t)'
    <3>1. IsImage(t) => HoldsLease(executors[w]) /\ tasks[t].code # "insufficient"
      BY <1>0, <1>2, <1>8 DEF ImageAgrees
    <3>2. IsImage(t) /\ ~attempt[t].doomed => tasks[t].code = "none"
      BY <1>0, <1>1, <1>2, <1>8, <3>1 DEF WorkerIsSound, Is, Of
    <3>3. tasks[t].status # "failed" /\ bills[t].charge # "settled"
      BY <1>2, <1>8 DEF RowsAgree, ChargeOpen, Closed, TaskEnded
    <3> QED
      BY <1>1, <2>1, <2>2, <3>1, <3>2, <3>3 DEF ImageAgrees, AttemptState, IsImage
  <2>7. WorkerIsSound(e)'
    <3>1. AttemptState(t)' = o /\ (IsImage(t)' <=> IsImage(t)) /\ attempt'[t].seen = a.seen
      BY <1>1, <2>1, <2>2 DEF AttemptState, IsImage
    <3>2. IsImage(t)' => e.token <= tasks'[t].token
      BY <1>0, <1>1, <1>2, <2>3, <3>1
    <3> QED
      BY <1>0, <1>2, <2>1, <2>3, <3>1, <3>2 DEF WorkerIsSound
  <2>8. RowsTyped' /\ OnlyOf(t)
    BY <1>1, <1>2, <2>1 DEF TaskInv, RowsTyped, OnlyOf
  <2>9. e.at = "rest" \/ (e.task = t /\ e.token = executors[w].token)
    BY <1>0, <2>3
  <2>10. IsImage(t) => HoldsLease(executors[w])
    BY <1>2, <1>8
  <2> QED
    BY <1>0, <1>1, <1>2, <2>3, <2>5, <2>6, <2>7, <2>8, <2>9, <2>10, WriteKeeps
<1>9. CASE ChargeOpen(t) /\ ~(s = "dispatched" /\ Leasing(w)) /\ s = o
  BY <1>0, <1>4, <1>6, <1>9 DEF Record
<1>10. CASE ChargeOpen(t) /\ ~(s = "dispatched" /\ Leasing(w)) /\ s # o
  <2>1. Retry(w) /\ UNCHANGED <<taskRows, sends>>
    BY <1>0, <1>1, <1>10 DEF Record, taskRows
  <2> QED
    BY <1>1, <2>1, EndsAtRest, RestKeeps
<1> QED
  BY <1>7, <1>8, <1>9, <1>10

\* A change of the task row alone that keeps kind, token, status and lease.
LEMMA TaskWriteKeeps ==
  ASSUME TaskInv, NEW w \in Executors, ~Is(w, "rest"), NEW t \in Tasks, t = Of(w),
         NEW row \in TaskRow, row.kind = tasks[t].kind, row.token = tasks[t].token,
         row.status = tasks[t].status, SetTask(t, row), UNCHANGED <<attempt, bills, sends>>,
         row = tasks[t] \/ ~IsImage(t)
           \/ (HoldsLease(executors[w]) /\ row.code = "error"
               /\ ~(attempt[t].seen /\ AttemptState(t) = "good")),
         Proceed(w, "settle", "none")
  PROVE  TaskInv'
<1>1. /\ tasks[t] \in TaskRow /\ attempt[t] \in AttemptRow /\ bills[t] \in BillRow
      /\ sends[t] \in Nat /\ RowsAgree(t) /\ ImageAgrees(t) /\ "none" \in AttemptStates
      /\ IsImage(t) => executors[w].token <= tasks[t].token
  BY AtCall
<1>2. tasks'[t] = row
  BY DEF SetTask, TaskInv, RowsTyped
<1>3. RowsTyped' /\ OnlyOf(t)
  BY <1>1 DEF SetTask, TaskInv, RowsTyped, OnlyOf
<1>4. PICK e \in WorkerRow : /\ executors' = [executors EXCEPT ![w] = e]
                             /\ e.at = "settle" /\ e.task = Of(w) /\ e.token = executors[w].token
  BY <1>1, ProceedRow DEF Points
<1>5. RowsAgree(t)'
  BY <1>1, <1>2 DEF RowsAgree, AttemptState, Closed, TaskEnded
<1>6. ImageAgrees(t)'
  BY <1>1, <1>2 DEF ImageAgrees, AttemptState, IsImage
<1>7. WorkerIsSound(e)'
  <2>1. IsImage(t)' => e.token <= tasks'[t].token
    BY <1>1, <1>2, <1>4 DEF IsImage
  <2> QED
    BY <1>1, <1>4, <2>1 DEF WorkerIsSound
<1>8. e.at = "rest" \/ (e.task = t /\ e.token = executors[w].token)
  BY <1>4
<1>9. IsImage(t) => HoldsLease(executors[w]) \/ (tasks'[t] = tasks[t] /\ attempt'[t] = attempt[t])
  BY <1>2
<1> QED
  BY <1>3, <1>4, <1>5, <1>6, <1>7, <1>8, <1>9, WorkerKeeps DEF OnlyOf

LEMMA MarkTaskFailureKeeps ==
  ASSUME TaskInv, NEW w \in Executors, MarkTaskFailure(w)
  PROVE  TaskInv'
<1>0. PICK t : t = Of(w)
  OBVIOUS
<1>1. ~Is(w, "rest") /\ Is(w, "fail") /\ UNCHANGED <<attempt, bills, sends>>
  BY DEF MarkTaskFailure, Is
<1>2. /\ t \in Tasks /\ WorkerIsSound(executors[w]) /\ tasks[t] \in TaskRow
      /\ Leasing(w) => (IsImage(t) => HoldsLease(executors[w]))
      /\ "none" \in AttemptStates
  BY <1>0, <1>1, AtCall
<1>3. IsImage(t) /\ HoldsLease(executors[w]) => ~(attempt[t].seen /\ AttemptState(t) = "good")
  BY <1>0, <1>1, <1>2 DEF WorkerIsSound, Is, Of
<1>4. CASE ~MayFail(w)
  <2>1. Retry(w) /\ UNCHANGED <<taskRows, sends>>
    BY <1>1, <1>4 DEF MarkTaskFailure, taskRows
  <2> QED
    BY <1>1, <2>1, EndsAtRest, RestKeeps
<1>5. CASE MayFail(w) /\ TaskEnded(t)
  <2>1. Proceed(w, "settle", "none") /\ UNCHANGED <<taskRows, sends>>
    BY <1>0, <1>1, <1>5 DEF MarkTaskFailure, taskRows
  <2>2. "settle" \in Points \ {"rest", "record", "save", "reserve", "call"}
    BY DEF Points
  <2>3. ~Is(w, "rest") /\ "none" \in AttemptStates
    BY <1>1, <1>2
  <2> QED
    BY <2>1, <2>2, <2>3, GoesOn
<1>6. CASE MayFail(w) /\ ~TaskEnded(t)
  <2>1. PICK row : row = [tasks[t] EXCEPT !.code = "error"]
    OBVIOUS
  <2>2. /\ row \in TaskRow /\ row.kind = tasks[t].kind /\ row.token = tasks[t].token
        /\ row.status = tasks[t].status /\ row.code = "error"
    BY <1>2, <2>1 DEF TaskRow
  <2>3. SetTask(t, row) /\ Proceed(w, "settle", "none")
    BY <1>0, <1>6, <2>1 DEF MarkTaskFailure
  <2>4. ~IsImage(t) \/ (HoldsLease(executors[w]) /\ ~(attempt[t].seen /\ AttemptState(t) = "good"))
    BY <1>2, <1>3, <1>6 DEF MayFail
  <2> QED
    BY <1>0, <1>1, <1>2, <2>2, <2>3, <2>4, TaskWriteKeeps
<1> QED
  BY <1>4, <1>5, <1>6

LEMMA SaveCandidateKeeps ==
  ASSUME TaskInv, NEW w \in Executors, SaveCandidate(w)
  PROVE  TaskInv'
<1>0. PICK t : t = Of(w)
  OBVIOUS
<1>1. ~Is(w, "rest") /\ Is(w, "save") /\ UNCHANGED <<attempt, bills, sends>>
  BY DEF SaveCandidate, Is
<1>2. t \in Tasks /\ tasks[t] \in TaskRow /\ WorkerIsSound(executors[w])
  BY <1>0, <1>1, AtCall
<1>3. ~IsImage(t)
  BY <1>0, <1>1, <1>2 DEF WorkerIsSound, Is, Of
<1>4. CASE Savable(t)
  <2>1. PICK row : row = [tasks[t] EXCEPT !.answer = TRUE]
    OBVIOUS
  <2>2. /\ row \in TaskRow /\ row.kind = tasks[t].kind /\ row.token = tasks[t].token
        /\ row.status = tasks[t].status
    BY <1>2, <2>1 DEF TaskRow
  <2>3. SetTask(t, row) /\ Proceed(w, "settle", "none")
    BY <1>0, <1>4, <2>1 DEF SaveCandidate
  <2> QED
    BY <1>0, <1>1, <1>2, <1>3, <2>2, <2>3, TaskWriteKeeps
<1>5. CASE ~Savable(t)
  <2>1. Retry(w) /\ UNCHANGED <<taskRows, sends>>
    BY <1>0, <1>1, <1>5 DEF SaveCandidate, taskRows
  <2> QED
    BY <1>1, <2>1, EndsAtRest, RestKeeps
<1> QED
  BY <1>4, <1>5

-----------------------------------------------------------------------------
(* Settlement.                                                             *)

\* What RunFinalizer.decide may conclude of an open run.
LEMMA DecidedAgrees ==
  ASSUME NEW t \in Tasks, tasks[t] \in TaskRow, attempt[t] \in AttemptRow, NEW d \in Decided(t)
  PROVE  /\ d.charge \in {"settled", "released", "unbilled"} /\ d.status \in {"success", "failed"}
         /\ Normal(t) \in AttemptStates \ {"prepared", "dispatched"}
         /\ Normal(t) = AttemptState(t) \/ (AttemptState(t) = "prepared" /\ Normal(t) = "canceled")
         /\ d.charge = "settled" => Normal(t) \in {"good", "spoiled"}
         /\ d.status = "success" => d.charge = "settled" /\ Normal(t) = "good" /\ tasks[t].code = "none"
         /\ d.charge = "settled" /\ d.status = "failed" => tasks[t].code = "insufficient"
         /\ IsImage(t) /\ Normal(t) = "good" /\ tasks[t].code = "none" => d.status = "success"
<1>0. PICK s, code : s = Normal(t) /\ code = tasks[t].code
  OBVIOUS
<1>1. /\ s \in AttemptStates /\ code \in {"none", "insufficient", "error"}
      /\ s = AttemptState(t) \/ (AttemptState(t) = "prepared" /\ s = "canceled")
  BY <1>0 DEF Normal, AttemptState, AttemptRow, AttemptStates, Terminal, TaskRow
<1>2. s \notin {"prepared", "dispatched"}
  BY <1>0 DEF Decided, Undecided
<1>3. \/ d \in Free("released") /\ ~(IsImage(t) /\ s = "good" /\ code = "none")
      \/ d \in Free("unbilled") /\ ~(IsImage(t) /\ s = "good" /\ code = "none")
      \/ d \in Paid("failed") /\ s \in {"good", "spoiled"} /\ code = "insufficient"
      \/ d \in Paid("success") /\ s = "good" /\ code = "none"
  <2>1. CASE s = "none"
    BY <1>0, <2>1 DEF Decided, Undecided
  <2>2. CASE s = "unmetered"
    BY <1>0, <2>2 DEF Decided
  <2>3. CASE s \in {"good", "spoiled"} /\ code = "insufficient"
    BY <1>0, <2>3 DEF Decided
  <2>4. CASE s = "good" /\ code = "none"
    BY <1>0, <2>4 DEF Decided, Undecided
  <2>5. CASE s = "spoiled" /\ code = "none"
    BY <1>0, <2>5 DEF Decided, Undecided
  <2>6. CASE s \notin {"none", "unmetered"} /\ ~(s \in {"good", "spoiled"} /\ code \in {"insufficient", "none"})
    BY <1>0, <1>2, <2>6 DEF Decided
  <2> QED
    BY <1>1, <2>1, <2>2, <2>3, <2>4, <2>5, <2>6
<1>4. CASE d \in Free("released") \/ d \in Free("unbilled")
  BY <1>0, <1>1, <1>2, <1>3, <1>4 DEF Free, Paid
<1>5. CASE d \in Paid("failed") /\ s \in {"good", "spoiled"} /\ code = "insufficient"
  BY <1>0, <1>1, <1>2, <1>5 DEF Paid
<1>6. CASE d \in Paid("success") /\ s = "good" /\ code = "none"
  BY <1>0, <1>1, <1>2, <1>6 DEF Paid
<1> QED
  BY <1>3, <1>4, <1>5, <1>6

LEMMA FinalizeKeeps ==
  ASSUME TaskInv, NEW w \in Executors, FinalizeTask(w)
  PROVE  TaskInv'
<1>0. PICK t : t = Of(w)
  OBVIOUS
<1>1. ~Is(w, "rest") /\ UNCHANGED sends
  BY DEF FinalizeTask, Is
<1>2. /\ t \in Tasks /\ WorkerIsSound(executors[w])
      /\ tasks[t] \in TaskRow /\ attempt[t] \in AttemptRow /\ bills[t] \in BillRow
      /\ sends[t] \in Nat /\ RowsAgree(t) /\ ImageAgrees(t) /\ "none" \in AttemptStates
      /\ Leasing(w) => (IsImage(t) => HoldsLease(executors[w]))
  BY <1>0, <1>1, AtCall
<1>3. ASSUME ChargeOpen(t), Leasing(w), NEW d \in Decided(t),
             SetTask(t, [tasks[t] EXCEPT !.status = d.status, !.leased = FALSE, !.answer = d.status = "success" /\ ~IsImage(t),
                           !.code = IF d.status = "success" THEN "none" ELSE IF @ = "none" THEN "error" ELSE @]),
             SetState(t, Normal(t)),
             bills' = [bills EXCEPT ![t] = [charge |-> d.charge, hold |-> Captured(@.hold, d.charge)]],
             Done(w)
      PROVE  TaskInv'
  <2>1. /\ d.charge \in {"settled", "released", "unbilled"} /\ d.status \in {"success", "failed"}
        /\ Normal(t) \in AttemptStates \ {"prepared", "dispatched"}
        /\ Normal(t) = AttemptState(t) \/ (AttemptState(t) = "prepared" /\ Normal(t) = "canceled")
        /\ d.charge = "settled" => Normal(t) \in {"good", "spoiled"}
        /\ d.status = "success" => d.charge = "settled" /\ Normal(t) = "good" /\ tasks[t].code = "none"
        /\ d.charge = "settled" /\ d.status = "failed" => tasks[t].code = "insufficient"
        /\ IsImage(t) /\ Normal(t) = "good" /\ tasks[t].code = "none" => d.status = "success"
    BY <1>2, <1>3, DecidedAgrees
  <2>2. PICK code : code = IF d.status = "success" THEN "none" ELSE IF tasks[t].code = "none" THEN "error" ELSE tasks[t].code
    OBVIOUS
  <2>3. PICK answer \in BOOLEAN : answer = (d.status = "success" /\ ~IsImage(t))
    OBVIOUS
  <2>4. PICK row : row = [tasks[t] EXCEPT !.status = d.status, !.leased = FALSE, !.answer = answer, !.code = code]
    OBVIOUS
  <2>5. /\ row \in TaskRow /\ row.kind = tasks[t].kind /\ row.token = tasks[t].token
        /\ row.status = d.status /\ row.code = code
        /\ code \in {"none", "insufficient", "error"}
    BY <1>2, <2>1, <2>2, <2>4 DEF TaskRow
  <2>6. tasks' = [tasks EXCEPT ![t] = row]
    BY <1>3, <2>2, <2>3, <2>4 DEF SetTask
  <2>7. PICK a : a = [attempt[t] EXCEPT !.state = Normal(t)]
    OBVIOUS
  <2>8. /\ a \in AttemptRow /\ a.state = Normal(t) /\ a.seen = attempt[t].seen /\ a.doomed = attempt[t].doomed
        /\ attempt' = [attempt EXCEPT ![t] = a]
    BY <1>2, <1>3, <2>1, <2>7 DEF AttemptRow, SetState
  <2>9. PICK b : b = [charge |-> d.charge, hold |-> Captured(bills[t].hold, d.charge)]
    OBVIOUS
  <2>10. /\ b.charge = d.charge /\ bills' = [bills EXCEPT ![t] = b]
         /\ b.hold = IF bills[t].hold = "none" THEN "none" ELSE IF d.charge = "settled" THEN "captured" ELSE "released"
    BY <1>3, <2>9 DEF Captured
  <2>11. b \in BillRow
    BY <2>1, <2>9, <2>10 DEF BillRow, Captured
  <2>12. tasks'[t] = row /\ attempt'[t] = a /\ bills'[t] = b /\ sends'[t] = sends[t]
    BY <1>1, <1>2, <2>6, <2>8, <2>10 DEF TaskInv, RowsTyped
  <2>13. RowsTyped' /\ OnlyOf(t)
    BY <1>1, <1>2, <2>5, <2>6, <2>8, <2>10, <2>11 DEF TaskInv, RowsTyped, OnlyOf
  <2>14. ~Closed(t) /\ ~TaskEnded(t) /\ (AttemptState(t) # "none" => bills[t].hold # "none")
    BY <1>2, <1>3 DEF RowsAgree, ChargeOpen, Closed
  <2>15. RowsAgree(t)'
    <3>1. /\ TaskEnded(t)' /\ Closed(t)' /\ AttemptState(t)' = Normal(t)
          /\ tasks'[t].status # "none" /\ bills'[t].charge # "none"
      BY <2>1, <2>5, <2>8, <2>10, <2>12 DEF TaskEnded, Closed, AttemptState
    <3>2. /\ bills'[t].hold # "active"
          /\ bills'[t].charge = "settled" <=> bills'[t].hold = "captured"
          /\ AttemptState(t)' # "none" => bills'[t].hold # "none"
      BY <2>1, <2>10, <2>12, <2>14, <3>1
    <3>3. /\ AttemptState(t)' \in {"none", "prepared"} => sends'[t] = 0
          /\ sends'[t] <= 1
          /\ attempt'[t].seen => AttemptState(t)' \notin {"none", "prepared", "dispatched"}
      BY <1>2, <2>1, <2>8, <2>12, <3>1 DEF RowsAgree
    <3>4. /\ tasks'[t].status = "success" => bills'[t].charge = "settled" /\ AttemptState(t)' = "good"
          /\ bills'[t].charge = "settled" => AttemptState(t)' \in {"good", "spoiled"}
      BY <2>1, <2>5, <2>10, <2>12, <3>1
    <3> QED
      BY <2>1, <3>1, <3>2, <3>3, <3>4 DEF RowsAgree
  <2>16. ImageAgrees(t)'
    <3>1. SUFFICES ASSUME IsImage(t) PROVE ImageAgrees(t)'
      BY <2>5, <2>12 DEF ImageAgrees, IsImage
    <3>2. /\ tasks[t].code = "insufficient" => AttemptState(t) = "none"
          /\ attempt[t].seen /\ ~attempt[t].doomed /\ AttemptState(t) = "good" => tasks[t].code = "none"
      BY <1>2, <3>1 DEF ImageAgrees
    <3>3. tasks'[t].code = "insufficient" => AttemptState(t)' = "none"
      BY <2>1, <2>2, <2>5, <2>8, <2>12, <3>2 DEF AttemptState
    <3>4. bills'[t].charge = "settled" => tasks'[t].status = "success"
      BY <2>1, <2>5, <2>10, <2>12, <3>2
    <3>5. attempt'[t].seen /\ ~attempt'[t].doomed /\ AttemptState(t)' = "good" =>
            tasks'[t].code = "none" /\ tasks'[t].status # "failed"
      BY <2>1, <2>2, <2>5, <2>8, <2>12, <3>1, <3>2 DEF AttemptState
    <3> QED
      BY <3>3, <3>4, <3>5 DEF ImageAgrees
  <2>17. PICK e \in WorkerRow : e = OffWork
    BY OffWorkIsSound
  <2>18. /\ executors' = [executors EXCEPT ![w] = e] /\ e.at = "rest"
    BY <1>3, <2>17, EndsAtRest, OffWorkIsSound
  <2>19. WorkerIsSound(e)'
    BY <2>18 DEF WorkerIsSound
  <2>20. IsImage(t) => HoldsLease(executors[w])
    BY <1>2, <1>3
  <2> QED
    BY <1>0, <1>1, <1>2, <2>13, <2>15, <2>16, <2>18, <2>19, <2>20, WriteKeeps
<1>4. CASE UNCHANGED taskRows /\ (Done(w) \/ Retry(w))
  BY <1>1, <1>4, EndsAtRest, RestKeeps
<1>5. CASE ChargeOpen(t) /\ Leasing(w) /\ Decided(t) # Undecided
  <2>1. ~Replays(t)
    BY <1>5 DEF Replays
  <2> QED
    BY <1>0, <1>3, <1>5, <2>1 DEF FinalizeTask
<1>6. CASE ~(ChargeOpen(t) /\ Leasing(w) /\ Decided(t) # Undecided)
  BY <1>0, <1>4, <1>6 DEF FinalizeTask
<1> QED
  BY <1>5, <1>6

-----------------------------------------------------------------------------
(* Acceptance, queue and clocks.                                           *)

\* The rows of t change outside any execution: an image is left without lease.
LEMMA OutsideKeeps ==
  ASSUME TaskInv, NEW t \in Tasks, UNCHANGED <<executors, sends>>, RowsTyped', OnlyOf(t),
         RowsAgree(t)', ImageAgrees(t)',
         IsImage(t) => ~(tasks'[t].status = "running" /\ tasks'[t].leased)
  PROVE  TaskInv'
<1>1. ASSUME NEW u \in Tasks PROVE RowsAgree(u)' /\ ImageAgrees(u)'
  <2>1. CASE u = t
    BY <2>1
  <2>2. CASE u # t
    <3>1. /\ tasks'[u] = tasks[u] /\ attempt'[u] = attempt[u] /\ bills'[u] = bills[u]
          /\ sends'[u] = sends[u] /\ RowsAgree(u) /\ ImageAgrees(u)
      BY <2>2 DEF TaskInv, OnlyOf
    <3> QED
      BY <3>1 DEF RowsAgree, ImageAgrees, TaskEnded, Closed, AttemptState, IsImage
  <2> QED
    BY <2>1, <2>2
<1>2. ASSUME NEW x \in Executors PROVE WorkerIsSound(executors[x])'
  <2>1. PICK f : f = executors[x]
    OBVIOUS
  <2>2. f \in WorkerRow /\ WorkerIsSound(f) /\ executors'[x] = f
    BY <2>1 DEF TaskInv
  <2>3. f.at # "rest" /\ f.task = t /\ IsImage(t) => ~HoldsLease(f)'
    BY DEF HoldsLease
  <2>4. tasks'[t].token >= tasks[t].token /\ tasks'[t].kind = tasks[t].kind
    BY DEF RowsTyped, TaskRow, OnlyOf
  <2>5. WorkerIsSound(f)'
    BY <2>2, <2>3, <2>4, OthersSound DEF TaskInv, OnlyOf
  <2> QED
    BY <2>2, <2>5
<1>3. TaskTokensDiffer'
  <2>1. \A u \in Tasks : IsImage(u)' <=> IsImage(u)
    BY DEF IsImage, OnlyOf
  <2>2. \A x \in Executors : ~Is(x, "rest") => Of(x) \in Tasks
    BY WorkerTyped
  <2> QED
    BY <2>1, <2>2 DEF TaskInv, TaskTokensDiffer, Is, Of
<1> QED
  BY <1>1, <1>2, <1>3 DEF TaskInv

\* The rows stay, and no worker's call, task or token changes.
LEMMA StrayKeeps ==
  ASSUME TaskInv, UNCHANGED <<taskRows, sends>>, executors' \in [Executors -> WorkerRow],
         \A w \in Executors : /\ executors'[w].at = executors[w].at /\ executors'[w].task = executors[w].task
                              /\ executors'[w].token = executors[w].token /\ executors'[w].note = executors[w].note
  PROVE  TaskInv'
<1>1. UNCHANGED <<tasks, attempt, bills, sends>>
  BY DEF taskRows
<1>2. RowsTyped' /\ \A t \in Tasks : RowsAgree(t)' /\ ImageAgrees(t)'
  BY <1>1 DEF TaskInv, RowsTyped, RowsAgree, ImageAgrees, TaskEnded, Closed, AttemptState, IsImage
<1>3. ASSUME NEW w \in Executors PROVE WorkerIsSound(executors[w])'
  <2>1. PICK e : e = executors[w]
    OBVIOUS
  <2>2. PICK f : f = executors'[w]
    OBVIOUS
  <2>3. /\ f.at = e.at /\ f.task = e.task /\ f.token = e.token /\ f.note = e.note
        /\ WorkerIsSound(e)
    BY <2>1, <2>2 DEF TaskInv
  <2>4. WorkerIsSound(f)
    BY <2>3 DEF WorkerIsSound, HoldsLease
  <2>5. WorkerIsSound(f)'
    BY <1>1, <2>4 DEF WorkerIsSound, HoldsLease, IsImage, AttemptState
  <2> QED
    BY <2>2, <2>5
<1>4. TaskTokensDiffer'
  BY <1>1 DEF TaskInv, TaskTokensDiffer, Is, Of, IsImage
<1> QED
  BY <1>2, <1>3, <1>4 DEF TaskInv

LEMMA QueueKeeps ==
  ASSUME TaskInv, NEW t \in Tasks,
         WakeByRequest(t) \/ Reconcile(t) \/ UniqueLapses(t) \/ Redeliver(t)
  PROVE  TaskInv'
<1>1. UNCHANGED <<taskRows, sends>>
  BY DEF WakeByRequest, Reconcile, UniqueLapses, Redeliver
<1>2. CASE UNCHANGED executors
  BY <1>1, <1>2, StrayKeeps DEF TaskInv
<1>3. CASE executors' = [w \in Executors |-> IF Of(w) = t THEN [executors[w] EXCEPT !.stray = TRUE] ELSE executors[w]]
  <2>1. executors \in [Executors -> WorkerRow]
    BY DEF TaskInv
  <2>2. ASSUME NEW w \in Executors
        PROVE  /\ executors'[w] \in WorkerRow
               /\ executors'[w].at = executors[w].at /\ executors'[w].task = executors[w].task
               /\ executors'[w].token = executors[w].token /\ executors'[w].note = executors[w].note
    BY <1>3, <2>1 DEF WorkerRow
  <2>3. executors' \in [Executors -> WorkerRow]
    BY <1>3, <2>2
  <2> QED
    BY <1>1, <2>2, <2>3, StrayKeeps
<1> QED
  BY <1>2, <1>3 DEF WakeByRequest, Reconcile, UniqueLapses, Redeliver, Wake

LEMMA AcceptKeeps ==
  ASSUME TaskInv, NEW t \in Tasks, Accept(t)
  PROVE  TaskInv'
<1>1. /\ tasks[t] \in TaskRow /\ attempt[t] \in AttemptRow /\ bills[t] \in BillRow
      /\ sends[t] \in Nat /\ RowsAgree(t) /\ ImageAgrees(t) /\ tasks[t].status = "none"
      /\ UNCHANGED <<attempt, executors, sends>>
  BY TaskTyped DEF Accept
<1>2. PICK status : status = IF IsImage(t) THEN "pending" ELSE "running"
  OBVIOUS
<1>3. PICK row : row = [tasks[t] EXCEPT !.status = status]
  OBVIOUS
<1>4. /\ row \in TaskRow /\ row.kind = tasks[t].kind /\ row.token = tasks[t].token
      /\ row.status = status /\ row.code = tasks[t].code /\ tasks' = [tasks EXCEPT ![t] = row]
  BY <1>1, <1>2, <1>3 DEF TaskRow, Accept, SetTask
<1>5. PICK b : b = [bills[t] EXCEPT !.charge = "open"]
  OBVIOUS
<1>6. /\ b \in BillRow /\ b.charge = "open" /\ b.hold = bills[t].hold
      /\ bills' = [bills EXCEPT ![t] = b]
  BY <1>1, <1>5 DEF BillRow, Accept
<1>7. tasks'[t] = row /\ bills'[t] = b
  BY <1>4, <1>6 DEF TaskInv, RowsTyped
<1>8. RowsTyped' /\ OnlyOf(t)
  BY <1>1, <1>4, <1>6, <1>7 DEF TaskInv, RowsTyped, OnlyOf
<1>9. bills[t].charge = "none" /\ ~Closed(t)
  BY <1>1 DEF RowsAgree, Closed
<1>10. RowsAgree(t)'
  BY <1>1, <1>2, <1>4, <1>6, <1>7, <1>9 DEF RowsAgree, TaskEnded, Closed, AttemptState
<1>11. ImageAgrees(t)'
  BY <1>1, <1>2, <1>4, <1>6, <1>7 DEF ImageAgrees, AttemptState, IsImage
<1>12. IsImage(t) => tasks'[t].status = "pending"
  BY <1>2, <1>4, <1>7
<1> QED
  BY <1>1, <1>8, <1>10, <1>11, <1>12, OutsideKeeps

LEMMA TaskLapseKeeps ==
  ASSUME TaskInv, NEW t \in Tasks, TaskLeaseLapses(t)
  PROVE  TaskInv'
<1>1. /\ tasks[t] \in TaskRow /\ RowsAgree(t) /\ ImageAgrees(t)
      /\ UNCHANGED <<attempt, bills, executors, sends>>
  BY TaskTyped DEF TaskLeaseLapses
<1>2. PICK row : row = [tasks[t] EXCEPT !.leased = FALSE]
  OBVIOUS
<1>3. /\ row \in TaskRow /\ row.kind = tasks[t].kind /\ row.token = tasks[t].token
      /\ row.status = tasks[t].status /\ row.code = tasks[t].code /\ row.leased = FALSE
      /\ tasks' = [tasks EXCEPT ![t] = row]
  BY <1>1, <1>2 DEF TaskRow, TaskLeaseLapses, SetTask
<1>4. tasks'[t] = row
  BY <1>3 DEF TaskInv, RowsTyped
<1>5. RowsTyped' /\ OnlyOf(t)
  BY <1>1, <1>3, <1>4 DEF TaskInv, RowsTyped, OnlyOf
<1>6. RowsAgree(t)' /\ ImageAgrees(t)'
  BY <1>1, <1>3, <1>4 DEF RowsAgree, ImageAgrees, TaskEnded, Closed, AttemptState, IsImage
<1> QED
  BY <1>1, <1>3, <1>4, <1>5, <1>6, OutsideKeeps

LEMMA OverdueKeeps ==
  ASSUME TaskInv, NEW t \in Tasks, Overdue(t)
  PROVE  TaskInv'
<1>1. /\ attempt[t] \in AttemptRow /\ RowsAgree(t) /\ ~IsImage(t)
      /\ UNCHANGED <<tasks, bills, executors, sends>>
  BY TaskTyped DEF Overdue
<1>2. PICK a : a = [attempt[t] EXCEPT !.stale = TRUE]
  OBVIOUS
<1>3. /\ a \in AttemptRow /\ a.state = attempt[t].state /\ a.seen = attempt[t].seen
      /\ attempt' = [attempt EXCEPT ![t] = a]
  BY <1>1, <1>2 DEF AttemptRow, Overdue
<1>4. attempt'[t] = a
  BY <1>3 DEF TaskInv, RowsTyped
<1>5. RowsTyped' /\ OnlyOf(t)
  BY <1>1, <1>3 DEF TaskInv, RowsTyped, OnlyOf
<1>6. RowsAgree(t)' /\ ImageAgrees(t)'
  BY <1>1, <1>3, <1>4 DEF RowsAgree, ImageAgrees, TaskEnded, Closed, AttemptState, IsImage
<1> QED
  BY <1>1, <1>5, <1>6, OutsideKeeps

\* A claim takes a token nobody has.
LEMMA DeliverKeeps ==
  ASSUME TaskInv, NEW w \in Executors, NEW t \in Tasks, Deliver(w, t)
  PROVE  TaskInv'
<1>1. /\ Is(w, "rest") /\ UNCHANGED <<attempt, bills, sends>>
      /\ tasks[t] \in TaskRow /\ RowsAgree(t) /\ ImageAgrees(t)
      /\ executors \in [Executors -> WorkerRow]
  BY TaskTyped DEF Deliver, TaskInv
<1>2. CASE IsImage(t) /\ ~ClaimableImage(t)
  BY <1>1, <1>2, StrayKeeps DEF Deliver, TaskInv, taskRows
<1>3. CASE ~(IsImage(t) /\ ~ClaimableImage(t))
  <2>1. PICK token \in Nat : token = tasks[t].token + 1
    BY <1>1 DEF TaskRow
  <2>2. PICK e : e = [OffWork EXCEPT !.at = "look", !.task = t, !.token = token]
    OBVIOUS
  <2>3. /\ e \in WorkerRow /\ e.at = "look" /\ e.task = t /\ e.token = token
        /\ executors' = [executors EXCEPT ![w] = e]
    BY <1>3, <2>1, <2>2 DEF Deliver, OffWork, WorkerRow, Points, AttemptStates
  <2>4. PICK row : row = IF IsImage(t) THEN [tasks[t] EXCEPT !.status = "running", !.token = token, !.leased = TRUE]
                        ELSE tasks[t]
    OBVIOUS
  <2>5. /\ row \in TaskRow /\ row.kind = tasks[t].kind /\ row.code = tasks[t].code
        /\ IsImage(t) => row.token = token /\ row.status = "running"
        /\ ~IsImage(t) => row = tasks[t]
    BY <1>1, <2>4 DEF TaskRow
  <2>6. tasks' = [tasks EXCEPT ![t] = row]
    <3>1. CASE IsImage(t)
      BY <1>3, <2>1, <2>4, <3>1 DEF Deliver, SetTask
    <3>2. CASE ~IsImage(t)
      BY <1>3, <2>4, <3>2 DEF Deliver, TaskInv, RowsTyped
    <3> QED
      BY <3>1, <3>2
  <2>7. tasks'[t] = row /\ \A u \in Tasks \ {t} : tasks'[u] = tasks[u]
    BY <2>6 DEF TaskInv, RowsTyped
  <2>8. RowsTyped'
    BY <1>1, <2>5, <2>6 DEF TaskInv, RowsTyped
  <2>9. RowsAgree(t)' /\ ImageAgrees(t)'
    <3>1. CASE IsImage(t)
      <4>1. tasks[t].status \in {"pending", "running"}
        BY <1>3, <3>1 DEF ClaimableImage
      <4> QED
        BY <1>1, <2>5, <2>7, <4>1, <3>1 DEF RowsAgree, ImageAgrees, TaskEnded, Closed, AttemptState, IsImage
    <3>2. CASE ~IsImage(t)
      BY <1>1, <2>5, <2>7, <3>2 DEF RowsAgree, ImageAgrees, TaskEnded, Closed, AttemptState, IsImage
    <3> QED
      BY <3>1, <3>2
  <2>10. ASSUME NEW u \in Tasks PROVE RowsAgree(u)' /\ ImageAgrees(u)'
    <3>1. CASE u = t
      BY <2>9, <3>1
    <3>2. CASE u # t
      <4>1. tasks'[u] = tasks[u] /\ RowsAgree(u) /\ ImageAgrees(u)
        BY <2>7, <3>2 DEF TaskInv
      <4> QED
        BY <1>1, <4>1 DEF RowsAgree, ImageAgrees, TaskEnded, Closed, AttemptState, IsImage
    <3> QED
      BY <3>1, <3>2
  <2>11. /\ executors' \in [Executors -> WorkerRow] /\ executors'[w] = e
         /\ \A x \in Executors \ {w} : executors'[x] = executors[x]
    BY <1>1, <2>3
  <2>12. ASSUME NEW x \in Executors, x # w, executors[x].at # "rest", executors[x].task = t, IsImage(t)
         PROVE  executors[x].token # token
    <3>1. executors[x].token <= tasks[t].token /\ executors[x].token \in Nat /\ tasks[t].token \in Nat
      BY <1>1, <2>12 DEF TaskInv, WorkerIsSound, WorkerRow, TaskRow
    <3> QED
      BY <2>1, <3>1
  <2>13. ASSUME NEW x \in Executors PROVE WorkerIsSound(executors[x])'
    <3>1. CASE x = w
      <4>1. IsImage(t)' => e.token <= tasks'[t].token
        BY <2>1, <2>3, <2>5, <2>7 DEF IsImage
      <4>2. WorkerIsSound(e)'
        BY <2>3, <4>1 DEF WorkerIsSound
      <4> QED
        BY <2>11, <3>1, <4>2
    <3>2. CASE x # w
      <4>1. PICK f : f = executors[x]
        OBVIOUS
      <4>2. f \in WorkerRow /\ WorkerIsSound(f) /\ executors'[x] = f
        BY <2>11, <3>2, <4>1 DEF TaskInv
      <4>3. f.at # "rest" /\ f.task = t /\ IsImage(t) => ~HoldsLease(f)'
        BY <2>5, <2>7, <2>12, <3>2, <4>1 DEF HoldsLease
      <4>4. tasks'[t].token >= tasks[t].token /\ tasks'[t].kind = tasks[t].kind
        BY <1>1, <2>1, <2>5, <2>7 DEF TaskRow
      <4>5. WorkerIsSound(f)'
        BY <1>1, <2>7, <2>8, <4>2, <4>3, <4>4, OthersSound DEF TaskInv
      <4> QED
        BY <4>2, <4>5
    <3> QED
      BY <3>1, <3>2
  <2>14. TaskTokensDiffer'
    <3>1. \A u \in Tasks : IsImage(u)' <=> IsImage(u)
      BY <2>5, <2>7 DEF IsImage
    <3>2. \A x \in Executors : executors[x].at # "rest" => executors[x].task \in Tasks
      BY DEF TaskInv, WorkerIsSound
    <3> QED
      BY <2>3, <2>11, <2>12, <3>1, <3>2 DEF TaskInv, TaskTokensDiffer, Is, Of
  <2> QED
    BY <2>8, <2>10, <2>11, <2>13, <2>14 DEF TaskInv
<1> QED
  BY <1>2, <1>3

-----------------------------------------------------------------------------
(* The invariant, and what follows from it.                                *)

LEMMA TaskInvHoldsAtFirst == TaskInit => TaskInv
<1> SUFFICES ASSUME TaskInit PROVE TaskInv
  OBVIOUS
<1>1. ASSUME NEW t \in Tasks
      PROVE  /\ tasks[t] \in TaskRow /\ tasks[t].status = "none" /\ tasks[t].code = "none"
  <2>1. PICK k \in TaskKinds : tasks[t] = [NotAccepted EXCEPT !.kind = k]
    BY DEF TaskInit
  <2>2. tasks[t] = [kind |-> k, status |-> "none", code |-> "none", token |-> 0, leased |-> FALSE, answer |-> FALSE]
    BY <2>1 DEF NotAccepted
  <2>3. k \in {"image", "text"}
    BY TaskAssumption
  <2> QED
    BY <2>2, <2>3 DEF TaskRow
<1>2. RowsTyped
  BY <1>1 DEF TaskInit, RowsTyped, AttemptRow, AttemptStates, BillRow
<1>3. \A t \in Tasks : RowsAgree(t) /\ ImageAgrees(t)
  BY <1>1 DEF TaskInit, RowsAgree, ImageAgrees, TaskEnded, Closed, AttemptState
<1>4. \A w \in Executors : executors[w] = OffWork
  BY DEF TaskInit
<1>5. executors \in [Executors -> WorkerRow]
  BY OffWorkIsSound DEF TaskInit
<1>6. \A w \in Executors : WorkerIsSound(executors[w])
  BY <1>4, OffWorkIsSound
<1>7. TaskTokensDiffer
  BY <1>4, OffWorkIsSound DEF TaskTokensDiffer, Is
<1> QED
  BY <1>2, <1>3, <1>5, <1>6, <1>7 DEF TaskInv

LEMMA TaskInvInductive == TaskInv /\ [TaskNext]_taskVars => TaskInv'
<1> SUFFICES ASSUME TaskInv, [TaskNext]_taskVars PROVE TaskInv'
  OBVIOUS
<1>1. ASSUME NEW t \in Tasks, Accept(t) \/ TaskLeaseLapses(t) \/ Overdue(t) PROVE TaskInv'
  BY <1>1, AcceptKeeps, TaskLapseKeeps, OverdueKeeps
<1>2. ASSUME NEW t \in Tasks, WakeByRequest(t) \/ Reconcile(t) \/ UniqueLapses(t) \/ Redeliver(t)
      PROVE  TaskInv'
  BY <1>2, QueueKeeps
<1>3. ASSUME NEW w \in Executors, NEW t \in Tasks, Deliver(w, t) PROVE TaskInv'
  BY <1>3, DeliverKeeps
<1>4. ASSUME NEW w \in Executors, ExecutorStep(w) PROVE TaskInv'
  <2>1. CASE LeaveLostImage(w)
    <3>1. ~Is(w, "rest") /\ UNCHANGED <<taskRows, sends>> /\ Retry(w)
      BY <2>1 DEF LeaveLostImage
    <3> QED
      BY <3>1, EndsAtRest, RestKeeps
  <2> QED
    BY <1>4, <2>1, LookKeeps, MarkOutcomeUnknownKeeps, ReserveKeeps, MarkSentKeeps, GatewayKeeps,
       RecordKeeps, MarkTaskFailureKeeps, SaveCandidateKeeps, FinalizeKeeps DEF ExecutorStep
<1>5. ASSUME NEW w \in Executors, GatewayFails(w) PROVE TaskInv'
  BY <1>5, GatewayKeeps
<1>6. ASSUME NEW w \in Executors, ExecutorStops(w) PROVE TaskInv'
  <2>1. ~Is(w, "rest") /\ UNCHANGED <<taskRows, sends>> /\ Retry(w)
    BY <1>6 DEF ExecutorStops
  <2> QED
    BY <2>1, EndsAtRest, RestKeeps
<1>7. CASE UNCHANGED taskVars
  BY <1>7, StrayKeeps DEF taskVars, taskRows, TaskInv
<1> QED
  BY <1>1, <1>2, <1>3, <1>4, <1>5, <1>6, <1>7 DEF TaskNext

\* However often a task is woken, redelivered or resumed, and whichever of its
\* transactions fail, the provider gets one request at most, task, charge and
\* hold end together, an image is paid for exactly when it is published, and no
\* full result of an image is thrown away (Gateway, WithLockedSettlement,
\* RunFinalizer, TaskLease).
THEOREM TasksEndWhole == TaskSpec => []SettledWhole
<1>1. TaskInv => SettledWhole
  <2> SUFFICES ASSUME TaskInv PROVE SettledWhole
    OBVIOUS
  <2>1. \A t \in Tasks : /\ tasks[t] \in TaskRow /\ bills[t] \in BillRow /\ RowsAgree(t) /\ ImageAgrees(t)
    BY TaskTyped
  <2>2. ASSUME NEW t \in Tasks, bills[t].hold = "active" PROVE ChargeOpen(t)
    <3>1. bills[t].charge \notin {"none", "settled", "released", "unbilled"}
      BY <2>1, <2>2 DEF RowsAgree, Closed
    <3> QED
      BY <2>1, <3>1 DEF BillRow, ChargeOpen
  <2>3. ResultStands("image")
    BY <2>1 DEF ResultStands, ImageAgrees, IsImage
  <2> QED
    BY <2>1, <2>2, <2>3 DEF SettledWhole, RowsAgree, ImageAgrees, Closed
<1> QED
  BY <1>1, TaskInvHoldsAtFirst, TaskInvInductive, PTL DEF TaskSpec
=============================================================================
