------------------------------- MODULE Notice -------------------------------
(***************************************************************************)
(* Notification tasks: an administrator writes one, the queue or the       *)
(* every-minute dispatcher hands it to a worker, and the worker inserts    *)
(* one notification per user, batch by batch, under a claim it renews.     *)
(* The claim fences the task's row but not the batches: a worker whose     *)
(* claim lapsed may still insert beside its successor.                     *)
(***************************************************************************)
EXTENDS Naturals, FiniteSets

CONSTANTS Notices,        \* ids of notification tasks
          Audience,       \* the users a task addresses; a batch is one of them
          Couriers,       \* worker goroutines that handle a message
          MaxNoticeFaults \* bound: calls that fail, stalled renewals, workers that die

ASSUME AudienceAssumption == IsFiniteSet(Audience)

VARIABLES notice,    \* notification_task
          delivered, \* per task and user, the notification rows with their durable event
          mail,      \* tasks with a message on the queue
          courier,   \* SendTask under way
          canceller, \* tasks an administrator has read as pending, to cancel them
          noticeFaults

noticeVars == <<notice, delivered, mail, courier, canceller, noticeFaults>>

OffRound == [at |-> "rest", task |-> "none", token |-> 0, todo |-> {}, sent |-> 0, lost |-> FALSE]
Unwritten == [status |-> "none", gone |-> "no", due |-> FALSE, token |-> 0,
              held |-> FALSE, sent |-> 0, total |-> 0]

NoticeInit ==
  /\ notice = [n \in Notices |-> Unwritten]
  /\ delivered = [n \in Notices |-> [u \in Audience |-> 0]]
  /\ mail = {} /\ canceller = {} /\ noticeFaults = 0
  /\ courier = [w \in Couriers |-> OffRound]

NoticeFault == noticeFaults < MaxNoticeFaults /\ noticeFaults' = noticeFaults + 1
SetNotice(n, row) == notice' = [notice EXCEPT ![n] = row]
SetCourier(w, c) == courier' = [courier EXCEPT ![w] = c]
Ended == {"success", "failed"}

(***************************************************************************)
(* The administrator.                                                      *)
(***************************************************************************)
\* A task for now is put on the queue; one for later waits for the dispatcher,
\* and so does one whose enqueue fails.
CreateNotice(n) ==
  /\ notice[n] = Unwritten
  /\ \E now, queued \in BOOLEAN :
       /\ SetNotice(n, [Unwritten EXCEPT !.status = "pending", !.due = now, !.total = Cardinality(Audience)])
       /\ mail' = IF now /\ queued THEN mail \cup {n} ELSE mail
       /\ IF now /\ ~queued THEN NoticeFault ELSE UNCHANGED noticeFaults
  /\ UNCHANGED <<delivered, courier, canceller>>

ReadToCancel(n) ==
  /\ notice[n].status = "pending" /\ notice[n].gone = "no" /\ n \notin canceller
  /\ canceller' = canceller \cup {n}
  /\ UNCHANGED <<notice, delivered, mail, courier, noticeFaults>>

Cancellable(n) == notice[n].status = "pending" /\ notice[n].gone = "no"

CancelPending(n) ==
  /\ n \in canceller /\ canceller' = canceller \ {n}
  /\ IF Cancellable(n) THEN SetNotice(n, [notice[n] EXCEPT !.gone = "cancelled"]) ELSE UNCHANGED notice
  /\ UNCHANGED <<delivered, mail, courier, noticeFaults>>

\* A task may be deleted in every status, a sending one included.
DeleteNotice(n) ==
  /\ notice[n].status # "none" /\ notice[n].gone = "no"
  /\ SetNotice(n, [notice[n] EXCEPT !.gone = "deleted"])
  /\ UNCHANGED <<delivered, mail, courier, canceller, noticeFaults>>

(***************************************************************************)
(* The dispatcher.                                                         *)
(***************************************************************************)
SendAtPasses(n) ==
  /\ notice[n].status # "none" /\ ~notice[n].due
  /\ SetNotice(n, [notice[n] EXCEPT !.due = TRUE])
  /\ UNCHANGED <<delivered, mail, courier, canceller, noticeFaults>>

\* Fault: the dispatcher forgets the tasks of workers that died.
DueTaskPending(n) == notice[n].gone = "no" /\ notice[n].status = "pending" /\ notice[n].due

DueTask(n) ==
  /\ notice[n].gone = "no"
  /\ \/ notice[n].status = "pending" /\ notice[n].due
     \/ notice[n].status = "sending" /\ ~notice[n].held

\* The pass stops at the first task the queue refuses: those before it are queued.
DispatchDue ==
  /\ \E ids \in SUBSET {n \in Notices : DueTask(n)} :
       /\ mail' = mail \cup ids
       /\ IF \E n \in Notices \ ids : DueTask(n) THEN NoticeFault ELSE UNCHANGED noticeFaults
  /\ UNCHANGED <<notice, delivered, courier, canceller>>

(***************************************************************************)
(* A worker takes a message, which the queue may deliver again.            *)
(***************************************************************************)
ClaimNotice(w, n) ==
  /\ courier[w].at = "rest" /\ n \in mail
  /\ \E again \in BOOLEAN : /\ mail' = IF again THEN mail ELSE mail \ {n}
                            /\ IF again THEN NoticeFault ELSE UNCHANGED noticeFaults
  /\ IF DueTask(n)
     THEN LET token == notice[n].token + 1
          IN /\ SetNotice(n, [notice[n] EXCEPT !.status = "sending", !.token = token, !.held = TRUE])
             /\ SetCourier(w, [OffRound EXCEPT !.at = "claimed", !.task = n, !.token = token])
     ELSE UNCHANGED <<notice, courier>>
  /\ UNCHANGED <<delivered, canceller>>

\* Fault: the updates of a claim name the task only.
FencedByTask(w) == notice[courier[w].task].gone = "no"

\* The condition of every update a claim makes: its token, unexpired, sending.
Fenced(w) ==
  LET row == notice[courier[w].task]
  IN row.status = "sending" /\ row.gone = "no" /\ row.token = courier[w].token /\ row.held

\* The renewal finds the claim gone, or its call fails: the context is cancelled.
RenewalEnds(w) ==
  /\ courier[w].at # "rest" /\ ~courier[w].lost
  /\ IF Fenced(w) THEN NoticeFault ELSE UNCHANGED noticeFaults
  /\ SetCourier(w, [courier[w] EXCEPT !.lost = TRUE])
  /\ UNCHANGED <<notice, delivered, mail, canceller>>

\* The claim of a dead worker lapses in time, that of a living one by a stall.
ClaimLapses(n) ==
  /\ notice[n].held
  /\ IF \E w \in Couriers : courier[w].task = n /\ courier[w].token = notice[n].token
     THEN NoticeFault ELSE UNCHANGED noticeFaults
  /\ SetNotice(n, [notice[n] EXCEPT !.held = FALSE])
  /\ UNCHANGED <<delivered, mail, courier, canceller>>

\* The handler returns an error without touching the row, and the queue retries.
GiveUp(w) ==
  /\ SetCourier(w, OffRound)
  /\ mail' = mail \cup {courier[w].task}

TargetUserIDs(w) ==
  /\ courier[w].at = "claimed" /\ ~courier[w].lost
  /\ SetCourier(w, [courier[w] EXCEPT !.at = "batch", !.todo = Audience])
  /\ UNCHANGED <<notice, delivered, mail, canceller, noticeFaults>>

\* Fault: a plain INSERT.
InsertedAgain(n, u) == delivered[n][u] + 1

\* ON CONFLICT (source_task_id, user_id) DO NOTHING, and no event either.
Inserted(n, u) == IF delivered[n][u] = 0 THEN 1 ELSE delivered[n][u]

InsertNotifications(w) ==
  LET n == courier[w].task
  IN /\ courier[w].at = "batch" /\ courier[w].todo # {} /\ ~courier[w].lost
     /\ \E u \in courier[w].todo :
          /\ delivered' = [delivered EXCEPT ![n][u] = Inserted(n, u)]
          /\ \/ /\ SetCourier(w, [courier[w] EXCEPT !.at = "progress", !.todo = @ \ {u}, !.sent = @ + 1])
                /\ UNCHANGED noticeFaults
             \/ /\ SetCourier(w, [courier[w] EXCEPT !.at = "error"])  \* the commit's answer is lost
                /\ NoticeFault
     /\ UNCHANGED <<notice, mail, canceller>>

\* Listing the users, inserting a batch or writing the progress fails.
WorkFails(w) ==
  /\ courier[w].at \in {"claimed", "batch", "progress"} /\ ~courier[w].lost /\ NoticeFault
  /\ SetCourier(w, [courier[w] EXCEPT !.at = "error"])
  /\ UNCHANGED <<notice, delivered, mail, canceller>>

UpdateProgress(w) ==
  /\ courier[w].at = "progress" /\ ~courier[w].lost
  /\ IF Fenced(w)
     THEN /\ SetNotice(courier[w].task, [notice[courier[w].task] EXCEPT !.sent = courier[w].sent, !.total = Cardinality(Audience)])
          /\ SetCourier(w, [courier[w] EXCEPT !.at = "batch"])
          /\ UNCHANGED mail
     ELSE GiveUp(w) /\ UNCHANGED notice
  /\ UNCHANGED <<delivered, canceller, noticeFaults>>

EndClaim(w, status) ==
  LET n == courier[w].task
  IN IF Fenced(w) THEN SetNotice(n, [notice[n] EXCEPT !.status = status, !.held = FALSE,
                                        !.sent = IF status = "success" THEN courier[w].sent ELSE @])
                  ELSE UNCHANGED notice

\* Success ends the message; a mark that found no row is an error and a retry.
MarkSuccess(w) ==
  /\ courier[w].at = "batch" /\ courier[w].todo = {} /\ ~courier[w].lost
  /\ EndClaim(w, "success")
  /\ IF Fenced(w) THEN SetCourier(w, OffRound) /\ UNCHANGED mail ELSE GiveUp(w)
  /\ UNCHANGED <<delivered, canceller, noticeFaults>>

\* After a failure of the work itself the task is failed for good, whatever
\* part of the audience has its notification; the retry then finds no claim.
MarkFailed(w) ==
  /\ courier[w].at = "error" /\ ~courier[w].lost
  /\ EndClaim(w, "failed")
  /\ GiveUp(w)
  /\ UNCHANGED <<delivered, canceller, noticeFaults>>

\* A lost claim ends the delivery at its next step, unmarked.
LeaveLost(w) ==
  /\ courier[w].at # "rest" /\ courier[w].lost
  /\ GiveUp(w)
  /\ UNCHANGED <<notice, delivered, canceller, noticeFaults>>

\* The worker dies, its task times out, or the answer of its mark is lost.
CourierStops(w) ==
  /\ courier[w].at # "rest" /\ NoticeFault
  /\ GiveUp(w)
  /\ UNCHANGED <<notice, delivered, canceller>>

CourierStep(w) ==
  \/ TargetUserIDs(w) \/ InsertNotifications(w) \/ UpdateProgress(w)
  \/ MarkSuccess(w) \/ MarkFailed(w) \/ LeaveLost(w)

NoticeNext ==
  \/ \E n \in Notices : \/ CreateNotice(n) \/ ReadToCancel(n) \/ CancelPending(n) \/ DeleteNotice(n)
                        \/ SendAtPasses(n) \/ ClaimLapses(n)
  \/ DispatchDue
  \/ \E w \in Couriers : \/ \E n \in Notices : ClaimNotice(w, n)
                         \/ CourierStep(w) \/ RenewalEnds(w) \/ WorkFails(w) \/ CourierStops(w)

\* The dispatcher runs every minute and hands over all that is due unless the
\* queue refuses; time passes; the queue delivers; a living worker goes on.
NoticeFairness ==
  /\ \A n \in Notices : /\ WF_noticeVars(SendAtPasses(n))
                        /\ WF_noticeVars(DispatchDue /\ (DueTask(n) => n \in mail'))
                        /\ WF_noticeVars(\E w \in Couriers : ClaimNotice(w, n))
                        /\ WF_noticeVars(ClaimLapses(n) /\ UNCHANGED noticeFaults)
  /\ \A w \in Couriers : WF_noticeVars(CourierStep(w))

NoticeSpec == NoticeInit /\ [][NoticeNext]_noticeVars

(***************************************************************************)
(* Correctness.                                                            *)
(***************************************************************************)
\* However many workers deliver one task, each user gets one notification and
\* one durable event of it, and a task that reports success reached everyone
\* it counted (InsertNotifications, MarkSuccess).  A cancellation that was
\* accepted has stopped the task: nobody gets it, not even from a message that
\* was on the queue (Cancel, CancelPending, claim).
NotifiedOnce ==
  \A n \in Notices :
    /\ \A u \in Audience : delivered[n][u] <= 1
    /\ notice[n].status = "success" =>
         /\ \A u \in Audience : delivered[n][u] = 1
         /\ notice[n].sent = Cardinality(Audience) /\ notice[n].total = notice[n].sent
    /\ notice[n].gone = "cancelled" => \A u \in Audience : delivered[n][u] = 0

\* The outcome an administrator reads stands: no worker that lost its claim,
\* is late or is retried turns a success into a failure, or reopens either.
NoticeOutcomeStands ==
  [][\A n \in Notices : notice[n].status \in Ended => notice'[n].status = notice[n].status
                                                       /\ notice'[n].sent = notice[n].sent]_notice

\* Every task that is not withdrawn ends, whatever message, worker or claim
\* was lost on the way (DispatchDue, ClaimByID).
NoticesEnd ==
  \A n \in Notices :
    notice[n].status # "none" ~> notice[n].status \in Ended \/ notice[n].gone # "no"

=============================================================================
