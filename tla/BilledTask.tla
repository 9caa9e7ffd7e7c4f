----------------------------- MODULE BilledTask -----------------------------
(***************************************************************************)
(* Paid AI tasks outside the chat: an image or a text is accepted with its *)
(* run and its usage charge, woken over the queue, and executed by a worker *)
(* that reserves the money, sends one request to the provider, records the  *)
(* outcome and settles.  An image is executed under a lease of its row; a   *)
(* text has no lease, only the compare-and-sets of its rows.                *)
(***************************************************************************)
EXTENDS Naturals, FiniteSets

CONSTANTS Tasks,         \* ids of tasks, in the order of their acceptance
          Executors,     \* worker goroutines
          TaskKinds,     \* a subset of {"image", "text"}
          MaxTaskRetry,  \* MaxRetry of a message
          MaxTaskFaults  \* bound: lost answers, failed calls, stalls, deaths

ASSUME TaskAssumption == Tasks \subseteq Nat \ {0} /\ TaskKinds \subseteq {"image", "text"}

VARIABLES tasks,     \* ai_image_tasks, ai_text_tasks
          attempt,   \* ai_provider_attempts: a task makes one attempt
          bills,     \* ai_usage_charges and the hold; the run is running while the charge is open
          messages,  \* the message of a task on the queue and its unique lock
          executors, \* the executions under way
          sends,     \* requests a task was allowed to send
          taskFaults

taskVars == <<tasks, attempt, bills, messages, executors, sends, taskFaults>>
taskRows == <<tasks, attempt, bills>>

OffWork == [at |-> "rest", task |-> 0, token |-> 0, note |-> "none", stray |-> FALSE]
NoMessage == [at |-> "none", unique |-> FALSE, tries |-> 0]
NotAccepted == [kind |-> "text", status |-> "none", code |-> "none", token |-> 0, leased |-> FALSE, answer |-> FALSE]

TaskInit ==
  /\ tasks \in [Tasks -> {[NotAccepted EXCEPT !.kind = k] : k \in TaskKinds}]
  /\ attempt = [t \in Tasks |-> [state |-> "none", stale |-> FALSE, seen |-> FALSE, doomed |-> FALSE]]
  /\ bills = [t \in Tasks |-> [charge |-> "none", hold |-> "none"]]
  /\ messages = [t \in Tasks |-> NoMessage]
  /\ executors = [w \in Executors |-> OffWork]
  /\ sends = [t \in Tasks |-> 0] /\ taskFaults = 0

TaskFault == taskFaults < MaxTaskFaults /\ taskFaults' = taskFaults + 1
Is(w, p) == executors[w].at = p
Of(w) == executors[w].task
IsImage(t) == tasks[t].kind = "image"
TaskEnded(t) == tasks[t].status \in {"success", "failed"}
ChargeOpen(t) == bills[t].charge = "open"
AttemptState(t) == attempt[t].state
Delivered == {"good", "spoiled", "unmetered"}  \* succeeded; without a candidate; without complete usage
Terminal == Delivered \cup {"failed", "unsent", "unknown", "canceled"}

SetTask(t, row) == tasks' = [tasks EXCEPT ![t] = row]
SetState(t, s) == attempt' = [attempt EXCEPT ![t].state = s]
Proceed(w, p, note) == executors' = [executors EXCEPT ![w].at = p, ![w].note = note]

(***************************************************************************)
(* Requests and the queue.                                                 *)
(***************************************************************************)
Accept(t) ==
  /\ tasks[t].status = "none"
  /\ \A u \in Tasks : u < t => tasks[u].status # "none"
  /\ SetTask(t, [tasks[t] EXCEPT !.status = IF IsImage(t) THEN "pending" ELSE "running"])
  /\ bills' = [bills EXCEPT ![t].charge = "open"]
  /\ UNCHANGED <<attempt, messages, executors, sends, taskFaults>>

\* A duplicate counts as woken.  A message whose lock ran out while it was
\* handled gets a second one beside it.
Wake(t) ==
  IF messages[t].unique THEN UNCHANGED <<messages, executors>>
  ELSE /\ messages' = [messages EXCEPT ![t] = [at |-> "waiting", unique |-> TRUE, tries |-> 0]]
       /\ executors' = [w \in Executors |-> IF Of(w) = t THEN [executors[w] EXCEPT !.stray = TRUE] ELSE executors[w]]

\* The request that submits the task, or one that repeats it.
WakeByRequest(t) ==
  /\ tasks[t].status # "none" /\ (IsImage(t) \/ ~TaskEnded(t))
  /\ Wake(t) /\ UNCHANGED <<taskRows, sends, taskFaults>>

\* Fault: a task that was claimed, or sent, is left to its worker.
PendingTaskUndispatched(t) ==
  ChargeOpen(t) /\ IF IsImage(t) THEN tasks[t].status = "pending" ELSE tasks[t].status = "running" /\ AttemptState(t) # "dispatched"

PendingTask(t) ==
  /\ ChargeOpen(t)
  /\ IF IsImage(t) THEN tasks[t].status = "pending" \/ (tasks[t].status = "running" /\ ~tasks[t].leased)
     ELSE tasks[t].status = "running" /\ (AttemptState(t) = "dispatched" => attempt[t].stale)

\* One pass wakes the oldest pending task of its kind, and no other.
Reconcile(t) ==
  /\ PendingTask(t)
  /\ \A u \in Tasks : u < t /\ tasks[u].kind = tasks[t].kind => ~PendingTask(u)
  /\ Wake(t) /\ UNCHANGED <<taskRows, sends, taskFaults>>

\* The TTL of the lock is that of one handler and starts when the message is
\* written: it covers neither a long queue nor the retries.
UniqueLapses(t) ==
  /\ messages[t].unique
  /\ messages' = [messages EXCEPT ![t].unique = FALSE]
  /\ IF messages[t].at = "archived" THEN UNCHANGED taskFaults ELSE TaskFault
  /\ UNCHANGED <<taskRows, executors, sends>>

\* The message of a worker that stalls is delivered again while it works.
Redeliver(t) ==
  /\ messages[t].at = "active" /\ TaskFault
  /\ messages' = [messages EXCEPT ![t].at = "waiting"]
  /\ executors' = [w \in Executors |-> IF Of(w) = t THEN [executors[w] EXCEPT !.stray = TRUE] ELSE executors[w]]
  /\ UNCHANGED <<taskRows, sends>>

\* The end of a stray execution reaches the message that replaced its own only
\* if that is the same message.
EndMessage(w, message) ==
  LET t == Of(w)
  IN \/ messages[t].at = "active" /\ messages' = [messages EXCEPT ![t] = message]
     \/ (messages[t].at # "active" \/ executors[w].stray) /\ UNCHANGED messages

Done(w) == EndMessage(w, NoMessage) /\ executors' = [executors EXCEPT ![w] = OffWork]

Retry(w) ==
  LET m == messages[Of(w)]
  IN /\ EndMessage(w, IF m.tries < MaxTaskRetry THEN [m EXCEPT !.at = "waiting", !.tries = @ + 1]
                   ELSE [m EXCEPT !.at = "archived"])
     /\ executors' = [executors EXCEPT ![w] = OffWork]

(***************************************************************************)
(* Execution (ExecuteGenerate, ExecuteImageTask, ExecuteTextTask).         *)
(***************************************************************************)
Leasing(w) ==
  LET row == tasks[Of(w)]
  IN row.kind = "image" => row.status = "running" /\ row.leased /\ row.token = executors[w].token

ClaimableImage(t) == tasks[t].status = "pending" \/ (tasks[t].status = "running" /\ ~tasks[t].leased)

\* An image nobody may claim is done with.
Deliver(w, t) ==
  /\ Is(w, "rest") /\ messages[t].at = "waiting"
  /\ IF IsImage(t) /\ ~ClaimableImage(t)
     THEN /\ messages' = [messages EXCEPT ![t] = NoMessage] /\ UNCHANGED <<tasks, executors>>
     ELSE LET token == tasks[t].token + 1
          IN /\ messages' = [messages EXCEPT ![t].at = "active"]
             /\ executors' = [executors EXCEPT ![w] = [OffWork EXCEPT !.at = "look", !.task = t, !.token = token]]
             /\ IF IsImage(t) THEN SetTask(t, [tasks[t] EXCEPT !.status = "running", !.token = token, !.leased = TRUE])
                ELSE UNCHANGED tasks
  /\ UNCHANGED <<attempt, bills, sends, taskFaults>>

TaskLeaseLapses(t) ==
  /\ tasks[t].leased
  /\ IF \E w \in Executors : Of(w) = t /\ Leasing(w) THEN TaskFault ELSE UNCHANGED taskFaults
  /\ SetTask(t, [tasks[t] EXCEPT !.leased = FALSE])
  /\ UNCHANGED <<attempt, bills, messages, executors, sends>>

\* dispatched_at is 15 minutes old: a handler that still waits has overrun its time.
Overdue(t) ==
  /\ ~IsImage(t) /\ AttemptState(t) = "dispatched" /\ ~attempt[t].stale
  /\ IF \E w \in Executors : Of(w) = t /\ executors[w].at \in {"call", "record"} THEN TaskFault ELSE UNCHANGED taskFaults
  /\ attempt' = [attempt EXCEPT ![t].stale = TRUE]
  /\ UNCHANGED <<tasks, bills, messages, executors, sends>>

\* Without a terminal attempt the request is assembled; its snapshot, price or
\* provider may be refused.
Look(w) ==
  LET t == Of(w)
      s == AttemptState(t)
  IN /\ Is(w, "look")
     /\ CASE TaskEnded(t) -> Done(w)
          [] ~TaskEnded(t) /\ s \in Terminal ->
               Proceed(w, IF IsImage(t) \/ s \notin Delivered THEN "settle" ELSE IF s = "spoiled" THEN "fail" ELSE "save", "none")
               /\ UNCHANGED messages
          [] ~TaskEnded(t) /\ s = "dispatched" ->
               IF IsImage(t) \/ attempt[t].stale THEN Proceed(w, "doubt", "none") /\ UNCHANGED messages ELSE Retry(w)
          [] ~TaskEnded(t) /\ s = "none" /\ tasks[t].code # "none" -> Proceed(w, "settle", "none") /\ UNCHANGED messages
          [] OTHER -> (Proceed(w, "reserve", s) \/ Proceed(w, "fail", "none")) /\ UNCHANGED messages
     /\ UNCHANGED <<taskRows, sends, taskFaults>>

\* MarkImageOutcomeUnknown, markTextOutcomeUnknown
MarkOutcomeUnknown(w) ==
  LET t == Of(w)
      stands == AttemptState(t) = "dispatched" /\ Leasing(w)
  IN /\ Is(w, "doubt")
     /\ IF stands THEN SetState(t, "unknown") ELSE UNCHANGED attempt
     /\ IF stands \/ ~IsImage(t) THEN Proceed(w, "settle", "none") /\ UNCHANGED messages ELSE Retry(w)
     /\ UNCHANGED <<tasks, bills, sends, taskFaults>>

(***************************************************************************)
(* The attempt (ReserveAndPrepare, MarkDispatched, Dispatch, RecordOutcome).*)
(***************************************************************************)
Poor(w) ==
  LET t == Of(w)
  IN /\ bills[t].hold = "none"
     /\ IF Leasing(w) THEN SetTask(t, [tasks[t] EXCEPT !.code = "insufficient"]) /\ Proceed(w, "settle", "none") /\ UNCHANGED messages
        ELSE Retry(w) /\ UNCHANGED tasks
     /\ UNCHANGED <<attempt, bills>>

Reserved(t) == bills' = [bills EXCEPT ![t].hold = "active"]

\* A worker that read no attempt inserts it and takes one that is prepared for
\* its own; the attempt number is unique.  A worker that read a prepared attempt
\* takes it up.  Anything else is an error of the transaction.
Reserve(w) ==
  LET t == Of(w)
      s == AttemptState(t)
      inserts == s = "none" /\ executors[w].note = "none"
      known == s = "prepared" \/ inserts
  IN /\ Is(w, "reserve")
     /\ CASE ~ChargeOpen(t) \/ ~known -> Proceed(w, "judge", "none") /\ UNCHANGED <<taskRows, messages>>
          [] ChargeOpen(t) /\ known /\ ~inserts ->
               \/ Poor(w)
               \/ Reserved(t) /\ Proceed(w, "send", "none") /\ UNCHANGED <<tasks, attempt, messages>>
          [] OTHER ->
               \/ Poor(w)
               \/ IF Leasing(w) THEN Reserved(t) /\ SetState(t, "prepared") /\ Proceed(w, "send", "none") /\ UNCHANGED <<tasks, messages>>
                  ELSE Retry(w) /\ UNCHANGED taskRows
     /\ UNCHANGED <<sends, taskFaults>>

\* Another worker owns the attempt: the handler returns its error.  A prepared
\* attempt is sent even behind a failure that was recorded before.
MarkSent(w) ==
  LET t == Of(w)
  IN /\ Is(w, "send")
     /\ CASE ~ChargeOpen(t) -> Proceed(w, "judge", "none") /\ UNCHANGED <<attempt, messages, sends>>
          [] ChargeOpen(t) /\ (AttemptState(t) # "prepared" \/ ~Leasing(w)) -> Retry(w) /\ UNCHANGED <<attempt, sends>>
          [] OTHER -> /\ attempt' = [attempt EXCEPT ![t].state = "dispatched", ![t].doomed = tasks[t].code # "none"]
                      /\ sends' = [sends EXCEPT ![t] = @ + 1]
                      /\ Proceed(w, "call", "none") /\ UNCHANGED messages
     /\ UNCHANGED <<tasks, bills, taskFaults>>

\* The proof of the upper bound or the preflight refuses the request.
SendRefused(w) ==
  /\ Is(w, "send") /\ Proceed(w, "judge", "none")
  /\ UNCHANGED <<taskRows, messages, sends, taskFaults>>

Outcomes(t) == {"good", "unmetered", "failed", "unsent", "unknown"} \cup (IF IsImage(t) THEN {} ELSE {"spoiled"})

Answer(w) ==
  /\ Is(w, "call") /\ \E o \in Outcomes(Of(w)) : Proceed(w, "record", o)
  /\ UNCHANGED <<taskRows, messages, sends, taskFaults>>

\* What follows a recorded outcome
After(t, o) == IF o \notin Delivered THEN "judge" ELSE IF IsImage(t) THEN "settle" ELSE IF o = "spoiled" THEN "fail" ELSE "save"

\* The answer to the commit may be lost.  A different outcome of the attempt
\* belongs to another worker.
Record(w) ==
  LET t == Of(w)
      o == executors[w].note
      s == AttemptState(t)
  IN /\ Is(w, "record")
     /\ CASE ~ChargeOpen(t) -> Proceed(w, "judge", "none") /\ UNCHANGED <<attempt, messages, taskFaults>>
          [] ChargeOpen(t) /\ s = "dispatched" /\ Leasing(w) ->
               \/ /\ attempt' = [attempt EXCEPT ![t].state = o, ![t].seen = TRUE]
                  /\ Proceed(w, After(t, o), "none") /\ UNCHANGED <<messages, taskFaults>>
               \/ SetState(t, o) /\ Proceed(w, "judge", "none") /\ UNCHANGED messages /\ TaskFault
          [] ChargeOpen(t) /\ s = o -> Proceed(w, After(t, o), "none") /\ UNCHANGED <<attempt, messages, taskFaults>>
          [] OTHER -> Retry(w) /\ UNCHANGED <<attempt, taskFaults>>
     /\ UNCHANGED <<tasks, bills, sends>>

\* The transaction of a step fails, or commits and its answer is lost.
GatewayFails(w) ==
  /\ executors[w].at \in {"reserve", "send", "call", "record"} /\ TaskFault
  /\ Proceed(w, "judge", "none") /\ UNCHANGED <<taskRows, messages, sends>>

\* hasPersistedTextTerminalAttempt, hasPersistedImageTerminalAttempt: a query
\* that fails counts as no.
Judge(w) ==
  /\ Is(w, "judge")
  /\ \/ AttemptState(Of(w)) \in Terminal /\ Proceed(w, "settle", "none") /\ UNCHANGED taskFaults
     \/ AttemptState(Of(w)) \notin Terminal /\ Proceed(w, "fail", "none") /\ UNCHANGED taskFaults
     \/ TaskFault /\ Proceed(w, "fail", "none")
  /\ UNCHANGED <<taskRows, messages, sends>>

\* Fault: the failure of an image is marked without its lease.
MayFailUnfenced(w) == executors[w].at = "fail"

\* MarkImageFailure under the lease, MarkExecutionFailure of a running text
MayFail(w) == Leasing(w)

MarkTaskFailure(w) ==
  LET t == Of(w)
  IN /\ Is(w, "fail")
     /\ IF ~MayFail(w) THEN Retry(w) /\ UNCHANGED tasks
        ELSE /\ IF TaskEnded(t) THEN UNCHANGED tasks ELSE SetTask(t, [tasks[t] EXCEPT !.code = "error"])
             /\ Proceed(w, "settle", "none") /\ UNCHANGED messages
     /\ UNCHANGED <<attempt, bills, sends, taskFaults>>

Savable(t) == tasks[t].status = "running" \/ tasks[t].answer

SaveCandidate(w) ==
  LET t == Of(w)
  IN /\ Is(w, "save")
     /\ IF Savable(t) THEN SetTask(t, [tasks[t] EXCEPT !.answer = TRUE]) /\ Proceed(w, "settle", "none") /\ UNCHANGED messages
        ELSE Retry(w) /\ UNCHANGED tasks
     /\ UNCHANGED <<attempt, bills, sends, taskFaults>>

(***************************************************************************)
(* Settlement (WithLockedSettlement, RunFinalizer.decide).                 *)
(***************************************************************************)
\* A prepared attempt behind a failure is canceled.
Normal(t) == IF AttemptState(t) = "prepared" /\ tasks[t].code # "none" THEN "canceled" ELSE AttemptState(t)

Paid(status) == {[charge |-> "settled", status |-> status]}
Free(charge) == {[charge |-> charge, status |-> "failed"]}
Undecided == {}

\* deriveImageFinalizationTrigger, deriveTextFinalizationTrigger and decide; an
\* empty set leaves the run open.
Decided(t) ==
  LET s == Normal(t)
      code == tasks[t].code
  IN CASE s \in {"prepared", "dispatched"} -> Undecided
       [] s = "none" -> IF code = "none" THEN Undecided ELSE Free("released")
       [] s = "unmetered" -> IF code = "error" THEN Free("released") ELSE Free("unbilled")
       [] s \in {"good", "spoiled"} /\ code = "insufficient" -> Paid("failed")
       [] s = "good" /\ code = "none" -> IF IsImage(t) \/ tasks[t].answer THEN Paid("success") ELSE Undecided
       [] s = "spoiled" /\ code = "none" -> Undecided
       [] OTHER -> Free("released")

Captured(hold, charge) == IF hold = "none" THEN "none" ELSE IF charge = "settled" THEN "captured" ELSE "released"

\* A terminal run is replayed when its rows agree.
Replays(t) == ~IsImage(t) /\ ~ChargeOpen(t) /\ (bills[t].charge = "settled" <=> tasks[t].status = "success")

FinalizeTask(w) ==
  LET t == Of(w)
  IN /\ Is(w, "settle")
     /\ CASE Replays(t) -> Done(w) /\ UNCHANGED taskRows
          [] ChargeOpen(t) /\ Leasing(w) /\ Decided(t) # Undecided ->
               \E d \in Decided(t) :
                 /\ SetTask(t, [tasks[t] EXCEPT !.status = d.status, !.leased = FALSE, !.answer = d.status = "success" /\ ~IsImage(t),
                                                !.code = IF d.status = "success" THEN "none" ELSE IF @ = "none" THEN "error" ELSE @])
                 /\ SetState(t, Normal(t))
                 /\ bills' = [bills EXCEPT ![t] = [charge |-> d.charge, hold |-> Captured(@.hold, d.charge)]]
                 /\ Done(w)
          [] OTHER -> Retry(w) /\ UNCHANGED taskRows
     /\ UNCHANGED <<sends, taskFaults>>

(***************************************************************************)
(* What ends an execution.                                                 *)
(***************************************************************************)
\* Renewal finds the lease lost and cancels the execution.
LeaveLostImage(w) ==
  /\ ~Is(w, "rest") /\ ~Leasing(w) /\ Retry(w)
  /\ UNCHANGED <<taskRows, sends, taskFaults>>

\* The worker dies, times out, or a call outside the gateway fails.
ExecutorStops(w) ==
  /\ ~Is(w, "rest") /\ TaskFault /\ Retry(w)
  /\ UNCHANGED <<taskRows, sends>>

ExecutorStep(w) ==
  \/ Look(w) \/ MarkOutcomeUnknown(w) \/ Reserve(w) \/ MarkSent(w) \/ SendRefused(w) \/ Answer(w)
  \/ Record(w) \/ Judge(w) \/ MarkTaskFailure(w) \/ SaveCandidate(w) \/ FinalizeTask(w) \/ LeaveLostImage(w)

TaskNext ==
  \/ \E t \in Tasks : \/ Accept(t) \/ WakeByRequest(t) \/ Reconcile(t) \/ UniqueLapses(t) \/ Redeliver(t)
                      \/ TaskLeaseLapses(t) \/ Overdue(t)
  \/ \E w \in Executors : \/ \E t \in Tasks : Deliver(w, t)
                          \/ ExecutorStep(w) \/ GatewayFails(w) \/ ExecutorStops(w)

\* Both reconcilers run on a schedule, workers take what waits and go on, and
\* clocks pass what nobody renews.
TaskFairness ==
  /\ \A t \in Tasks : /\ WF_taskVars(Reconcile(t))
                      /\ WF_taskVars(\E w \in Executors : Deliver(w, t))
                      /\ WF_taskVars(UniqueLapses(t) /\ UNCHANGED taskFaults)
                      /\ WF_taskVars(TaskLeaseLapses(t) /\ UNCHANGED taskFaults)
                      /\ WF_taskVars(Overdue(t) /\ UNCHANGED taskFaults)
  /\ \A w \in Executors : WF_taskVars(ExecutorStep(w))

TaskSpec == TaskInit /\ [][TaskNext]_taskVars

FairTaskSpec == TaskSpec /\ TaskFairness

(***************************************************************************)
(* Correctness.                                                            *)
(***************************************************************************)
\* A result the provider delivered in full, and whose record its worker saw
\* committed, is not thrown away as a failure, unless the task had failed
\* before the request was sent.
ResultStands(kind) ==
  \A t \in Tasks :
    tasks[t].kind = kind /\ attempt[t].seen /\ ~attempt[t].doomed /\ AttemptState(t) = "good" => tasks[t].status # "failed"

\* However often a task is woken, redelivered or resumed, the provider gets at
\* most one request for it (Gateway.MarkDispatched), and task, charge and hold
\* end together: no ended task keeps money held, none pays without a delivered
\* answer, and an image is paid for exactly when it is published
\* (WithLockedSettlement).  The lease keeps every other worker of an image out
\* (TaskLease), so that no result of an image is thrown away.
SettledWhole ==
  /\ \A t \in Tasks :
       /\ sends[t] <= 1
       /\ TaskEnded(t) <=> bills[t].charge \in {"settled", "released", "unbilled"}
       /\ bills[t].hold = "active" => ChargeOpen(t)
       /\ bills[t].charge = "settled" <=> bills[t].hold = "captured"
       /\ tasks[t].status = "success" => bills[t].charge = "settled" /\ AttemptState(t) = "good"
       /\ bills[t].charge = "settled" => AttemptState(t) \in {"good", "spoiled"}
       /\ IsImage(t) => (tasks[t].status = "success" <=> bills[t].charge = "settled")
  /\ ResultStands("image")

\* Every accepted task ends (the reconcilers of images and texts).
TasksEnd == \A t \in Tasks : tasks[t].status # "none" ~> TaskEnded(t)
=============================================================================
