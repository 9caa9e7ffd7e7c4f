------------------------------- MODULE Reply -------------------------------
(***************************************************************************)
(* The life of a paid AI chat reply (internal/module/ai/replycommand,      *)
(* internal/module/ai/chat, internal/runtime/ai_billing_gateway.go and     *)
(* ai_billing_finalizer.go): a command row leased by workers, the provider *)
(* attempts made for it, the charge and wallet hold behind it, the         *)
(* assistant message it publishes, and the reconciler that sweeps up.      *)
(*                                                                         *)
(* One step is one database transaction or one answer of the provider.     *)
(* The (lease_owner, lease_token) pair of a claim is modelled by the       *)
(* worker that made it: a worker runs one claim at a time, so holder = w   *)
(* says exactly that the pair a busy worker w carries is still current.    *)
(***************************************************************************)
EXTENDS Naturals, Sequences, FiniteSets

CONSTANTS Commands,     \* reply commands, each with a run, a charge and a conversation
          Workers,      \* goroutines of the reply runner
          None,         \* no worker
          MaxAttempts,  \* max_attempts of a command
          Environments  \* the environments to consider, see Environment

AllEvents == {"cancel", "delete", "crash", "lapse", "database", "local", "reject", "silence",
              "tools", "overflow", "poor", "partial", "stream"}

\* What the environment may do, and how many crashes, lapsed leases, database
\* and local errors there may still be
Environment == [events : SUBSET AllEvents, faults : Nat]

ASSUME ReplyAssumption ==
  /\ None \notin Workers
  /\ Commands # {}
  /\ MaxAttempts \in Nat \ {0}
  /\ Environments \subseteq Environment

VARIABLES cmd,        \* ai_reply_commands: state, attempt_count, cancel, last_error, lease
          attempts,   \* ai_provider_attempts of the command's run, by attempt_no
          charge,     \* ai_usage_charges with the billing status of the run
          hold,       \* the wallet hold of the run
          message,    \* the assistant message of the command
          deleted,    \* is_del of the conversation
          chunks,     \* ai_reply_delivery_chunks against delivery_seq
          worker,     \* the claim a runner goroutine works on
          sweep,      \* how far a pass of the reconciler is
          env         \* the environment; its bound on faults counts down

rows == <<attempts, charge, hold, message, deleted, chunks>>
vars == <<cmd, rows, worker, sweep, env>>
-----------------------------------------------------------------------------
(* The values of the rows *)

Live == {"pending", "claimed", "running"}
State == Live \cup {"absent", "succeeded", "failed", "canceled", "outcome_unknown"}

\* last_error as far as the code reads it back: the four markers that allow
\* nothing but settlement, the generic one, and every other text
Triggers == {"provider_failed", "local_failure", "pre_dispatch_failed", "initial_insufficient", "topup_insufficient"}
Marker == Triggers \cup {"generic", "none", "other"}

\* The state of an attempt with its dispatch_state, its candidate and its usage:
\* "final" and "tools" succeeded with complete usage, "partial" with usage that
\* is incomplete or priced above the hold; "failed" was refused by the provider,
\* "unsent" never reached it; "stopped" and "withdrawn" are canceled after and
\* before dispatch
Succeeded == {"final", "tools", "partial"}
Sent == Succeeded \cup {"dispatched", "failed", "stopped"}
Attempt == Sent \cup {"prepared", "unsent", "unknown", "withdrawn"}

Latest(log) == IF log = <<>> THEN "none" ELSE log[Len(log)]
Has(log, S) == \E i \in DOMAIN log : log[i] \in S

\* What the provider answers, why an execution ended, and the causes it may store
Answer == Succeeded \cup {"stopped", "failed", "unsent", "denied", "unknown"}
Reason == {"retry", "permanent", "settle", "unknown"}
Cause == Triggers \cup {"context_failure"}

Text == Answer \cup Reason \cup Cause \cup {""}

Executing == {"route", "prepare", "dispatch", "call", "record", "mark", "settle", "tools"}
Pc == Executing \cup {"idle", "claimed", "fence", "defer", "fail", "finish"}

CommandRow == [state : State, count : 0 .. MaxAttempts, cancel : BOOLEAN, marker : Marker,
               lease : {"none", "live", "expired"}, holder : Workers \cup {None}]
WorkerType == [pc : Pc, cmd : Commands, n : 0 .. MaxAttempts + 1, last : BOOLEAN, force : BOOLEAN,
               stop : BOOLEAN, again : BOOLEAN, note : Text]

Resting == [pc |-> "idle", cmd |-> CHOOSE c \in Commands : TRUE, n |-> 0, last |-> FALSE,
            force |-> FALSE, stop |-> FALSE, again |-> FALSE, note |-> ""]

Init ==
  /\ cmd = [c \in Commands |-> [state |-> "absent", count |-> 0, cancel |-> FALSE, marker |-> "none",
                                lease |-> "none", holder |-> None]]
  /\ attempts = [c \in Commands |-> <<>>]
  /\ charge = [c \in Commands |-> "open"] /\ hold = [c \in Commands |-> "none"]
  /\ message = [c \in Commands |-> "none"] /\ deleted = [c \in Commands |-> FALSE]
  /\ chunks = [c \in Commands |-> "none"]
  /\ worker = [w \in Workers |-> Resting]
  /\ sweep = "unknown" /\ env \in Environments

Fault(e) == e \in env.events /\ env.faults > 0 /\ env' = [env EXCEPT !.faults = @ - 1]

\* attempt_count is only compared with max_attempts: it is kept at that bound
Counted(n) == IF n < MaxAttempts THEN n + 1 ELSE n
Unleased(row) == [row EXCEPT !.lease = "none", !.holder = None]
Idle(w) == worker' = [worker EXCEPT ![w] = Resting]

\* What a claim remembers of its execution is dropped when the execution ends
Ended == {"mark", "settle", "fail", "finish", "defer"}
Note(w, p, text) ==
  worker' = [worker EXCEPT ![w] =
    [pc |-> p, cmd |-> @.cmd, n |-> IF p \in Ended THEN 0 ELSE @.n, last |-> @.last, force |-> FALSE,
     stop |-> p \notin {"finish", "defer"} /\ @.stop, again |-> p \notin Ended /\ @.again, note |-> text]]
To(w, p) == Note(w, p, "")
-----------------------------------------------------------------------------
(* Settlement: WithLockedSettlement, one transaction over every row of the run *)

\* normalizeChatAttemptsForFinalization
Normalized(c) ==
  LET log == attempts[c]
      prepared == Latest(log) = "prepared" /\ (cmd[c].cancel \/ cmd[c].marker = "pre_dispatch_failed")
      lost == Latest(log) = "dispatched" /\ cmd[c].state = "outcome_unknown"
  IN  [i \in DOMAIN log |-> IF i = Len(log) /\ prepared THEN "withdrawn"
                            ELSE IF i = Len(log) /\ lost THEN "unknown" ELSE log[i]]

\* deriveChatFinalizationTrigger
Trigger(c, log) ==
  CASE cmd[c].cancel -> IF Has(log, Sent \cup {"unknown"}) THEN "user_stop" ELSE "stop_before_dispatch"
    [] ~cmd[c].cancel /\ cmd[c].marker \in Triggers \ {"provider_failed"} -> cmd[c].marker
    [] OTHER ->
       CASE log = <<>> -> IF cmd[c].state = "failed" THEN "pre_dispatch_failed" ELSE "pending"
         [] Latest(log) \in {"final", "partial"} -> "success"
         [] Latest(log) = "unknown" -> "outcome_unknown"
         [] /\ Latest(log) \in {"failed", "unsent", "stopped", "withdrawn"}
            /\ cmd[c].marker = "provider_failed" \/ Len(log) >= MaxAttempts -> "provider_failed"
         [] OTHER -> "pending"

Verdict(pay, to) == {[charge |-> pay, state |-> to]}
Undecided == {}

\* Priced when every billable attempt reported complete usage within the hold.
\* A stopped attempt may have reported it or not.
Priced(log, to, otherwise) ==
  (IF Has(log, {"partial"}) THEN {} ELSE Verdict("captured", to))
  \cup (IF Has(log, {"partial", "stopped"}) THEN Verdict("released", otherwise) ELSE {})

\* RunFinalizer.decide
Decide(c) ==
  LET log == Normalized(c)
      t == Trigger(c, log)
  IN  IF Has(log, {"prepared", "dispatched"}) THEN Undecided
      ELSE CASE t = "success" ->
                  IF Has(log, {"unknown", "stopped", "withdrawn"}) THEN Undecided
                  ELSE Priced(log, "succeeded", "failed")
             [] t = "stop_before_dispatch" -> Verdict("released", "canceled")
             [] t = "pre_dispatch_failed" -> IF Has(log, Sent) THEN Undecided ELSE Verdict("released", "failed")
             [] t = "user_stop" ->
                  IF Has(log, {"unknown", "withdrawn"}) \/ ~Has(log, Succeeded \cup {"stopped"})
                  THEN Verdict("released", "canceled") ELSE Priced(log, "canceled", "canceled")
             [] t = "topup_insufficient" ->
                  IF Has(log, Succeeded) THEN Priced(log, "failed", "failed") ELSE Verdict("released", "failed")
             [] t = "outcome_unknown" -> Verdict("released", "outcome_unknown")
             [] t = "pending" -> Undecided
             [] OTHER -> Verdict("released", "failed")

\* validateFinalizationAttempts: a failure before dispatch cannot carry a candidate
Factual(c) == ~(Trigger(c, Normalized(c)) = "pre_dispatch_failed" /\ Latest(Normalized(c)) \in Succeeded)

\* FinalizePaidCommandInTransaction: what it refuses with a conflict
Acceptable(c, to) ==
  /\ cmd[c].state \in Live \cup {"outcome_unknown"} \/ (cmd[c].state = "failed" /\ to = "failed")
  /\ CASE to = "succeeded" -> ~cmd[c].cancel /\ ~deleted[c] /\ message[c] \in {"none", "completed"}
       [] to = "canceled" -> cmd[c].cancel /\ message[c] = "stopped"
       [] OTHER -> message[c] = "none" /\ (chunks[c] # "none" => chunks[c] = "kept" /\ ~deleted[c])

Open(c) == charge[c] = "open"
Pending(c) == Open(c) /\ Factual(c) /\ Decide(c) = Undecided
Refused(c) == Open(c) /\ (~Factual(c) \/ \E d \in Decide(c) : ~Acceptable(c, d.state))

\* What the settlement leaves of the wallet hold
ClosedWhenPaid(h, pay) == IF pay = "captured" THEN pay ELSE h
Closed(h, pay) == IF h = "none" THEN "none" ELSE pay

\* The best-effort cleanup that follows the commit may be lost
Swept(c) == chunks' \in {chunks, [chunks EXCEPT ![c] = IF @ = "kept" THEN "cleaned" ELSE @]}

Replay(c) == ~Open(c) /\ Swept(c) /\ UNCHANGED <<cmd, attempts, charge, hold, message, deleted>>

Apply(c) ==
  /\ Open(c) /\ Factual(c)
  /\ \E d \in Decide(c) :
       /\ Acceptable(c, d.state)
       /\ attempts' = [attempts EXCEPT ![c] = Normalized(c)]
       /\ charge' = [charge EXCEPT ![c] = d.charge]
       /\ hold' = [hold EXCEPT ![c] = Closed(@, d.charge)]
       /\ cmd' = [cmd EXCEPT ![c] = Unleased([@ EXCEPT !.state = d.state, !.marker = IF d.state \in {"succeeded", "canceled"} THEN "none" ELSE "other"])]
       /\ message' = [message EXCEPT ![c] = CASE d.state = "succeeded" -> "completed"
                                              [] d.state # "succeeded" /\ chunks[c] # "none" -> "stopped"
                                              [] OTHER -> @]
  /\ Swept(c) /\ UNCHANGED deleted

Finalized(c) == Replay(c) \/ Apply(c)
-----------------------------------------------------------------------------
(* The user *)

CreateReply(c) ==
  /\ cmd[c].state = "absent" /\ ~deleted[c]
  /\ cmd' = [cmd EXCEPT ![c].state = "pending"]
  /\ UNCHANGED <<rows, worker, sweep, env>>

CancelQuietly(c) ==
  /\ "cancel" \in env.events /\ cmd[c].state \in Live /\ ~cmd[c].cancel /\ ~deleted[c]
  /\ cmd' = [cmd EXCEPT ![c].cancel = TRUE]
  /\ UNCHANGED <<attempts, charge, hold, message, deleted, chunks, worker, sweep, env>>

\* RequestCancel and its cleanup
Cancel(c) ==
  /\ "cancel" \in env.events /\ cmd[c].state \in Live /\ ~cmd[c].cancel /\ ~deleted[c]
  /\ cmd' = [cmd EXCEPT ![c].cancel = TRUE]
  /\ message' = [message EXCEPT ![c] = "stopped"]
  /\ Swept(c)
  /\ UNCHANGED <<attempts, charge, hold, deleted, worker, sweep, env>>

\* Deleting the conversation stops every live command of it
DeleteConversation(c) ==
  /\ "delete" \in env.events /\ cmd[c].state # "absent" /\ ~deleted[c]
  /\ deleted' = [deleted EXCEPT ![c] = TRUE]
  /\ LET stops == cmd[c].state \in Live /\ ~cmd[c].cancel
     IN  /\ cmd' = [cmd EXCEPT ![c].cancel = @ \/ stops]
         /\ message' = [message EXCEPT ![c] = IF stops THEN "stopped" ELSE @]
  /\ Swept(c)
  /\ UNCHANGED <<attempts, charge, hold, worker, sweep, env>>

User(c) == CreateReply(c) \/ Cancel(c) \/ DeleteConversation(c)
-----------------------------------------------------------------------------
(* Leases *)

Current(w, c) == cmd[c].state = "running" /\ cmd[c].holder = w
Runnable(w, c) == Current(w, c) /\ cmd[c].lease = "live" /\ ~cmd[c].cancel

\* RequiresFinalizationOnly of the row without its cancellation
Marked(c) == cmd[c].marker \in Triggers \cup {"generic"}
Lapsed(c) == cmd[c].state \in {"claimed", "running"} /\ cmd[c].lease = "expired"

\* Another attempt is allowed, or none is needed
Eligible(c) == cmd[c].count < MaxAttempts \/ cmd[c].cancel \/ Marked(c) \/ Has(attempts[c], {"prepared"}) \/ Lapsed(c)

\* A deleted conversation is served only to finish what was stopped
ServedUndeleted(c) == ~deleted[c]
Served(c) == cmd[c].cancel \/ ~deleted[c]

Claimable(c) ==
  /\ Eligible(c)
  /\ cmd[c].state = "pending" \/ Lapsed(c)
  /\ Served(c)

Ambiguous(c) == Lapsed(c) /\ Latest(attempts[c]) \in {"dispatched", "unknown"}

\* A lapsed claim that may have reached the provider is not claimed again
ClaimAmbiguous(c) ==
  /\ Claimable(c) /\ Ambiguous(c)
  /\ cmd' = [cmd EXCEPT ![c] = Unleased([@ EXCEPT !.state = "outcome_unknown", !.marker = "other"])]
  /\ UNCHANGED <<rows, worker, sweep, env>>

Claim(w, c) ==
  /\ worker[w].pc = "idle" /\ Claimable(c) /\ ~Ambiguous(c)
  /\ LET free == cmd[c].cancel \/ Marked(c) \/ Latest(attempts[c]) \in Succeeded \cup {"prepared"}
         count == IF free THEN cmd[c].count ELSE Counted(cmd[c].count)
     IN  /\ cmd' = [cmd EXCEPT ![c] = [@ EXCEPT !.state = "claimed", !.count = count, !.lease = "live", !.holder = w]]
         /\ worker' = [worker EXCEPT ![w] = [Resting EXCEPT !.pc = "claimed", !.cmd = c, !.last = count >= MaxAttempts,
                                                            !.force = cmd[c].marker \in Triggers]]
  /\ UNCHANGED <<rows, sweep, env>>

\* The renewal goroutine of a running claim, alive as long as the execution is
Renew(w) ==
  LET c == worker[w].cmd
  IN  /\ worker[w].pc \in Executing /\ Current(w, c)
      /\ cmd[c].lease = "expired" \/ (cmd[c].cancel /\ ~worker[w].stop)
      /\ cmd' = [cmd EXCEPT ![c].lease = "live"]
      /\ worker' = [worker EXCEPT ![w].stop = @ \/ cmd[c].cancel]
      /\ UNCHANGED <<rows, sweep, env>>

Busy(c) == \E w \in Workers : worker[w].pc # "idle" /\ worker[w].cmd = c /\ cmd[c].holder = w
Expired(c) == cmd[c].lease = "live" /\ cmd' = [cmd EXCEPT ![c].lease = "expired"]

\* The lease of a claim nobody works on runs out; that of a busy worker only
\* when its renewals fail or come too late
Expire(c) == ~Busy(c) /\ Expired(c) /\ UNCHANGED <<rows, worker, sweep, env>>
Lapse(c) == Busy(c) /\ Fault("lapse") /\ Expired(c) /\ UNCHANGED <<rows, worker, sweep>>

Crash(w) ==
  /\ worker[w].pc # "idle" /\ Fault("crash") /\ Idle(w)
  /\ UNCHANGED <<cmd, rows, sweep>>
-----------------------------------------------------------------------------
(* Runner.runClaim around the execution *)

At(w, p) == worker[w].pc = p
Fenced(w, force) ==
  worker' = [worker EXCEPT ![w] =
    [pc |-> "fence", cmd |-> @.cmd, n |-> 0, last |-> @.last, force |-> force, stop |-> @.stop, again |-> FALSE, note |-> ""]]
Unchanged == UNCHANGED <<cmd, rows, sweep, env>>

\* claimed -> running, the first renewal and the cancellation it reports
Start(w) ==
  LET c == worker[w].cmd
      holds == cmd[c].state = "claimed" /\ cmd[c].holder = w
  IN  /\ At(w, "claimed")
      /\ cmd' = IF holds THEN [cmd EXCEPT ![c].state = "running", ![c].lease = "live"] ELSE cmd
      /\ IF holds THEN Fenced(w, worker[w].force \/ cmd[c].cancel) ELSE Idle(w)
      /\ UNCHANGED <<rows, sweep, env>>

\* finalizationFence; finishCancellation is the same with force
Fence(w) ==
  LET c == worker[w].cmd
  IN  /\ At(w, "fence")
      /\ \/ Finalized(c) /\ Idle(w) /\ UNCHANGED <<sweep, env>>
         \/ Pending(c) /\ ~worker[w].force /\ To(w, "route") /\ Unchanged
         \/ (Refused(c) \/ (Pending(c) /\ worker[w].force)) /\ To(w, "defer") /\ Unchanged
         \/ Fault("database") /\ To(w, "defer") /\ UNCHANGED <<cmd, rows, sweep>>

\* ScheduleFinalizationRetry
Defer(w) ==
  LET c == worker[w].cmd
      marker == IF Marked(c) THEN cmd[c].marker ELSE "generic"
  IN  /\ At(w, "defer") /\ Idle(w)
      /\ cmd' = IF Current(w, c)
                THEN [cmd EXCEPT ![c] = Unleased([@ EXCEPT !.state = "pending", !.marker = marker])]
                ELSE cmd
      /\ UNCHANGED <<rows, sweep, env>>

\* The renewal after a failed execution
Fail(w) ==
  LET c == worker[w].cmd
      alive == cmd[c].state \in {"claimed", "running"} /\ cmd[c].holder = w
  IN  /\ At(w, "fail")
      /\ IF worker[w].stop
         THEN cmd' = cmd /\ Fenced(w, TRUE)
         ELSE /\ cmd' = IF alive THEN [cmd EXCEPT ![c].lease = "live"] ELSE cmd
              /\ \/ ~alive /\ Idle(w)
                 \/ alive /\ cmd[c].cancel /\ Fenced(w, TRUE)
                 \/ alive /\ ~cmd[c].cancel /\ worker[w].note = "settle" /\ To(w, "defer")
                 \/ alive /\ ~cmd[c].cancel /\ worker[w].note # "settle" /\ Note(w, "finish", worker[w].note)
      /\ UNCHANGED <<rows, sweep, env>>

\* finishFailure: an unknown outcome, a terminal failure or another try
Finish(w) ==
  LET c == worker[w].cmd
      to == CASE worker[w].note = "unknown" -> "outcome_unknown"
              [] worker[w].note # "unknown" /\ (worker[w].note = "permanent" \/ worker[w].last) -> "failed"
              [] OTHER -> "pending"
  IN  /\ At(w, "finish") /\ Idle(w)
      /\ cmd' = IF Current(w, c) THEN [cmd EXCEPT ![c] = Unleased([@ EXCEPT !.state = to, !.marker = "other"])] ELSE cmd
      /\ UNCHANGED <<rows, sweep, env>>
-----------------------------------------------------------------------------
(* ExecuteConversationReply and ExecutePaidChatAttempt *)

\* mustFinalizePreDispatchError: on the last claim every error before dispatch
\* is final, otherwise a transient one is retried
Rejected(w) == IF worker[w].last THEN Note(w, "mark", "pre_dispatch_failed") ELSE Note(w, "fail", "retry")

\* A configuration, context or preflight error, or a tool that fails
LocalError(w) ==
  /\ worker[w].pc \in {"route", "dispatch", "tools"} /\ Fault("local")
  /\ IF At(w, "tools") THEN Note(w, "mark", "local_failure")
     ELSE Note(w, "mark", "pre_dispatch_failed") \/ Rejected(w)
  /\ UNCHANGED <<cmd, rows, sweep>>

\* nextAttempt: attempts that may have been accepted, and the limit on attempts
UncertainNever == {}
Uncertain == {"dispatched"}
TooMany(n) == n > MaxAttempts

Route(w) ==
  LET log == attempts[worker[w].cmd]
      latest == Latest(log)
      n == IF latest = "prepared" THEN Len(log) ELSE Len(log) + 1
      toRun == latest = "tools" /\ ~worker[w].again
      over == latest \in {"final", "partial", "unknown", "stopped", "withdrawn"}
      next == latest \notin Uncertain /\ ~toRun /\ ~over
  IN  /\ At(w, "route") /\ Unchanged
      /\ \/ latest \in Uncertain /\ Note(w, "fail", "unknown")
         \/ toRun /\ To(w, "tools")
         \/ (over \/ (next /\ ~TooMany(n) /\ worker[w].stop)) /\ To(w, "settle")
         \/ next /\ TooMany(n) /\ Note(w, "mark", "local_failure")
         \/ /\ next /\ ~TooMany(n) /\ ~worker[w].stop
            /\ worker' = [worker EXCEPT ![w].pc = "prepare", ![w].n = n, ![w].again = @ \/ latest = "prepared"]

\* ReserveAndPrepare. The wallet is asked before the lease is checked, and a
\* prepared attempt is recovered without it.
Prepare(w) ==
  LET c == worker[w].cmd
      recover == worker[w].n = Len(attempts[c]) /\ Latest(attempts[c]) = "prepared"
      new == worker[w].n = Len(attempts[c]) + 1 /\ Runnable(w, c)
  IN  /\ At(w, "prepare") /\ UNCHANGED <<charge, message, deleted, chunks, sweep, env>>
      /\ \/ /\ "poor" \in env.events /\ Open(c) /\ Current(w, c) /\ To(w, "settle") /\ UNCHANGED <<attempts, hold>>
            /\ cmd' = [cmd EXCEPT ![c].marker = IF hold[c] = "none" THEN "initial_insufficient" ELSE "topup_insufficient"]
         \/ Open(c) /\ recover /\ To(w, "dispatch") /\ UNCHANGED <<cmd, attempts, hold>>
         \/ /\ Open(c) /\ new /\ To(w, "dispatch") /\ UNCHANGED cmd
            /\ attempts' = [attempts EXCEPT ![c] = Append(@, "prepared")]
            /\ hold' = [hold EXCEPT ![c] = "active"]
         \/ Open(c) /\ ~recover /\ ~new /\ Rejected(w) /\ UNCHANGED <<cmd, attempts, hold>>
         \/ ~Open(c) /\ Note(w, "mark", "pre_dispatch_failed") /\ UNCHANGED <<cmd, attempts, hold>>

\* MarkDispatched with EnsureRunnable
MarkDispatched(w) ==
  LET c == worker[w].cmd
      mine == Latest(attempts[c]) = "prepared" /\ Len(attempts[c]) = worker[w].n
  IN  /\ At(w, "dispatch")
      /\ CASE worker[w].stop -> To(w, "settle") /\ Unchanged
           [] ~worker[w].stop /\ ~(Open(c) /\ mine) -> Note(w, "mark", "pre_dispatch_failed") /\ Unchanged
           [] ~worker[w].stop /\ Open(c) /\ mine /\ Runnable(w, c) /\ ~deleted[c] ->
                /\ attempts' = [attempts EXCEPT ![c][worker[w].n] = "dispatched"] /\ To(w, "call")
                /\ UNCHANGED <<cmd, charge, hold, message, deleted, chunks, sweep, env>>
           [] OTHER -> Rejected(w) /\ Unchanged

\* AppendDeliveryChunk: one chunk stands for the streamed prefix
Stream(w) ==
  LET c == worker[w].cmd
  IN  /\ At(w, "call") /\ "stream" \in env.events /\ Runnable(w, c) /\ chunks[c] = "none"
      /\ chunks' = [chunks EXCEPT ![c] = "kept"]
      /\ UNCHANGED <<cmd, attempts, charge, hold, message, deleted, worker, sweep, env>>

\* The provider answers: the attempt state the answer will be recorded as, and
\* whether a failure may be retried. The stop probe turns a success to "stopped".
Answers(stop) ==
  (IF stop THEN {"stopped"}
   ELSE {"final"} \cup ({"tools", "partial"} \cap env.events))
  \cup (IF "reject" \in env.events THEN {"failed", "unsent", "denied"} ELSE {})
  \cup (IF "silence" \in env.events THEN {"unknown"} ELSE {})

Call(w) ==
  /\ At(w, "call") /\ \E answer \in Answers(worker[w].stop) : Note(w, "record", answer)
  /\ Unchanged

\* What ExecutePaidChatAttempt does with a provider outcome
Outcome(w, answer) ==
  CASE answer \in {"failed", "unsent"} /\ worker[w].n < MaxAttempts -> Note(w, "fail", "retry")
    [] answer \in {"failed", "unsent", "denied"} -> Note(w, "mark", "provider_failed")
    [] answer = "tools" /\ ~worker[w].stop -> To(w, "tools")
    [] OTHER -> To(w, "settle")

\* RecordOutcome: not fenced by the lease, only by the state of the attempt
RecordableAlways(log, n) == TRUE
Recordable(log, n) == log[n] = "dispatched"

Record(w) ==
  LET c == worker[w].cmd
      answer == worker[w].note
      open == Recordable(attempts[c], worker[w].n)
      unrecorded == IF answer \in Succeeded \cup {"stopped"} THEN Rejected(w) ELSE Outcome(w, answer)
  IN  /\ At(w, "record") /\ UNCHANGED <<cmd, charge, hold, message, deleted, chunks, sweep>>
      /\ \/ /\ open /\ Outcome(w, answer)
            /\ attempts' = [attempts EXCEPT ![c][worker[w].n] = IF answer = "denied" THEN "failed" ELSE answer]
            /\ UNCHANGED env
         \/ /\ ~open /\ UNCHANGED <<attempts, env>>
            /\ IF answer \in Succeeded \cup {"stopped"} THEN Note(w, "mark", "pre_dispatch_failed") ELSE Outcome(w, answer)
         \/ /\ open /\ Fault("database") /\ unrecorded /\ UNCHANGED attempts

\* markFinalizationTrigger and markProviderFailure. A context failure is stored
\* under its own code, which nothing reads back as a marker.
Mark(w) ==
  LET c == worker[w].cmd
  IN  /\ At(w, "mark")
      /\ IF Current(w, c)
         THEN /\ cmd' = [cmd EXCEPT ![c].marker = IF worker[w].note = "context_failure" THEN "other" ELSE worker[w].note]
              /\ Note(w, "settle", worker[w].note)
         ELSE cmd' = cmd /\ Note(w, "fail", "retry")
      /\ UNCHANGED <<rows, sweep, env>>

\* finalizePaidAttempt: not fenced by the lease either. While the facts are
\* pending the service may add the error that brought it here.
Settle(w) ==
  LET c == worker[w].cmd
      reasons == IF worker[w].note = "pre_dispatch_failed" THEN {"retry", "permanent"} ELSE {"retry"}
  IN  /\ At(w, "settle")
      /\ \/ Finalized(c) /\ Idle(w) /\ UNCHANGED <<sweep, env>>
         \/ Pending(c) /\ (\E reason \in reasons : Note(w, "fail", reason)) /\ Unchanged
         \/ Refused(c) /\ Note(w, "fail", "settle") /\ Unchanged
         \/ Fault("database") /\ Note(w, "fail", "settle") /\ UNCHANGED <<cmd, rows, sweep>>

\* The answer asks for tools: one round of them, within the planned budget
Tools(w) ==
  /\ At(w, "tools") /\ Unchanged
  /\ \/ worker[w].again /\ Note(w, "mark", "local_failure")
     \/ ~worker[w].again /\ "overflow" \in env.events /\ Note(w, "mark", "context_failure")
     \/ ~worker[w].again /\ worker[w].stop /\ Fenced(w, TRUE)
     \/ ~worker[w].again /\ ~worker[w].stop /\ worker' = [worker EXCEPT ![w].pc = "route", ![w].again = TRUE]

Execute(w) == \/ Start(w) \/ Fence(w) \/ Defer(w) \/ Fail(w) \/ Finish(w) \/ Route(w) \/ Prepare(w)
              \/ MarkDispatched(w) \/ Call(w) \/ Record(w) \/ Mark(w) \/ Settle(w) \/ Tools(w)
-----------------------------------------------------------------------------
(* Reconciler.RunOnce: one unknown outcome, one orphan, then the chunks *)

Orphan(c) ==
  /\ cmd[c].state = "failed" /\ message[c] = "none" /\ Open(c) /\ attempts[c] = <<>>

Due(c) == IF sweep = "unknown" THEN cmd[c].state = "outcome_unknown" /\ Open(c) ELSE Orphan(c)
After == IF sweep = "unknown" THEN "orphan" ELSE "clean"

\* FinalizeOutcomeUnknown and FinalizeOrphanedPreDispatch; an error ends the pass
Reconcile ==
  /\ sweep \in {"unknown", "orphan"}
  /\ \/ (\A c \in Commands : ~Due(c)) /\ sweep' = After /\ UNCHANGED <<cmd, rows>>
     \/ \E c \in Commands : Due(c) /\ Finalized(c) /\ sweep' = After
     \/ \E c \in Commands : Due(c) /\ (Pending(c) \/ Refused(c)) /\ sweep' = "unknown" /\ UNCHANGED <<cmd, rows>>
  /\ UNCHANGED <<worker, env>>

\* ListDeliveryCleanupCandidates and CleanupDeliveryChunks
Removable(c) == chunks[c] = "kept" /\ (cmd[c].state \notin Live \/ message[c] = "stopped")

CleanChunks ==
  /\ sweep = "clean" /\ sweep' = "unknown"
  /\ chunks' = [c \in Commands |-> IF Removable(c) THEN "cleaned" ELSE chunks[c]]
  /\ UNCHANGED <<cmd, attempts, charge, hold, message, deleted, worker, env>>
-----------------------------------------------------------------------------
Work(w) == Execute(w) \/ Renew(w) \/ LocalError(w) \/ Stream(w) \/ Crash(w)

Next ==
  \/ \E c \in Commands : User(c) \/ ClaimAmbiguous(c) \/ Expire(c) \/ Lapse(c) \/ \E w \in Workers : Claim(w, c)
  \/ \E w \in Workers : Work(w)
  \/ Reconcile \/ CleanChunks

Spec == Init /\ [][Next]_vars

\* Runners and reconciler poll every second and every call returns; the lease of
\* a claim nobody works on runs out. Nothing is promised of users and faults.
Fairness ==
  /\ \A w \in Workers : WF_vars(Execute(w))
  /\ \A c \in Commands : /\ WF_vars(\E w \in Workers : Claim(w, c)) /\ WF_vars(ClaimAmbiguous(c))
                         /\ WF_vars(Expire(c))
  /\ WF_vars(Reconcile) /\ WF_vars(CleanChunks)

FairSpec == Spec /\ Fairness
-----------------------------------------------------------------------------
(* Properties *)

\* Every row keeps to its values, and the provider attempts to their limit
\* (providerAttemptLimitExceeded) whatever is retried, recovered or crashes.
ReplyTypeOK ==
  /\ cmd \in [Commands -> CommandRow]
  /\ attempts \in [Commands -> Seq(Attempt)] /\ \A c \in Commands : Len(attempts[c]) <= MaxAttempts
  /\ charge \in [Commands -> {"open", "captured", "released"}]
  /\ hold \in [Commands -> {"none", "active", "captured", "released"}]
  /\ message \in [Commands -> {"none", "stopped", "completed"}]
  /\ deleted \in [Commands -> BOOLEAN] /\ chunks \in [Commands -> {"none", "kept", "cleaned"}]
  /\ worker \in [Workers -> WorkerType]
  /\ sweep \in {"unknown", "orphan", "clean"} /\ env \in Environment

\* WithLockedSettlement: the charge, the wallet hold and the command close in one
\* commit, whoever settles; only an answer or a stopped one is paid for, and an
\* open charge never loses its hold.
HoldFits(c) == hold[c] = IF attempts[c] = <<>> THEN "none" ELSE IF Open(c) THEN "active" ELSE charge[c]
StateFits(c) ==
  /\ cmd[c].state \in {"succeeded", "canceled"} => ~Open(c)
  /\ cmd[c].state \in Live \cup {"absent"} => Open(c)
  /\ cmd[c].state = "succeeded" => charge[c] = "captured"
PaymentFits(c) == charge[c] = "captured" => Has(attempts[c], {"final", "tools", "stopped"})
ClosedTogether == \A c \in Commands : HoldFits(c) /\ StateFits(c) /\ PaymentFits(c)

\* RequestCancel: once the user stopped a reply, or the conversation is gone, no
\* worker publishes an answer; an answer is published with the success only.
StopIsFinal ==
  \A c \in Commands :
    /\ cmd[c].cancel => message[c] = "stopped" /\ cmd[c].state # "succeeded"
    /\ (message[c] = "completed") = (cmd[c].state = "succeeded")

\* nextAttempt: a provider request that may have been accepted is never repeated;
\* only a definite failure or an answer asking for tools is followed by another.
NoBlindRepeat ==
  \A c \in Commands : \A i \in 1 .. Len(attempts[c]) - 1 : attempts[c][i] \in {"failed", "unsent", "tools"}

\* FinalizePaidCommandInTransaction: a settled reply keeps its outcome, its
\* message and its attempts, however late a worker or the reconciler is.
SettledForGood ==
  [][\A c \in Commands : ~Open(c) => /\ UNCHANGED <<charge[c], hold[c], message[c], attempts[c]>>
                                     /\ cmd'[c].state = cmd[c].state]_vars

\* A reply that a user asked for is settled in the end.
EveryReplySettles == \A c \in Commands : (cmd[c].state # "absent") ~> ~Open(c)

\* finishFailure: a command that failed is settled, or the reconciler finds it.
FailedIsClosed == \A c \in Commands : cmd[c].state = "failed" /\ Open(c) => Orphan(c)
=============================================================================
