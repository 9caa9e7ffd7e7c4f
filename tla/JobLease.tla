------------------------------ MODULE JobLease ------------------------------
(***************************************************************************)
(* One scheduled job on several worker processes.  Every process fires the *)
(* job; a lease in Redis lets one firing at a time run its task, which     *)
(* writes a log row, puts a message on the queue and closes the row.  The  *)
(* lease is renewed by a second goroutine that can only cancel the task's  *)
(* context, so a task whose lease is gone runs on to its next look at it.  *)
(* A job that is removed and added again is a second job to gocron: its    *)
(* firings may overlap in one process, under one owner.                    *)
(***************************************************************************)
EXTENDS Naturals, FiniteSets

CONSTANTS Firings,       \* executions of the job
          Hosts,         \* worker processes, each a lease owner
          MaxTokens,     \* bound: leases granted
          MaxLeaseFaults \* bound: calls that fail or lose their answer, and crashes

VARIABLES lease,       \* the Redis hash: [owner, token], token 0 when absent
          fence,       \* the fencing counter
          firing,      \* the executions, and the log row each one opened
          leaseFaults

leaseVars == <<lease, fence, firing, leaseFaults>>

FreeLease == [owner |-> "nobody", token |-> 0]

\* An execution that is not under way.
NotFired == [at |-> "rest", lease |-> FreeLease, lapsed |-> FALSE, cancelled |-> FALSE, log |-> "none"]

JobInit ==
  /\ lease = FreeLease /\ fence = 0 /\ leaseFaults = 0
  /\ firing = [f \in Firings |-> NotFired]

Underway(f) == firing[f].at # "rest"

\* Fault: the scripts compare the owner and not the token.
OwnsByName(f) == lease.owner = firing[f].lease.owner

Owns(f) == lease = firing[f].lease
LeaseFault == leaseFaults < MaxLeaseFaults /\ leaseFaults' = leaseFaults + 1
Advance(f, e) == firing' = [firing EXCEPT ![f] = e]

(***************************************************************************)
(* The lease.                                                              *)
(***************************************************************************)
GrantTo(h) ==
  /\ lease.token = 0 /\ fence < MaxTokens
  /\ fence' = fence + 1
  /\ lease' = [owner |-> h, token |-> fence + 1]

\* Another firing holds the lease: this one is skipped and leaves no trace.
Acquire(f, h) ==
  /\ ~Underway(f)
  /\ GrantTo(h)
  /\ Advance(f, [NotFired EXCEPT !.at = "leased", !.lease = lease'])
  /\ UNCHANGED leaseFaults

\* The script ran and its answer is lost: nobody runs and the lease stays.
AcquireUnanswered(h) == GrantTo(h) /\ LeaseFault /\ UNCHANGED firing

\* The renewal finds another lease or none, or its call fails.
RenewFails(f) ==
  /\ Underway(f) /\ ~firing[f].cancelled /\ firing[f].at # "done"
  /\ IF Owns(f) THEN LeaseFault ELSE UNCHANGED leaseFaults
  /\ Advance(f, [firing[f] EXCEPT !.cancelled = TRUE])
  /\ UNCHANGED <<lease, fence>>

\* No renewal came in time.
LeaseLapses ==
  /\ lease.token # 0
  /\ lease' = FreeLease
  /\ firing' = [f \in Firings |-> IF Underway(f) /\ Owns(f)
                                  THEN [firing[f] EXCEPT !.lapsed = TRUE] ELSE firing[f]]
  /\ UNCHANGED <<fence, leaseFaults>>

Release(f) ==
  /\ firing[f].at = "done"
  /\ lease' = IF Owns(f) THEN FreeLease ELSE lease
  /\ Advance(f, [firing[f] EXCEPT !.at = "rest"])
  /\ UNCHANGED <<fence, leaseFaults>>

ReleaseFails(f) ==
  /\ firing[f].at = "done" /\ LeaseFault
  /\ Advance(f, [firing[f] EXCEPT !.at = "rest"])
  /\ UNCHANGED <<lease, fence>>

(***************************************************************************)
(* The task of the job (SchedulerService.taskFunc).                        *)
(***************************************************************************)
LogStart(f) ==
  /\ firing[f].at = "leased"
  /\ Advance(f, IF firing[f].cancelled THEN [firing[f] EXCEPT !.at = "done"]
                ELSE [firing[f] EXCEPT !.at = "logged", !.log = "running"])
  /\ UNCHANGED <<lease, fence, leaseFaults>>

LogStartFails(f) ==
  /\ firing[f].at = "leased" /\ LeaseFault
  /\ Advance(f, [firing[f] EXCEPT !.at = "done"])
  /\ UNCHANGED <<lease, fence>>

\* The last look at the context before the message goes out; the row of a
\* cancelled task is closed under a context of its own.
Enqueue(f) ==
  /\ firing[f].at = "logged"
  /\ Advance(f, IF firing[f].cancelled THEN [firing[f] EXCEPT !.at = "done", !.log = "failed"]
                ELSE [firing[f] EXCEPT !.at = "sent"])
  /\ UNCHANGED <<lease, fence, leaseFaults>>

\* The queue refuses the message, or takes it and its answer is lost.
EnqueueFails(f) ==
  /\ firing[f].at = "logged" /\ ~firing[f].cancelled /\ LeaseFault
  /\ Advance(f, [firing[f] EXCEPT !.at = "refused"])
  /\ UNCHANGED <<lease, fence>>

\* Here the row is closed under the task's context: once that is cancelled
\* the row is left running for good.
LogEnd(f) ==
  /\ firing[f].at \in {"sent", "refused"}
  /\ Advance(f, [firing[f] EXCEPT !.at = "done",
                   !.log = IF firing[f].cancelled THEN @
                           ELSE IF firing[f].at = "sent" THEN "success" ELSE "failed"])
  /\ UNCHANGED <<lease, fence, leaseFaults>>

LogEndFails(f) ==
  /\ firing[f].at \in {"sent", "refused"} /\ LeaseFault
  /\ Advance(f, [firing[f] EXCEPT !.at = "done"])
  /\ UNCHANGED <<lease, fence>>

\* A worker process dies: its firings are gone and their lease stays.
HostCrash(h) ==
  /\ LeaseFault
  /\ firing' = [f \in Firings |-> IF Underway(f) /\ firing[f].lease.owner = h
                                  THEN [firing[f] EXCEPT !.at = "rest"] ELSE firing[f]]
  /\ UNCHANGED <<lease, fence>>

JobNext ==
  \/ \E f \in Firings, h \in Hosts : Acquire(f, h)
  \/ \E h \in Hosts : AcquireUnanswered(h) \/ HostCrash(h)
  \/ LeaseLapses
  \/ \E f \in Firings : \/ RenewFails(f) \/ Release(f) \/ ReleaseFails(f)
                        \/ LogStart(f) \/ LogStartFails(f) \/ Enqueue(f)
                        \/ EnqueueFails(f) \/ LogEnd(f) \/ LogEndFails(f)

JobSpec == JobInit /\ [][JobNext]_leaseVars

(***************************************************************************)
(* Correctness.                                                            *)
(***************************************************************************)
\* At most one firing runs under a lease that has not lapsed, on all
\* processes together: a firing that outlived its lease, or the answer of
\* whose Acquire was lost, never frees the lease of its successor.
OneLiveFiring ==
  \A f, g \in Firings :
    Underway(f) /\ Underway(g) /\ ~firing[f].lapsed /\ ~firing[g].lapsed => f = g

=============================================================================
