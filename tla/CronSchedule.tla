---------------------------- MODULE CronSchedule ----------------------------
(***************************************************************************)
(* How the rows of cron_task become the cron jobs of each worker process.  *)
(* An administrator edits the table through one service; every worker runs *)
(* a Reconciler that lists the enabled rows every two seconds and applies  *)
(* the difference to its own gocron scheduler.  What a process believes it *)
(* has applied, what its scheduler really runs and what the table says are *)
(* three states that drift apart whenever a step between them fails.       *)
(*                                                                         *)
(* A row is its version: the reconciler compares name, expression, status  *)
(* and updated_at.  Two writes within the resolution of updated_at that    *)
(* leave the other three alike are one version.                            *)
(***************************************************************************)
EXTENDS Naturals, FiniteSets

CONSTANTS Jobs,           \* names of cron tasks
          Registered,     \* the names the worker has a RegistryEntry for
          Schedulers,     \* worker processes
          MaxEdits,       \* bound: writes of the cron_task table
          MaxCronFaults   \* bound: failed calls and restarts

ASSUME CronAssumption == Registered \subseteq Jobs

NoJob == 0                      \* the version of a row or job that is absent
Versions == 0..(MaxEdits + 1)

VARIABLES cronRows,   \* cron_task: per name, [live, on, version]
          applied,    \* Reconciler.applied: per process and name, a version
          cronJobs,   \* Scheduler.jobs: the version whose closure gocron runs
          listing,    \* the enabled rows the last Reconcile listed
          passing,    \* the processes between their listing and its application
          cronHealth, \* Reconciler.health.Healthy
          edits, cronFaults

cronVars == <<cronRows, applied, cronJobs, listing, passing, cronHealth, edits, cronFaults>>

NoListing == [j \in Jobs |-> NoJob]

CronInit ==
  /\ cronRows \in [Jobs -> {[live |-> FALSE, on |-> FALSE, version |-> NoJob],
                            [live |-> TRUE, on |-> TRUE, version |-> 1]}]
  /\ applied = [s \in Schedulers |-> NoListing]
  /\ cronJobs = [s \in Schedulers |-> NoListing]
  /\ listing = [s \in Schedulers |-> NoListing] /\ passing = {}
  /\ cronHealth = [s \in Schedulers |-> FALSE]
  /\ edits = 1 /\ cronFaults = 0

(***************************************************************************)
(* The service that edits cron_task.                                       *)
(***************************************************************************)
WriteRow(j, live, on) ==
  /\ edits <= MaxEdits
  /\ edits' = edits + 1
  /\ cronRows' = [cronRows EXCEPT ![j] = [live |-> live, on |-> on, version |-> edits + 1]]
  /\ UNCHANGED <<applied, cronJobs, listing, passing, cronHealth, cronFaults>>

\* A name that no row carries may be created, whether or not it is registered.
CreateCron(j) == ~cronRows[j].live /\ \E on \in BOOLEAN : WriteRow(j, TRUE, on)

\* Update rewrites the expression and the status of a row; its name is immutable.
UpdateCronRow(j) == cronRows[j].live /\ \E on \in BOOLEAN : WriteRow(j, TRUE, on)

ChangeCronStatus(j) == cronRows[j].live /\ WriteRow(j, TRUE, ~cronRows[j].on)

DeleteCron(j) == cronRows[j].live /\ WriteRow(j, FALSE, cronRows[j].on)

(***************************************************************************)
(* Reconcile, first half: list the enabled rows.                           *)
(***************************************************************************)
Enabled(j) == cronRows[j].live /\ cronRows[j].on

ListEnabled(s) ==
  /\ s \notin passing /\ passing' = passing \cup {s}
  /\ listing' = [listing EXCEPT ![s] = [j \in Jobs |-> IF Enabled(j) THEN cronRows[j].version ELSE NoJob]]
  /\ UNCHANGED <<cronRows, applied, cronJobs, cronHealth, edits, cronFaults>>

\* The query fails: nothing is touched and the process reports itself unhealthy.
ListFails(s) ==
  /\ s \notin passing /\ cronFaults < MaxCronFaults
  /\ cronFaults' = cronFaults + 1
  /\ cronHealth' = [cronHealth EXCEPT ![s] = FALSE]
  /\ UNCHANGED <<cronRows, applied, cronJobs, listing, passing, edits>>

(***************************************************************************)
(* Reconcile, second half: apply the difference.  refused are the names    *)
(* whose AddCron, UpdateCron or Remove gocron refuses.                     *)
(***************************************************************************)
\* A listed row nobody registered is an error of this pass and no desired job.
Desired(s, j) == IF j \in Registered THEN listing[s][j] ELSE NoJob

\* What one pass does to one name, as the pair of what is believed and what runs.
Believed(s, j) == [applied |-> applied[s][j], job |-> cronJobs[s][j]]

RemoveSchedule(s, j, refused) ==
  IF applied[s][j] = NoJob \/ j \in refused THEN Believed(s, j)
                                            ELSE [applied |-> NoJob, job |-> NoJob]

ApplySchedule(s, j, refused) ==
  IF j \in refused THEN Believed(s, j)
                   ELSE [applied |-> Desired(s, j), job |-> Desired(s, j)]

\* Fault: a job of the name is enough, whatever version of the row it runs.
UpToDateAnyVersion(s, j) == applied[s][j] # NoJob /\ cronJobs[s][j] # NoJob

UpToDate(s, j) == applied[s][j] = Desired(s, j) /\ cronJobs[s][j] # NoJob

Reconciled(s, j, refused) ==
  CASE Desired(s, j) = NoJob -> RemoveSchedule(s, j, refused)
    [] UpToDate(s, j)        -> Believed(s, j)
    [] OTHER                 -> ApplySchedule(s, j, refused)

\* The names for which the pass calls gocron.
Touched(s) ==
  {j \in Jobs : IF Desired(s, j) = NoJob THEN applied[s][j] # NoJob /\ cronJobs[s][j] # NoJob
                                         ELSE ~UpToDate(s, j)}

Unlisted(s) == {j \in Jobs \ Registered : listing[s][j] # NoJob}

ApplyListing(s, refused) ==
  /\ s \in passing /\ passing' = passing \ {s}
  /\ refused \subseteq Touched(s)
  /\ Cardinality(refused) <= MaxCronFaults - cronFaults
  /\ cronFaults' = cronFaults + Cardinality(refused)
  /\ applied' = [applied EXCEPT ![s] = [j \in Jobs |-> Reconciled(s, j, refused).applied]]
  /\ cronJobs' = [cronJobs EXCEPT ![s] = [j \in Jobs |-> Reconciled(s, j, refused).job]]
  /\ cronHealth' = [cronHealth EXCEPT ![s] = refused = {} /\ Unlisted(s) = {}]
  /\ UNCHANGED <<cronRows, listing, edits>>

\* A worker process restarts: its scheduler and its reconciler start empty.
RestartScheduler(s) ==
  /\ cronFaults < MaxCronFaults
  /\ cronFaults' = cronFaults + 1
  /\ applied' = [applied EXCEPT ![s] = NoListing]
  /\ cronJobs' = [cronJobs EXCEPT ![s] = NoListing]
  /\ listing' = [listing EXCEPT ![s] = NoListing]
  /\ passing' = passing \ {s}
  /\ cronHealth' = [cronHealth EXCEPT ![s] = FALSE]
  /\ UNCHANGED <<cronRows, edits>>

EditCron == \E j \in Jobs : CreateCron(j) \/ UpdateCronRow(j) \/ ChangeCronStatus(j) \/ DeleteCron(j)

CronNext ==
  \/ EditCron
  \/ \E s \in Schedulers : ListEnabled(s) \/ ListFails(s) \/ RestartScheduler(s)
  \/ \E s \in Schedulers : \E refused \in SUBSET Jobs : ApplyListing(s, refused)

\* Every two seconds, for ever: list, then apply.
SchedulerStep(s) == ListEnabled(s) \/ \E refused \in SUBSET Jobs : ApplyListing(s, refused)

SchedulerFairness == \A s \in Schedulers : WF_cronVars(SchedulerStep(s))

CronSpec == CronInit /\ [][CronNext]_cronVars

(***************************************************************************)
(* Correctness.                                                            *)
(***************************************************************************)
\* Once the administrators are done, every worker comes to run exactly the
\* enabled registered rows as they stand, whatever failed or restarted before
\* and however many rows are broken (Reconciler.run, every two seconds).
SchedulesConverge ==
  <>[](\A s \in Schedulers : \A j \in Registered :
         cronJobs[s][j] = IF Enabled(j) THEN cronRows[j].version ELSE NoJob)

=============================================================================
