------------------------------- MODULE MCWork -------------------------------
(* Finite instances of the background work: payment orders, the schedule of  *)
(* cron tasks, the lease of a job, notices, exports, billed tasks, the search *)
(* index of a context profile, and the context of a conversation.  They      *)
(* share no state: the initial state picks the part that moves, and the      *)
(* others stay in one initial state of theirs.                               *)
EXTENDS Payment, CronSchedule, JobLease, Notice, Export, BilledTask, ContextIndex,
        ConversationContext, TLC

CONSTANTS Parts

VARIABLE part

\* All recharges belong to one user.
OneOwner == [o \in Recharges |-> CHOOSE u \in Users: TRUE]

\* One order: its place in a listing does not matter.
OneOrder == [o \in Recharges |-> 0]

\* One document; a version of each id.
OneDocument == [v \in Revisions |-> 1]
Scene(start, happen, limit) == [start |-> start, events |-> happen, faults |-> limit]

\* What readers of a profile are promised, short of an outage of Qdrant; no
\* version activates between the snapshot comparison of a rebuild and its end.
CalmIndex ==
  {Scene("new", {"crash", "database"}, 2),
   Scene("built", {"operator", "provider", "create", "delete"}, 2),
   Scene("built", {"create", "crash", "stall", "invalid", "provider", "unsent", "outage"}, 2),
   Scene("built", {"operator", "cleanup", "database"}, 2),
   Scene("built", {"status", "create", "delete"}, 2)}

\* What a build and an indexing survive.
SettlingIndex ==
  {Scene("new", {"crash", "database", "stall", "hiccup"}, 1),
   Scene("built", {"operator", "create", "crash", "late"}, 2),
   Scene("built", {"create", "crash", "stall", "invalid", "provider", "unsent"}, 1)}

\* A long turn, a short one, and again: a memory of the first is due at two
\* turns, and one of the next two on top of it at three.
ChatTokens == <<4, 1, 4, 1>>

\* One reply at a time, and no edit while the profile is off.
CalmChat ==
  {Scene(2, {"edit", "delete", "refused", "crash"}, 1),
   Scene(2, {"rebind", "crash", "provider"}, 2),
   Scene(2, {"edit", "fail", "crash"}, 2),
   Scene(3, {"edit", "rebind"}, 2),
   Scene(3, {"edit", "recall", "unsent"}, 1)}

OneChat == {Scene(2, {}, 0)}

DetachedChat == {Scene(2, {"rebind", "delete", "detached"}, 3)}

WorkSymmetry == Permutations(Requests) \cup Permutations(Couriers)
                  \cup Permutations(Hosts)
                  \cup Permutations(Executors)

WorkInit ==
  /\ PaymentInit /\ CronInit /\ JobInit /\ NoticeInit /\ ExportInit
  /\ TaskInit /\ IndexInit /\ ChatInit
  /\ part \in Parts
  /\ part # "cron" => \A j \in Jobs: ~cronRows[j].live
  /\ part # "task" => \A t \in Tasks: tasks[t].kind = CHOOSE k \in TaskKinds: TRUE
  /\ part # "index" => indexScene = CHOOSE scene \in IndexScenes: scene.start = "built"
  /\ part # "chat" => chatScene = CHOOSE scene \in ChatScenes: TRUE

WorkNext ==
  /\ UNCHANGED part
  /\ IF part = "payment" THEN PaymentNext ELSE UNCHANGED paymentVars
  /\ IF part = "cron" THEN CronNext ELSE UNCHANGED cronVars
  /\ IF part = "job" THEN JobNext ELSE UNCHANGED leaseVars
  /\ IF part = "notice" THEN NoticeNext ELSE UNCHANGED noticeVars
  /\ IF part = "export" THEN ExportNext ELSE UNCHANGED exportVars
  /\ IF part = "task" THEN TaskNext ELSE UNCHANGED taskVars
  /\ IF part = "index" THEN IndexNext ELSE UNCHANGED contextVars
  /\ IF part = "chat" THEN ChatNext ELSE UNCHANGED chatVars

workVars == <<part, paymentVars, cronVars, leaseVars, noticeVars, exportVars, taskVars,
              contextVars, chatVars>>

WorkSpec == WorkInit /\ [][WorkNext]_workVars

\* Only the part that moves owes anything.
FairWorkSpec ==
  /\ WorkSpec
  /\ \/ part \in {"job", "chat"}
     \/ part = "payment" /\ CronFairness
     \/ part = "cron" /\ SchedulerFairness
     \/ part = "notice" /\ NoticeFairness
     \/ part = "export" /\ ExportFairness
     \/ part = "task" /\ TaskFairness
     \/ part = "index" /\ IndexFairness
=============================================================================
