---------------------------- MODULE ContextIndex ----------------------------
(***************************************************************************)
(* The search index of one AI context profile.  MySQL holds the profile    *)
(* row (state, active and target generation), the documents and their      *)
(* versions; Qdrant holds one collection per generation and an alias; the  *)
(* queue delivers rebuilds of the profile and the indexing of versions; a  *)
(* reconciler repairs what the others left.                                *)
(***************************************************************************)
EXTENDS Naturals, FiniteSets

LOCAL INSTANCE FiniteSetsExt

CONSTANTS Revisions,        \* ids of document versions, a set of positive numbers
          DocumentOf,       \* the document of a version
          MaxGeneration,    \* bound: generations of the index
          Rebuilders,       \* worker goroutines that rebuild
          Indexers,         \* worker goroutines that index
          MaxIndexRetry,    \* DocumentIndexMaxRetry, and MaxRetry of a rebuild
          ReconcileBatch,   \* candidates one pass of the reconciler takes
          IndexScenes       \* starts, events, and bounds on failed calls, deaths, stalls

ASSUME IndexAssumption ==
  /\ IsFiniteSet(Revisions) /\ Revisions \subseteq Nat \ {0}
  /\ MaxGeneration \in Nat \ {0} /\ MaxIndexRetry \in Nat

VARIABLES profile,     \* index_state, active and target generation, 0 for NULL
          alias,       \* generation the alias points to, 0 for none
          points,      \* the versions in each collection that exists
          revision,    \* ai_context_document_versions
          document,    \* ai_context_documents
          rebuildTask, \* the profile's message on the queue
          rebuilder,   \* RebuildProfile under way
          indexTask,   \* the message of each version
          indexer,     \* IndexDocument under way
          repair,      \* reconcileProfileIndex under way
          removal,     \* CleanupIndex of a retired collection under way
          indexScene, indexFaults

contextVars == <<profile, alias, points, revision, document, rebuildTask, rebuilder,
                 indexTask, indexer, repair, removal, indexScene, indexFaults>>

ContextDocuments == {DocumentOf[v] : v \in Revisions}

ProfileIndex(state, active, target) == [state |-> state, active |-> active, target |-> target]
NoRevision == [state |-> "none", attempts |-> 0, live |-> FALSE]
NotQueued == [state |-> "none", retried |-> 0]
QueuedMessage == [state |-> "queued", retried |-> 0]
NoRebuild == [at |-> "rest", expected |-> ProfileIndex("none", 0, 0),
              next |-> ProfileIndex("none", 0, 0), snapshot |-> {}, adrift |-> FALSE]
NoIndexing == [at |-> "rest", version |-> 0, attempt |-> 0, generation |-> 0, adrift |-> FALSE]
NoRepair == [at |-> "rest", seen |-> ProfileIndex("none", 0, 0), plan |-> "none"]

\* A profile just created, or one that was built once, with the first version
\* of every document searchable.
OldestOf(d) == Min({v \in Revisions : DocumentOf[v] = d})

IndexInit ==
  /\ indexScene \in IndexScenes /\ indexFaults = 0
  /\ rebuilder = [w \in Rebuilders |-> NoRebuild]
  /\ indexer = [w \in Indexers |-> NoIndexing]
  /\ indexTask = [v \in Revisions |-> NotQueued]
  /\ repair = NoRepair /\ removal = 0
  /\ IF indexScene.start = "new"
     THEN /\ profile = ProfileIndex("provisioning", 0, 1)
          /\ alias = 0 /\ points = <<>> /\ rebuildTask = QueuedMessage
          /\ revision = [v \in Revisions |-> NoRevision]
          /\ document = [d \in ContextDocuments |-> [active |-> 0, enabled |-> TRUE, deleted |-> FALSE]]
     ELSE LET oldest == {OldestOf(d) : d \in ContextDocuments}
          IN /\ profile = ProfileIndex("ready", 1, 0)
             /\ alias = 1 /\ points = <<oldest>> /\ rebuildTask = NotQueued
             /\ revision = [v \in Revisions |-> IF v \in oldest
                              THEN [state |-> "ready", attempts |-> 1, live |-> FALSE]
                              ELSE NoRevision]
             /\ document = [d \in ContextDocuments |->
                              [active |-> OldestOf(d), enabled |-> TRUE, deleted |-> FALSE]]

IndexFault(event) ==
  /\ event \in indexScene.events /\ indexFaults < indexScene.faults
  /\ indexFaults' = indexFaults + 1

SetRebuilder(w, r) == rebuilder' = [rebuilder EXCEPT ![w] = r]
SetIndexer(w, x) == indexer' = [indexer EXCEPT ![w] = x]
SetRevision(v, r) == revision' = [revision EXCEPT ![v] = r]

\* Asynq puts a failed message back until its retries are used up; then it is
\* archived under its id.
Redelivered(m) ==
  IF m.retried < MaxIndexRetry THEN [state |-> "queued", retried |-> m.retried + 1]
                               ELSE [state |-> "archived", retried |-> m.retried]

\* EnqueueDocumentVersion: an id on the queue, archived or not, is a duplicate.
Enqueued(m) == IF m.state = "none" THEN QueuedMessage ELSE m

\* What LoadRebuildDocuments and ActiveDocumentVersionIDs read.
Promised == {document[d].active : d \in {e \in ContextDocuments :
               ~document[e].deleted /\ document[e].enabled /\ document[e].active # 0}}

HasCollection(g) == g \in DOMAIN points
PutPoints(g, vs) == points' = [h \in DOMAIN points \cup {g} |->
                      IF h # g THEN points[h] ELSE IF HasCollection(g) THEN points[g] \cup vs ELSE vs]
\* Qdrant drops an alias with its collection.
DropCollection(g) ==
  /\ points' = [h \in DOMAIN points \ {g} |-> points[h]]
  /\ alias' = IF alias = g THEN 0 ELSE alias

\* CompareAndSwapRebuildIndex
Swap(expected, next) == profile' = IF profile = expected THEN next ELSE profile

(***************************************************************************)
(* Administrators.                                                         *)
(***************************************************************************)
Assignable == profile.state = "ready" /\ profile.active # 0

\* CreateDocument, CreateDocumentVersion and ReindexDocument; ids ascend.  The
\* row stays when its message is not accepted.
CreateVersion(v) ==
  /\ "create" \in indexScene.events
  /\ revision[v].state = "none" /\ \A u \in Revisions : u < v => revision[u].state # "none"
  /\ IF v = OldestOf(DocumentOf[v]) THEN Assignable ELSE ~document[DocumentOf[v]].deleted
  /\ SetRevision(v, [NoRevision EXCEPT !.state = "queued"])
  /\ \/ indexTask' = [indexTask EXCEPT ![v] = Enqueued(@)] /\ UNCHANGED indexFaults
     \/ UNCHANGED indexTask /\ IndexFault("unsent")
  /\ UNCHANGED <<profile, alias, points, document, rebuildTask, rebuilder, indexer, repair, removal, indexScene>>

DeleteDocument(d) ==
  /\ "delete" \in indexScene.events /\ revision[OldestOf(d)].state # "none" /\ ~document[d].deleted
  /\ document' = [document EXCEPT ![d].deleted = TRUE]
  /\ UNCHANGED <<profile, alias, points, revision, rebuildTask, rebuilder, indexTask, indexer, repair, removal, indexScene, indexFaults>>

ChangeDocumentStatus(d) ==
  /\ IndexFault("status") /\ revision[OldestOf(d)].state # "none" /\ ~document[d].deleted
  /\ document' = [document EXCEPT ![d].enabled = ~@]
  /\ UNCHANGED <<profile, alias, points, revision, rebuildTask, rebuilder, indexTask, indexer, repair, removal, indexScene>>

\* The runbook's recovery: an operator puts the rebuild of a profile on the queue.
OrderRebuild ==
  /\ IndexFault("operator") /\ rebuildTask.state \in {"none", "archived"}
  /\ rebuildTask' = QueuedMessage
  /\ UNCHANGED <<profile, alias, points, revision, document, rebuilder, indexTask, indexer, repair, removal, indexScene>>

(***************************************************************************)
(* RebuildProfile.                                                         *)
(***************************************************************************)
\* beginProfileRebuild
Begun(p) ==
  CASE p.state = "ready"  -> ProfileIndex("rebuilding", p.active, p.active + 1)
    [] p.state = "failed" -> ProfileIndex("rebuilding", p.active, Max({p.active, p.target}) + 1)
    [] OTHER -> p

StartRebuild(w) ==
  /\ rebuildTask.state = "queued" /\ rebuilder[w].at = "rest"
  /\ Begun(profile).target <= MaxGeneration
  /\ rebuildTask' = [rebuildTask EXCEPT !.state = "running"]
  /\ SetRebuilder(w, [NoRebuild EXCEPT !.expected = profile, !.next = Begun(profile),
                        !.at = IF Begun(profile) = profile THEN "ensure" ELSE "begin"])
  /\ UNCHANGED <<profile, alias, points, revision, document, indexTask, indexer, repair, removal, indexScene, indexFaults>>

\* The handler returns; the message of one that lost its lease is another's.
Return(w, failed) ==
  /\ SetRebuilder(w, NoRebuild)
  /\ rebuildTask' = IF rebuilder[w].adrift THEN rebuildTask
                    ELSE IF failed THEN Redelivered(rebuildTask) ELSE NotQueued

BeginRebuild(w) ==
  LET r == rebuilder[w]
      swapped == ~r.adrift /\ profile = r.expected
  IN /\ r.at = "begin"
     /\ IF swapped THEN profile' = r.next ELSE UNCHANGED profile
     /\ IF swapped THEN SetRebuilder(w, [r EXCEPT !.at = "ensure"]) /\ UNCHANGED rebuildTask
                   ELSE Return(w, TRUE)
     /\ UNCHANGED <<alias, points, revision, document, indexTask, indexer, repair, removal, indexScene, indexFaults>>

\* EnsureCollection accepts a collection that exists; then the documents are read.
EnsureCollection(w) ==
  LET r == rebuilder[w]
  IN /\ r.at = "ensure" /\ ~r.adrift
     /\ PutPoints(r.next.target, {})
     /\ SetRebuilder(w, [r EXCEPT !.at = "populate", !.snapshot = Promised])
     /\ UNCHANGED <<profile, alias, revision, document, rebuildTask, indexTask, indexer, repair, removal, indexScene, indexFaults>>

Populate(w) ==
  LET r == rebuilder[w]
  IN /\ r.at = "populate" /\ ~r.adrift
     /\ r.snapshot = {} \/ HasCollection(r.next.target)
     /\ IF r.snapshot = {} THEN UNCHANGED points ELSE PutPoints(r.next.target, r.snapshot)
     /\ SetRebuilder(w, [r EXCEPT !.at = "compare"])
     /\ UNCHANGED <<profile, alias, revision, document, rebuildTask, indexTask, indexer, repair, removal, indexScene, indexFaults>>

\* Fault: what became active meanwhile is not compared.
PromisingUnread(r) == HasCollection(r.next.target)

\* ActiveDocumentVersionIDs and VerifyCollection
Promising(r) == r.snapshot = Promised /\ HasCollection(r.next.target)

Compare(w) ==
  LET r == rebuilder[w]
  IN /\ r.at = "compare" /\ ~r.adrift /\ Promising(r)
     /\ SetRebuilder(w, [r EXCEPT !.at = "switch"])
     /\ UNCHANGED <<profile, alias, points, revision, document, rebuildTask, indexTask, indexer, repair, removal, indexScene, indexFaults>>

SwitchToTarget(w) ==
  LET r == rebuilder[w]
  IN /\ r.at = "switch" /\ ~r.adrift /\ HasCollection(r.next.target)
     /\ alias' = r.next.target
     /\ SetRebuilder(w, [r EXCEPT !.at = "swap"])
     /\ UNCHANGED <<profile, points, revision, document, rebuildTask, indexTask, indexer, repair, removal, indexScene, indexFaults>>

\* The last CAS; after the switch an error leaves everything as it is.
FinishRebuild(w) ==
  LET r == rebuilder[w]
      ready == ProfileIndex("ready", r.next.target, 0)
  IN /\ r.at = "swap"
     /\ \/ /\ ~r.adrift /\ UNCHANGED indexFaults
           /\ Swap(r.next, ready) /\ Return(w, profile # r.next)
        \/ /\ r.adrift /\ UNCHANGED <<profile, indexFaults>> /\ Return(w, TRUE)
        \/ /\ ~r.adrift /\ IndexFault("database") /\ Return(w, TRUE)
           /\ \/ UNCHANGED profile
              \/ Swap(r.next, ready)
     /\ UNCHANGED <<alias, points, revision, document, indexTask, indexer, repair, removal, indexScene>>

\* Before the switch an error first deletes the target, then takes the profile
\* back, with a context that the lost lease does not cancel.
Hopeless(w) ==
  LET r == rebuilder[w]
  IN \/ r.adrift
     \/ r.at = "populate" /\ r.snapshot # {} /\ ~HasCollection(r.next.target)
     \/ r.at = "compare" /\ ~Promising(r)
     \/ r.at = "switch" /\ ~HasCollection(r.next.target)

FailRebuild(w) ==
  /\ rebuilder[w].at \in {"ensure", "populate", "compare", "switch"}
  /\ IF Hopeless(w) THEN UNCHANGED indexFaults ELSE IndexFault("provider")
  /\ SetRebuilder(w, [rebuilder[w] EXCEPT !.at = "delete"])
  /\ UNCHANGED <<profile, alias, points, revision, document, rebuildTask, indexTask, indexer, repair, removal, indexScene>>

DeleteTarget(w) ==
  LET r == rebuilder[w]
  IN /\ r.at = "delete"
     /\ DropCollection(r.next.target)
     /\ SetRebuilder(w, [r EXCEPT !.at = "failed"])
     /\ UNCHANGED <<profile, revision, document, rebuildTask, indexTask, indexer, repair, removal, indexScene, indexFaults>>

TakeBack(p) == IF p.active # 0 THEN ProfileIndex("ready", p.active, 0)
                               ELSE ProfileIndex("failed", 0, p.target)

FailProfile(w) ==
  /\ rebuilder[w].at = "failed"
  /\ Swap(rebuilder[w].next, TakeBack(rebuilder[w].next))
  /\ Return(w, TRUE)
  /\ UNCHANGED <<alias, points, revision, document, indexTask, indexer, repair, removal, indexScene, indexFaults>>

\* A worker dies, or stalls until its lease on the message is given up and the
\* message goes to another.
RebuilderStops(w) ==
  /\ rebuilder[w].at # "rest" /\ ~rebuilder[w].adrift
  /\ \/ IndexFault("crash") /\ SetRebuilder(w, NoRebuild)
     \/ IndexFault("stall") /\ SetRebuilder(w, [rebuilder[w] EXCEPT !.adrift = TRUE])
  /\ rebuildTask' = Redelivered(rebuildTask)
  /\ UNCHANGED <<profile, alias, points, revision, document, indexTask, indexer, repair, removal, indexScene>>

RebuilderStep(w) ==
  \/ StartRebuild(w) \/ BeginRebuild(w) \/ EnsureCollection(w) \/ Populate(w) \/ Compare(w)
  \/ SwitchToTarget(w) \/ FinishRebuild(w) \/ DeleteTarget(w) \/ FailProfile(w)
  \/ Hopeless(w) /\ FailRebuild(w)

(***************************************************************************)
(* IndexDocument.                                                          *)
(***************************************************************************)
\* A transaction that finds no document, or a database that does not answer,
\* leaves the version queued: the message alone is used up.
AcquireVersion(w, v) ==
  /\ indexTask[v].state = "queued" /\ indexer[w].at = "rest"
  /\ LET row == revision[v]
         busy == row.state = "processing" /\ row.live
         next == [state |-> "processing", attempts |-> row.attempts + 1, live |-> TRUE]
     IN \/ /\ row.state \in {"ready", "failed"} \/ busy
           /\ indexTask' = [indexTask EXCEPT ![v] = NotQueued]
           /\ UNCHANGED <<revision, indexer, indexFaults>>
        \/ /\ row.state \notin {"ready", "failed"} /\ ~busy /\ ~document[DocumentOf[v]].deleted
           /\ SetRevision(v, next)
           /\ SetIndexer(w, [at |-> "publish", version |-> v, attempt |-> next.attempts,
                             generation |-> profile.active, adrift |-> FALSE])
           /\ indexTask' = [indexTask EXCEPT ![v].state = "running"]
           /\ UNCHANGED indexFaults
        \/ /\ IF row.state \notin {"ready", "failed"} /\ ~busy /\ document[DocumentOf[v]].deleted
              THEN UNCHANGED indexFaults ELSE IndexFault("outage")
           /\ indexTask' = [indexTask EXCEPT ![v] = Redelivered(@)]
           /\ UNCHANGED <<revision, indexer>>
  /\ UNCHANGED <<profile, alias, points, document, rebuildTask, rebuilder, repair, removal, indexScene>>

\* CheckVersionLease
LeaseHeld(w) ==
  LET row == revision[indexer[w].version]
  IN row.state = "processing" /\ row.live /\ row.attempts = indexer[w].attempt

\* Upsert and VerifyPoints of every batch
PublishPoints(w) ==
  LET x == indexer[w]
  IN /\ x.at = "publish" /\ ~x.adrift /\ LeaseHeld(w) /\ HasCollection(x.generation)
     /\ PutPoints(x.generation, {x.version})
     /\ SetIndexer(w, [x EXCEPT !.at = "activate"])
     /\ UNCHANGED <<profile, alias, revision, document, rebuildTask, rebuilder, indexTask, repair, removal, indexScene, indexFaults>>

\* The row ends (FailVersion, or FinalizeVersion of the last delivery) and the
\* message is archived, or the message goes back and the lease stays.
IndexingEnds(w, permanent) ==
  LET x == indexer[w]
      v == x.version
      last == indexTask[v].retried = MaxIndexRetry
      ends == LeaseHeld(w) /\ ~x.adrift /\ (permanent \/ (last /\ x.attempt = MaxIndexRetry + 1))
  IN /\ IF ends THEN SetRevision(v, [revision[v] EXCEPT !.state = "failed", !.live = FALSE])
                ELSE UNCHANGED revision
     /\ indexTask' = IF x.adrift THEN indexTask
                     ELSE [indexTask EXCEPT ![v] = IF permanent /\ LeaseHeld(w)
                             THEN [@ EXCEPT !.state = "archived"] ELSE Redelivered(@)]
     /\ SetIndexer(w, NoIndexing)

\* Fault: the generation is not read again.
SameGenerationUnread(x) == TRUE

\* The generation the points went to must still be the active one.
SameGeneration(x) == profile.active = x.generation

ActivateVersion(w) ==
  LET x == indexer[w]
      v == x.version
      d == DocumentOf[v]
      ready == {u \in Revisions : DocumentOf[u] = d /\ revision[u].state = "ready"}
  IN /\ x.at = "activate" /\ ~x.adrift /\ LeaseHeld(w)
     /\ ~document[d].deleted /\ SameGeneration(x)
     /\ SetRevision(v, [revision[v] EXCEPT !.state = "ready", !.live = FALSE])
     /\ document' = [document EXCEPT ![d].active = Max(ready \cup {v})]
     /\ indexTask' = [indexTask EXCEPT ![v] = NotQueued]
     /\ SetIndexer(w, NoIndexing)
     /\ "late" \in indexScene.events \/ \A r \in Rebuilders : rebuilder[r].at \notin {"switch", "swap"}
     /\ UNCHANGED <<profile, alias, points, rebuildTask, rebuilder, repair, removal, indexScene, indexFaults>>

IndexingFails(w) ==
  LET x == indexer[w]
      stale == x.at = "activate" /\ ~SameGeneration(x)
      lost == \/ x.adrift \/ ~LeaseHeld(w)
              \/ x.at = "publish" /\ ~HasCollection(x.generation)
              \/ x.at = "activate" /\ document[DocumentOf[x.version]].deleted
  IN /\ x.at # "rest"
     /\ \/ (stale \/ lost) /\ IndexingEnds(w, stale) /\ UNCHANGED indexFaults
        \/ IndexFault("provider") /\ IndexingEnds(w, FALSE)
        \/ x.at = "publish" /\ IndexFault("invalid") /\ IndexingEnds(w, TRUE)
     /\ UNCHANGED <<profile, alias, points, document, rebuildTask, rebuilder, repair, removal, indexScene>>

IndexerStops(w) ==
  /\ indexer[w].at # "rest" /\ ~indexer[w].adrift
  /\ \/ IndexFault("crash") /\ SetIndexer(w, NoIndexing)
     \/ IndexFault("stall") /\ SetIndexer(w, [indexer[w] EXCEPT !.adrift = TRUE])
  /\ indexTask' = [indexTask EXCEPT ![indexer[w].version] = Redelivered(@)]
  /\ UNCHANGED <<profile, alias, points, revision, document, rebuildTask, rebuilder, repair, removal, indexScene>>

\* Five minutes pass; a handler that is well is through by then.
VersionLeaseLapses(v) ==
  /\ revision[v].live
  /\ \A w \in Indexers : indexer[w].version = v => indexer[w].adrift \/ indexer[w].attempt # revision[v].attempts
  /\ SetRevision(v, [revision[v] EXCEPT !.live = FALSE])
  /\ UNCHANGED <<profile, alias, points, document, rebuildTask, rebuilder, indexTask, indexer, repair, removal, indexScene, indexFaults>>

IndexerStep(w) ==
  \/ \E v \in Revisions : AcquireVersion(w, v)
  \/ PublishPoints(w) \/ ActivateVersion(w) \/ IndexingFails(w)

(***************************************************************************)
(* The reconciler.                                                         *)
(***************************************************************************)
\* Fault: only versions that never started.
CandidatesQueued ==
  LET waiting == {v \in Revisions : revision[v].state = "queued"}
  IN {v \in waiting : Cardinality({u \in waiting : u < v}) < ReconcileBatch}

\* ListReconcileCandidates: the lowest ids, up to the batch size.
Candidates ==
  LET waiting == {v \in Revisions : \/ revision[v].state = "queued"
                                    \/ revision[v].state = "processing" /\ ~revision[v].live}
  IN {v \in waiting : Cardinality({u \in waiting : u < v}) < ReconcileBatch}

ReconcileVersions ==
  LET spent == {v \in Candidates : /\ revision[v].state = "processing"
                                   /\ revision[v].attempts > MaxIndexRetry}
  IN /\ Candidates # {}
     /\ revision' = [v \in Revisions |-> IF v \in spent THEN [revision[v] EXCEPT !.state = "failed"]
                                                          ELSE revision[v]]
     /\ indexTask' = [v \in Revisions |-> IF v \in Candidates \ spent THEN Enqueued(indexTask[v])
                                                                       ELSE indexTask[v]]
     /\ UNCHANGED <<profile, alias, points, document, rebuildTask, rebuilder, indexer, repair, removal, indexScene, indexFaults>>

\* ListIndexConsistencyProfiles passes over a failed profile.
ListProfile ==
  /\ repair.at = "rest" /\ profile.state # "failed"
  /\ repair' = [at |-> "inspect", seen |-> profile, plan |-> "none"]
  /\ UNCHANGED <<profile, alias, points, revision, document, rebuildTask, rebuilder, indexTask, indexer, removal, indexScene, indexFaults>>

\* verifyProfileGeneration: the collection and every promised point are there.
Whole(g) == HasCollection(g) /\ Promised \subseteq points[g]

\* What to do about the row seen, when the generations in sound verify.
Diagnosis(seen, sound) ==
  IF seen.state # "ready" /\ alias = seen.target
  THEN IF seen.target \in sound THEN "finish"
       ELSE IF seen.active \in sound THEN "restore" ELSE "fail"
  ELSE IF seen.active = 0 THEN "none"
       ELSE IF seen.active \notin sound THEN "fail"
       ELSE IF alias # seen.active THEN "point" ELSE "none"

\* A verification that is not answered counts as one that failed.
InspectProfile ==
  LET sound == {g \in 1..MaxGeneration : Whole(g)}
  IN /\ repair.at = "inspect"
     /\ \/ /\ repair' = [repair EXCEPT !.at = "apply", !.plan = Diagnosis(repair.seen, sound)]
           /\ UNCHANGED indexFaults
        \/ \E answered \in SUBSET sound \ {sound} :
             /\ IndexFault("hiccup")
             /\ repair' = [repair EXCEPT !.at = "apply", !.plan = Diagnosis(repair.seen, answered)]
     /\ UNCHANGED <<profile, alias, points, revision, document, rebuildTask, rebuilder, indexTask, indexer, removal, indexScene>>

\* The row is compared again by the CAS; the alias is not.
ApplyRepair ==
  LET seen == repair.seen
      plan == repair.plan
  IN /\ repair.at = "apply"
     /\ CASE plan = "finish" -> Swap(seen, ProfileIndex("ready", seen.target, 0))
          [] plan = "fail" -> Swap(seen, [seen EXCEPT !.state = "failed"])
          [] OTHER -> UNCHANGED profile
     /\ IF plan \in {"point", "restore"} /\ HasCollection(seen.active) THEN alias' = seen.active
                                                                       ELSE UNCHANGED alias
     /\ repair' = IF plan = "restore" /\ HasCollection(seen.active) THEN [repair EXCEPT !.at = "restore"]
                                                                    ELSE NoRepair
     /\ UNCHANGED <<points, revision, document, rebuildTask, rebuilder, indexTask, indexer, removal, indexScene, indexFaults>>

RestoreActive ==
  /\ repair.at = "restore"
  /\ Swap(repair.seen, ProfileIndex("ready", repair.seen.active, 0))
  /\ repair' = NoRepair
  /\ UNCHANGED <<alias, points, revision, document, rebuildTask, rebuilder, indexTask, indexer, removal, indexScene, indexFaults>>

(***************************************************************************)
(* CleanupIndex of a retired collection, which an operator orders.         *)
(***************************************************************************)
Retired(g) == HasCollection(g) /\ g \notin {profile.active, profile.target, alias}

CheckRetired(g) ==
  /\ "cleanup" \in indexScene.events /\ removal = 0 /\ Retired(g)
  /\ removal' = g
  /\ UNCHANGED <<profile, alias, points, revision, document, rebuildTask, rebuilder, indexTask, indexer, repair, indexScene, indexFaults>>

DeleteRetired ==
  /\ removal # 0
  /\ DropCollection(removal) /\ removal' = 0
  /\ UNCHANGED <<profile, revision, document, rebuildTask, rebuilder, indexTask, indexer, repair, indexScene, indexFaults>>

RepairStep == ListProfile \/ InspectProfile \/ ApplyRepair \/ RestoreActive

IndexNext ==
  \/ \E v \in Revisions : CreateVersion(v) \/ VersionLeaseLapses(v)
  \/ \E d \in ContextDocuments : DeleteDocument(d) \/ ChangeDocumentStatus(d)
  \/ OrderRebuild
  \/ \E w \in Rebuilders : RebuilderStep(w) \/ FailRebuild(w) \/ RebuilderStops(w)
  \/ \E w \in Indexers : IndexerStep(w) \/ IndexerStops(w)
  \/ ReconcileVersions \/ RepairStep
  \/ \E g \in 1..MaxGeneration : CheckRetired(g)
  \/ DeleteRetired

IndexSpec == IndexInit /\ [][IndexNext]_contextVars

\* The queue delivers, a delivered message is worked on until it is dropped, a
\* lease runs out, and the reconciler polls every second.
IndexFairness ==
  /\ \A w \in Rebuilders : WF_contextVars(RebuilderStep(w))
  /\ \A w \in Indexers : WF_contextVars(IndexerStep(w))
  /\ \A v \in Revisions : WF_contextVars(VersionLeaseLapses(v))
  /\ WF_contextVars(ReconcileVersions) /\ WF_contextVars(RepairStep)

(***************************************************************************)
(* Properties.                                                             *)
(***************************************************************************)
\* A profile in use has its active collection, with the points of every
\* document it promises: rebuilds, their retries, the reconciler's unfenced
\* alias switches and the removal of retired collections take nothing away
\* from readers (RebuildProfile, reconcileProfileIndex, CleanupIndex).
SearchableWhenReady ==
  profile.state \in {"ready", "rebuilding"} /\ profile.active # 0 => Whole(profile.active)

\* A version that ended stays ended, and a document only moves on to a newer
\* version, one that is ready and in the active collection, whichever of two
\* workers finishes last (ActivateVersion, FailVersion, FinalizeVersion).
RevisionsOnlyAdvance ==
  [][/\ \A v \in Revisions : revision[v].state \in {"ready", "failed"} => revision'[v].state = revision[v].state
     /\ \A d \in ContextDocuments : document'[d].active # document[d].active =>
          /\ document'[d].active > document[d].active
          /\ revision'[document'[d].active].state = "ready"
          /\ HasCollection(profile.active) /\ document'[d].active \in points[profile.active]]_contextVars

\* A build ends with the alias at the active generation, whatever dies or errs
\* in between; one that spent all its deliveries still ends when it died after
\* the alias switch (reconcileProfileIndex).
IndexSettled == profile.state = "failed" \/ (profile.state = "ready" /\ alias = profile.active)
IndexSettles ==
  ~IndexSettled ~> (IndexSettled \/ (rebuildTask.state = "archived" /\ alias # profile.target))

\* Every version of a document that is kept becomes ready or failed, through
\* lost messages, dead workers and leases nobody holds (reconcile).
VersionsEnd ==
  \A v \in Revisions : revision[v].state \in {"queued", "processing"}
    ~> (revision[v].state \in {"ready", "failed"} \/ document[DocumentOf[v]].deleted)

\* Builds and indexings both end (reconcileProfileIndex, reconcile).
IndexConverges == IndexSettles /\ VersionsEnd
=============================================================================
