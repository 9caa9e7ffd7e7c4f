------------------------- MODULE ConversationContext -------------------------
(***************************************************************************)
(* What the AI context engine derives from one conversation, and what a    *)
(* reply is built from.  The messages are the truth.  Memories summarise a *)
(* prefix of the complete turns, each on top of the one before; points in  *)
(* the search index stand for single turns.  A reply reads both, commits a *)
(* plan that names what it read, and sends it after a last check.  Users   *)
(* edit and delete messages, and administrators take the context profile   *)
(* off the agent and put it back.                                          *)
(*                                                                         *)
(* A turn is named by its user message, whose ids ascend.  Contents do not *)
(* change, so a set of turns stands for the hash of their contents.        *)
(***************************************************************************)
EXTENDS Naturals, Sequences, FiniteSets

LOCAL INSTANCE FiniteSetsExt

CONSTANTS MaxTurns,         \* bound: turns of the conversation
          TurnTokens,       \* token bound of the text of each turn
          MemoryBudget,     \* KnownInputBudget of the model that writes memories
          PlanBudget,       \* KnownInputBudget of the model that replies
          MaxMemories,      \* bound: rows of ai_conversation_memories
          Builders,         \* worker goroutines that build memories
          MaxBuildRetry,    \* ContextMemoryBuildMaxRetry
          ChatScenes        \* complete turns to start with, events, bound on them

ASSUME ChatAssumption ==
  /\ MaxTurns \in Nat /\ TurnTokens \in [1..MaxTurns -> Nat \ {0}] /\ MaxBuildRetry \in Nat
  /\ MemoryBudget \in Nat /\ PlanBudget \in Nat
  /\ \A scene \in ChatScenes : scene.start \in Nat

VARIABLES turn,        \* ai_messages, ai_reply_commands and ai_runs of each turn
          bound,       \* ai_agents.context_profile_id is set
          memories,    \* ai_conversation_memories, in the order of their ids
          buildTask,   \* messages that order a memory
          builder,     \* BuildMemory under way
          pointed,     \* turns with a point in the active collection
          indexing,    \* turns whose point is about to be written
          cleaning,    \* turns whose point is to be removed: waiting, or checked
          plan,        \* the context plan of each reply under way
          chatScene, chatEvents

chatVars == <<turn, bound, memories, buildTask, builder, pointed, indexing, cleaning, plan,
              chatScene, chatEvents>>

Turns == 1..MaxTurns
NoTurn == [state |-> "none", user |-> FALSE, answer |-> FALSE, seen |-> 0]
NoBuild == [at |-> "rest", work |-> [parent |-> 0, turns |-> {}], result |-> "none"]
NoPlan == [at |-> "none", profiled |-> FALSE, memory |-> 0, degraded |-> FALSE,
           history |-> {}, recalled |-> {}]

ChatInit ==
  /\ chatScene \in ChatScenes /\ chatEvents = 0
  /\ turn = [t \in Turns |-> IF t <= chatScene.start
               THEN [state |-> "complete", user |-> TRUE, answer |-> TRUE, seen |-> t] ELSE NoTurn]
  /\ bound = TRUE /\ memories = <<>> /\ buildTask = <<>>
  /\ builder = [w \in Builders |-> NoBuild]
  /\ pointed = {} /\ indexing = {} /\ cleaning = [waiting |-> {}, checked |-> {}]
  /\ plan = [t \in Turns |-> NoPlan]

Happens(event) ==
  /\ event \in chatScene.events /\ chatEvents < chatScene.faults
  /\ chatEvents' = chatEvents + 1

SetPlan(t, p) == plan' = [plan EXCEPT ![t] = p]
SetBuilder(w, b) == builder' = [builder EXCEPT ![w] = b]

(***************************************************************************)
(* Turns and memories as they are read.                                    *)
(***************************************************************************)
\* completeRowsQuery: both messages are visible and the reply succeeded, or was
\* stopped with an answer.
Complete == {t \in Turns : turn[t].state = "complete" /\ turn[t].user /\ turn[t].answer}

SentTurns == {t \in Turns : turn[t].state # "none"}
NextTurn == Cardinality(SentTurns) + 1
Active == {t \in Turns : turn[t].state = "active"}

\* Of a set of turns, the bound of those up to the n-th.
TokensThrough[n \in 0..MaxTurns] ==
  [ts \in SUBSET Turns |->
     IF n = 0 THEN 0 ELSE TokensThrough[n - 1][ts] + (IF n \in ts THEN TurnTokens[n] ELSE 0)]

Tokens(ts) == TokensThrough[MaxTurns][ts]

From(m) == Min(m.turns)
Through(m) == Max(m.turns)
Ready == {i \in DOMAIN memories : memories[i].state = "ready"}

\* latestReadyMemory, by what it covers and then by id; 0 for none.
NewestMemory(ids) == IF ids = {} THEN 0
               ELSE CHOOSE i \in ids : \A j \in ids \ {i} :
                      \/ Through(memories[i]) > Through(memories[j])
                      \/ Through(memories[i]) = Through(memories[j]) /\ i > j

\* What a memory stands for, its own turns and those of its parents.
Coverage[i \in 0..Len(memories)] ==
  IF i = 0 THEN {} ELSE memories[i].turns \cup Coverage[memories[i].parent]

\* LatestReadyMemory: a ready row counts when its parent does and ends before it.
Grounded[i \in 0..Len(memories)] ==
  \/ i = 0
  \/ /\ i \in Ready /\ Grounded[memories[i].parent]
     /\ memories[i].parent # 0 => From(memories[i]) > Through(memories[memories[i].parent])

LatestReadyMemory == NewestMemory({i \in Ready : Grounded[i]})

(***************************************************************************)
(* Users.                                                                  *)
(***************************************************************************)
Asked(n) == [turn EXCEPT ![n] = [state |-> "active", user |-> TRUE, answer |-> FALSE, seen |-> 0]]

\* createReply looks at no other reply of the conversation.
Send ==
  /\ NextTurn \in Turns
  /\ "together" \in chatScene.events \/ Active = {}
  /\ turn' = Asked(NextTurn)
  /\ UNCHANGED <<bound, memories, buildTask, builder, pointed, indexing, cleaning, plan, chatScene, chatEvents>>

\* rejectActiveHistoryCommand
Quiet == Active = {}

\* The memories that end at or after the earliest anchor.
Invalidated(anchors) ==
  [i \in DOMAIN memories |->
     IF i \in Ready /\ anchors # {} /\ Through(memories[i]) >= Min(anchors)
     THEN [memories[i] EXCEPT !.state = "invalidated"] ELSE memories[i]]

\* What is derived from the hidden messages goes in their transaction, if the
\* agent has a profile; their points are removed after it, by messages that
\* the queue may not take.
Invalidate(users, answers) ==
  IF bound
  THEN /\ memories' = Invalidated(users \cup answers)
       /\ \/ cleaning' = [cleaning EXCEPT !.waiting = @ \cup (Complete \cap (users \cup answers))]
          \/ UNCHANGED cleaning /\ "unsent" \in chatScene.events
  ELSE UNCHANGED <<memories, cleaning>>

Hidden(users, answers) ==
  [t \in Turns |-> [turn[t] EXCEPT !.user = @ /\ t \notin users, !.answer = @ /\ t \notin answers]]

Visible(users, answers) == /\ users \subseteq {t \in Turns : turn[t].user}
                           /\ answers \subseteq {t \in Turns : turn[t].answer}

\* Revise and Regenerate: every message from the edited turn on is hidden, also
\* a late answer to an earlier one, and the question is asked again.
Edit(t) ==
  LET users == {u \in Turns : turn[u].user /\ u >= t}
      answers == {u \in Turns : turn[u].answer /\ turn[u].seen >= t}
  IN /\ Happens("edit") /\ (bound \/ "detached" \in chatScene.events)
     /\ Quiet /\ turn[t].user /\ NextTurn \in Turns
     /\ Invalidate(users, answers)
     /\ turn' = [Hidden(users, answers) EXCEPT ![NextTurn] =
                   [state |-> "active", user |-> TRUE, answer |-> FALSE, seen |-> 0]]
     /\ UNCHANGED <<bound, buildTask, builder, pointed, indexing, plan, chatScene>>

\* DeleteMessages, of one turn.
DeleteMessages(users, answers) ==
  /\ Happens("delete") /\ (bound \/ "detached" \in chatScene.events)
  /\ Quiet /\ Visible(users, answers) /\ users \cup answers # {}
  /\ Invalidate(users, answers)
  /\ turn' = Hidden(users, answers)
  /\ UNCHANGED <<bound, buildTask, builder, pointed, indexing, plan, chatScene>>

\* The profile is cleared, which nothing forbids, or put back.
SwitchProfile ==
  /\ Happens("rebind")
  /\ bound' = ~bound
  /\ UNCHANGED <<turn, memories, buildTask, builder, pointed, indexing, cleaning, plan, chatScene>>

(***************************************************************************)
(* Memories.                                                               *)
(***************************************************************************)
\* memoryTurnsAfterParent and selectMemoryPrefix: the oldest turns that bring
\* what is left down to the target.
Uncovered(parent) == {t \in Complete : parent = 0 \/ t > Through(memories[parent])}
Overfull(ts) == Tokens(ts) > MemoryBudget \div 4
Prefix(ts) == {t \in ts : Tokens({u \in ts : u >= t}) > MemoryBudget \div 8}

\* The finalizer of a reply orders a memory after its commit and the reconciler
\* again every second; an order that is on the queue, or archived, is the same
\* message.
OrderMemory ==
  LET parent == NewestMemory(Ready)
      left == Uncovered(parent)
      work == [parent |-> parent, turns |-> Prefix(left)]
  IN /\ bound /\ Overfull(left)
     /\ work \notin DOMAIN buildTask
     /\ buildTask' = [k \in DOMAIN buildTask \cup {work} |->
                        IF k = work THEN [state |-> "queued", retried |-> 0] ELSE buildTask[k]]
     /\ UNCHANGED <<turn, bound, memories, builder, pointed, indexing, cleaning, plan, chatScene, chatEvents>>

SetBuild(k, state, retried) == buildTask' = [buildTask EXCEPT ![k] = [state |-> state, retried |-> retried]]
Drop(k) == buildTask' = [j \in DOMAIN buildTask \ {k} |-> buildTask[j]]

\* validateMemoryRangeContinuity
Follows(k, parent) ==
  LET before == {t \in Complete : t < Min(k.turns)}
  IN IF parent = 0 THEN before = {}
     ELSE before # {} /\ Max(before) = Through(memories[parent])

\* Fault: the turns are not read again.
SourceAssumed(k) == TRUE

\* memoryTurnsForRange and MemorySourceSHA256
SourceStands(k) == k.turns = {t \in Complete : Min(k.turns) <= t /\ t <= Max(k.turns)}

Built(k) == \E i \in DOMAIN memories : memories[i].parent = k.parent /\ memories[i].turns = k.turns

\* A delivery that fails is repeated; the last one leaves a failed memory.
Fails(w, k) ==
  IF buildTask[k].retried < MaxBuildRetry
  THEN SetBuild(k, "queued", buildTask[k].retried + 1) /\ SetBuilder(w, NoBuild)
  ELSE SetBuild(k, "running", MaxBuildRetry) /\ SetBuilder(w, [at |-> "commit", work |-> k, result |-> "exhausted"])

\* LoadMemoryBuild.  A parent that is gone and a gap are errors, the rest that
\* does not fit is stale.
StartBuild(w, k) ==
  /\ buildTask[k].state = "queued" /\ builder[w].at = "rest"
  /\ IF Built(k) THEN Drop(k) /\ UNCHANGED builder
     ELSE IF k.parent \notin Ready \cup {0} THEN Fails(w, k)
     ELSE IF NewestMemory(Ready) # k.parent THEN Drop(k) /\ UNCHANGED builder
     ELSE IF ~Follows(k, k.parent) THEN Fails(w, k)
     ELSE IF ~SourceStands(k) THEN Drop(k) /\ UNCHANGED builder
     ELSE /\ SetBuild(k, "running", buildTask[k].retried)
          /\ SetBuilder(w, [at |-> "summarize", work |-> k, result |-> "none"])
  /\ UNCHANGED <<turn, bound, memories, pointed, indexing, cleaning, plan, chatScene, chatEvents>>

\* The provider writes the summary, refuses for good, or fails.
Summarize(w) ==
  LET b == builder[w]
  IN /\ b.at = "summarize"
     /\ \/ /\ SetBuilder(w, [b EXCEPT !.at = "commit", !.result = "ready"])
           /\ UNCHANGED <<buildTask, chatEvents>>
        \/ /\ SetBuilder(w, [b EXCEPT !.at = "commit", !.result = "failed"])
           /\ Happens("refused") /\ UNCHANGED buildTask
        \/ Fails(w, b.work) /\ Happens("provider")
     /\ UNCHANGED <<turn, bound, memories, pointed, indexing, cleaning, plan, chatScene>>

\* CommitMemory, which reads everything again under the lock of the
\* conversation; a row of the same identity stays as it is.
CommitMemory(w) ==
  LET b == builder[w]
      k == b.work
      stands == NewestMemory(Ready) = k.parent /\ Follows(k, k.parent) /\ SourceStands(k)
      row == [parent |-> k.parent, turns |-> k.turns,
              state |-> IF b.result = "ready" THEN "ready" ELSE "failed"]
  IN /\ b.at = "commit" /\ Len(memories) < MaxMemories
     /\ memories' = IF bound /\ stands /\ ~Built(k) THEN Append(memories, row) ELSE memories
     /\ IF b.result = "exhausted" \/ (bound /\ stands /\ b.result = "failed")
        THEN SetBuild(k, "archived", buildTask[k].retried) /\ SetBuilder(w, NoBuild)
        ELSE IF bound THEN Drop(k) /\ SetBuilder(w, NoBuild)
        ELSE Fails(w, k)
     /\ UNCHANGED <<turn, bound, pointed, indexing, cleaning, plan, chatScene, chatEvents>>

BuilderDies(w) ==
  LET k == builder[w].work
  IN /\ builder[w].at # "rest" /\ Happens("crash")
     /\ SetBuilder(w, NoBuild)
     /\ IF buildTask[k].retried < MaxBuildRetry THEN SetBuild(k, "queued", buildTask[k].retried + 1)
                                                ELSE SetBuild(k, "archived", MaxBuildRetry)
     /\ UNCHANGED <<turn, bound, memories, pointed, indexing, cleaning, plan, chatScene>>

(***************************************************************************)
(* Points of single turns.  Writing and removing take no lock.             *)
(***************************************************************************)
\* The finalizer and the reconciler order the indexing of every complete turn;
\* LoadConversationIndexWork reads it again.
LoadTurn(t) ==
  /\ "recall" \in chatScene.events /\ bound /\ t \in Complete /\ t \notin pointed
  /\ indexing' = indexing \cup {t}
  /\ UNCHANGED <<turn, bound, memories, buildTask, builder, pointed, cleaning, plan, chatScene, chatEvents>>

UpsertPoint(t) ==
  /\ t \in indexing
  /\ pointed' = pointed \cup {t} /\ indexing' = indexing \ {t}
  /\ UNCHANGED <<turn, bound, memories, buildTask, builder, cleaning, plan, chatScene, chatEvents>>

\* CleanupIndex: a turn that is visible keeps its point.
CheckPoint(t) ==
  /\ t \in cleaning.waiting
  /\ cleaning' = [waiting |-> cleaning.waiting \ {t},
                  checked |-> IF bound /\ t \in Complete THEN cleaning.checked ELSE cleaning.checked \cup {t}]
  /\ UNCHANGED <<turn, bound, memories, buildTask, builder, pointed, indexing, plan, chatScene, chatEvents>>

DeletePoint(t) ==
  /\ t \in cleaning.checked
  /\ cleaning' = [cleaning EXCEPT !.checked = @ \ {t}] /\ pointed' = pointed \ {t}
  /\ UNCHANGED <<turn, bound, memories, buildTask, builder, indexing, plan, chatScene, chatEvents>>

(***************************************************************************)
(* The plan of a reply.  Its parts are read one after the other.           *)
(***************************************************************************)
Boundary(p) == IF p.memory = 0 THEN 0 ELSE Through(memories[p.memory])

LoadFacts(t) ==
  /\ turn[t].state = "active" /\ plan[t].at = "none"
  /\ SetPlan(t, [NoPlan EXCEPT !.at = "memory", !.profiled = bound])
  /\ UNCHANGED <<turn, bound, memories, buildTask, builder, pointed, indexing, cleaning, chatScene, chatEvents>>

\* runtimeMemory: a memory that is due and not there degrades the plan.
ReadMemory(t) ==
  LET latest == IF plan[t].profiled THEN LatestReadyMemory ELSE 0
  IN /\ plan[t].at = "memory"
     /\ SetPlan(t, [plan[t] EXCEPT !.at = "history", !.memory = latest,
                      !.degraded = plan[t].profiled /\ latest = 0 /\ Tokens(Complete) > PlanBudget \div 4])
     /\ UNCHANGED <<turn, bound, memories, buildTask, builder, pointed, indexing, cleaning, chatScene, chatEvents>>

\* runtimeHistoryGroups: complete turns before the current one, newest first,
\* down to the memory or until the budget is spent.
ReadHistory(t) ==
  LET older == {u \in Complete : u < t /\ u > Boundary(plan[t])}
  IN /\ plan[t].at = "history"
     /\ SetPlan(t, [plan[t] EXCEPT !.history = {u \in older : Tokens({v \in older : v > u}) < PlanBudget},
                      !.at = IF plan[t].profiled /\ ~plan[t].degraded THEN "recall" ELSE "commit"])
     /\ UNCHANGED <<turn, bound, memories, buildTask, builder, pointed, indexing, cleaning, chatScene, chatEvents>>

\* Fault: the turn at the boundary counts as newer than the memory.
ComposedFrom(p, found) == {u \in found : u >= Boundary(p)} \ p.history

\* composeEvidenceGroups: what the memory or the history holds is left out.
Composed(p, found) == {u \in found : u > Boundary(p)} \ p.history

\* The index returns what it likes of its points; VerifyCandidates keeps the
\* complete turns.
Recall(t) ==
  /\ plan[t].at = "recall"
  /\ \E found \in SUBSET pointed :
       SetPlan(t, [plan[t] EXCEPT !.at = "commit", !.recalled = Composed(plan[t], found \cap Complete)])
  /\ UNCHANGED <<turn, bound, memories, buildTask, builder, pointed, indexing, cleaning, chatScene, chatEvents>>

\* GuardPlanCommitInTransaction and GuardDispatch read every source again.
Authorized(t) ==
  LET p == plan[t]
  IN /\ turn[t].state = "active" /\ turn[t].user /\ p.profiled = bound
     /\ p.history \cup p.recalled \subseteq Complete
     /\ p.memory # 0 => p.memory \in Ready /\ memories[p.memory].parent \in Ready \cup {0}

CommitPlan(t) ==
  /\ plan[t].at = "commit"
  /\ SetPlan(t, [plan[t] EXCEPT !.at = IF Authorized(t) THEN "ready" ELSE "refused"])
  /\ UNCHANGED <<turn, bound, memories, buildTask, builder, pointed, indexing, cleaning, chatScene, chatEvents>>

GuardDispatch(t) ==
  /\ plan[t].at = "ready"
  /\ SetPlan(t, [plan[t] EXCEPT !.at = IF Authorized(t) THEN "guarded" ELSE "refused"])
  /\ UNCHANGED <<turn, bound, memories, buildTask, builder, pointed, indexing, cleaning, chatScene, chatEvents>>

MarkDispatched(t) ==
  /\ plan[t].at = "guarded"
  /\ SetPlan(t, [plan[t] EXCEPT !.at = "sent"])
  /\ UNCHANGED <<turn, bound, memories, buildTask, builder, pointed, indexing, cleaning, chatScene, chatEvents>>

\* The reply ends: its answer is stored, or it fails, before or after it is
\* sent.
EndReply(t) ==
  /\ turn[t].state = "active"
  /\ \/ /\ plan[t].at = "sent" /\ UNCHANGED chatEvents
        /\ turn' = [turn EXCEPT ![t].state = "complete", ![t].answer = TRUE, ![t].seen = Max(SentTurns)]
     \/ /\ IF plan[t].at = "refused" THEN UNCHANGED chatEvents ELSE Happens("fail")
        /\ turn' = [turn EXCEPT ![t].state = "failed"]
  /\ SetPlan(t, NoPlan)
  /\ UNCHANGED <<bound, memories, buildTask, builder, pointed, indexing, cleaning, chatScene>>

\* The worker of a reply dies: the next one finds a committed plan, or none.
ReplyRestarts(t) ==
  /\ plan[t].at \notin {"none", "sent"} /\ Happens("crash")
  /\ SetPlan(t, IF plan[t].at \in {"ready", "guarded"} THEN [plan[t] EXCEPT !.at = "ready"]
                ELSE IF plan[t].at = "refused" THEN plan[t] ELSE NoPlan)
  /\ UNCHANGED <<turn, bound, memories, buildTask, builder, pointed, indexing, cleaning, chatScene>>

PlanStep(t) == LoadFacts(t) \/ ReadMemory(t) \/ ReadHistory(t) \/ Recall(t) \/ CommitPlan(t)
               \/ GuardDispatch(t) \/ MarkDispatched(t) \/ EndReply(t)

ChatNext ==
  \/ Send \/ SwitchProfile \/ OrderMemory
  \/ \E t \in Turns : \/ Edit(t) \/ PlanStep(t) \/ ReplyRestarts(t)
                      \/ LoadTurn(t) \/ UpsertPoint(t) \/ CheckPoint(t) \/ DeletePoint(t)
  \/ \E t \in Turns : \E users, answers \in SUBSET {t} : DeleteMessages(users, answers)
  \/ \E w \in Builders : \/ \E k \in DOMAIN buildTask : StartBuild(w, k)
                         \/ Summarize(w) \/ CommitMemory(w) \/ BuilderDies(w)

ChatSpec == ChatInit /\ [][ChatNext]_chatVars

(***************************************************************************)
(* Properties.                                                             *)
(***************************************************************************)
\* The ready memories are one chain without a fork, and each stands for exactly
\* the turns up to its last one that are still complete: whichever of two
\* builders commits first, and whatever is edited while a summary is written
\* (CommitMemory, invalidateInTransaction).
MemoryIsCurrent ==
  /\ \A i \in Ready :
       /\ memories[i].parent \in Ready \cup {0}
       /\ Coverage[i] = {t \in Complete : t <= Through(memories[i])}
  /\ \A i, j \in Ready : memories[i].parent = memories[j].parent => i = j

\* Until it is sent, a plan that was committed names a ready memory and turns
\* that are complete, each of them once, and what it leaves out the budget
\* leaves out (PersistTerminal, composeEvidenceGroups).
PlanStaysTrue ==
  \A t \in Turns : plan[t].at \in {"ready", "guarded", "sent"} =>
    LET p == plan[t]
        remembered == Coverage[p.memory]
    IN /\ p.history \cup p.recalled \subseteq Complete
       /\ p.memory \in Ready \cup {0}
       /\ remembered \cap p.history = {} /\ (remembered \cup p.history) \cap p.recalled = {}
       /\ Tokens(p.history) < PlanBudget => {u \in Complete : u < t} \subseteq remembered \cup p.history

\* A deleted message is in no request: not as a turn, and not in the memory of
\* a turn (invalidateInTransaction, validateDispatchMemory).
NothingHiddenIsSent ==
  \A t \in Turns : plan[t].at = "sent" =>
    Coverage[plan[t].memory] \cup plan[t].history \cup plan[t].recalled \subseteq Complete
=============================================================================
