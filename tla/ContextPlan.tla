----------------------------- MODULE ContextPlan -----------------------------
(***************************************************************************)
(* The context of one reply, from the facts of its run to the messages     *)
(* that are sent (internal/module/ai/contextengine: retrieval.go,          *)
(* runtime_*.go, packer.go, planner.go, types.go).                         *)
(*                                                                         *)
(* Core facts, the memory, the recent turns and what a search found become *)
(* groups, which enter the plan whole or not at all; the plan is validated *)
(* and kept, and compiled into messages.  A failed search degrades the     *)
(* plan.  What a text says is a name; what counts is what a plan shows.    *)
(***************************************************************************)
EXTENDS Integers, Sequences, FiniteSets, SequencesExt

CONSTANTS PlanRequests,    \* facts of a run, see PlanInit
          Findings,        \* what a search finds, in fusion order
          MergeLimit,      \* EmbeddingMaxInputTokens of the profile
          HistoryPage,     \* turns read at a time: 16 in the code
          PolicyTokens,    \* tokens of the instruction of a degraded plan
          SeparatorTokens  \* tokens of the text between merged passages

\* A message has text or a file; turns have ids, the newest first, and a search
\* finds contents with their scores, passages under other names than turns.
ASSUME PlanAssumption ==
  /\ MergeLimit \in Nat /\ HistoryPage \in Nat /\ PolicyTokens \in Nat /\ SeparatorTokens \in Nat
  /\ \A q \in PlanRequests:
       /\ q.budget \in Nat /\ q.instruction \in Nat /\ q.tools \in Nat /\ q.text \in Nat
       /\ q.attached \in BOOLEAN /\ q.profile \in BOOLEAN /\ q.sources \in BOOLEAN
       /\ q.text > 0 \/ q.attached
       /\ q.memory.state \in {"none", "off", "missing", "ready"}
       /\ q.memory.tokens \in Nat /\ q.memory.through \in Nat
       /\ q.turns \in Seq([id: Nat \ {0}, tokens: Nat, attached: BOOLEAN])
       /\ \A i, j \in DOMAIN q.turns: i < j => q.turns[j].id < q.turns[i].id
  /\ Findings \subseteq Seq([kind: {"passage", "turn"}, document: Nat, last: Nat,
                            shows: SUBSET Nat, score: Nat, tokens: Nat])
  /\ \A f \in Findings: \A i \in DOMAIN f:
       \E s \in f[i].shows:
         /\ f[i].shows = {s}
         /\ f[i].kind = "passage" => s # 0 /\ \A q \in PlanRequests: \A j \in DOMAIN q.turns: q.turns[j].id # s

VARIABLES facts,    \* RuntimeFacts, the memory and the turns
          found,    \* RuntimeEvidence, or why there is none
          ready,    \* the attachments of older turns that are still available
          contextPlan,
          prompt,   \* infraai.ChatInput
          at        \* how far the reply is

planVars == <<facts, found, ready, contextPlan, prompt, at>>

NoEvidence == [outcome |-> "skipped", candidates |-> <<>>]
NoContextPlan == [state |-> "none", outcome |-> "none", bound |-> 0, proof |-> "none", items |-> <<>>]
NoScore == 0 - 1

\* facts: the input budget, the tokens of the system prompt and of the tools
\* (0 for none), of the message (0 for no text), whether it carries a file,
\* the memory with the last turn it covers, the complete turns from the
\* newest, and whether the agent has a profile and the profile sources.
PlanInit ==
  /\ facts \in PlanRequests /\ found = NoEvidence
  /\ ready \in {{}, {facts.turns[i].id: i \in DOMAIN facts.turns}}
  /\ contextPlan = NoContextPlan /\ prompt = <<>> /\ at = "facts"

\* The elements of a set in a strict order.
Ordered(S, before(_, _)) ==
  [n \in 1..Cardinality(S) |-> CHOOSE x \in S: Cardinality({y \in S: before(y, x)}) = n - 1]

\* The elements at some places of a sequence.
Picked(elements, places) ==
  LET order == Ordered(places, <) IN [n \in DOMAIN order |-> elements[order[n]]]

-----------------------------------------------------------------------------
(* Groups.                                                                 *)

\* A block shows turns, named by their ids, passages, named by other numbers,
\* or the summary of a memory.
Summary == 0
Block(kind, tokens, shows) == [kind |-> kind, tokens |-> tokens, shows |-> shows]

\* A group is named so that the names order as the stable ids do.
Group(id, required, priority, relevance, order, blocks) ==
  [id |-> id, required |-> required, priority |-> priority, relevance |-> relevance,
   order |-> order, reason |-> "none", blocks |-> blocks]

AgentRef == 1
PolicyRef == 2
MessageRef == 3
ToolRef == 4
MemoryRef == 5
TurnRef(id) == 10 + 2 * id
FoundRef(i) == 11 + 2 * i

\* The sum of the tokens at some places: all of them, counted.
Weight(places, tokens) == Cardinality(UNION {{p} \X (1..tokens[p]): p \in places})

TokensOf(blocks) == Weight(DOMAIN blocks, [i \in DOMAIN blocks |-> blocks[i].tokens])

\* runtimeCoreGroups.
CoreGroups ==
  (IF facts.instruction = 0 THEN {}
   ELSE {Group(AgentRef, TRUE, 1, NoScore, 0, <<Block("instruction", facts.instruction, {})>>)})
  \cup {Group(MessageRef, TRUE, 2, NoScore, 100,
              (IF facts.text = 0 THEN <<>> ELSE <<Block("user", facts.text, {})>>)
              \o (IF facts.attached THEN <<Block("attachment", 0, {})>> ELSE <<>>))}
  \cup (IF facts.tools = 0 THEN {}
        ELSE {Group(ToolRef, TRUE, 3, NoScore, 0, <<Block("tool", facts.tools, {})>>)})

\* runtimeMemory and memoryPackGroup: the turns up to a memory's last one.
Remembered == facts.profile /\ facts.memory.state = "ready"
MemoryBoundary == IF Remembered THEN facts.memory.through ELSE 0
MemoryGroups ==
  IF Remembered
  THEN {Group(MemoryRef, FALSE, 6, NoScore, MemoryBoundary,
              <<Block("memory", facts.memory.tokens, {Summary})>>)}
  ELSE {}

\* packGroupTokenCoverage: of every block of every group.
BlocksOf(groups) == UNION {{g} \X DOMAIN g.blocks: g \in groups}
CoverageOf(groups) ==
  Weight(BlocksOf(groups), [p \in BlocksOf(groups) |-> p[1].blocks[p[2]].tokens])

\* runtimeHistoryGroups: the turns after the memory, from the newest, until
\* their texts and the core facts fill the budget.
TurnTexts(turns, n) == FoldLeft(LAMBDA sum, t: sum + t.tokens, 0, SubSeq(turns, 1, n))
Read ==
  {i \in DOMAIN facts.turns:
     /\ \A j \in 1..i: facts.turns[j].id > MemoryBoundary
     /\ CoverageOf(CoreGroups) + TurnTexts(facts.turns, i - 1) < facts.budget}

\* The files of the first page go along; those of older turns must be there.
HistoryFails == \E i \in Read: i > HistoryPage /\ facts.turns[i].attached /\ facts.turns[i].id \notin ready

HistoryGroups ==
  {LET t == facts.turns[i]
   IN Group(TurnRef(t.id), FALSE, IF i = 1 THEN 4 ELSE 7, NoScore, t.id,
            <<Block("recent", t.tokens, {t.id})>>
            \o (IF t.attached /\ i <= HistoryPage THEN <<Block("history_attachment", 0, {})>> ELSE <<>>)):
   i \in Read}

-----------------------------------------------------------------------------
(* What a search found.                                                    *)

\* A candidate: the passages of a document or a turn of the conversation, its
\* fusion score and tokens.
IsPassage(c) == c.kind = "passage"

\* VerifyCandidates leaves complete turns of the conversation.
Verified(candidates) ==
  Picked(candidates, {i \in DOMAIN candidates:
    IsPassage(candidates[i]) \/ \E j \in DOMAIN facts.turns: facts.turns[j].id \in candidates[i].shows})

\* NormalizeVerifiedCandidates: the first of equal contents stays.
Deduplicated(candidates) ==
  LET first(i) == \A j \in 1..(i - 1): candidates[j].kind # candidates[i].kind
                                         \/ candidates[j].shows # candidates[i].shows
  IN Picked(candidates, {i \in DOMAIN candidates: first(i)})

\* canMergeCandidates: a single passage that follows the last one.
Mergeable(left, right) ==
  /\ IsPassage(left) /\ IsPassage(right) /\ left.document = right.document
  /\ left.last + 1 = right.last
  /\ left.tokens + SeparatorTokens + right.tokens <= MergeLimit

MergedWith(left, right) ==
  [left EXCEPT !.last = right.last, !.shows = @ \cup right.shows,
               !.tokens = @ + SeparatorTokens + right.tokens]

\* One more candidate after those merged so far.
MergedInto(done, c) ==
  IF done # <<>> /\ Mergeable(Last(done), c)
  THEN Append(Front(done), MergedWith(Last(done), c)) ELSE Append(done, c)

Merged(candidates) ==
  LET done[n \in 0..Len(candidates)] == IF n = 0 THEN <<>> ELSE MergedInto(done[n - 1], candidates[n])
  IN done[Len(candidates)]

Normalized(candidates) == Merged(Deduplicated(candidates))

\* applyRerank: what the reranker keeps, in the order of its scores.
Reranked(candidates, score) ==
  LET before(i, j) == score[i] > score[j] \/ (score[i] = score[j] /\ i < j)
      kept == Ordered({i \in DOMAIN candidates: score[i] > 0}, before)
  IN [n \in DOMAIN kept |-> candidates[kept[n]]]

\* retrievalPackGroups.
EvidenceGroup(candidates, i) ==
  LET c == candidates[i]
  IN Group(FoundRef(i), FALSE, IF IsPassage(c) THEN 5 ELSE 8, c.score, i,
           <<Block(IF IsPassage(c) THEN "evidence" ELSE "recalled", c.tokens, c.shows)>>)

\* Fault: a turn is recalled although it is among the recent ones.
RecalledAgain(g) ==
  IF g.priority = 8 /\ MemoryBoundary > 0 /\ \E t \in g.blocks[1].shows: t <= MemoryBoundary
  THEN [g EXCEPT !.reason = "superseded_memory"] ELSE g

\* composeEvidenceGroups: a turn the memory covers or the history has is not
\* recalled.
Recalled(g) ==
  LET turns == g.blocks[1].shows
      superseded == MemoryBoundary > 0 /\ \E t \in turns: t <= MemoryBoundary
      repeated == \E h \in HistoryGroups: turns \subseteq h.blocks[1].shows
  IN [g EXCEPT !.reason = IF g.priority = 8 /\ superseded THEN "superseded_memory"
                          ELSE IF g.priority = 8 /\ repeated THEN "duplicate_content" ELSE "none"]

EvidenceGroups == {Recalled(EvidenceGroup(found.candidates, i)): i \in DOMAIN found.candidates}

\* degradedPackGroups with the instruction that says so.
Policy == Group(PolicyRef, TRUE, 1, NoScore, 0, <<Block("instruction", PolicyTokens, {})>>)
KeptWhenDegraded ==
  {"instruction", "user", "attachment", "recent", "memory", "tool"}
Degraded(groups) ==
  {g \in groups: \A i \in DOMAIN g.blocks: g.blocks[i].kind \in KeptWhenDegraded} \cup {Policy}

\* Materialize.
PlanGroups ==
  LET base == CoreGroups \cup MemoryGroups \cup HistoryGroups
  IN IF found.outcome = "degraded" THEN Degraded(base) ELSE base \cup EvidenceGroups

-----------------------------------------------------------------------------
(* Pack.                                                                   *)

Before(g, h) ==
  \/ g.priority < h.priority
  \/ /\ g.priority = h.priority
     /\ \/ g.relevance > h.relevance
        \/ /\ g.relevance = h.relevance
           /\ g.order > h.order \/ (g.order = h.order /\ g.id < h.id)

RequiredTokens(groups) == CoverageOf({g \in groups: g.required})

\* Fault: the budget is compared and not drawn down.
ChooseUndrawn(chosen, left, g) ==
  IF g.required \/ g.reason # "none" \/ TokensOf(g.blocks) > left
  THEN [chosen |-> chosen, left |-> left]
  ELSE [chosen |-> chosen \cup {g.id}, left |-> left]

Choose(chosen, left, g) ==
  IF g.required \/ g.reason # "none" \/ TokensOf(g.blocks) > left
  THEN [chosen |-> chosen, left |-> left]
  ELSE [chosen |-> chosen \cup {g.id}, left |-> left - TokensOf(g.blocks)]

\* What is required, and of the rest, one after the other, what still fits; and
\* what is left of the budget.
Selection(groups, budget) ==
  LET ranked == Ordered(groups, Before)
      taken[n \in 0..Len(ranked)] ==
        IF n = 0 THEN [chosen |-> {g.id: g \in {h \in groups: h.required}},
                       left |-> budget - RequiredTokens(groups)]
        ELSE Choose(taken[n - 1].chosen, taken[n - 1].left, ranked[n])
  IN taken[Len(ranked)]

ItemsOf(g, chosen) ==
  [i \in DOMAIN g.blocks |->
     [group |-> g.id, kind |-> g.blocks[i].kind, tokens |-> g.blocks[i].tokens, shows |-> g.blocks[i].shows,
      cite |-> 0,
      reason |-> IF g.id \in chosen THEN "none" ELSE IF g.reason # "none" THEN g.reason ELSE "budget_exceeded"]]

\* Selected evidence is numbered from one; 0 is no citation.
IsSelected(item) == item.reason = "none"
Cited(items) ==
  [i \in DOMAIN items |->
     [items[i] EXCEPT !.cite = IF IsSelected(items[i]) /\ items[i].kind = "evidence"
                               THEN Cardinality({j \in 1..i: IsSelected(items[j]) /\ items[j].kind = "evidence"})
                               ELSE 0]]

Packed(groups, budget) ==
  LET chosen == Selection(groups, budget).chosen
      ranked == Ordered(groups, Before)
  IN Cited(FlattenSeq([n \in DOMAIN ranked |-> ItemsOf(ranked[n], chosen)]))

SelectedItems(items) == Picked(items, {i \in DOMAIN items: IsSelected(items[i])})

-----------------------------------------------------------------------------
(* Plans.                                                                  *)

AttachmentKinds == {"attachment", "history_attachment"}
Opaque(items) == \E i \in DOMAIN items: IsSelected(items[i]) /\ items[i].kind \in AttachmentKinds

\* BuildPlan before its validation: runtimeBudget marks a message with a file.
Drafted ==
  LET groups == PlanGroups
      proof == IF facts.attached THEN "opaque" ELSE "conservative"
      items == Packed(groups, facts.budget)
  IN IF RequiredTokens(groups) > facts.budget
     THEN [state |-> "failed", outcome |-> "failed", bound |-> 0, proof |-> proof, items |-> <<>>]
     ELSE [state |-> "ready", outcome |-> found.outcome, bound |-> facts.budget - Selection(groups, facts.budget).left,
           proof |-> IF Opaque(items) THEN "opaque" ELSE proof, items |-> items]

\* ContextPlan.Validate with validateBudgetProof, validatePlanItems and
\* degradedPlanCarriesRetrievalEvidence.
CarriesEvidence(items) ==
  \E i \in DOMAIN items:
    \/ items[i].cite > 0
    \/ IsSelected(items[i]) /\ items[i].kind \in {"history_attachment", "recalled", "evidence"}

Valid(plan) ==
  /\ plan.bound <= facts.budget
  /\ (plan.proof = "opaque") = Opaque(plan.items)
  /\ plan.state = "ready" =>
       /\ plan.items # <<>>
       /\ plan.outcome = "degraded" => ~CarriesEvidence(plan.items)
       /\ plan.bound = TokensOf(SelectedItems(plan.items))
  /\ plan.state = "failed" => plan.items = <<>>

-----------------------------------------------------------------------------
(* Compilation.                                                            *)

Message(role, items) == [role |-> role, items |-> items]
KindIn(items, kinds) == Picked(items, {i \in DOMAIN items: items[i].kind \in kinds})
SystemKinds == {"instruction", "evidence", "recalled", "memory", "tool"}

\* Both halves of a turn, and the message with its files.
TurnMessages(items, id) ==
  LET turn == Picked(items, {i \in DOMAIN items: items[i].group = id})
  IN <<Message("user", turn), Message("assistant", KindIn(turn, {"recent"}))>>
MessageKinds == {"user", "attachment"}
UserMessage(items) == Message("user", KindIn(items, MessageKinds))

\* compileRolePreservingChatInput: instructions, the turns from the oldest,
\* the message.
RolePreserving(items) ==
  LET turns == Ordered({item.group: item \in Range(KindIn(items, {"recent"}))}, <)
      system == KindIn(items, SystemKinds)
  IN [n \in DOMAIN system |-> Message("system", <<system[n]>>)]
     \o FlattenSeq([n \in DOMAIN turns |-> TurnMessages(items, turns[n])])
     \o <<UserMessage(items)>>

\* compileLegacyChatInput: without a recent turn, the order of the plan; the
\* message stands where its first block does.
Opens(items, i) ==
  items[i].kind \in MessageKinds /\ \A j \in 1..(i - 1): items[j].kind \notin MessageKinds
Legacy(items) ==
  FlattenSeq([i \in DOMAIN items |->
    IF items[i].kind \in SystemKinds THEN <<Message("system", <<items[i]>>)>>
    ELSE IF Opens(items, i) THEN <<UserMessage(items)>> ELSE <<>>])

Compiled(items) ==
  IF KindIn(items, {"recent"}) # <<>> THEN RolePreserving(items) ELSE Legacy(items)

-----------------------------------------------------------------------------
(* A reply.                                                                *)

\* The memory a profile should have and has not ends the search before it
\* begins; so do no profile and no sources.
Unsearched ==
  /\ at = "facts" /\ ~HistoryFails
  /\ \/ /\ facts.profile /\ facts.memory.state = "missing"
        /\ found' = [NoEvidence EXCEPT !.outcome = "degraded"]
     \/ /\ ~(facts.profile /\ facts.memory.state = "missing") /\ ~(facts.profile /\ facts.sources)
        /\ UNCHANGED found
  /\ at' = "searched" /\ UNCHANGED <<facts, ready, contextPlan, prompt>>

Searching == at = "facts" /\ ~HistoryFails /\ facts.profile /\ facts.sources /\ facts.memory.state # "missing"

\* Retrieve, with or without a reranker.  No text is no query.
Retrieve(candidates, rerank) ==
  LET normalized == Normalized(Verified(candidates))
      kept == IF rerank = "off" THEN normalized ELSE Reranked(normalized, [i \in DOMAIN normalized |->
                IF rerank = "reversed" THEN i ELSE IF i = 1 THEN 0 ELSE 1])
  IN /\ Searching
     /\ found' = IF kept = <<>> \/ facts.text = 0 THEN [NoEvidence EXCEPT !.outcome = "no_hit"]
                 ELSE [outcome |-> "hit", candidates |-> kept]
     /\ at' = "searched" /\ UNCHANGED <<facts, ready, contextPlan, prompt>>

\* An enhancement fails: profile, embedding, index, search or reranker.
SearchFails ==
  /\ Searching
  /\ found' = [NoEvidence EXCEPT !.outcome = "degraded"]
  /\ at' = "searched" /\ UNCHANGED <<facts, ready, contextPlan, prompt>>

\* An older file is gone: ErrAttachmentUnavailable, which nothing degrades.
AttachmentUnavailable ==
  /\ at = "facts" /\ HistoryFails /\ at' = "unavailable"
  /\ UNCHANGED <<facts, found, ready, contextPlan, prompt>>

\* BuildPlan: an invalid plan is an error and nothing is kept.
BuildPlan ==
  /\ at = "searched"
  /\ IF Valid(Drafted) THEN contextPlan' = Drafted /\ at' = "planned"
     ELSE UNCHANGED contextPlan /\ at' = "refused"
  /\ UNCHANGED <<facts, found, ready, prompt>>

CompileChatInput ==
  /\ at = "planned" /\ contextPlan.state = "ready"
  /\ prompt' = Compiled(SelectedItems(contextPlan.items))
  /\ at' = "compiled" /\ UNCHANGED <<facts, found, ready, contextPlan>>

PlanningNext ==
  \/ Unsearched \/ SearchFails \/ AttachmentUnavailable \/ BuildPlan \/ CompileChatInput
  \/ \E f \in Findings, r \in {"off", "reversed", "but_first"}: Retrieve(f, r)

PlanningSpec == PlanInit /\ [][PlanningNext]_planVars
-----------------------------------------------------------------------------
(* Properties.                                                             *)

Outside(g) == \E i \in DOMAIN contextPlan.items:
                contextPlan.items[i].group = g.id /\ contextPlan.items[i].reason = "budget_exceeded"
Inside(g) == \E i \in DOMAIN contextPlan.items:
               contextPlan.items[i].group = g.id /\ IsSelected(contextPlan.items[i])

\* A plan keeps within its budget, holds every required group, and leaves out
\* for the budget only a group that does not fit beside the required ones and
\* those chosen before it: nothing is given up for less, whichever of skipped,
\* hit and degraded the plan is.  A group is in whole or out whole.  No facts
\* make the planner refuse its own plan but one case the README describes:
\* required groups above the budget in a message with a file.
PlanFits ==
  /\ at = "refused" => RequiredTokens(PlanGroups) > facts.budget /\ facts.attached
  /\ contextPlan.state = "failed" => RequiredTokens(PlanGroups) > facts.budget
  /\ contextPlan.state = "ready" =>
       LET inside == {g \in PlanGroups: Inside(g)}
       IN /\ CoverageOf(inside) <= facts.budget
          /\ {g \in PlanGroups: g.required} \subseteq inside
          /\ \A g \in PlanGroups: Outside(g) =>
               /\ g \notin inside
               /\ TokensOf(g.blocks) + CoverageOf({h \in inside: h.required \/ Before(h, g)}) > facts.budget

\* The items of a prompt; an answer of a turn is told with its question.
Told(messages) ==
  FlattenSeq([n \in DOMAIN messages |->
    IF messages[n].role = "assistant" THEN <<>> ELSE messages[n].items])

\* What is sent shows a turn or a passage once, however many of memory, recent
\* turns and search offered it, and no turn the memory covers; the
\* turns come from the oldest; the citations number the evidence
\* as it is sent, and a degraded plan sends none.
ToldOnce ==
  at = "compiled" =>
    LET sent == Told(prompt)
        evidence == KindIn(sent, {"evidence"})
        recent == KindIn(sent, {"recent"})
    IN /\ \A i, j \in DOMAIN sent: i # j => sent[i].shows \cap sent[j].shows = {}
       /\ \A i \in DOMAIN sent: sent[i].kind \in {"recent", "recalled"} =>
            \A t \in sent[i].shows: t > MemoryBoundary
       /\ Len(sent) = Len(SelectedItems(contextPlan.items))
       /\ \A i \in DOMAIN evidence: evidence[i].cite = i
       /\ \A i, j \in DOMAIN recent: i < j => recent[i].group < recent[j].group
       /\ contextPlan.outcome = "degraded" => KindIn(sent, {"evidence", "recalled"}) = <<>>
=============================================================================
