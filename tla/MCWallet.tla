------------------------------ MODULE MCWallet ------------------------------
(* Finite instances of Wallet, alone with every caller it has, of RedeemCode *)
(* over it, of Pricing and of ContextPlan.  The initial state picks the      *)
(* instance by the limiter keys in use: none (the wallet alone), one user on *)
(* two platforms, or two users on one; or the pricing of a run, or the plan  *)
(* of its context.                                                           *)
EXTENDS RedeemCode, Pricing, ContextPlan, TLC

VARIABLE part

MCFingerprints == {[amount |-> 2, quantity |-> 1, expires |-> TRUE],
                   [amount |-> 2, quantity |-> 2, expires |-> FALSE]}

Rate(category, tier, price, scale) ==
  [category |-> category, tier |-> tier, price |-> price, scale |-> scale]

\* A flat book whose dearest prompt rate is that of cache writes, and a tiered
\* one; the scales of the rates differ.
MCBooks ==
  {[threshold |-> 0, scale |-> 12,
    rates |-> {Rate("input", "", 2, 3), Rate("output", "", 5, 3),
               Rate("cache_read", "", 1, 3), Rate("cache_write", "", 3, 4)}],
   [threshold |-> 4, scale |-> 12,
    rates |-> {Rate("input", "short_context", 1, 3), Rate("input", "long_context", 2, 3),
               Rate("cache_read", "", 1, 4), Rate("cache_write", "", 1, 1),
               Rate("output", "short_context", 3, 4), Rate("output", "long_context", 4, 4)}]}

Turn(id, tokens, attached) == [id |-> id, tokens |-> tokens, attached |-> attached]
Memory(state, tokens, through) == [state |-> state, tokens |-> tokens, through |-> through]
Passage(document, ordinal, content, score, tokens) ==
  [kind |-> "passage", document |-> document, last |-> ordinal, shows |-> {content},
   score |-> score, tokens |-> tokens]
Past(id, score, tokens) ==
  [kind |-> "turn", document |-> 0, last |-> 0, shows |-> {id}, score |-> score, tokens |-> tokens]

\* Budgets from one that the core facts exceed to one that holds nearly all; a
\* file on either page of the history; a memory of the oldest turn.
MCPlanRequests ==
  {[budget |-> budget, instruction |-> 1, tools |-> tools, text |-> text, attached |-> attached,
    memory |-> memory, turns |-> turns, profile |-> memory.state # "none", sources |-> sources]:
     budget \in {2, 6, 9}, tools \in {0, 1}, text \in {0, 2}, attached \in BOOLEAN,
     memory \in {Memory("none", 0, 0), Memory("off", 0, 0), Memory("missing", 0, 0), Memory("ready", 2, 1)},
     turns \in {<<>>, <<Turn(2, 1, TRUE), Turn(1, 1, FALSE)>>,
               <<Turn(3, 3, FALSE), Turn(2, 1, TRUE), Turn(1, 2, TRUE)>>},
     sources \in BOOLEAN}
\* A message has text or a file, and sources come with a profile.
MCPlans == {q \in MCPlanRequests: (q.text > 0 \/ q.attached) /\ (q.sources => q.profile)}

\* Nothing; neighbours that merge, and one content in two documents; and a turn
\* found twice before passages with equal scores.
MCFindings ==
  {<<>>,
   <<Passage(1, 1, 51, 3, 1), Passage(1, 2, 52, 3, 1), Past(2, 2, 1), Passage(2, 1, 51, 1, 2)>>,
   <<Past(1, 3, 2), Passage(1, 1, 51, 2, 2), Past(1, 2, 2), Passage(2, 2, 53, 2, 1)>>}

Symmetry == Permutations(Users) \cup Permutations(Runs) \cup Permutations(Codes)
              \cup Permutations(Attempts) \cup Permutations(Admins)
              \cup Permutations(Platforms)

MCInit ==
  /\ RedeemInit /\ PricingInit /\ PlanInit
  /\ part \in {{}, {"pricing"}, {"plan"}} \cup {Platforms \X {u}: u \in Users}
                   \cup {{q} \X Users: q \in Platforms}
  /\ part # {"pricing"} => book.threshold = 0 /\ \A m \in Multipliers: multiplier <= m
  /\ part # {"plan"} => facts = (CHOOSE q \in PlanRequests: TRUE) /\ ready = {}

MCNext ==
  /\ UNCHANGED part
  /\ \/ /\ part = {"pricing"} /\ PricingNext /\ UNCHANGED <<redeemVars, planVars>>
     \/ /\ part = {"plan"} /\ PlanningNext /\ UNCHANGED <<redeemVars, pricingVars>>
     \/ /\ part \notin {{}, {"pricing"}, {"plan"}} /\ RedeemNext /\ UNCHANGED <<pricingVars, planVars>>
        /\ \A k \in Keys \ part: lock'[k] = "free"
        /\ \A p \in Attempts: attempt'[p] = Rest \/ attempt'[p].key \in part
     \/ /\ part = {} /\ WalletNext
        /\ UNCHANGED <<batches, codes, expired, admin, lock, failures, lapses,
                       attempt, faults, pricingVars, planVars>>

MCSpec == MCInit /\ [][MCNext]_<<part, redeemVars, pricingVars, planVars>>
=============================================================================
