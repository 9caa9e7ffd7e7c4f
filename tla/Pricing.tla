------------------------------- MODULE Pricing -------------------------------
(***************************************************************************)
(* What an AI run may cost and what it does cost: the quote of a prepared  *)
(* request (internal/runtime/ai_billing_gateway.go), its check against the *)
(* locked snapshot (aigateway/quote_validator.go), the price of the usage  *)
(* and its shares (module/ai/pricing, aigateway/finalizer.go).             *)
(*                                                                         *)
(* A run makes one attempt after the other.  Before each, the bounds of    *)
(* the prepared request are priced at the dearest rates and the hold is    *)
(* raised to that on top of what the attempts before have used; at the end *)
(* the usage of all attempts is priced and captured from the hold.         *)
(***************************************************************************)
EXTENDS Integers, Sequences, FiniteSets, SequencesExt

CONSTANTS Books,           \* price books of snapshots, see Rates
          Multipliers,     \* billing multipliers, in parts of MultiplierScale
          MultiplierScale, \* a million in the code
          Windows,         \* context windows, in tokens
          MaxOutput,       \* EffectiveMaxOutputTokens of the snapshot
          Requests,        \* sizes of a request without the digits of its cap
          Radix,           \* base in which the cap is written: ten in the code
          Overruns,        \* tokens a provider may report above a bound
          MaxAttempts,     \* bound on the attempts of a run
          MaxPrice         \* math.MaxInt64

\* validatePricingSnapshot: no rate is negative or for no tokens; the scale of
\* a book only stands for the exact fractions of the code.
ASSUME PricingAssumption ==
  /\ MultiplierScale \in Nat \ {0} /\ Multipliers \subseteq Nat \ {0}
  /\ Windows \subseteq Nat /\ MaxOutput \in Nat /\ MaxPrice \in Nat
  /\ Requests \subseteq Nat /\ Overruns \subseteq Nat /\ Radix \in Nat \ {0}
  /\ \A b \in Books:
       /\ b.threshold \in Nat /\ b.scale \in Nat \ {0} /\ IsFiniteSet(b.rates)
       /\ \A r \in b.rates: r.price \in Nat /\ r.scale \in Nat \ {0} /\ b.scale % r.scale = 0

VARIABLES book, multiplier, window,  \* the pricing snapshot of the run
          bounds,    \* input and output bound of each attempt
          usage,     \* usage recorded of the attempts that succeeded
          target,    \* what the run holds
          bill       \* the settlement

pricingVars == <<book, multiplier, window, bounds, usage, target, bill>>

\* A rate is [category, tier, price, scale]; every line here is of tokens.
Categories == {"input", "output", "cache_read", "cache_write"}
Prompt == {"input", "cache_read", "cache_write"}
NoBill == [state |-> "none", units |-> 0, items |-> <<>>]

PricingInit ==
  /\ book \in Books /\ multiplier \in Multipliers /\ window \in Windows
  /\ bounds = <<>> /\ usage = <<>> /\ target = 0 /\ bill = NoBill

-----------------------------------------------------------------------------
(* Rates and tiers.                                                        *)

Rates == book.rates
RatesFor(category) == {r \in Rates: r.category = category}
HasTier(rates, tier) == \E r \in rates: r.tier = tier
Tiered(rates) == HasTier(rates, "short_context") /\ HasTier(rates, "long_context")

\* mostExpensive: prices per unit of different scales are compared crosswise.
MostExpensive(rates) ==
  CHOOSE r \in rates: \A s \in rates: s.price * r.scale <= r.price * s.scale

\* Fault: the prompt is reserved at the rate of plain input.
UpperRatesOfInput(category) == RatesFor(category)

\* A prompt bound may turn out as any of the categories of a prompt.
UpperRates(category) ==
  IF category = "input" THEN UNION {RatesFor(c): c \in Prompt} ELSE RatesFor(category)

\* UpperBoundLines; no rate at all is ErrPriceUnavailable.
UpperBoundLines(lines) ==
  [i \in DOMAIN lines |->
     IF RatesFor(lines[i].category) = {} THEN {} ELSE {MostExpensive(UpperRates(lines[i].category))}]

Total(numbers) ==
  LET sum[n \in 0..Len(numbers)] == IF n = 0 THEN 0 ELSE sum[n - 1] + numbers[n]
  IN sum[Len(numbers)]

\* The prompt tokens of the attempt of a line decide its tier.
PromptOf(lines, attempt) ==
  Total([i \in DOMAIN lines |->
           IF lines[i].attempt = attempt /\ lines[i].category \in Prompt THEN lines[i].quantity ELSE 0])

\* SettlementLines: the rate of each line, none when it cannot be told.
SettlementLines(lines) ==
  [i \in DOMAIN lines |->
     LET rates == RatesFor(lines[i].category)
         tier == IF PromptOf(lines, lines[i].attempt) > book.threshold
                 THEN "long_context" ELSE "short_context"
     IN IF book.threshold > 0 /\ Tiered(rates) THEN {r \in rates: r.tier = tier}
        ELSE IF Cardinality(rates) = 1 THEN rates ELSE {}]

-----------------------------------------------------------------------------
(* Quote: exact values, one rounding, and the shares of the lines.         *)

\* All values over one denominator; book.scale is a multiple of every scale.
Denominator == MultiplierScale * book.scale

Value(line, rate) ==
  line.quantity * rate.price * multiplier * (book.scale \div rate.scale)

RoundUp(n) == (n + Denominator - 1) \div Denominator

\* allocate: the floors, and one more for the largest remainders.  Lines come
\* here in the order that breaks ties.
Allocate(values, amount) ==
  LET floors == [i \in DOMAIN values |-> values[i] \div Denominator]
      left == amount - Total(floors)
      rest(i) == values[i] % Denominator
      before(i) == {j \in DOMAIN values:
                      rest(j) > rest(i) \/ (rest(j) = rest(i) /\ j < i)}
  IN [i \in DOMAIN values |-> floors[i] + IF Cardinality(before(i)) < left THEN 1 ELSE 0]

NoQuote == [ok |-> FALSE, units |-> 0, items |-> <<>>]

Quote(lines, selected) ==
  IF \E i \in DOMAIN lines: selected[i] = {} THEN NoQuote
  ELSE LET values == [i \in DOMAIN lines |-> Value(lines[i], CHOOSE r \in selected[i]: TRUE)]
           amount == RoundUp(Total(values))
       IN IF amount > MaxPrice THEN NoQuote
          ELSE [ok |-> TRUE, units |-> amount, items |-> Allocate(values, amount)]

\* The lines of the recorded usage; an item of no tokens is left out.
Line(attempt, category, quantity) ==
  IF quantity = 0 THEN <<>>
  ELSE <<[attempt |-> attempt, category |-> category, quantity |-> quantity]>>

AttemptLines(n, recorded) ==
  Line(n, "cache_read", recorded.cache_read) \o Line(n, "cache_write", recorded.cache_write)
    \o Line(n, "input", recorded.input) \o Line(n, "output", recorded.output)

UsageLines(recorded) == FlattenSeq([n \in DOMAIN recorded |-> AttemptLines(n, recorded[n])])

PriceUsage(recorded) ==
  LET lines == UsageLines(recorded) IN Quote(lines, SettlementLines(lines))

-----------------------------------------------------------------------------
(* A request is prepared.                                                  *)

Digits(n) == Cardinality({k \in 0..n: Radix ^ k <= n})

\* SafeInputUpperBoundFromRequest: the bytes of the request, the cap included.
InputBound(size, cap) == size + Digits(cap)

SafeOutput(input) == IF window - input < MaxOutput THEN window - input ELSE MaxOutput

\* prepareConverged: a cap whose request leaves just that cap, found in four
\* rounds, or none.
Converge(size) ==
  LET cap[round \in 0..4] ==
        IF round = 0 THEN MaxOutput ELSE SafeOutput(InputBound(size, cap[round - 1]))
  IN IF cap[4] = cap[3] /\ \A round \in 1..4: cap[round] > 0 THEN cap[4] ELSE 0

BoundLines(b) ==
  <<[attempt |-> 1, category |-> "input", quantity |-> b.input],
    [attempt |-> 2, category |-> "output", quantity |-> b.output]>>

QuoteBounds(b) == Quote(BoundLines(b), UpperBoundLines(BoundLines(b)))

\* PersistedQuoteValidator.ValidateQuote of a request with inline content.
ValidateQuote(b, units) ==
  /\ b.input > 0 /\ b.output > 0 /\ b.output <= MaxOutput
  /\ b.output = SafeOutput(b.input)
  /\ QuoteBounds(b).ok /\ QuoteBounds(b).units = units

CumulativeHoldTarget(prior, units) == prior + units

\* AssembleAndQuote, then ReserveAndPrepare under the lock of the run: what
\* was used is priced again and must be within the hold.
Prepare(size) ==
  LET cap == Converge(size)
      b == [input |-> InputBound(size, cap), output |-> cap]
      quote == QuoteBounds(b)
      prior == PriceUsage(usage)
      raised == CumulativeHoldTarget(prior.units, quote.units)
  IN /\ bill = NoBill /\ Len(bounds) = Len(usage) /\ Len(bounds) < MaxAttempts
     /\ cap > 0 /\ quote.ok /\ quote.units > 0
     /\ prior.ok /\ prior.units <= target
     /\ ValidateQuote(b, quote.units)
     /\ raised <= MaxPrice
     /\ bounds' = Append(bounds, b)
     /\ target' = IF target > raised THEN target ELSE raised
     /\ UNCHANGED <<book, multiplier, window, usage, bill>>

\* The provider answers; complete usage is recorded as it reports it.
Record(read, written, plain, output) ==
  /\ bill = NoBill /\ Len(usage) < Len(bounds)
  /\ usage' = Append(usage, [cache_read |-> read, cache_write |-> written,
                             input |-> plain, output |-> output])
  /\ UNCHANGED <<book, multiplier, window, bounds, target, bill>>

\* The attempt ends without an answer that counts.
Abandon ==
  /\ bill = NoBill /\ Len(usage) < Len(bounds)
  /\ bounds' = Front(bounds)
  /\ UNCHANGED <<book, multiplier, window, usage, target, bill>>

\* priceOrUnbilled with validateSettlementQuote.
Settle ==
  LET price == PriceUsage(usage)
      valid == \A i \in DOMAIN price.items: price.items[i] >= 0
  IN /\ bill = NoBill /\ Len(bounds) = Len(usage) /\ usage # <<>>
     /\ bill' = CASE ~price.ok -> [state |-> "unpriced", units |-> 0, items |-> <<>>]
                  [] price.ok /\ (~valid \/ Total(price.items) # price.units) ->
                       [state |-> "invalid", units |-> price.units, items |-> price.items]
                  [] OTHER -> [state |-> IF price.units > target THEN "over_hold" ELSE "captured",
                               units |-> price.units, items |-> price.items]
     /\ UNCHANGED <<book, multiplier, window, bounds, usage, target>>

PricingNext ==
  \/ \E size \in Requests: Prepare(size)
  \/ /\ bounds # <<>>
     /\ LET b == bounds[Len(bounds)] IN
        \E prompt \in {1, b.input} \cup {b.input + n: n \in Overruns},
           output \in {1, b.output} \cup {b.output + n: n \in Overruns}:
          \E read \in {0, prompt}, written \in {0, 1}:
            /\ read + written <= prompt
            /\ Record(read, written, prompt - read - written, output)
  \/ Abandon \/ Settle

PricingSpec == PricingInit /\ [][PricingNext]_pricingVars

-----------------------------------------------------------------------------
(* Properties.                                                             *)

WithinBounds(n) ==
  /\ usage[n].input + usage[n].cache_read + usage[n].cache_write <= bounds[n].input
  /\ usage[n].output <= bounds[n].output

\* A run whose provider keeps the bounds of its requests can always be paid
\* for: its usage never prices above the hold, whatever tiers, cache shares
\* and scales the rates have and however often one rounding was made where
\* two were reserved; the items of the settlement sum up to it and none is
\* off its exact value by a unit; no request is refused for what was used
\* before.  A bound that is priced too low shows only as an answer that is
\* given away (ai.billing.over_hold) or a run that cannot go on.
BillFitsHold ==
  (\A n \in DOMAIN usage: WithinBounds(n)) =>
    /\ PriceUsage(usage).units <= target
    /\ bill.state \in {"none", "captured"}
    /\ bill.state = "captured" =>
         LET lines == UsageLines(usage)
             value(i) == Value(lines[i], CHOOSE r \in SettlementLines(lines)[i]: TRUE)
         IN /\ Total(bill.items) = bill.units
            /\ \A i \in DOMAIN lines:
                 /\ bill.items[i] * Denominator < value(i) + Denominator
                 /\ value(i) < (bill.items[i] + 1) * Denominator
=============================================================================
