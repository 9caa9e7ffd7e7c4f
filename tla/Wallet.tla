------------------------------- MODULE Wallet -------------------------------
(***************************************************************************)
(* The wallet participant of internal/module/payment/wallet.               *)
(*                                                                         *)
(* Tables: user_wallets (one row per user), wallet_holds (one row per AI   *)
(* run) and wallet_transactions (the ledger, ordered by id).  Every write  *)
(* operation runs inside a transaction of its caller and starts by locking *)
(* the wallet row FOR UPDATE, so an operation is one atomic step here; an  *)
(* operation that returns an error is rolled back by its caller and leaves *)
(* no trace.                                                               *)
(***************************************************************************)
EXTENDS Integers, Sequences, Functions

CONSTANTS Users,      \* user ids
          Runs,       \* AI run ids, the key of a hold
          Recharges,  \* recharge ids, a ledger source
          Codes,      \* redeem code ids, a ledger source
          Amounts,    \* amounts callers ask for, in wallet units
          MaxUnits    \* math.MaxInt64

ASSUME MaxUnitsAssumption == MaxUnits \in Nat \ {0}
ASSUME AmountsAssumption == Amounts \subseteq 1..MaxUnits

VARIABLES wallets,    \* user_wallets, by user
          holds,      \* wallet_holds, by run
          ledger      \* wallet_transactions in id order

walletVars == <<wallets, holds, ledger>>

Units == 0..MaxUnits

NoUser == "no user"

Source == ({"recharge"} \X Recharges) \cup ({"redeem_code"} \X Codes)
            \cup ({"ai_generate"} \X Runs)

WalletRow == [exists: BOOLEAN, balance: Units, totalRecharge: Units,
              totalConsume: Units, held: Units]

HoldRow == [user: Users \cup {NoUser}, held: Units, captured: Units,
            status: {"none", "active", "captured", "released"}]

LedgerRow == [user: Users, direction: {"in", "out"}, amount: 1..MaxUnits,
              before: Units, after: Units, source: Source]

WalletTypeOK ==
  /\ wallets \in [Users -> WalletRow]
  /\ holds \in [Runs -> HoldRow]
  /\ ledger \in Seq(LedgerRow)

NoWallet == [exists |-> FALSE, balance |-> 0, totalRecharge |-> 0,
             totalConsume |-> 0, held |-> 0]

NoHold == [user |-> NoUser, held |-> 0, captured |-> 0, status |-> "none"]

WalletInit ==
  /\ wallets = [u \in Users |-> NoWallet]
  /\ holds = [r \in Runs |-> NoHold]
  /\ ledger = <<>>

-----------------------------------------------------------------------------
(* The assertions the operations make on the rows they lock.               *)

\* lockOrCreateWalletForUpdate: the row, inserted with zero amounts if absent.
LockOrCreateWallet(u) == [wallets[u] EXCEPT !.exists = TRUE]

\* SELECT COALESCE(SUM(held_units), 0) ... WHERE status = 'active'.
ActiveHolds(hs, u) == {r \in Runs: hs[r].status = "active" /\ hs[r].user = u}

ActiveHoldTotal(hs, u) ==
  IF ActiveHolds(hs, u) = {} THEN 0
  ELSE SumFunction([r \in ActiveHolds(hs, u) |-> hs[r].held])

AssertActiveHoldTotal(hs, u, heldUnits) == ActiveHoldTotal(hs, u) = heldUnits

\* Fault: the source of a credit is looked for among the spending rows.
RowsOfSpending(src) ==
  {i \in DOMAIN ledger: ledger[i].source = src /\ ledger[i].direction = "out"}

\* The ledger rows of a source; the table has a unique key on the source.
RowsOf(src) == {i \in DOMAIN ledger: ledger[i].source = src}

ValidActiveHold(r, u) ==
  holds[r].user = u /\ holds[r].held > 0 /\ holds[r].captured = 0

ValidCapturedHold(r, u) ==
  /\ holds[r].user = u /\ holds[r].held = 0
  /\ IF holds[r].captured = 0
     THEN RowsOf(<<"ai_generate", r>>) = {}
     ELSE \E i \in DOMAIN ledger:
            /\ RowsOf(<<"ai_generate", r>>) = {i}
            /\ ledger[i].user = u /\ ledger[i].direction = "out"
            /\ ledger[i].amount = holds[r].captured
            /\ ledger[i].before - ledger[i].amount = ledger[i].after

ValidReleasedHold(r, u) ==
  /\ holds[r].user = u /\ holds[r].held = 0 /\ holds[r].captured = 0
  /\ RowsOf(<<"ai_generate", r>>) = {}

ValidRechargeCredit(u, rc, amount) ==
  \E i \in DOMAIN ledger:
    /\ RowsOf(<<"recharge", rc>>) = {i}
    /\ wallets[u].totalRecharge >= amount
    /\ wallets[u].held <= wallets[u].balance
    /\ ledger[i].user = u /\ ledger[i].direction = "in"
    /\ ledger[i].amount = amount
    /\ ledger[i].after = ledger[i].before + amount

\* Fault: a hold is raised against the whole balance.
AvailableWithHolds(w) == w.balance

Available(w) == w.balance - w.held

CreditFits(w, amount) ==
  w.balance <= MaxUnits - amount /\ w.totalRecharge <= MaxUnits - amount

\* A run's hold may be created, or raised while it is active.
Raisable(r, u) ==
  \/ holds[r].status = "none"
  \/ holds[r].status = "active" /\ ValidActiveHold(r, u)

-----------------------------------------------------------------------------
(* Operations.                                                             *)

\* Fault: a spending row repeats balance_before as balance_after.
AppendRowStaleAfter(u, direction, amount, before, after, src) ==
  ledger' = Append(ledger, [user |-> u, direction |-> direction,
                            amount |-> amount, before |-> before,
                            after |-> IF direction = "in" THEN after ELSE before,
                            source |-> src])

AppendRow(u, direction, amount, before, after, src) ==
  ledger' = Append(ledger, [user |-> u, direction |-> direction,
                            amount |-> amount, before |-> before,
                            after |-> after, source |-> src])

CloseHold(r, captured, status) ==
  holds' = [holds EXCEPT ![r] = [user |-> @.user, held |-> 0,
                                 captured |-> captured, status |-> status]]

\* GetOrCreateWallet, outside any transaction.
GetOrCreateWallet(u) ==
  /\ ~wallets[u].exists
  /\ wallets' = [wallets EXCEPT ![u] = LockOrCreateWallet(u)]
  /\ UNCHANGED <<holds, ledger>>

\* ReserveHoldInTx and TopUpHoldInTx: raise the run's hold to `target`.  A
\* target at or below the present hold returns the hold and writes nothing.
ReserveHold(u, r, target) ==
  LET w == LockOrCreateWallet(u)
      delta == target - holds[r].held
  IN /\ w.held <= w.balance
     /\ AssertActiveHoldTotal(holds, u, w.held)
     /\ Raisable(r, u)
     /\ delta > 0
     /\ delta <= Available(w) /\ w.held <= MaxUnits - delta
     /\ holds' = [holds EXCEPT ![r] = [user |-> u, held |-> target,
                                       captured |-> 0, status |-> "active"]]
     /\ wallets' = [wallets EXCEPT ![u] = [w EXCEPT !.held = @ + delta]]
     /\ AssertActiveHoldTotal(holds', u, wallets'[u].held)
     /\ UNCHANGED ledger

\* CaptureHoldInTx: spend `actual` of the run's hold and free the rest.  The
\* replay of a capture with the same amount returns the stored facts.
CaptureHold(u, r, actual) ==
  LET w == wallets[u]
      h == holds[r]
  IN /\ w.exists /\ w.held <= w.balance
     /\ AssertActiveHoldTotal(holds, u, w.held)
     /\ h.status = "active" /\ ValidActiveHold(r, u)
     /\ actual <= h.held /\ h.held <= w.held /\ actual <= w.balance
     /\ actual > 0 => w.totalConsume <= MaxUnits - actual
     /\ IF actual = 0 THEN UNCHANGED ledger
        ELSE /\ RowsOf(<<"ai_generate", r>>) = {}
             /\ AppendRow(u, "out", actual, w.balance, w.balance - actual,
                          <<"ai_generate", r>>)
     /\ wallets' = [wallets EXCEPT ![u] =
                      [w EXCEPT !.balance = @ - actual,
                                !.totalConsume = @ + actual,
                                !.held = @ - h.held]]
     /\ CloseHold(r, actual, "captured")
     /\ AssertActiveHoldTotal(holds', u, wallets'[u].held)

\* Fault: the hold is released and the wallet keeps the amount held.
ReleaseHoldOnly(u, r) ==
  /\ wallets[u].exists
  /\ holds[r].status = "active" /\ ValidActiveHold(r, u)
  /\ CloseHold(r, 0, "released")
  /\ UNCHANGED <<wallets, ledger>>

\* ReleaseHoldInTx: free the run's whole hold.  The replay of a release
\* returns the stored hold.
ReleaseHold(u, r) ==
  LET w == wallets[u]
      h == holds[r]
  IN /\ w.exists /\ w.held <= w.balance
     /\ AssertActiveHoldTotal(holds, u, w.held)
     /\ h.status = "active" /\ ValidActiveHold(r, u)
     /\ h.held <= w.held
     /\ wallets' = [wallets EXCEPT ![u] = [w EXCEPT !.held = @ - h.held]]
     /\ CloseHold(r, 0, "released")
     /\ AssertActiveHoldTotal(holds', u, wallets'[u].held)
     /\ UNCHANGED ledger

\* What CreditRechargeInTx and CreditRedeemCodeInTx share.
Credit(u, src, amount) ==
  LET w == LockOrCreateWallet(u)
  IN /\ RowsOf(src) = {}
     /\ CreditFits(w, amount)
     /\ AppendRow(u, "in", amount, w.balance, w.balance + amount, src)
     /\ wallets' = [wallets EXCEPT ![u] =
                      [w EXCEPT !.balance = @ + amount,
                                !.totalRecharge = @ + amount]]
     /\ UNCHANGED holds

CreditRecharge(u, rc, amount) == Credit(u, <<"recharge", rc>>, amount)

CreditRedeemCode(u, c, amount) == Credit(u, <<"redeem_code", c>>, amount)

WalletNext ==
  \/ \E u \in Users: GetOrCreateWallet(u)
  \/ \E u \in Users, r \in Runs, n \in Amounts: ReserveHold(u, r, n)
  \/ \E u \in Users, r \in Runs, n \in Amounts \cup {0}: CaptureHold(u, r, n)
  \/ \E u \in Users, r \in Runs: ReleaseHold(u, r)
  \/ \E u \in Users, rc \in Recharges, n \in Amounts: CreditRecharge(u, rc, n)
  \/ \E u \in Users, c \in Codes, n \in Amounts: CreditRedeemCode(u, c, n)

WalletSpec == WalletInit /\ [][WalletNext]_walletVars

-----------------------------------------------------------------------------
(* Properties.                                                             *)

\* No wallet is overdrawn: what is held is covered by the balance, and the
\* balance is what came in less what was consumed.  reserveHold,
\* CaptureHoldInTx and the credits each keep their own columns of it.
WalletSolvent ==
  \A u \in Users:
    /\ wallets[u].held <= wallets[u].balance
    /\ wallets[u].balance = wallets[u].totalRecharge - wallets[u].totalConsume

\* The held_units of a wallet is the sum of its active holds, so that
\* assertActiveHoldTotal never fails and never blocks the account.
HoldTotalMatches ==
  \A u \in Users: AssertActiveHoldTotal(holds, u, wallets[u].held)

\* Every stored hold and every stored recharge row passes the validator that
\* a replay of its operation runs (validate*HoldFact,
\* validateRechargeCreditFact): a late duplicate is answered, not refused.
\* The rows of a wallet, in id order, chain balance_before to the preceding
\* balance_after and end at the wallet's balance; no source has two rows.
ReplayValidates ==
  /\ \A r \in Runs:
       CASE holds[r].status = "none" -> RowsOf(<<"ai_generate", r>>) = {}
         [] holds[r].status = "active" ->
              /\ ValidActiveHold(r, holds[r].user)
              /\ RowsOf(<<"ai_generate", r>>) = {}
         [] holds[r].status = "captured" -> ValidCapturedHold(r, holds[r].user)
         [] holds[r].status = "released" -> ValidReleasedHold(r, holds[r].user)
  /\ \A i \in DOMAIN ledger:
       ledger[i].source[1] = "recharge" =>
         ValidRechargeCredit(ledger[i].user, ledger[i].source[2],
                             ledger[i].amount)
  /\ \A i, j \in DOMAIN ledger: ledger[i].source = ledger[j].source => i = j
  /\ \A u \in Users:
       LET rows == {i \in DOMAIN ledger: ledger[i].user = u}
           EndsAt(i) == IF i = 0 THEN 0 ELSE ledger[i].after
           LastBelow(n) == CHOOSE i \in {0} \cup rows:
                             i < n /\ \A j \in rows: j < n => j <= i
       IN /\ \A i \in rows: ledger[i].before = EndsAt(LastBelow(i))
          /\ wallets[u].balance = EndsAt(LastBelow(Len(ledger) + 1))

\* What a wallet holds can be consumed without overflowing total_consume.
HeldChargeable ==
  \A u \in Users: wallets[u].held <= MaxUnits - wallets[u].totalConsume

\* A captured or released hold never changes again, and an active one keeps
\* its owner and is only raised until it is settled.
HoldsSettleOnce ==
  [][\A r \in Runs:
       CASE holds[r].status = "none" -> TRUE
         [] holds[r].status = "active" ->
              /\ holds'[r].user = holds[r].user
              /\ holds'[r].status = "active" => holds'[r].held >= holds[r].held
              /\ holds'[r].status # "none"
         [] OTHER -> holds'[r] = holds[r]]_walletVars

\* The sources whose money is in the ledger.
Credited ==
  {ledger[i].source: i \in {j \in DOMAIN ledger: ledger[j].direction = "in"}}

\* The wallet seen as the escrow account.
Account == INSTANCE Escrow WITH
  Owners <- Users,
  Purchases <- Runs,
  Sources <- Source,
  Money <- 1..MaxUnits,
  Nobody <- NoUser,
  available <- [u \in Users |-> wallets[u].balance - wallets[u].held],
  owner <- [r \in Runs |-> holds[r].user],
  reserved <- [r \in Runs |-> holds[r].held],
  paid <- [r \in Runs |-> IF holds[r].status \in {"captured", "released"}
                          THEN holds[r].captured ELSE -1],
  deposits <- Credited

\* Every operation of the repository is one step of the abstract account or
\* leaves it alone: no money appears, disappears or moves between owners.
ImplementsEscrow == Account!EscrowSpec
=============================================================================
