---------------------------- MODULE WalletProofs ----------------------------
(* Theorems about Wallet, for every set of users, runs and sources and every *)
(* width of the integers.                                                    *)
EXTENDS Wallet, TLAPS

USE MaxUnitsAssumption, AmountsAssumption

-----------------------------------------------------------------------------
(* Type correctness.                                                       *)

LEMMA LockTyped ==
  ASSUME WalletTypeOK, NEW u \in Users
  PROVE  /\ LockOrCreateWallet(u) \in WalletRow
         /\ LockOrCreateWallet(u).balance = wallets[u].balance
         /\ LockOrCreateWallet(u).held = wallets[u].held
         /\ LockOrCreateWallet(u).totalRecharge = wallets[u].totalRecharge
         /\ LockOrCreateWallet(u).totalConsume = wallets[u].totalConsume
         /\ LockOrCreateWallet(u).exists = TRUE
BY DEF WalletTypeOK, LockOrCreateWallet, WalletRow

LEMMA CreditTyped ==
  ASSUME WalletTypeOK, NEW u \in Users, NEW src \in Source,
         NEW n \in Amounts, Credit(u, src, n)
  PROVE  WalletTypeOK'
<1> DEFINE w == LockOrCreateWallet(u)
           row == [w EXCEPT !.balance = @ + n, !.totalRecharge = @ + n]
<1>1. w \in WalletRow
  BY LockTyped
<1>2. n \in 1..MaxUnits /\ w.balance + n \in Units /\ w.totalRecharge + n \in Units
  BY <1>1 DEF Credit, CreditFits, WalletRow, Units
<1>3. row \in WalletRow
  BY <1>1, <1>2 DEF WalletRow
<1>4. wallets' \in [Users -> WalletRow]
  BY <1>3 DEF Credit, WalletTypeOK
<1>5. [user |-> u, direction |-> "in", amount |-> n, before |-> w.balance,
       after |-> w.balance + n, source |-> src] \in LedgerRow
  BY <1>1, <1>2 DEF LedgerRow, WalletRow
<1>6. ledger' \in Seq(LedgerRow)
  BY <1>5 DEF Credit, AppendRow, WalletTypeOK
<1> QED
  BY <1>4, <1>6 DEF Credit, WalletTypeOK

LEMMA ReserveTyped ==
  ASSUME WalletTypeOK, NEW u \in Users, NEW r \in Runs, NEW n \in Amounts,
         ReserveHold(u, r, n)
  PROVE  WalletTypeOK'
<1> DEFINE w == LockOrCreateWallet(u)
           delta == n - holds[r].held
<1>1. w \in WalletRow /\ holds[r] \in HoldRow
  BY LockTyped DEF WalletTypeOK
<1>2. n \in Units /\ delta \in Int /\ delta > 0
  BY <1>1 DEF ReserveHold, HoldRow, Units
<1>3. w.held + delta \in Units
  BY <1>1, <1>2 DEF ReserveHold, WalletRow, Units
<1>4. [w EXCEPT !.held = @ + delta] \in WalletRow
  BY <1>1, <1>3 DEF WalletRow
<1>5. [user |-> u, held |-> n, captured |-> 0, status |-> "active"] \in HoldRow
  BY <1>2 DEF HoldRow, Units
<1> QED
  BY <1>4, <1>5 DEF ReserveHold, WalletTypeOK

LEMMA CaptureTyped ==
  ASSUME WalletTypeOK, NEW u \in Users, NEW r \in Runs,
         NEW n \in Amounts \cup {0}, CaptureHold(u, r, n)
  PROVE  WalletTypeOK'
<1> DEFINE w == wallets[u]
           h == holds[r]
<1>1. w \in WalletRow /\ h \in HoldRow
  BY DEF WalletTypeOK
<1>2. n \in Units /\ n <= h.held /\ h.held <= w.held /\ n <= w.balance
  BY <1>1 DEF CaptureHold, Units
<1>3. w.totalConsume + n \in Units
  BY <1>1, <1>2 DEF CaptureHold, WalletRow, Units
<1>4. w.balance - n \in Units /\ w.held - h.held \in Units
  BY <1>1, <1>2 DEF WalletRow, HoldRow, Units
<1>5. wallets' \in [Users -> WalletRow]
  <2> DEFINE row == [w EXCEPT !.balance = @ - n, !.totalConsume = @ + n,
                              !.held = @ - h.held]
  <2>1. row \in WalletRow
    BY <1>1, <1>3, <1>4 DEF WalletRow
  <2>2. wallets' = [wallets EXCEPT ![u] = row]
    BY DEF CaptureHold
  <2> QED
    BY <2>1, <2>2 DEF WalletTypeOK
<1>6. holds' \in [Runs -> HoldRow]
  <2>1. [user |-> h.user, held |-> 0, captured |-> n, status |-> "captured"]
          \in HoldRow
    BY <1>1, <1>2 DEF HoldRow, Units
  <2> QED
    BY <2>1 DEF CaptureHold, CloseHold, WalletTypeOK
<1>7. ledger' \in Seq(LedgerRow)
  <2>1. CASE n = 0
    BY <2>1 DEF CaptureHold, WalletTypeOK
  <2>2. CASE n # 0
    <3>1. [user |-> u, direction |-> "out", amount |-> n,
           before |-> w.balance, after |-> w.balance - n,
           source |-> <<"ai_generate", r>>] \in LedgerRow
      BY <1>1, <1>2, <1>4, <2>2 DEF LedgerRow, WalletRow, Units, Source
    <3>2. AppendRow(u, "out", n, w.balance, w.balance - n, <<"ai_generate", r>>)
      BY <2>2 DEF CaptureHold
    <3> QED
      BY <3>1, <3>2 DEF AppendRow, WalletTypeOK
  <2> QED
    BY <2>1, <2>2
<1> QED
  BY <1>5, <1>6, <1>7 DEF WalletTypeOK

LEMMA ReleaseTyped ==
  ASSUME WalletTypeOK, NEW u \in Users, NEW r \in Runs, ReleaseHold(u, r)
  PROVE  WalletTypeOK'
<1> DEFINE w == wallets[u]
           h == holds[r]
<1>1. w \in WalletRow /\ h \in HoldRow
  BY DEF WalletTypeOK
<1>2. w.held - h.held \in Units
  BY <1>1 DEF ReleaseHold, WalletRow, HoldRow, Units
<1>3. [w EXCEPT !.held = @ - h.held] \in WalletRow
  BY <1>1, <1>2 DEF WalletRow
<1>4. [user |-> h.user, held |-> 0, captured |-> 0, status |-> "released"]
        \in HoldRow
  BY <1>1 DEF HoldRow, Units
<1> QED
  BY <1>3, <1>4 DEF ReleaseHold, CloseHold, WalletTypeOK

LEMMA SourceTyped ==
  /\ \A rc \in Recharges: <<"recharge", rc>> \in Source
  /\ \A c \in Codes: <<"redeem_code", c>> \in Source
  /\ \A r \in Runs: <<"ai_generate", r>> \in Source
BY DEF Source

LEMMA WalletInitTyped == WalletInit => WalletTypeOK
BY DEF WalletInit, WalletTypeOK, NoWallet, NoHold, WalletRow, HoldRow, Units

\* One operation keeps every column within its type.
LEMMA WalletNextTyped ==
  ASSUME WalletTypeOK, [WalletNext]_walletVars
  PROVE  WalletTypeOK'
<1>1. ASSUME NEW u \in Users, GetOrCreateWallet(u) PROVE WalletTypeOK'
  BY <1>1, LockTyped DEF GetOrCreateWallet, WalletTypeOK
<1>2. ASSUME NEW u \in Users, NEW r \in Runs, NEW n \in Amounts,
             ReserveHold(u, r, n)
      PROVE  WalletTypeOK'
  BY <1>2, ReserveTyped
<1>3. ASSUME NEW u \in Users, NEW r \in Runs, NEW n \in Amounts \cup {0},
             CaptureHold(u, r, n)
      PROVE  WalletTypeOK'
  BY <1>3, CaptureTyped
<1>4. ASSUME NEW u \in Users, NEW r \in Runs, ReleaseHold(u, r)
      PROVE  WalletTypeOK'
  BY <1>4, ReleaseTyped
<1>5. ASSUME NEW u \in Users, NEW rc \in Recharges, NEW n \in Amounts,
             CreditRecharge(u, rc, n)
      PROVE  WalletTypeOK'
  BY <1>5, CreditTyped, SourceTyped DEF CreditRecharge
<1>6. ASSUME NEW u \in Users, NEW c \in Codes, NEW n \in Amounts,
             CreditRedeemCode(u, c, n)
      PROVE  WalletTypeOK'
  BY <1>6, CreditTyped, SourceTyped DEF CreditRedeemCode
<1>7. CASE UNCHANGED walletVars
  BY <1>7 DEF walletVars, WalletTypeOK
<1> QED
  BY <1>1, <1>2, <1>3, <1>4, <1>5, <1>6, <1>7 DEF WalletNext

\* Every column the wallet repository writes stays within its width: balances
\* and totals never leave 0..MaxUnits, whatever callers ask for.
THEOREM WalletTypeCorrect == WalletSpec => []WalletTypeOK
<1>1. WalletTypeOK /\ [WalletNext]_walletVars => WalletTypeOK'
  BY WalletNextTyped
<1> QED
  BY <1>1, WalletInitTyped, PTL DEF WalletSpec

-----------------------------------------------------------------------------
(* The ledger.                                                             *)

\* The ledger only grows: its rows keep their place and their source.
LEMMA AppendKeepsRows ==
  ASSUME ledger \in Seq(LedgerRow), NEW row, ledger' = Append(ledger, row)
  PROVE  /\ DOMAIN ledger' = DOMAIN ledger \cup {Len(ledger) + 1}
         /\ Len(ledger) + 1 \notin DOMAIN ledger
         /\ Len(ledger') = Len(ledger) + 1
         /\ \A i \in DOMAIN ledger: ledger'[i] = ledger[i]
         /\ ledger'[Len(ledger) + 1] = row
         /\ \A s: RowsOf(s)' = IF s = row.source THEN RowsOf(s) \cup {Len(ledger) + 1}
                              ELSE RowsOf(s)
<1>1. /\ DOMAIN ledger' = DOMAIN ledger \cup {Len(ledger) + 1}
      /\ Len(ledger) + 1 \notin DOMAIN ledger
      /\ Len(ledger') = Len(ledger) + 1
      /\ \A i \in DOMAIN ledger: ledger'[i] = ledger[i]
      /\ ledger'[Len(ledger) + 1] = row
  OBVIOUS
<1>2. ASSUME NEW s
      PROVE  RowsOf(s)' = IF s = row.source THEN RowsOf(s) \cup {Len(ledger) + 1}
                          ELSE RowsOf(s)
  BY <1>1 DEF RowsOf
<1> QED
  BY <1>1, <1>2

\* A credit appends its source's first row, and raises one wallet's totals.
LEMMA CreditRows ==
  ASSUME WalletTypeOK, NEW u \in Users, NEW src \in Source, NEW n \in Amounts,
         Credit(u, src, n)
  PROVE  /\ \A s: RowsOf(s)' = IF s = src THEN {Len(ledger) + 1} ELSE RowsOf(s)
         /\ DOMAIN ledger' = DOMAIN ledger \cup {Len(ledger) + 1}
         /\ \A i \in DOMAIN ledger: ledger'[i] = ledger[i]
         /\ LET row == ledger'[Len(ledger) + 1]
            IN /\ row.user = u /\ row.direction = "in" /\ row.amount = n
               /\ row.after = row.before + row.amount
         /\ wallets'[u].totalRecharge = wallets[u].totalRecharge + n
         /\ \A v \in Users \ {u}: wallets'[v] = wallets[v]
<1> DEFINE w == LockOrCreateWallet(u)
           new == [user |-> u, direction |-> "in", amount |-> n,
                   before |-> w.balance, after |-> w.balance + n, source |-> src]
<1>1. /\ ledger' = Append(ledger, new) /\ ledger \in Seq(LedgerRow)
      /\ new.source = src /\ new.user = u /\ new.direction = "in" /\ new.amount = n
      /\ new.after = new.before + new.amount
  BY DEF Credit, AppendRow, WalletTypeOK
<1> HIDE DEF new
<1>2. /\ DOMAIN ledger' = DOMAIN ledger \cup {Len(ledger) + 1}
      /\ \A i \in DOMAIN ledger: ledger'[i] = ledger[i]
      /\ ledger'[Len(ledger) + 1] = new
      /\ \A s: RowsOf(s)' = IF s = src THEN RowsOf(s) \cup {Len(ledger) + 1}
                           ELSE RowsOf(s)
  BY <1>1, AppendKeepsRows
<1>3. RowsOf(src) = {}
  BY DEF Credit
<1>4. w \in WalletRow /\ w.totalRecharge = wallets[u].totalRecharge
  BY LockTyped
<1>5. wallets' = [wallets EXCEPT ![u] = [w EXCEPT !.balance = @ + n,
                                                  !.totalRecharge = @ + n]]
  BY DEF Credit
<1>6. /\ wallets'[u].totalRecharge = wallets[u].totalRecharge + n
      /\ \A v \in Users \ {u}: wallets'[v] = wallets[v]
  BY <1>4, <1>5 DEF WalletTypeOK, WalletRow
<1> QED
  BY <1>1, <1>2, <1>3, <1>6

-----------------------------------------------------------------------------
(* Solvency.                                                               *)

LEMMA SolventInit == WalletInit => WalletSolvent
BY DEF WalletInit, WalletSolvent, NoWallet

\* A step that rewrites one wallet row keeps the others solvent.
LEMMA SolventStep ==
  ASSUME WalletTypeOK, WalletSolvent, NEW u \in Users, NEW row,
         wallets' = [wallets EXCEPT ![u] = row],
         row.held <= row.balance,
         row.balance = row.totalRecharge - row.totalConsume
  PROVE  WalletSolvent'
BY DEF WalletTypeOK, WalletSolvent

LEMMA WalletNextSolvent ==
  ASSUME WalletTypeOK, WalletSolvent, [WalletNext]_walletVars
  PROVE  WalletSolvent'
<1>1. ASSUME NEW u \in Users, GetOrCreateWallet(u) PROVE WalletSolvent'
  BY <1>1, LockTyped, SolventStep DEF GetOrCreateWallet, WalletSolvent
<1>2. ASSUME NEW u \in Users, NEW r \in Runs, NEW n \in Amounts,
             ReserveHold(u, r, n)
      PROVE  WalletSolvent'
  <2> DEFINE w == LockOrCreateWallet(u)
             delta == n - holds[r].held
             row == [w EXCEPT !.held = @ + delta]
  <2>1. w \in WalletRow /\ delta \in Int
    <3>1. w \in WalletRow
      BY LockTyped
    <3>2. holds[r] \in HoldRow
      BY DEF WalletTypeOK
    <3> QED
      BY <3>1, <3>2 DEF HoldRow, Units
  <2>2. w.balance = w.totalRecharge - w.totalConsume
    BY LockTyped DEF WalletSolvent
  <2>3. row.held <= row.balance
    BY <1>2, <2>1 DEF ReserveHold, Available, WalletRow, Units
  <2>4. row.balance = row.totalRecharge - row.totalConsume
    BY <2>1, <2>2 DEF WalletRow
  <2>5. wallets' = [wallets EXCEPT ![u] = row]
    BY <1>2 DEF ReserveHold
  <2> HIDE DEF row
  <2> QED
    BY <2>3, <2>4, <2>5, SolventStep
<1>3. ASSUME NEW u \in Users, NEW r \in Runs, NEW n \in Amounts \cup {0},
             CaptureHold(u, r, n)
      PROVE  WalletSolvent'
  <2> DEFINE w == wallets[u]
             h == holds[r]
             row == [w EXCEPT !.balance = @ - n, !.totalConsume = @ + n,
                              !.held = @ - h.held]
  <2>1. w \in WalletRow /\ h \in HoldRow /\ n \in Units
    BY DEF WalletTypeOK, Units
  <2>2. n <= h.held /\ w.held <= w.balance
    BY <1>3 DEF CaptureHold
  <2>3. row.held <= row.balance
    BY <2>1, <2>2 DEF WalletRow, HoldRow, Units
  <2>4. row.balance = row.totalRecharge - row.totalConsume
    BY <2>1 DEF WalletRow, Units, WalletSolvent
  <2>5. wallets' = [wallets EXCEPT ![u] = row]
    BY <1>3 DEF CaptureHold
  <2> HIDE DEF row
  <2> QED
    BY <2>3, <2>4, <2>5, SolventStep
<1>4. ASSUME NEW u \in Users, NEW r \in Runs, ReleaseHold(u, r)
      PROVE  WalletSolvent'
  <2> DEFINE w == wallets[u]
             h == holds[r]
             row == [w EXCEPT !.held = @ - h.held]
  <2>1. w \in WalletRow /\ h \in HoldRow
    BY DEF WalletTypeOK
  <2>2. row.held <= row.balance
    BY <1>4, <2>1 DEF ReleaseHold, WalletRow, HoldRow, Units
  <2>3. row.balance = row.totalRecharge - row.totalConsume
    BY <2>1 DEF WalletRow, WalletSolvent
  <2>4. wallets' = [wallets EXCEPT ![u] = row]
    BY <1>4 DEF ReleaseHold
  <2> HIDE DEF row
  <2> QED
    BY <2>2, <2>3, <2>4, SolventStep
<1>5. ASSUME NEW u \in Users, NEW src, NEW n \in Amounts, Credit(u, src, n)
      PROVE  WalletSolvent'
  <2> DEFINE w == LockOrCreateWallet(u)
             row == [w EXCEPT !.balance = @ + n, !.totalRecharge = @ + n]
  <2>1. w \in WalletRow /\ n \in Units
    <3>1. w \in WalletRow
      BY LockTyped
    <3>2. n \in Units
      BY DEF Units
    <3> QED
      BY <3>1, <3>2
  <2>2. w.held <= w.balance /\ w.balance = w.totalRecharge - w.totalConsume
    BY LockTyped DEF WalletSolvent
  <2>3. row.held <= row.balance
    BY <2>1, <2>2 DEF WalletRow, Units
  <2>4. row.balance = row.totalRecharge - row.totalConsume
    BY <2>1, <2>2 DEF WalletRow, Units
  <2>5. wallets' = [wallets EXCEPT ![u] = row]
    BY <1>5 DEF Credit
  <2> HIDE DEF row
  <2> QED
    BY <2>3, <2>4, <2>5, SolventStep
<1>6. CASE UNCHANGED walletVars
  BY <1>6 DEF walletVars, WalletSolvent
<1> QED
  BY <1>1, <1>2, <1>3, <1>4, <1>5, <1>6
     DEF WalletNext, CreditRecharge, CreditRedeemCode

\* No sequence of holds, captures, releases and credits overdraws a wallet,
\* and the three columns of its balance agree.
THEOREM WalletAlwaysSolvent == WalletSpec => []WalletSolvent
<1>1. WalletTypeOK /\ WalletSolvent /\ [WalletNext]_walletVars => WalletSolvent'
  BY WalletNextSolvent
<1> QED
  BY <1>1, SolventInit, WalletTypeCorrect, PTL DEF WalletSpec

\* Capturing what a wallet holds never overflows total_consume_units: a
\* solvent wallet has consumed at most what it received less what it holds.
THEOREM CaptureNeverOverflows == WalletSpec => []HeldChargeable
<1>1. WalletTypeOK /\ WalletSolvent => HeldChargeable
  BY DEF WalletTypeOK, WalletRow, Units, WalletSolvent, HeldChargeable
<1> QED
  BY <1>1, WalletTypeCorrect, WalletAlwaysSolvent, PTL

-----------------------------------------------------------------------------
(* The holds of a wallet.                                                  *)

\* Changing a hold that only u owns leaves the total of everyone else alone.
LEMMA OtherTotals ==
  ASSUME holds \in [Runs -> HoldRow], NEW u, NEW v, u # v,
         NEW r \in Runs, NEW row, row.user = u,
         holds[r].status = "active" => holds[r].user = u,
         holds' = [holds EXCEPT ![r] = row]
  PROVE  ActiveHoldTotal(holds', v) = ActiveHoldTotal(holds, v)
<1>1. ActiveHolds(holds', v) = ActiveHolds(holds, v)
  BY DEF ActiveHolds
<1>2. \A q \in ActiveHolds(holds, v): q \in Runs /\ q # r
  BY DEF ActiveHolds
<1>3. [q \in ActiveHolds(holds', v) |-> holds'[q].held]
        = [q \in ActiveHolds(holds, v) |-> holds[q].held]
  BY <1>1, <1>2
<1> QED
  BY <1>1, <1>3 DEF ActiveHoldTotal

\* A step that rewrites u's wallet row and a hold of u's, and whose last
\* assertActiveHoldTotal succeeds, keeps every total.
LEMMA TotalStep ==
  ASSUME WalletTypeOK, HoldTotalMatches, NEW u \in Users, NEW r \in Runs,
         NEW row, NEW hrow, hrow.user = u,
         holds[r].status = "active" => holds[r].user = u,
         wallets' = [wallets EXCEPT ![u] = row],
         holds' = [holds EXCEPT ![r] = hrow],
         AssertActiveHoldTotal(holds', u, wallets'[u].held)
  PROVE  HoldTotalMatches'
<1> SUFFICES ASSUME NEW v \in Users
             PROVE  ActiveHoldTotal(holds', v) = wallets'[v].held
  BY DEF HoldTotalMatches, AssertActiveHoldTotal
<1>1. CASE v = u
  BY <1>1 DEF AssertActiveHoldTotal
<1>2. CASE v # u
  <2>1. holds \in [Runs -> HoldRow]
    BY DEF WalletTypeOK
  <2>2. ActiveHoldTotal(holds', v) = ActiveHoldTotal(holds, v)
    BY <1>2, <2>1, OtherTotals
  <2>3. wallets'[v] = wallets[v]
    BY <1>2 DEF WalletTypeOK
  <2> QED
    BY <2>2, <2>3 DEF HoldTotalMatches, AssertActiveHoldTotal
<1> QED
  BY <1>1, <1>2

\* A step that leaves the holds alone and every held_units as it was keeps
\* every total.
LEMMA TotalUnchanged ==
  ASSUME WalletTypeOK, HoldTotalMatches, UNCHANGED holds,
         NEW u \in Users, NEW row, row.held = wallets[u].held,
         wallets' = [wallets EXCEPT ![u] = row]
  PROVE  HoldTotalMatches'
BY DEF WalletTypeOK, HoldTotalMatches, AssertActiveHoldTotal

LEMMA WalletNextTotals ==
  ASSUME WalletTypeOK, HoldTotalMatches, [WalletNext]_walletVars
  PROVE  HoldTotalMatches'
<1>1. ASSUME NEW u \in Users, GetOrCreateWallet(u) PROVE HoldTotalMatches'
  BY <1>1, LockTyped, TotalUnchanged DEF GetOrCreateWallet
<1>2. ASSUME NEW u \in Users, NEW r \in Runs, NEW n \in Amounts,
             ReserveHold(u, r, n)
      PROVE  HoldTotalMatches'
  <2> DEFINE row == [LockOrCreateWallet(u) EXCEPT !.held = @ + (n - holds[r].held)]
             hrow == [user |-> u, held |-> n, captured |-> 0,
                      status |-> "active"]
  <2>1. hrow.user = u
    OBVIOUS
  <2>2. holds[r].status = "active" => holds[r].user = u
    BY <1>2 DEF ReserveHold, Raisable, ValidActiveHold
  <2>3. /\ wallets' = [wallets EXCEPT ![u] = row]
        /\ holds' = [holds EXCEPT ![r] = hrow]
        /\ AssertActiveHoldTotal(holds', u, wallets'[u].held)
    BY <1>2 DEF ReserveHold
  <2> HIDE DEF row, hrow
  <2> QED
    BY <2>1, <2>2, <2>3, TotalStep
<1>3. ASSUME NEW u \in Users, NEW r \in Runs, NEW n \in Amounts \cup {0},
             CaptureHold(u, r, n)
      PROVE  HoldTotalMatches'
  <2> DEFINE row == [wallets[u] EXCEPT !.balance = @ - n,
                       !.totalConsume = @ + n, !.held = @ - holds[r].held]
             hrow == [user |-> holds[r].user, held |-> 0, captured |-> n,
                      status |-> "captured"]
  <2>1. hrow.user = u /\ holds[r].user = u
    BY <1>3 DEF CaptureHold, ValidActiveHold
  <2>2. holds' = [holds EXCEPT ![r] = hrow]
    BY <1>3 DEF CaptureHold, CloseHold
  <2>3. /\ wallets' = [wallets EXCEPT ![u] = row]
        /\ AssertActiveHoldTotal(holds', u, wallets'[u].held)
    BY <1>3 DEF CaptureHold
  <2> HIDE DEF row, hrow
  <2> QED
    BY <2>1, <2>2, <2>3, TotalStep
<1>4. ASSUME NEW u \in Users, NEW r \in Runs, ReleaseHold(u, r)
      PROVE  HoldTotalMatches'
  <2> DEFINE row == [wallets[u] EXCEPT !.held = @ - holds[r].held]
             hrow == [user |-> holds[r].user, held |-> 0, captured |-> 0,
                      status |-> "released"]
  <2>1. hrow.user = u /\ holds[r].user = u
    BY <1>4 DEF ReleaseHold, ValidActiveHold
  <2>2. holds' = [holds EXCEPT ![r] = hrow]
    BY <1>4 DEF ReleaseHold, CloseHold
  <2>3. /\ wallets' = [wallets EXCEPT ![u] = row]
        /\ AssertActiveHoldTotal(holds', u, wallets'[u].held)
    BY <1>4 DEF ReleaseHold
  <2> HIDE DEF row, hrow
  <2> QED
    BY <2>1, <2>2, <2>3, TotalStep
<1>5. ASSUME NEW u \in Users, NEW src, NEW n \in Amounts, Credit(u, src, n)
      PROVE  HoldTotalMatches'
  <2> DEFINE w == LockOrCreateWallet(u)
             row == [w EXCEPT !.balance = @ + n, !.totalRecharge = @ + n]
  <2>1. row.held = w.held
    <3>1. w \in WalletRow
      BY LockTyped
    <3> QED
      BY <3>1 DEF WalletRow
  <2>2. row.held = wallets[u].held
    BY <2>1, LockTyped
  <2>3. wallets' = [wallets EXCEPT ![u] = row] /\ UNCHANGED holds
    BY <1>5 DEF Credit
  <2> HIDE DEF row
  <2> QED
    BY <2>2, <2>3, TotalUnchanged
<1>6. CASE UNCHANGED walletVars
  BY <1>6 DEF walletVars, HoldTotalMatches, AssertActiveHoldTotal
<1> QED
  BY <1>1, <1>2, <1>3, <1>4, <1>5, <1>6
     DEF WalletNext, CreditRecharge, CreditRedeemCode

\* held_units is the sum of the active holds in every reachable state, so
\* the assertActiveHoldTotal an operation starts with always succeeds.
THEOREM HoldTotalAlwaysMatches == WalletSpec => []HoldTotalMatches
<1>1. WalletInit => HoldTotalMatches
  BY DEF WalletInit, NoWallet, NoHold, HoldTotalMatches, ActiveHolds,
         AssertActiveHoldTotal, ActiveHoldTotal
<1>2. WalletTypeOK /\ HoldTotalMatches /\ [WalletNext]_walletVars
        => HoldTotalMatches'
  BY WalletNextTotals
<1> QED
  BY <1>1, <1>2, WalletTypeCorrect, PTL DEF WalletSpec

-----------------------------------------------------------------------------
(* Settling holds and the escrow account.                                  *)

\* A settled hold never changes again and an active one keeps its owner: a
\* run is charged or released once, by the wallet it was reserved from.
THEOREM HoldsAlwaysSettleOnce == WalletSpec => HoldsSettleOnce
<1> DEFINE Step(r) ==
      CASE holds[r].status = "none" -> TRUE
        [] holds[r].status = "active" ->
             /\ holds'[r].user = holds[r].user
             /\ holds'[r].status = "active" => holds'[r].held >= holds[r].held
             /\ holds'[r].status # "none"
        [] OTHER -> holds'[r] = holds[r]
<1>1. ASSUME WalletTypeOK, [WalletNext]_walletVars, NEW r \in Runs
      PROVE  Step(r)
  <2>0. holds[r] \in HoldRow
    BY <1>1 DEF WalletTypeOK
  <2>1. ASSUME NEW u \in Users, NEW q \in Runs, NEW n \in Amounts,
               ReserveHold(u, q, n)
        PROVE  Step(r)
    <3>1. CASE q = r
      <4>1. holds'[r] = [user |-> u, held |-> n, captured |-> 0,
                         status |-> "active"]
        BY <1>1, <2>1, <3>1 DEF ReserveHold, WalletTypeOK
      <4>2. n > holds[r].held
        BY <2>0, <2>1, <3>1 DEF ReserveHold, HoldRow, Units
      <4>3. \/ holds[r].status = "none"
            \/ holds[r].status = "active" /\ holds[r].user = u
        BY <2>1, <3>1 DEF ReserveHold, Raisable, ValidActiveHold
      <4> QED
        BY <2>0, <4>1, <4>2, <4>3 DEF HoldRow, Units
    <3>2. CASE q # r
      BY <1>1, <2>0, <2>1, <3>2 DEF ReserveHold, WalletTypeOK, HoldRow, Units
    <3> QED
      BY <3>1, <3>2
  <2>2. ASSUME NEW q \in Runs, NEW n, NEW status \in {"captured", "released"},
               holds[q].status = "active", CloseHold(q, n, status)
        PROVE  Step(r)
    <3>1. CASE q = r
      BY <1>1, <2>2, <3>1 DEF CloseHold, WalletTypeOK
    <3>2. CASE q # r
      BY <1>1, <2>0, <2>2, <3>2 DEF CloseHold, WalletTypeOK, HoldRow, Units
    <3> QED
      BY <3>1, <3>2
  <2>3. ASSUME UNCHANGED holds PROVE Step(r)
    BY <2>0, <2>3 DEF HoldRow, Units
  <2> QED
    BY <1>1, <2>1, <2>2, <2>3
       DEF WalletNext, walletVars, GetOrCreateWallet, CaptureHold, ReleaseHold,
           CreditRecharge, CreditRedeemCode, Credit
<1>2. WalletTypeOK /\ [WalletNext]_walletVars => \A r \in Runs: Step(r)
  BY <1>1
<1>3. WalletTypeOK /\ [WalletNext]_walletVars
        => [\A r \in Runs: Step(r)]_walletVars
  BY <1>2
<1> QED
  BY <1>3, WalletTypeCorrect, PTL DEF WalletSpec, HoldsSettleOnce

\* Appending a row adds its source to the credited ones if money came in.
LEMMA CreditedAppend ==
  ASSUME WalletTypeOK, NEW row \in LedgerRow, ledger' = Append(ledger, row)
  PROVE  Credited' = IF row.direction = "in" THEN Credited \cup {row.source}
                     ELSE Credited
<1>1. /\ Len(ledger') = Len(ledger) + 1 /\ Len(ledger) \in Nat
      /\ \A i \in 1..Len(ledger): ledger'[i] = ledger[i]
      /\ ledger'[Len(ledger) + 1] = row
      /\ DOMAIN ledger = 1..Len(ledger)
      /\ DOMAIN ledger' = 1..(Len(ledger) + 1)
  BY DEF WalletTypeOK
<1> DEFINE last == Len(ledger) + 1
<1>2. \A i: i \in DOMAIN ledger' <=> i \in DOMAIN ledger \/ i = last
  BY <1>1
<1>3. \A i \in DOMAIN ledger: ledger'[i] = ledger[i]
  BY <1>1
<1>4. ledger'[last] = row /\ last \in DOMAIN ledger'
  BY <1>1
<1> HIDE DEF last
<1> QED
  BY <1>2, <1>3, <1>4 DEF Credited

LEMMA CreditedUnchanged ==
  ASSUME UNCHANGED ledger
  PROVE  Credited' = Credited
BY DEF Credited

LEMMA EscrowInitImplied == WalletInit => Account!EscrowInit
BY DEF WalletInit, NoWallet, NoHold, Account!EscrowInit, Credited,
       Account!Unsettled

LEMMA DepositStep ==
  ASSUME WalletTypeOK, NEW u \in Users, NEW src \in Source, NEW n \in Amounts,
         Credit(u, src, n)
  PROVE  Account!Deposit(u, src, n)
<1> DEFINE w == LockOrCreateWallet(u)
           row == [user |-> u, direction |-> "in", amount |-> n,
                   before |-> w.balance, after |-> w.balance + n,
                   source |-> src]
<1>1. w \in WalletRow
  BY LockTyped
<1>2. n \in 1..MaxUnits /\ w.balance + n \in Units
  BY <1>1 DEF Credit, CreditFits, WalletRow, Units
<1>3. row \in LedgerRow
  BY <1>1, <1>2 DEF LedgerRow, WalletRow
<1>4. ledger' = Append(ledger, row)
  BY DEF Credit, AppendRow
<1>5. Credited' = Credited \cup {src}
  BY <1>3, <1>4, CreditedAppend
<1>6. src \notin Credited
  BY DEF Credit, RowsOf, Credited
<1>7. [v \in Users |-> wallets'[v].balance - wallets'[v].held]
        = [[v \in Users |-> wallets[v].balance - wallets[v].held]
             EXCEPT ![u] = @ + n]
  <2>1. /\ wallets'[u].balance = wallets[u].balance + n
        /\ wallets'[u].held = wallets[u].held
    BY <1>1, LockTyped DEF Credit, WalletTypeOK, WalletRow
  <2>2. \A v \in Users \ {u}: wallets'[v] = wallets[v]
    BY DEF Credit, WalletTypeOK
  <2>3. wallets[u].balance \in Int /\ wallets[u].held \in Int
    BY DEF WalletTypeOK, WalletRow, Units
  <2>4. wallets'[u].balance - wallets'[u].held
          = (wallets[u].balance - wallets[u].held) + n
    BY <1>2, <2>1, <2>3
  <2> QED
    BY <2>2, <2>4
<1> QED
  BY <1>5, <1>6, <1>7 DEF Account!Deposit, Credit

\* How a rewritten wallet row changes what is available.
LEMMA AvailableStep ==
  ASSUME WalletTypeOK, NEW u \in Users, NEW row, NEW d,
         wallets' = [wallets EXCEPT ![u] = row],
         row.balance - row.held = (wallets[u].balance - wallets[u].held) + d
  PROVE  [v \in Users |-> wallets'[v].balance - wallets'[v].held]
           = [[v \in Users |-> wallets[v].balance - wallets[v].held]
                EXCEPT ![u] = @ + d]
BY DEF WalletTypeOK

\* The run of a hold that was never created has no owner.
UnusedHold == \A r \in Runs: holds[r].status = "none" => holds[r].user = NoUser

LEMMA UnusedHoldStep ==
  ASSUME WalletTypeOK, UnusedHold, [WalletNext]_walletVars
  PROVE  UnusedHold'
<1>1. ASSUME NEW r \in Runs, NEW row, row.status # "none",
             holds' = [holds EXCEPT ![r] = row]
      PROVE  UnusedHold'
  BY <1>1 DEF WalletTypeOK, UnusedHold
<1>2. ASSUME NEW u \in Users, NEW r \in Runs, NEW n \in Amounts,
             ReserveHold(u, r, n)
      PROVE  UnusedHold'
  BY <1>1, <1>2 DEF ReserveHold
<1>3. ASSUME NEW r \in Runs, NEW n, NEW status \in {"captured", "released"},
             CloseHold(r, n, status)
      PROVE  UnusedHold'
  BY <1>1, <1>3 DEF CloseHold
<1>4. ASSUME UNCHANGED holds PROVE UnusedHold'
  BY <1>4 DEF UnusedHold
<1> QED
  BY <1>2, <1>3, <1>4
     DEF WalletNext, walletVars, GetOrCreateWallet, CaptureHold, ReleaseHold,
         CreditRecharge, CreditRedeemCode, Credit

LEMMA SetAsideStep ==
  ASSUME WalletTypeOK, UnusedHold, NEW u \in Users, NEW r \in Runs,
         NEW n \in Amounts, ReserveHold(u, r, n)
  PROVE  \E d \in 1..MaxUnits: Account!SetAside(u, r, d)
<1> DEFINE w == LockOrCreateWallet(u)
           hrow == [user |-> u, held |-> n, captured |-> 0,
                    status |-> "active"]
<1>1. w \in WalletRow
  BY LockTyped
<1>2. holds[r] \in HoldRow
  BY DEF WalletTypeOK
<1>3. PICK d \in 1..MaxUnits: d = n - holds[r].held
  BY <1>2 DEF ReserveHold, HoldRow, Units
<1>3a. n = holds[r].held + d
  BY <1>2, <1>3 DEF HoldRow, Units
<1> DEFINE row == [w EXCEPT !.held = @ + d]
<1>4. /\ wallets' = [wallets EXCEPT ![u] = row]
      /\ holds' = [holds EXCEPT ![r] = hrow]
      /\ Credited' = Credited
  BY <1>3, CreditedUnchanged DEF ReserveHold
<1>5. row.balance - row.held = (wallets[u].balance - wallets[u].held) + (-d)
  <2>1. row.balance = w.balance /\ row.held = w.held + d
    BY <1>1 DEF WalletRow
  <2>2. w.balance = wallets[u].balance /\ w.held = wallets[u].held
    BY LockTyped
  <2> QED
    BY <1>1, <1>3, <2>1, <2>2 DEF WalletRow, Units
<1>6. [v \in Users |-> wallets'[v].balance - wallets'[v].held]
        = [[v \in Users |-> wallets[v].balance - wallets[v].held]
             EXCEPT ![u] = @ - d]
  <2> HIDE DEF row
  <2>1. [v \in Users |-> wallets'[v].balance - wallets'[v].held]
          = [[v \in Users |-> wallets[v].balance - wallets[v].held]
               EXCEPT ![u] = @ + (-d)]
    BY <1>4, <1>5, AvailableStep
  <2>2. wallets[u].balance - wallets[u].held \in Int
    BY DEF WalletTypeOK, WalletRow, Units
  <2> QED
    BY <1>3, <2>1, <2>2
<1>7. \/ holds[r].status = "none" /\ holds[r].user = NoUser
      \/ holds[r].status = "active" /\ holds[r].user = u
  BY DEF ReserveHold, Raisable, ValidActiveHold, UnusedHold
<1>8. d <= wallets[u].balance - wallets[u].held
  BY <1>3, LockTyped DEF ReserveHold, Available
<1>9. [q \in Runs |-> holds'[q].held]
        = [[q \in Runs |-> holds[q].held] EXCEPT ![r] = @ + d]
  BY <1>3a, <1>4 DEF WalletTypeOK
<1>10. [q \in Runs |-> holds'[q].user]
         = [[q \in Runs |-> holds[q].user] EXCEPT ![r] = u]
  BY <1>4 DEF WalletTypeOK
<1>11. [q \in Runs |-> IF holds'[q].status \in {"captured", "released"}
                       THEN holds'[q].captured ELSE -1]
         = [q \in Runs |-> IF holds[q].status \in {"captured", "released"}
                           THEN holds[q].captured ELSE -1]
  BY <1>4, <1>7 DEF WalletTypeOK
<1>12. Account!SetAside(u, r, d)
  BY <1>4, <1>6, <1>7, <1>8, <1>9, <1>10, <1>11
     DEF Account!SetAside, Account!Unsettled
<1> QED
  BY <1>12

\* A hold of u's closed at a cost of n, with the matching wallet row.
LEMMA SettleStep ==
  ASSUME WalletTypeOK, NEW u \in Users, NEW r \in Runs, NEW n \in Units,
         NEW status \in {"captured", "released"}, NEW row,
         holds[r].status = "active", holds[r].user = u, n <= holds[r].held,
         CloseHold(r, n, status),
         wallets' = [wallets EXCEPT ![u] = row],
         row.balance - row.held
           = (wallets[u].balance - wallets[u].held) + (holds[r].held - n),
         Credited' = Credited
  PROVE  Account!Settle(u, r, n)
<1> DEFINE hrow == [user |-> u, held |-> 0, captured |-> n,
                    status |-> status]
<1>1. holds' = [holds EXCEPT ![r] = hrow]
  BY DEF CloseHold
<1>2. [v \in Users |-> wallets'[v].balance - wallets'[v].held]
        = [[v \in Users |-> wallets[v].balance - wallets[v].held]
             EXCEPT ![u] = @ + (holds[r].held - n)]
  <2> DEFINE d == holds[r].held - n
  <2>1. row.balance - row.held = (wallets[u].balance - wallets[u].held) + d
    OBVIOUS
  <2> HIDE DEF d
  <2>2. [v \in Users |-> wallets'[v].balance - wallets'[v].held]
          = [[v \in Users |-> wallets[v].balance - wallets[v].held]
               EXCEPT ![u] = @ + d]
    BY ONLY WalletTypeOK, u \in Users, <2>1, AvailableStep,
            wallets' = [wallets EXCEPT ![u] = row]
  <2> QED
    BY <2>2 DEF d
<1>3. [q \in Runs |-> holds'[q].held]
        = [[q \in Runs |-> holds[q].held] EXCEPT ![r] = 0]
  BY <1>1 DEF WalletTypeOK
<1>4. [q \in Runs |-> holds'[q].user] = [q \in Runs |-> holds[q].user]
  BY <1>1 DEF WalletTypeOK
<1>5. [q \in Runs |-> IF holds'[q].status \in {"captured", "released"}
                      THEN holds'[q].captured ELSE -1]
        = [[q \in Runs |-> IF holds[q].status \in {"captured", "released"}
                           THEN holds[q].captured ELSE -1]
             EXCEPT ![r] = n]
  BY <1>1 DEF WalletTypeOK
<1> QED
  BY <1>2, <1>3, <1>4, <1>5 DEF Account!Settle, Account!Unsettled

LEMMA CaptureSettles ==
  ASSUME WalletTypeOK, NEW u \in Users, NEW r \in Runs,
         NEW n \in Amounts \cup {0}, CaptureHold(u, r, n)
  PROVE  Account!Settle(u, r, n)
<1> DEFINE w == wallets[u]
           row == [w EXCEPT !.balance = @ - n, !.totalConsume = @ + n,
                            !.held = @ - holds[r].held]
<1>1. w \in WalletRow /\ holds[r] \in HoldRow
  BY DEF WalletTypeOK
<1>2. n \in Units
  BY DEF Units
<1>3. row.balance - row.held = (w.balance - w.held) + (holds[r].held - n)
  BY <1>1, <1>2 DEF WalletRow, HoldRow, Units
<1>4. Credited' = Credited
  <2>1. CASE n = 0
    BY <2>1, CreditedUnchanged DEF CaptureHold
  <2>2. CASE n # 0
    <3> DEFINE out == [user |-> u, direction |-> "out", amount |-> n,
                       before |-> w.balance, after |-> w.balance - n,
                       source |-> <<"ai_generate", r>>]
    <3>1. out \in LedgerRow
      <4>1. <<"ai_generate", r>> \in Source
        BY SourceTyped
      <4>2. n \in 1..MaxUnits /\ w.balance - n \in Units
        BY <1>1, <1>2, <2>2 DEF CaptureHold, WalletRow, Units
      <4> QED
        BY <1>1, <4>1, <4>2 DEF LedgerRow, WalletRow
    <3>2. ledger' = Append(ledger, out)
      BY <2>2 DEF CaptureHold, AppendRow
    <3> QED
      BY <3>1, <3>2, CreditedAppend
  <2> QED
    BY <2>1, <2>2
<1>5. /\ wallets' = [wallets EXCEPT ![u] = row]
      /\ holds[r].status = "active" /\ holds[r].user = u
      /\ n <= holds[r].held
      /\ CloseHold(r, n, "captured")
  BY DEF CaptureHold, ValidActiveHold
<1> HIDE DEF row
<1> QED
  BY <1>2, <1>3, <1>4, <1>5, SettleStep

LEMMA ReleaseSettles ==
  ASSUME WalletTypeOK, NEW u \in Users, NEW r \in Runs, ReleaseHold(u, r)
  PROVE  Account!Settle(u, r, 0)
<1> DEFINE w == wallets[u]
           row == [w EXCEPT !.held = @ - holds[r].held]
<1>1. w \in WalletRow /\ holds[r] \in HoldRow
  BY DEF WalletTypeOK
<1>2. row.balance - row.held = (w.balance - w.held) + (holds[r].held - 0)
  BY <1>1 DEF WalletRow, HoldRow, Units
<1>3. 0 \in Units /\ 0 <= holds[r].held
  BY <1>1 DEF HoldRow, Units
<1>4. Credited' = Credited
  BY CreditedUnchanged DEF ReleaseHold
<1>5. /\ wallets' = [wallets EXCEPT ![u] = row]
      /\ holds[r].status = "active" /\ holds[r].user = u
      /\ CloseHold(r, 0, "released")
  BY DEF ReleaseHold, ValidActiveHold
<1> HIDE DEF row
<1> QED
  BY <1>2, <1>3, <1>4, <1>5, SettleStep

\* The repository implements the escrow account for every number of users,
\* runs and sources: each operation deposits, sets aside or settles once.
THEOREM WalletImplementsEscrow == WalletSpec => ImplementsEscrow
<1>1. WalletInit => Account!EscrowInit
  BY EscrowInitImplied
<1>2. WalletInit => UnusedHold
  BY DEF WalletInit, UnusedHold, NoHold
<1>3. WalletTypeOK /\ UnusedHold /\ [WalletNext]_walletVars => UnusedHold'
  BY UnusedHoldStep
<1>4. ASSUME WalletTypeOK, UnusedHold, [WalletNext]_walletVars
      PROVE  [Account!EscrowNext]_(Account!escrowVars)
  <2>1. ASSUME NEW u \in Users, GetOrCreateWallet(u)
        PROVE  UNCHANGED Account!escrowVars
    <3>1. Credited' = Credited /\ UNCHANGED holds
      BY <2>1, CreditedUnchanged DEF GetOrCreateWallet
    <3>2. [v \in Users |-> wallets'[v].balance - wallets'[v].held]
            = [v \in Users |-> wallets[v].balance - wallets[v].held]
      BY <1>4, <2>1, LockTyped DEF GetOrCreateWallet, WalletTypeOK
    <3> QED
      BY <3>1, <3>2 DEF Account!escrowVars
  <2>2. ASSUME NEW u \in Users, NEW r \in Runs, NEW n \in Amounts,
               ReserveHold(u, r, n)
        PROVE  Account!EscrowNext
    BY <1>4, <2>2, SetAsideStep DEF Account!EscrowNext
  <2>3. ASSUME NEW u \in Users, NEW r \in Runs, NEW n \in Amounts \cup {0},
               CaptureHold(u, r, n)
        PROVE  Account!EscrowNext
    BY <1>4, <2>3, CaptureSettles DEF Account!EscrowNext
  <2>4. ASSUME NEW u \in Users, NEW r \in Runs, ReleaseHold(u, r)
        PROVE  Account!EscrowNext
    BY <1>4, <2>4, ReleaseSettles DEF Account!EscrowNext
  <2>5. ASSUME NEW u \in Users, NEW src \in Source, NEW n \in Amounts,
               Credit(u, src, n)
        PROVE  Account!EscrowNext
    BY <1>4, <2>5, DepositStep DEF Account!EscrowNext
  <2>6. CASE UNCHANGED walletVars
    <3>1. Credited' = Credited
      BY <2>6, CreditedUnchanged DEF walletVars
    <3> QED
      BY <2>6, <3>1 DEF walletVars, Account!escrowVars
  <2> QED
    BY <1>4, <2>1, <2>2, <2>3, <2>4, <2>5, <2>6, SourceTyped
       DEF WalletNext, CreditRecharge, CreditRedeemCode
<1> QED
  BY <1>1, <1>2, <1>3, <1>4, WalletTypeCorrect, PTL
     DEF WalletSpec, ImplementsEscrow, Account!EscrowSpec

-----------------------------------------------------------------------------
(* The ledger as an account book: what a late duplicate finds in it.       *)

RowsAt(u) == {i \in DOMAIN ledger: ledger[i].user = u}

\* k is the last row of u before n, or 0 if u has none there.
Precedes(u, k, n) ==
  /\ k \in {0} \cup RowsAt(u) /\ k < n
  /\ \A j \in RowsAt(u): j < n => j <= k

After(k) == IF k = 0 THEN 0 ELSE ledger[k].after

\* A row starts where the wallet's row before it ended, and the wallet stands
\* where its last row ended.
Chained ==
  \A u \in Users:
    /\ \A n \in 1..(Len(ledger) + 1): \E k: Precedes(u, k, n)
    /\ \A i \in RowsAt(u), k \in {0} \cup RowsAt(u):
         Precedes(u, k, i) => ledger[i].before = After(k)
    /\ \A k \in {0} \cup RowsAt(u):
         Precedes(u, k, Len(ledger) + 1) => wallets[u].balance = After(k)

SourcesDiffer ==
  \A i, j \in DOMAIN ledger: ledger[i].source = ledger[j].source => i = j

RechargesReplay ==
  \A i \in DOMAIN ledger:
    ledger[i].source[1] = "recharge" =>
      /\ ledger[i].direction = "in"
      /\ ledger[i].after = ledger[i].before + ledger[i].amount
      /\ wallets[ledger[i].user].totalRecharge >= ledger[i].amount

\* What a repeated hold operation finds of run r.
HoldReplays(r) ==
  CASE holds[r].status = "none" -> RowsOf(<<"ai_generate", r>>) = {}
    [] holds[r].status = "active" ->
         /\ ValidActiveHold(r, holds[r].user)
         /\ RowsOf(<<"ai_generate", r>>) = {}
    [] holds[r].status = "captured" -> ValidCapturedHold(r, holds[r].user)
    [] holds[r].status = "released" -> ValidReleasedHold(r, holds[r].user)

HoldsReplay == \A r \in Runs: HoldReplays(r)

ReplayInv ==
  /\ WalletTypeOK
  /\ WalletSolvent
  /\ Chained
  /\ SourcesDiffer
  /\ RechargesReplay
  /\ HoldsReplay

\* A step that writes a row takes the wallet from before to after.
Writes(row) ==
  /\ row \in LedgerRow
  /\ ledger' = Append(ledger, row)
  /\ RowsOf(row.source) = {}
  /\ row.before = wallets[row.user].balance
  /\ row.after = wallets'[row.user].balance
  /\ \A v \in Users \ {row.user}: wallets'[v].balance = wallets[v].balance
  /\ row.source[1] = "recharge" =>
       /\ row.direction = "in" /\ row.after = row.before + row.amount
       /\ wallets'[row.user].totalRecharge >= row.amount

LeavesBooks ==
  UNCHANGED ledger /\ \A v \in Users: wallets'[v].balance = wallets[v].balance

LEMMA CreditWrites ==
  ASSUME WalletTypeOK, NEW u \in Users, NEW src \in Source, NEW n \in Amounts,
         Credit(u, src, n)
  PROVE  /\ \E row: Writes(row) /\ row.source = src
         /\ \A v \in Users: wallets'[v].totalRecharge >= wallets[v].totalRecharge
<1>1. PICK w: w = LockOrCreateWallet(u)
  OBVIOUS
<1>2. PICK row: row = [user |-> u, direction |-> "in", amount |-> n, before |-> w.balance,
                       after |-> w.balance + n, source |-> src]
  OBVIOUS
<1>3. /\ w \in WalletRow /\ w.balance = wallets[u].balance
      /\ w.totalRecharge = wallets[u].totalRecharge
  BY <1>1, LockTyped
<1>4. /\ n \in 1..MaxUnits /\ w.balance \in Units /\ w.balance + n \in Units
      /\ w.totalRecharge \in Units
  BY <1>1, <1>3 DEF Credit, CreditFits, WalletRow, Units
<1>5. row \in LedgerRow
  BY <1>2, <1>4 DEF LedgerRow
<1>6. /\ ledger' = Append(ledger, row) /\ RowsOf(row.source) = {}
  BY <1>1, <1>2 DEF Credit, AppendRow
<1>7. PICK new: new = [w EXCEPT !.balance = @ + n, !.totalRecharge = @ + n]
  OBVIOUS
<1>8. wallets' = [wallets EXCEPT ![u] = new]
  BY <1>1, <1>7 DEF Credit
<1>9. /\ wallets'[u].balance = w.balance + n
      /\ wallets'[u].totalRecharge = w.totalRecharge + n
      /\ \A v \in Users \ {u}: wallets'[v] = wallets[v]
  BY <1>3, <1>7, <1>8 DEF WalletTypeOK, WalletRow
<1>10. \A v \in Users: wallets[v].totalRecharge \in Int
  BY DEF WalletTypeOK, WalletRow, Units
<1>11. \A v \in Users: wallets'[v].totalRecharge >= wallets[v].totalRecharge
  BY <1>3, <1>4, <1>9, <1>10
<1>12. wallets'[u].totalRecharge >= n
  BY <1>4, <1>9 DEF Units
<1>13. Writes(row)
  BY <1>2, <1>3, <1>5, <1>6, <1>9, <1>12 DEF Writes
<1> QED
  BY <1>2, <1>11, <1>13

LEMMA CaptureWrites ==
  ASSUME WalletTypeOK, NEW u \in Users, NEW r \in Runs, NEW n \in Amounts \cup {0},
         CaptureHold(u, r, n)
  PROVE  /\ n = 0 => LeavesBooks
         /\ n # 0 => \E row: /\ Writes(row) /\ row.source = <<"ai_generate", r>>
                             /\ row.user = u /\ row.direction = "out" /\ row.amount = n
                             /\ row.before - row.amount = row.after
         /\ \A v \in Users: wallets'[v].totalRecharge = wallets[v].totalRecharge
<1>1. PICK w, h: w = wallets[u] /\ h = holds[r]
  OBVIOUS
<1>2. w \in WalletRow /\ h \in HoldRow /\ n \in Units /\ n <= w.balance
  BY <1>1 DEF WalletTypeOK, CaptureHold, Units
<1>3. PICK new: new = [w EXCEPT !.balance = @ - n, !.totalConsume = @ + n,
                                !.held = @ - h.held]
  OBVIOUS
<1>4. wallets' = [wallets EXCEPT ![u] = new]
  BY <1>1, <1>3 DEF CaptureHold
<1>5. /\ wallets'[u].balance = w.balance - n /\ wallets'[u].totalRecharge = w.totalRecharge
      /\ \A v \in Users \ {u}: wallets'[v] = wallets[v]
  BY <1>2, <1>3, <1>4 DEF WalletTypeOK, WalletRow
<1>6. \A v \in Users: wallets'[v].totalRecharge = wallets[v].totalRecharge
  BY <1>1, <1>5
<1>7. CASE n = 0
  <2>1. UNCHANGED ledger /\ w.balance - n = w.balance
    BY <1>2, <1>7 DEF CaptureHold, WalletRow, Units
  <2> QED
    BY <1>1, <1>5, <1>6, <1>7, <2>1 DEF LeavesBooks
<1>8. CASE n # 0
  <2>1. PICK row: row = [user |-> u, direction |-> "out", amount |-> n,
                         before |-> w.balance, after |-> w.balance - n,
                         source |-> <<"ai_generate", r>>]
    OBVIOUS
  <2>2. ledger' = Append(ledger, row) /\ RowsOf(<<"ai_generate", r>>) = {}
    BY <1>1, <1>8, <2>1 DEF CaptureHold, AppendRow
  <2>3. row \in LedgerRow
    <3>1. /\ n \in 1..MaxUnits /\ w.balance \in Units /\ w.balance - n \in Units
          /\ <<"ai_generate", r>> \in Source
      BY <1>2, <1>8, SourceTyped DEF WalletRow, Units
    <3> QED
      BY <2>1, <3>1 DEF LedgerRow
  <2>4. Writes(row)
    BY <1>1, <1>5, <2>1, <2>2, <2>3 DEF Writes
  <2>5. /\ row.source = <<"ai_generate", r>> /\ row.user = u /\ row.direction = "out"
        /\ row.amount = n /\ row.before - row.amount = row.after
    BY <2>1
  <2> QED
    BY <1>6, <1>8, <2>4, <2>5
<1> QED
  BY <1>7, <1>8

\* The operations that move held money only.
LEMMA OthersLeaveBooks ==
  ASSUME WalletTypeOK, NEW u \in Users,
         \/ GetOrCreateWallet(u)
         \/ \E r \in Runs, n \in Amounts: ReserveHold(u, r, n)
         \/ \E r \in Runs: ReleaseHold(u, r)
  PROVE  /\ LeavesBooks
         /\ \A v \in Users: wallets'[v].totalRecharge = wallets[v].totalRecharge
<1>1. PICK w: w = LockOrCreateWallet(u)
  OBVIOUS
<1>2. /\ w \in WalletRow /\ w.balance = wallets[u].balance
      /\ w.totalRecharge = wallets[u].totalRecharge
      /\ wallets[u] \in WalletRow
  BY <1>1, LockTyped DEF WalletTypeOK
<1>3. ASSUME NEW row, wallets' = [wallets EXCEPT ![u] = row], UNCHANGED ledger,
             row.balance = wallets[u].balance, row.totalRecharge = wallets[u].totalRecharge
      PROVE  /\ LeavesBooks
             /\ \A v \in Users: wallets'[v].totalRecharge = wallets[v].totalRecharge
  <2>1. \A v \in Users: wallets'[v] = IF v = u THEN row ELSE wallets[v]
    BY <1>3 DEF WalletTypeOK
  <2> QED
    BY <1>3, <2>1 DEF LeavesBooks
<1>4. CASE GetOrCreateWallet(u)
  BY <1>1, <1>2, <1>3, <1>4 DEF GetOrCreateWallet
<1>5. ASSUME NEW r \in Runs, NEW n \in Amounts, ReserveHold(u, r, n)
      PROVE  /\ LeavesBooks
             /\ \A v \in Users: wallets'[v].totalRecharge = wallets[v].totalRecharge
  <2>1. PICK row: row = [w EXCEPT !.held = @ + (n - holds[r].held)]
    OBVIOUS
  <2>2. row.balance = w.balance /\ row.totalRecharge = w.totalRecharge
    BY <1>2, <2>1 DEF WalletRow
  <2> QED
    BY <1>1, <1>2, <1>3, <1>5, <2>1, <2>2 DEF ReserveHold
<1>6. ASSUME NEW r \in Runs, ReleaseHold(u, r)
      PROVE  /\ LeavesBooks
             /\ \A v \in Users: wallets'[v].totalRecharge = wallets[v].totalRecharge
  <2>1. PICK row: row = [wallets[u] EXCEPT !.held = @ - holds[r].held]
    OBVIOUS
  <2>2. row.balance = wallets[u].balance /\ row.totalRecharge = wallets[u].totalRecharge
    BY <1>2, <2>1 DEF WalletRow
  <2> QED
    BY <1>3, <1>6, <2>1, <2>2 DEF ReleaseHold
<1> QED
  BY <1>4, <1>5, <1>6

LEMMA WalletMoves ==
  ASSUME WalletTypeOK, [WalletNext]_walletVars
  PROVE  /\ LeavesBooks \/ \E row: Writes(row)
         /\ \A v \in Users: wallets'[v].totalRecharge >= wallets[v].totalRecharge
<1> DEFINE Moves == /\ LeavesBooks \/ \E row: Writes(row)
                    /\ \A v \in Users: wallets'[v].totalRecharge >= wallets[v].totalRecharge
<1>1. \A v \in Users: wallets[v].totalRecharge \in Int
  BY DEF WalletTypeOK, WalletRow, Units
<1>2. ASSUME NEW u \in Users,
             \/ GetOrCreateWallet(u)
             \/ \E r \in Runs, n \in Amounts: ReserveHold(u, r, n)
             \/ \E r \in Runs: ReleaseHold(u, r)
      PROVE  Moves
  BY <1>1, <1>2, OthersLeaveBooks
<1>3. ASSUME NEW u \in Users, NEW r \in Runs, NEW n \in Amounts \cup {0},
             CaptureHold(u, r, n)
      PROVE  Moves
  BY <1>1, <1>3, CaptureWrites
<1>4. ASSUME NEW u \in Users, NEW src \in Source, NEW n \in Amounts, Credit(u, src, n)
      PROVE  Moves
  BY <1>4, CreditWrites
<1>5. CASE UNCHANGED walletVars
  BY <1>1, <1>5 DEF walletVars, LeavesBooks
<1> HIDE DEF Moves
<1> QED
  BY <1>2, <1>3, <1>4, <1>5, SourceTyped
     DEF WalletNext, CreditRecharge, CreditRedeemCode, Moves

LEMMA LedgerTyped ==
  ASSUME WalletTypeOK, NEW i \in DOMAIN ledger
  PROVE  /\ ledger[i] \in LedgerRow /\ ledger[i].user \in Users
         /\ ledger[i].amount \in Int /\ ledger[i].source \in Source
<1>1. ledger \in Seq(LedgerRow) /\ i \in 1..Len(ledger)
  BY DEF WalletTypeOK
<1>2. ledger[i] \in LedgerRow
  BY <1>1
<1> QED
  BY <1>2 DEF LedgerRow

LEMMA BooksStay ==
  ASSUME WalletTypeOK, WalletTypeOK', Chained, SourcesDiffer, RechargesReplay, LeavesBooks,
         \A v \in Users: wallets'[v].totalRecharge >= wallets[v].totalRecharge
  PROVE  Chained' /\ SourcesDiffer' /\ RechargesReplay'
<1>1. /\ \A u \in Users: RowsAt(u)' = RowsAt(u)
      /\ \A u \in Users: \A k, n: Precedes(u, k, n)' <=> Precedes(u, k, n)
      /\ \A k: After(k)' = After(k)
  BY DEF LeavesBooks, RowsAt, Precedes, After
<1>2. Chained'
  BY <1>1 DEF Chained, LeavesBooks
<1>3. SourcesDiffer'
  BY DEF SourcesDiffer, LeavesBooks
<1>4. RechargesReplay'
  <2>1. \A i \in DOMAIN ledger:
          /\ ledger[i].user \in Users /\ ledger[i].amount \in Int
          /\ wallets[ledger[i].user].totalRecharge \in Int
          /\ wallets'[ledger[i].user].totalRecharge \in Int
    BY LedgerTyped DEF WalletTypeOK, WalletRow, Units
  <2> QED
    BY <2>1 DEF RechargesReplay, LeavesBooks
<1> QED
  BY <1>2, <1>3, <1>4

LEMMA WriteExtends ==
  ASSUME WalletTypeOK, WalletTypeOK', Chained, SourcesDiffer, RechargesReplay,
         NEW row, Writes(row),
         \A v \in Users: wallets'[v].totalRecharge >= wallets[v].totalRecharge
  PROVE  Chained' /\ SourcesDiffer' /\ RechargesReplay'
<1>0. PICK L: L = Len(ledger) + 1
  OBVIOUS
<1>1. /\ L = Len(ledger) + 1 /\ L > 0
      /\ row \in LedgerRow /\ ledger \in Seq(LedgerRow)
      /\ DOMAIN ledger = 1..Len(ledger) /\ Len(ledger) \in Nat
      /\ DOMAIN ledger' = DOMAIN ledger \cup {L} /\ L \notin DOMAIN ledger
      /\ Len(ledger') = L
      /\ \A i \in DOMAIN ledger: ledger'[i] = ledger[i]
      /\ ledger'[L] = row
  BY <1>0, AppendKeepsRows DEF Writes, WalletTypeOK
<1>2. row.user \in Users
  BY <1>1 DEF LedgerRow
<1>3. SourcesDiffer'
  <2>1. \A i \in DOMAIN ledger: ledger[i].source # row.source
    BY DEF Writes, RowsOf
  <2> QED
    BY <1>1, <2>1 DEF SourcesDiffer
<1>4. RechargesReplay'
  <2>1. ASSUME NEW i \in DOMAIN ledger, ledger[i].source[1] = "recharge"
        PROVE  /\ ledger'[i].direction = "in"
               /\ ledger'[i].after = ledger'[i].before + ledger'[i].amount
               /\ wallets'[ledger'[i].user].totalRecharge >= ledger'[i].amount
    <3>1. ledger[i].user \in Users /\ ledger[i].amount \in Int
      BY LedgerTyped
    <3>2. /\ wallets[ledger[i].user].totalRecharge \in Int
          /\ wallets'[ledger[i].user].totalRecharge \in Int
      BY <3>1 DEF WalletTypeOK, WalletRow, Units
    <3> QED
      BY <1>1, <2>1, <3>1, <3>2 DEF RechargesReplay
  <2> QED
    BY <1>1, <2>1 DEF RechargesReplay, Writes
<1>5. Chained'
  <2> SUFFICES ASSUME NEW u \in Users
        PROVE  /\ \A n \in 1..(L + 1): \E k: Precedes(u, k, n)'
               /\ \A i \in RowsAt(u)', k \in {0} \cup RowsAt(u)':
                    Precedes(u, k, i)' => ledger'[i].before = After(k)'
               /\ \A k \in {0} \cup RowsAt(u)':
                    Precedes(u, k, L + 1)' => wallets'[u].balance = After(k)'
    BY <1>1 DEF Chained
  <2>1. /\ RowsAt(u) \subseteq 1..Len(ledger)
        /\ RowsAt(u)' = IF u = row.user THEN RowsAt(u) \cup {L} ELSE RowsAt(u)
    BY <1>1 DEF RowsAt
  <2>2. \A k, n: n \in 1..L => (Precedes(u, k, n)' <=> Precedes(u, k, n))
    BY <1>1, <2>1 DEF Precedes
  <2>3. \A k \in {0} \cup RowsAt(u): After(k)' = After(k)
    BY <1>1, <2>1 DEF After
  <2>4. /\ \A n \in 1..L: \E k: Precedes(u, k, n)
        /\ \A i \in RowsAt(u), k \in {0} \cup RowsAt(u):
             Precedes(u, k, i) => ledger[i].before = After(k)
        /\ \A k \in {0} \cup RowsAt(u):
             Precedes(u, k, L) => wallets[u].balance = After(k)
    BY <1>1 DEF Chained
  <2>5. ASSUME NEW i \in RowsAt(u), NEW k \in {0} \cup RowsAt(u)', Precedes(u, k, i)'
        PROVE  ledger'[i].before = After(k)'
    <3>1. i \in 1..L /\ i \in DOMAIN ledger
      BY <1>1, <2>1 DEF RowsAt
    <3>2. Precedes(u, k, i) /\ k \in {0} \cup RowsAt(u)
      BY <2>2, <2>5, <3>1 DEF Precedes
    <3> QED
      BY <1>1, <2>3, <2>4, <3>1, <3>2
  <2>6. CASE u = row.user
    <3>1. L > 0 /\ After(L)' = row.after
      BY <1>1 DEF After
    <3>2. Precedes(u, L, L + 1)'
      BY <1>1, <2>1, <2>6 DEF Precedes
    <3>3. \A k \in {0} \cup RowsAt(u)': Precedes(u, k, L + 1)' => k = L
      BY <1>1, <2>1, <2>6 DEF Precedes
    <3>4. \A n \in 1..(L + 1): \E k: Precedes(u, k, n)'
      BY <1>1, <2>2, <2>4, <3>2
    <3>5. ASSUME NEW k \in {0} \cup RowsAt(u)', Precedes(u, k, L)'
          PROVE  ledger'[L].before = After(k)'
      <4>1. Precedes(u, k, L)
        BY <1>1, <2>2, <3>5
      <4>2. k \in {0} \cup RowsAt(u)
        BY <4>1 DEF Precedes
      <4>3. row.before = wallets[u].balance
        BY <2>6 DEF Writes
      <4> QED
        BY <1>1, <2>3, <2>4, <4>1, <4>2, <4>3
    <3>6. wallets'[u].balance = row.after
      BY <2>6 DEF Writes
    <3> QED
      BY <2>1, <2>5, <2>6, <3>1, <3>3, <3>4, <3>5, <3>6
  <2>7. CASE u # row.user
    <3>1. RowsAt(u)' = RowsAt(u) /\ wallets'[u].balance = wallets[u].balance
      BY <2>1, <2>7 DEF Writes
    <3>2. \A k: Precedes(u, k, L + 1)' <=> Precedes(u, k, L)
      BY <1>1, <2>1, <3>1 DEF Precedes
    <3>3. \A n \in 1..(L + 1): \E k: Precedes(u, k, n)'
      <4>1. \A n \in 1..L: \E k: Precedes(u, k, n)'
        BY <2>2, <2>4
      <4>2. L \in 1..L
        BY <1>1
      <4>3. \E k: Precedes(u, k, L + 1)'
        BY <2>4, <3>2, <4>2
      <4> QED
        BY <1>1, <4>1, <4>3
    <3> QED
      BY <2>3, <2>4, <2>5, <3>1, <3>2, <3>3
  <2> QED
    BY <2>6, <2>7
<1> QED
  BY <1>3, <1>4, <1>5

\* The hold of a run replays as its operations left it.
LEMMA HoldsReplayOn ==
  ASSUME WalletTypeOK, HoldsReplay, [WalletNext]_walletVars
  PROVE  HoldsReplay'
<1>1. ledger \in Seq(LedgerRow) /\ holds \in [Runs -> HoldRow]
  BY DEF WalletTypeOK
<1>2. ASSUME UNCHANGED ledger, NEW q \in Runs, holds'[q] = holds[q]
      PROVE  HoldReplays(q)'
  BY <1>2 DEF HoldsReplay, HoldReplays, ValidActiveHold, ValidCapturedHold,
     ValidReleasedHold, RowsOf
<1>3. ASSUME NEW row, ledger' = Append(ledger, row), NEW q \in Runs, holds'[q] = holds[q],
             row.source # <<"ai_generate", q>>
      PROVE  HoldReplays(q)'
  <2>1. /\ RowsOf(<<"ai_generate", q>>)' = RowsOf(<<"ai_generate", q>>)
        /\ DOMAIN ledger' = DOMAIN ledger \cup {Len(ledger) + 1}
        /\ \A i \in DOMAIN ledger: ledger'[i] = ledger[i]
    BY <1>1, <1>3, AppendKeepsRows
  <2>2. /\ ValidCapturedHold(q, holds[q].user) => ValidCapturedHold(q, holds[q].user)'
        /\ ValidReleasedHold(q, holds[q].user) => ValidReleasedHold(q, holds[q].user)'
        /\ ValidActiveHold(q, holds[q].user) => ValidActiveHold(q, holds[q].user)'
    BY <1>3, <2>1 DEF ValidCapturedHold, ValidReleasedHold, ValidActiveHold
  <2>3. HoldReplays(q) /\ holds[q].status \in {"none", "active", "captured", "released"}
    BY <1>1 DEF HoldsReplay, HoldRow
  <2> QED
    BY <1>3, <2>1, <2>2, <2>3 DEF HoldReplays
<1>4. ASSUME NEW u \in Users, GetOrCreateWallet(u) PROVE HoldsReplay'
  BY <1>2, <1>4 DEF GetOrCreateWallet, HoldsReplay
<1>5. ASSUME NEW u \in Users, NEW r \in Runs, NEW n \in Amounts, ReserveHold(u, r, n)
      PROVE  HoldsReplay'
  <2>1. /\ holds'[r] = [user |-> u, held |-> n, captured |-> 0, status |-> "active"]
        /\ \A q \in Runs \ {r}: holds'[q] = holds[q]
        /\ UNCHANGED ledger
    BY <1>1, <1>5 DEF ReserveHold
  <2>2. holds[r].status \in {"none", "active"} /\ n > 0
    BY <1>5 DEF ReserveHold, Raisable
  <2>3. RowsOf(<<"ai_generate", r>>)' = {}
    BY <2>1, <2>2 DEF HoldsReplay, HoldReplays, RowsOf
  <2>4. HoldReplays(r)'
    BY <2>1, <2>2, <2>3 DEF HoldReplays, ValidActiveHold
  <2> QED
    BY <1>2, <2>1, <2>4 DEF HoldsReplay
<1>6. ASSUME NEW u \in Users, NEW r \in Runs, NEW n \in Amounts \cup {0},
             CaptureHold(u, r, n)
      PROVE  HoldsReplay'
  <2>1. /\ holds'[r] = [user |-> holds[r].user, held |-> 0, captured |-> n,
                        status |-> "captured"]
        /\ \A q \in Runs \ {r}: holds'[q] = holds[q]
        /\ holds[r].status = "active" /\ holds[r].user = u
    BY <1>1, <1>6 DEF CaptureHold, CloseHold, ValidActiveHold
  <2>2. CASE n = 0
    <3>1. UNCHANGED ledger
      BY <1>6, <2>2, CaptureWrites DEF LeavesBooks
    <3>2. RowsOf(<<"ai_generate", r>>)' = {}
      BY <2>1, <3>1 DEF HoldsReplay, HoldReplays, RowsOf
    <3>3. HoldReplays(r)'
      BY <2>1, <2>2, <3>2 DEF HoldReplays, ValidCapturedHold
    <3> QED
      BY <1>2, <2>1, <3>1, <3>3 DEF HoldsReplay
  <2>3. CASE n # 0
    <3>1. PICK row: /\ Writes(row) /\ row.source = <<"ai_generate", r>>
                    /\ row.user = u /\ row.direction = "out" /\ row.amount = n
                    /\ row.before - row.amount = row.after
      <4>1. n # 0 => \E row: /\ Writes(row) /\ row.source = <<"ai_generate", r>>
                             /\ row.user = u /\ row.direction = "out" /\ row.amount = n
                             /\ row.before - row.amount = row.after
        BY ONLY <1>6, CaptureWrites, WalletTypeOK
      <4> QED
        BY ONLY <2>3, <4>1
    <3>2. ledger' = Append(ledger, row) /\ RowsOf(<<"ai_generate", r>>) = {}
      BY <3>1 DEF Writes
    <3>3. /\ RowsOf(<<"ai_generate", r>>)' = {Len(ledger) + 1}
          /\ Len(ledger) + 1 \in DOMAIN ledger'
          /\ ledger'[Len(ledger) + 1] = row
      BY <1>1, <3>1, <3>2, AppendKeepsRows
    <3>4. HoldReplays(r)'
      BY <2>1, <2>3, <3>1, <3>3 DEF HoldReplays, ValidCapturedHold
    <3> QED
      BY <1>3, <2>1, <3>1, <3>2, <3>4 DEF HoldsReplay
  <2> QED
    BY <2>2, <2>3
<1>7. ASSUME NEW u \in Users, NEW r \in Runs, ReleaseHold(u, r) PROVE HoldsReplay'
  <2>1. /\ holds'[r] = [user |-> holds[r].user, held |-> 0, captured |-> 0,
                        status |-> "released"]
        /\ \A q \in Runs \ {r}: holds'[q] = holds[q]
        /\ UNCHANGED ledger /\ holds[r].status = "active"
    BY <1>1, <1>7 DEF ReleaseHold, CloseHold
  <2>2. RowsOf(<<"ai_generate", r>>)' = {}
    BY <2>1 DEF HoldsReplay, HoldReplays, RowsOf
  <2>3. HoldReplays(r)'
    BY <2>1, <2>2 DEF HoldReplays, ValidReleasedHold
  <2> QED
    BY <1>2, <2>1, <2>3 DEF HoldsReplay
<1>8. ASSUME NEW u \in Users, NEW src \in Source, NEW n \in Amounts, Credit(u, src, n),
             \A r \in Runs: src # <<"ai_generate", r>>
      PROVE  HoldsReplay'
  <2>1. PICK row: Writes(row) /\ row.source = src
    BY <1>8, CreditWrites
  <2>2. ledger' = Append(ledger, row) /\ UNCHANGED holds
    BY <1>8, <2>1 DEF Writes, Credit
  <2> QED
    BY <1>3, <1>8, <2>1, <2>2 DEF HoldsReplay
<1>9. CASE UNCHANGED walletVars
  BY <1>2, <1>9 DEF walletVars, HoldsReplay
<1>10. ASSUME NEW u \in Users, NEW n \in Amounts,
              \/ \E rc \in Recharges: CreditRecharge(u, rc, n)
              \/ \E c \in Codes: CreditRedeemCode(u, c, n)
       PROVE  HoldsReplay'
  BY <1>8, <1>10, SourceTyped DEF CreditRecharge, CreditRedeemCode
<1> QED
  BY <1>4, <1>5, <1>6, <1>7, <1>9, <1>10 DEF WalletNext

LEMMA ReplayInvHoldsAtFirst == WalletInit => ReplayInv
<1> SUFFICES ASSUME WalletInit PROVE ReplayInv
  OBVIOUS
<1>1. /\ ledger = <<>> /\ Len(ledger) = 0 /\ DOMAIN ledger = {}
      /\ \A u \in Users: wallets[u].balance = 0
      /\ \A u \in Users: RowsAt(u) = {}
  BY DEF WalletInit, NoWallet, RowsAt
<1>2. Chained
  <2>1. \A u \in Users: \A k: Precedes(u, k, 1) <=> k = 0
    BY <1>1 DEF Precedes
  <2> QED
    BY <1>1, <2>1 DEF Chained, After
<1>3. SourcesDiffer /\ RechargesReplay
  BY <1>1 DEF SourcesDiffer, RechargesReplay
<1>4. HoldsReplay
  BY <1>1 DEF WalletInit, NoHold, HoldsReplay, HoldReplays, RowsOf
<1> QED
  BY <1>2, <1>3, <1>4, WalletInitTyped, SolventInit DEF ReplayInv

LEMMA ReplayInvInductive == ReplayInv /\ [WalletNext]_walletVars => ReplayInv'
<1> SUFFICES ASSUME ReplayInv, [WalletNext]_walletVars PROVE ReplayInv'
  OBVIOUS
<1>1. WalletTypeOK' /\ WalletSolvent' /\ HoldsReplay'
  BY WalletNextTyped, WalletNextSolvent, HoldsReplayOn DEF ReplayInv
<1>2. Chained' /\ SourcesDiffer' /\ RechargesReplay'
  BY <1>1, WalletMoves, BooksStay, WriteExtends DEF ReplayInv
<1> QED
  BY <1>1, <1>2 DEF ReplayInv

\* Every operation on a hold and every recharge credit, repeated at any later
\* time, finds what it checks for; the unique key on a ledger row's source
\* holds; and each wallet's rows chain from nothing to its balance.
THEOREM ReplaysAlwaysValidate == WalletSpec => []ReplayValidates
<1>1. ReplayInv => ReplayValidates
  <2> SUFFICES ASSUME ReplayInv PROVE ReplayValidates
    OBVIOUS
  <2>1. ASSUME NEW i \in DOMAIN ledger, ledger[i].source[1] = "recharge"
        PROVE  ValidRechargeCredit(ledger[i].user, ledger[i].source[2], ledger[i].amount)
    <3>1. ledger[i] \in LedgerRow /\ ledger[i].source \in Source /\ ledger[i].user \in Users
      BY LedgerTyped DEF ReplayInv
    <3>2. ledger[i].source = <<"recharge", ledger[i].source[2]>>
      BY <2>1, <3>1 DEF Source
    <3>3. RowsOf(<<"recharge", ledger[i].source[2]>>) = {i}
      BY <3>2 DEF RowsOf, ReplayInv, SourcesDiffer
    <3> QED
      BY <2>1, <3>1, <3>3
         DEF ValidRechargeCredit, ReplayInv, RechargesReplay, WalletSolvent
  <2>2. ASSUME NEW u \in Users
        PROVE  LET rows == {i \in DOMAIN ledger: ledger[i].user = u}
                   EndsAt(i) == IF i = 0 THEN 0 ELSE ledger[i].after
                   LastBelow(n) == CHOOSE i \in {0} \cup rows:
                                     i < n /\ \A j \in rows: j < n => j <= i
               IN /\ \A i \in rows: ledger[i].before = EndsAt(LastBelow(i))
                  /\ wallets[u].balance = EndsAt(LastBelow(Len(ledger) + 1))
    <3> DEFINE rows == {i \in DOMAIN ledger: ledger[i].user = u}
               EndsAt(i) == IF i = 0 THEN 0 ELSE ledger[i].after
               LastBelow(n) == CHOOSE i \in {0} \cup rows:
                                 i < n /\ \A j \in rows: j < n => j <= i
    <3>1. rows = RowsAt(u) /\ \A k: EndsAt(k) = After(k)
      BY DEF RowsAt, After
    <3>2. ASSUME NEW n \in 1..(Len(ledger) + 1)
          PROVE  Precedes(u, LastBelow(n), n) /\ LastBelow(n) \in {0} \cup RowsAt(u)
      <4>1. \E k: Precedes(u, k, n)
        BY DEF ReplayInv, Chained
      <4>2. \E k \in {0} \cup rows: k < n /\ \A j \in rows: j < n => j <= k
        BY <3>1, <4>1 DEF Precedes
      <4>3. LastBelow(n) \in {0} \cup rows /\ LastBelow(n) < n
              /\ \A j \in rows: j < n => j <= LastBelow(n)
        BY <4>2
      <4> QED
        BY <3>1, <4>3 DEF Precedes
    <3>3. /\ \A i \in RowsAt(u), k \in {0} \cup RowsAt(u):
               Precedes(u, k, i) => ledger[i].before = After(k)
          /\ \A k \in {0} \cup RowsAt(u):
               Precedes(u, k, Len(ledger) + 1) => wallets[u].balance = After(k)
      BY DEF ReplayInv, Chained
    <3>4. /\ Len(ledger) \in Nat /\ DOMAIN ledger = 1..Len(ledger)
          /\ RowsAt(u) \subseteq 1..(Len(ledger) + 1)
      BY DEF ReplayInv, WalletTypeOK, RowsAt
    <3> HIDE DEF rows, EndsAt, LastBelow
    <3>5. \A i \in rows: ledger[i].before = EndsAt(LastBelow(i))
      BY <3>1, <3>2, <3>3, <3>4
    <3>6. wallets[u].balance = EndsAt(LastBelow(Len(ledger) + 1))
      BY <3>1, <3>2, <3>3, <3>4
    <3> QED
      BY <3>5, <3>6 DEF rows, EndsAt, LastBelow
  <2> QED
    BY <2>1, <2>2 DEF ReplayValidates, ReplayInv, HoldsReplay, HoldReplays, SourcesDiffer
<1> QED
  BY <1>1, ReplayInvHoldsAtFirst, ReplayInvInductive, PTL DEF WalletSpec
=============================================================================
