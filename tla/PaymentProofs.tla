---------------------------- MODULE PaymentProofs ----------------------------
(***************************************************************************)
(* Requests, Alipay's callback and the two cron tasks share the orders and *)
(* the finalizer.  For any number of them: an order is settled whole and   *)
(* once, its outcome is final, and its users' wallets see nothing but      *)
(* operations of the wallet repository.                                    *)
(***************************************************************************)
EXTENDS Payment, WalletProofs, FiniteSetTheorems

USE OwnerAssumption, OrderUnitsAssumption

-----------------------------------------------------------------------------
(* The inductive invariant.                                                *)

\* The pay URL of an order leaves the gateway with UpdateOrderPaying.
Unoffered ==
  \A o \in Orders: order[o] \in {"none", "pending", "failed"} => trade[o] = "none"

CreditedOf(u) == {o \in Recharges: Owner[o] = u /\ recharge[o] = "credited"}

RowsTypeOK ==
  /\ WalletTypeOK
  /\ order \in [Orders -> OrderStatus]
  /\ recharge \in [Orders -> RechargeStatus]
  /\ \A o \in Orders: recharge[o] # "none" => order[o] # "none"
  /\ expired \in [Orders -> BOOLEAN]
  /\ event \in [Orders -> {"none", "pending", "failed", "success"}]
  /\ trade \in [Orders -> {"none", "offered", "wait", "success", "closed"}]

\* No trade of the order was opened, and none can be any more.
Unpayable(o) == expired[o] /\ trade[o] \in {"none", "offered"}

\* What a process that stands at pc may rely on, though it read the order some
\* steps ago: gateway.Query's answer, the state of the row it was sent on
\* with, and who asked for the close.
Knows(p, pc, entry, o) ==
  /\ pc \notin {"idle", "internalError"} => o \in Orders
  /\ pc \in {"finalize", "resolve"} => trade[o] = "success"
  /\ pc = "settleAgain" => order[o] = "paid"
  /\ pc \in {"payLoad", "payClock", "payExpire"} => entry # "cronExpire"
  /\ pc = "payExpire" => expired[o]
  /\ pc = "closeOrder" => trade[o] = "closed" \/ expired[o]
  /\ pc \notin {"idle", "internalError"} /\ entry = "cronExpire" => expired[o]
  /\ pc = "notExist" /\ entry = "cronExpire" => Unpayable(o)
  /\ pc = "closeOrder" /\ entry = "cronExpire" =>
       trade[o] = "closed" \/ Unpayable(o)

Informed(p) == Knows(p, proc[p].pc, proc[p].entry, proc[p].order)

RowsInv ==
  /\ RowsTypeOK
  /\ Unoffered
  /\ SettledTogether
  /\ \A u \in Users: IsFiniteSet(CreditedOf(u))

ProcsInv ==
  /\ proc \in [Processes -> Process]
  /\ \A p \in Processes: Informed(p)

PaymentInv == RowsInv /\ ProcsInv

\* What a step leaves true of an order: the facts processes rely on.
Onward ==
  \A o \in Orders:
    /\ trade[o] \in {"success", "closed"} => trade'[o] = trade[o]
    /\ order[o] = "paid" => order'[o] = "paid"
    /\ expired[o] => expired'[o]
    /\ Unpayable(o) => Unpayable(o)'

-----------------------------------------------------------------------------
(* Processes.                                                              *)

\* A handler's move touches no other handler; one that ends forgets its order.
LEMMA GotoMoves ==
  ASSUME proc \in [Processes -> Process], NEW p \in Processes, NEW pc \in PC,
         Goto(p, pc)
  PROVE  /\ proc' \in [Processes -> Process]
         /\ \A q \in Processes \ {p}: proc'[q] = proc[q]
         /\ proc'[p].pc = pc
         /\ pc \notin {"idle", "internalError"} =>
              proc'[p].entry = proc[p].entry /\ proc'[p].order = proc[p].order
<1>1. CASE pc \in {"idle", "internalError"}
  <2>1. [IdleProcess EXCEPT !.pc = pc] \in Process
    BY <1>1 DEF IdleProcess, Process, Entry, PC
  <2> QED
    BY <1>1, <2>1 DEF Goto, IdleProcess
<1>2. CASE pc \notin {"idle", "internalError"}
  <2>1. [proc[p] EXCEPT !.pc = pc] \in Process
    BY DEF Process
  <2> QED
    BY <1>2, <2>1 DEF Goto, Process
<1> QED
  BY <1>1, <1>2

LEMMA BeginMoves ==
  ASSUME proc \in [Processes -> Process], NEW p \in Processes, NEW pc \in PC,
         NEW entry \in Entry, NEW o \in Orders, Begin(p, entry, o, pc)
  PROVE  /\ proc' \in [Processes -> Process]
         /\ \A q \in Processes \ {p}: proc'[q] = proc[q]
         /\ proc'[p] = [pc |-> pc, entry |-> entry, order |-> o]
BY DEF Begin, Process

\* What a process knows outlives the steps of the others.
LEMMA OthersStayInformed ==
  ASSUME NEW p \in Processes, Informed(p), proc'[p] = proc[p], Onward
  PROVE  Informed(p)'
BY DEF Informed, Knows, Onward

\* A handler goes on with what it has learned.
LEMMA MoveKeeps ==
  ASSUME ProcsInv, Onward, NEW p \in Processes, NEW pc \in PC, Goto(p, pc),
         NEW entry, NEW o, proc[p].entry = entry, proc[p].order = o,
         Knows(p, pc, entry, o)'
  PROVE  ProcsInv'
<1>1. /\ proc' \in [Processes -> Process]
      /\ \A q \in Processes \ {p}: proc'[q] = proc[q]
      /\ proc'[p].pc = pc
      /\ pc \notin {"idle", "internalError"} =>
           proc'[p].entry = entry /\ proc'[p].order = o
  BY GotoMoves DEF ProcsInv
<1>2. \A q \in Processes \ {p}: Informed(q)'
  BY <1>1, OthersStayInformed DEF ProcsInv
<1>3. Informed(p)'
  BY <1>1 DEF Informed, Knows
<1> QED
  BY <1>1, <1>2, <1>3 DEF ProcsInv

LEMMA StartKeeps ==
  ASSUME ProcsInv, Onward, NEW p \in Processes, NEW pc \in PC,
         NEW entry \in Entry, NEW o \in Orders, Begin(p, entry, o, pc),
         Knows(p, pc, entry, o)'
  PROVE  ProcsInv'
<1>1. /\ proc' \in [Processes -> Process]
      /\ \A q \in Processes \ {p}: proc'[q] = proc[q]
      /\ proc'[p] = [pc |-> pc, entry |-> entry, order |-> o]
  BY BeginMoves DEF ProcsInv
<1>2. \A q \in Processes \ {p}: Informed(q)'
  BY <1>1, OthersStayInformed DEF ProcsInv
<1>3. Informed(p)'
  BY <1>1 DEF Informed
<1> QED
  BY <1>1, <1>2, <1>3 DEF ProcsInv

LEMMA RestKeeps ==
  ASSUME ProcsInv, Onward, UNCHANGED proc
  PROVE  ProcsInv'
BY OthersStayInformed DEF ProcsInv

-----------------------------------------------------------------------------
(* Rows.                                                                   *)

LEMMA OrdersAreRecharges == Orders = Recharges
BY DEF Orders

\* A step that settles nothing keeps SettledTogether.
LEMMA SettledStays ==
  ASSUME SettledTogether, UNCHANGED ledger,
         \A u \in Users: wallets'[u].totalRecharge = wallets[u].totalRecharge,
         \A o \in Orders: /\ order'[o] = "paid" <=> order[o] = "paid"
                          /\ recharge'[o] = "credited" <=> recharge[o] = "credited"
                          /\ order[o] = "paid" =>
                               (recharge'[o] = "none" <=> recharge[o] = "none")
                          /\ event'[o] = "success" => event[o] = "success"
                          /\ order[o] = "paid" => trade'[o] = "success"
  PROVE  SettledTogether'
<1>1. \A u \in Users: {o \in Recharges: Owner[o] = u /\ recharge'[o] = "credited"}
                        = {o \in Recharges: Owner[o] = u /\ recharge[o] = "credited"}
  BY OrdersAreRecharges
<1>2. \A u \in Users:
        wallets'[u].totalRecharge =
          OrderUnits * Cardinality({o \in Recharges: Owner[o] = u
                                                  /\ recharge'[o] = "credited"})
  BY <1>1 DEF SettledTogether
<1>3. \A o \in Orders:
        /\ recharge'[o] # "none" => ((order'[o] = "paid") <=> (recharge'[o] = "credited"))
        /\ (recharge'[o] = "credited") <=> (RowsOf(<<"recharge", o>>)' # {})
        /\ order'[o] = "paid" => trade'[o] = "success"
  BY DEF SettledTogether, HasRecharge, RowsOf
<1>4. \A o \in Orders: event'[o] = "success" => Settled(o)'
  BY DEF SettledTogether, Settled, HasRecharge
<1> QED
  BY <1>2, <1>3, <1>4 DEF SettledTogether, HasRecharge

\* No row and no trade moves.
LEMMA NothingMoves ==
  ASSUME RowsInv, UnchangedRows, UNCHANGED trade
  PROVE  RowsInv' /\ Onward
<1>1. WalletTypeOK'
  BY WalletNextTyped DEF RowsInv, RowsTypeOK, UnchangedRows
<1>2. RowsTypeOK'
  BY <1>1 DEF RowsInv, RowsTypeOK, UnchangedRows
<1>3. SettledTogether'
  BY DEF RowsInv, UnchangedRows, walletVars, SettledTogether, Settled, HasRecharge, RowsOf
<1>4. Unoffered' /\ \A u \in Users: IsFiniteSet(CreditedOf(u))'
  BY DEF RowsInv, UnchangedRows, Unoffered, CreditedOf
<1>5. Onward
  BY DEF UnchangedRows, Onward, Unpayable
<1> QED
  BY <1>2, <1>3, <1>4, <1>5 DEF RowsInv

\* UpdateOrder's WHERE: the row leaves what it may leave, or stays.
LEMMA OrderMoves ==
  ASSUME RowsInv, NEW o \in Orders, NEW hit \in BOOLEAN,
         NEW status \in {"paying", "failed", "closed"}, UpdateOrder(o, status, hit)
  PROVE  /\ order' \in [Orders -> OrderStatus]
         /\ \A q \in Orders: \/ order'[q] = order[q]
                             \/ /\ q = o /\ hit /\ order'[q] = status
                                /\ order[q] \in {"pending", "failed", "paying"}
                                /\ status # "closed" => order[q] # "paying"
<1>1. status \in OrderStatus
  BY DEF OrderStatus
<1>2. order \in [Orders -> OrderStatus]
  BY DEF RowsInv, RowsTypeOK
<1> QED
  BY <1>1, <1>2 DEF UpdateOrder, OrderLeaves

\* UpdateOrderPaying, UpdateOrderFailed and UpdateOrderClosed, the first with
\* the pay URL it stores.
LEMMA OrderWriteKeeps ==
  ASSUME RowsInv, NEW o \in Orders, NEW hit \in BOOLEAN,
         NEW status \in {"paying", "failed", "closed"}, UpdateOrder(o, status, hit),
         UNCHANGED <<walletVars, recharge, expired, event>>,
         trade' = IF hit /\ status = "paying" THEN [trade EXCEPT ![o] = "offered"]
                  ELSE trade
  PROVE  RowsInv' /\ Onward
<1>1. /\ order' \in [Orders -> OrderStatus]
      /\ \A q \in Orders: \/ order'[q] = order[q]
                          \/ /\ q = o /\ hit /\ order'[q] = status
                             /\ order[q] \in {"pending", "failed", "paying"}
                             /\ status # "closed" => order[q] # "paying"
  BY OrderMoves
<1>2. WalletTypeOK'
  BY WalletNextTyped DEF RowsInv, RowsTypeOK
<1>3. trade' \in [Orders -> {"none", "offered", "wait", "success", "closed"}]
  BY DEF RowsInv, RowsTypeOK
<1>4. RowsTypeOK'
  BY <1>1, <1>2, <1>3 DEF RowsInv, RowsTypeOK
<1>5. \A q \in Orders: order'[q] = "paid" <=> order[q] = "paid"
  BY <1>1
<1>6. \A q \in Orders: \/ trade'[q] = trade[q]
                       \/ /\ order[q] \in {"pending", "failed"} /\ trade[q] = "none"
                          /\ trade'[q] = "offered" /\ order'[q] = "paying"
  BY OrdersAreRecharges
     DEF RowsInv, RowsTypeOK, Unoffered, UpdateOrder, OrderLeaves
<1>7. SettledTogether'
  BY <1>5, <1>6, OrdersAreRecharges
     DEF RowsInv, walletVars, SettledTogether, Settled, HasRecharge, RowsOf
<1>8. Unoffered'
  BY <1>1, <1>6, OrdersAreRecharges DEF RowsInv, RowsTypeOK, Unoffered,
     UpdateOrder, OrderLeaves
<1>9. \A u \in Users: IsFiniteSet(CreditedOf(u))'
  BY DEF RowsInv, CreditedOf
<1>10. Onward
  BY <1>5, <1>6 DEF Onward, Unpayable
<1> QED
  BY <1>4, <1>7, <1>8, <1>9, <1>10 DEF RowsInv

\* UpdateRechargePaying, UpdateRechargeFailed and UpdateRechargeClosed.
LEMMA RechargeWriteKeeps ==
  ASSUME RowsInv, NEW o \in Orders, NEW hit \in BOOLEAN,
         NEW status \in {"paying", "failed", "closed"}, UpdateRecharge(o, status, hit),
         UNCHANGED <<walletVars, order, expired, event, trade>>
  PROVE  RowsInv' /\ Onward
<1>1. \A q \in Orders: \/ recharge'[q] = recharge[q]
                       \/ /\ recharge[q] \in {"pending", "failed", "paying"}
                          /\ recharge'[q] = status
  BY OrdersAreRecharges
     DEF RowsInv, RowsTypeOK, UpdateRecharge, RechargeLeaves
<1>2. WalletTypeOK'
  BY WalletNextTyped DEF RowsInv, RowsTypeOK
<1>3. recharge' \in [Orders -> RechargeStatus]
  BY DEF RowsInv, RowsTypeOK, UpdateRecharge, RechargeStatus
<1>4. RowsTypeOK'
  BY <1>1, <1>2, <1>3 DEF RowsInv, RowsTypeOK
<1>5. \A q \in Orders: /\ recharge'[q] = "credited" <=> recharge[q] = "credited"
                       /\ recharge'[q] = "none" <=> recharge[q] = "none"
  BY <1>1
<1>6. \A u \in Users: CreditedOf(u)' = CreditedOf(u)
  BY <1>5, OrdersAreRecharges DEF CreditedOf
<1>7. SettledTogether'
  BY <1>5, <1>6, OrdersAreRecharges
     DEF RowsInv, walletVars, SettledTogether, Settled, HasRecharge, RowsOf, CreditedOf
<1>8. Unoffered' /\ Onward
  BY DEF RowsInv, Unoffered, Onward, Unpayable
<1>9. \A u \in Users: IsFiniteSet(CreditedOf(u))'
  BY <1>6 DEF RowsInv
<1> QED
  BY <1>4, <1>7, <1>8, <1>9 DEF RowsInv

\* Alipay's side of an order whose URL is out.
LEMMA TradeMoveKeeps ==
  ASSUME RowsInv, NEW o \in Orders, UnchangedRows,
         NEW to \in {"wait", "success", "closed"},
         trade' = [trade EXCEPT ![o] = to],
         trade[o] = "wait" \/ (trade[o] = "offered" /\ ~expired[o])
  PROVE  RowsInv' /\ Onward
<1>1. WalletTypeOK'
  BY WalletNextTyped DEF RowsInv, RowsTypeOK, UnchangedRows
<1>2. RowsTypeOK'
  BY <1>1, OrdersAreRecharges DEF RowsInv, RowsTypeOK, UnchangedRows
<1>3. \A q \in Orders: \/ trade'[q] = trade[q]
                       \/ /\ q = o /\ trade'[q] = to
                          /\ trade[q] = "wait" \/ (trade[q] = "offered" /\ ~expired[q])
  BY DEF RowsInv, RowsTypeOK
<1>4. Unoffered'
  BY <1>3 DEF RowsInv, Unoffered, UnchangedRows
<1>5. SettledTogether'
  BY <1>3, SettledStays DEF RowsInv, UnchangedRows, walletVars, SettledTogether
<1>6. \A u \in Users: IsFiniteSet(CreditedOf(u))'
  BY DEF RowsInv, CreditedOf, UnchangedRows
<1>7. Onward
  BY <1>3 DEF UnchangedRows, Onward, Unpayable
<1> QED
  BY <1>2, <1>4, <1>5, <1>6, <1>7 DEF RowsInv

\* A notification is recorded, or its processing failed; time passes.
LEMMA NoteKeeps ==
  ASSUME RowsInv, UNCHANGED <<walletVars, order, recharge, trade>>,
         event' \in [Orders -> {"none", "pending", "failed", "success"}],
         \A o \in Orders: event'[o] = "success" => event[o] = "success",
         expired' \in [Orders -> BOOLEAN],
         \A o \in Orders: expired[o] => expired'[o]
  PROVE  RowsInv' /\ Onward
<1>1. WalletTypeOK'
  BY WalletNextTyped DEF RowsInv, RowsTypeOK
<1>2. RowsTypeOK'
  BY <1>1 DEF RowsInv, RowsTypeOK
<1>3. SettledTogether'
  BY DEF RowsInv, walletVars, SettledTogether, Settled, HasRecharge, RowsOf
<1>4. Unoffered' /\ \A u \in Users: IsFiniteSet(CreditedOf(u))'
  BY DEF RowsInv, Unoffered, CreditedOf
<1>5. Onward
  BY DEF Onward, Unpayable
<1> QED
  BY <1>2, <1>3, <1>4, <1>5 DEF RowsInv
-----------------------------------------------------------------------------
(* New orders, and the finalizer.                                          *)

\* An order is created pending, with its recharge or alone.
LEMMA CreatedKeeps ==
  ASSUME RowsInv, NEW o \in Orders, order[o] = "none",
         order' = [order EXCEPT ![o] = "pending"],
         recharge' \in {recharge, [recharge EXCEPT ![o] = "pending"]},
         WalletTypeOK', UNCHANGED <<ledger, expired, event, trade>>,
         \A u \in Users: wallets'[u].totalRecharge = wallets[u].totalRecharge
  PROVE  RowsInv' /\ Onward
<1>1. /\ order \in [Orders -> OrderStatus] /\ recharge \in [Orders -> RechargeStatus]
      /\ \A q \in Orders: recharge[q] # "none" => order[q] # "none"
  BY DEF RowsInv, RowsTypeOK
<1>2. /\ order' \in [Orders -> OrderStatus] /\ recharge' \in [Orders -> RechargeStatus]
      /\ \A q \in Orders \ {o}: order'[q] = order[q] /\ recharge'[q] = recharge[q]
      /\ order'[o] = "pending" /\ recharge[o] = "none"
      /\ recharge'[o] \in {"none", "pending"}
  BY <1>1 DEF OrderStatus, RechargeStatus
<1>3. RowsTypeOK'
  BY <1>1, <1>2 DEF RowsInv, RowsTypeOK
<1>4. Unoffered'
  BY <1>2 DEF RowsInv, Unoffered
<1>5. \A q \in Orders: /\ order'[q] = "paid" <=> order[q] = "paid"
                       /\ recharge'[q] = "credited" <=> recharge[q] = "credited"
                       /\ order[q] = "paid" =>
                            (recharge'[q] = "none" <=> recharge[q] = "none")
  BY <1>2
<1>6. SettledTogether'
  BY <1>5, SettledStays DEF RowsInv, SettledTogether
<1>7. \A u \in Users: CreditedOf(u)' = CreditedOf(u)
  BY <1>5, OrdersAreRecharges DEF CreditedOf
<1>8. \A u \in Users: IsFiniteSet(CreditedOf(u))'
  BY <1>7 DEF RowsInv
<1>9. Onward
  BY <1>5 DEF Onward, Unpayable
<1> QED
  BY <1>3, <1>4, <1>6, <1>8, <1>9 DEF RowsInv

\* finalizePaidOrderInTx leaves a settled order behind, and touches no other.
LEMMA SettleKeeps ==
  ASSUME RowsInv, NEW o \in Orders, trade[o] = "success", Settleable(o), Settle(o),
         UNCHANGED <<expired, trade>>,
         event' = event \/ event' = [event EXCEPT ![o] = "success"]
  PROVE  RowsInv' /\ Onward
<1>1. /\ WalletTypeOK /\ order \in [Orders -> OrderStatus]
      /\ recharge \in [Orders -> RechargeStatus]
      /\ event \in [Orders -> {"none", "pending", "failed", "success"}]
      /\ \A q \in Orders: recharge[q] # "none" => order[q] # "none"
      /\ Owner[o] \in Users /\ o \in Recharges
  BY OrdersAreRecharges DEF RowsInv, RowsTypeOK
<1>2. order' = [order EXCEPT ![o] = "paid"] /\ order[o] \in {"pending", "paying"}
  BY DEF Settle, Settleable
<1>3. /\ order' \in [Orders -> OrderStatus] /\ order'[o] = "paid"
      /\ \A q \in Orders \ {o}: order'[q] = order[q]
  BY <1>1, <1>2 DEF OrderStatus
<1>4. /\ event' \in [Orders -> {"none", "pending", "failed", "success"}]
      /\ \A q \in Orders \ {o}: event'[q] = event[q]
  BY <1>1
<1>5. Unoffered'
  BY <1>3 DEF RowsInv, Unoffered
<1>6. Onward
  BY <1>3 DEF Onward, Unpayable
<1>7. CASE recharge[o] = "none"
  <2>1. UNCHANGED <<walletVars, recharge>>
    BY <1>7 DEF Settle, HasRecharge
  <2>2. WalletTypeOK'
    BY <1>1, <2>1, WalletNextTyped
  <2>3. RowsTypeOK'
    BY <1>1, <1>3, <1>4, <2>1, <2>2 DEF RowsInv, RowsTypeOK
  <2>4. \A u \in Users: CreditedOf(u)' = CreditedOf(u) /\ IsFiniteSet(CreditedOf(u))'
    BY <2>1 DEF CreditedOf, RowsInv
  <2>5. \A u \in Users: wallets'[u].totalRecharge = OrderUnits * Cardinality(CreditedOf(u))'
    BY <2>1, <2>4 DEF RowsInv, SettledTogether, CreditedOf, walletVars
  <2>6. \A q \in Orders:
          /\ HasRecharge(q)' => ((order'[q] = "paid") <=> (recharge'[q] = "credited"))
          /\ (recharge'[q] = "credited") <=> (RowsOf(<<"recharge", q>>)' # {})
          /\ order'[q] = "paid" => trade'[q] = "success"
    BY <1>3, <1>7, <2>1 DEF RowsInv, SettledTogether, HasRecharge, RowsOf, walletVars
  <2>7. \A q \in Orders: event'[q] = "success" => Settled(q)'
    BY <1>3, <1>4, <1>7, <2>1 DEF RowsInv, SettledTogether, Settled, HasRecharge
  <2>8. SettledTogether'
    BY <2>5, <2>6, <2>7 DEF SettledTogether, CreditedOf
  <2> QED
    BY <1>5, <1>6, <2>3, <2>4, <2>8 DEF RowsInv
<1>8. CASE recharge[o] # "none"
  <2>1. /\ Credit(Owner[o], <<"recharge", o>>, OrderUnits)
        /\ recharge' = [recharge EXCEPT ![o] = "credited"]
        /\ recharge[o] \in {"pending", "paying"}
    BY <1>8 DEF Settle, Settleable, HasRecharge, CreditRecharge
  <2>2. <<"recharge", o>> \in Source
    BY <1>1, SourceTyped
  <2>3. WalletTypeOK'
    BY <1>1, <2>1, <2>2, CreditTyped
  <2>4. /\ \A s: RowsOf(s)' = IF s = <<"recharge", o>> THEN {Len(ledger) + 1} ELSE RowsOf(s)
        /\ wallets'[Owner[o]].totalRecharge = wallets[Owner[o]].totalRecharge + OrderUnits
        /\ \A v \in Users \ {Owner[o]}: wallets'[v] = wallets[v]
    BY <1>1, <2>1, <2>2, CreditRows
  <2>5. /\ recharge' \in [Orders -> RechargeStatus] /\ recharge'[o] = "credited"
        /\ \A q \in Orders \ {o}: recharge'[q] = recharge[q]
    BY <1>1, <2>1 DEF RechargeStatus
  <2>6. RowsTypeOK'
    BY <1>1, <1>3, <1>4, <2>3, <2>5 DEF RowsInv, RowsTypeOK
  <2>7. /\ \A v \in Users \ {Owner[o]}: CreditedOf(v)' = CreditedOf(v)
        /\ CreditedOf(Owner[o])' = CreditedOf(Owner[o]) \cup {o}
        /\ o \notin CreditedOf(Owner[o])
    BY <1>1, <2>1, <2>5, OrdersAreRecharges DEF CreditedOf
  <2>8. /\ IsFiniteSet(CreditedOf(Owner[o]))' /\ Cardinality(CreditedOf(Owner[o])) \in Nat
        /\ Cardinality(CreditedOf(Owner[o]))' = Cardinality(CreditedOf(Owner[o])) + 1
    <3>1. IsFiniteSet(CreditedOf(Owner[o]))
      BY <1>1 DEF RowsInv
    <3> QED
      BY <2>7, <3>1, FS_AddElement, FS_CardinalityType
  <2>9. \A u \in Users: wallets'[u].totalRecharge = OrderUnits * Cardinality(CreditedOf(u))'
    <3>1. \A u \in Users: wallets[u].totalRecharge = OrderUnits * Cardinality(CreditedOf(u))
      BY DEF RowsInv, SettledTogether, CreditedOf
    <3>2. \A v \in Users \ {Owner[o]}:
            wallets'[v].totalRecharge = OrderUnits * Cardinality(CreditedOf(v))'
      BY <2>4, <2>7, <3>1
    <3>3. \A a, b \in Int: a * b + a = a * (b + 1)
      OBVIOUS
    <3>4. OrderUnits \in Int /\ Cardinality(CreditedOf(Owner[o])) \in Int
      BY <2>8, AmountsAssumption
    <3> QED
      BY <1>1, <2>4, <2>8, <3>1, <3>2, <3>3, <3>4
  <2>10. \A q \in Orders:
          /\ HasRecharge(q)' => ((order'[q] = "paid") <=> (recharge'[q] = "credited"))
          /\ (recharge'[q] = "credited") <=> (RowsOf(<<"recharge", q>>)' # {})
          /\ order'[q] = "paid" => trade'[q] = "success"
    <3> TAKE q \in Orders
    <3>1. CASE q = o
      BY <1>3, <2>4, <2>5, <3>1
    <3>2. CASE q # o
      <4>1. RowsOf(<<"recharge", q>>)' = RowsOf(<<"recharge", q>>)
        BY <2>4, <3>2
      <4> QED
        BY <1>3, <2>5, <3>2, <4>1 DEF RowsInv, SettledTogether, HasRecharge
    <3> QED
      BY <3>1, <3>2
  <2>11. \A q \in Orders: event'[q] = "success" => Settled(q)'
    BY <1>3, <1>4, <2>5 DEF RowsInv, SettledTogether, Settled, HasRecharge
  <2>12. SettledTogether'
    BY <2>9, <2>10, <2>11 DEF SettledTogether, CreditedOf
  <2>13. \A u \in Users: IsFiniteSet(CreditedOf(u))'
    BY <1>1, <2>7, <2>8 DEF RowsInv
  <2> QED
    BY <1>5, <1>6, <2>6, <2>12, <2>13 DEF RowsInv
<1> QED
  BY <1>7, <1>8
\* A notification of an order that was settled before is processed.
LEMMA ReplayKeeps ==
  ASSUME RowsInv, NEW o \in Orders, Settled(o),
         UNCHANGED <<walletVars, order, recharge, expired, trade>>,
         event' = [event EXCEPT ![o] = "success"]
  PROVE  RowsInv' /\ Onward
<1>1. WalletTypeOK'
  BY WalletNextTyped DEF RowsInv, RowsTypeOK
<1>2. /\ event' \in [Orders -> {"none", "pending", "failed", "success"}]
      /\ \A q \in Orders \ {o}: event'[q] = event[q]
  BY DEF RowsInv, RowsTypeOK
<1>3. RowsTypeOK'
  BY <1>1, <1>2 DEF RowsInv, RowsTypeOK
<1>4. SettledTogether'
  BY <1>2 DEF RowsInv, walletVars, SettledTogether, Settled, HasRecharge, RowsOf
<1>5. Unoffered' /\ \A u \in Users: IsFiniteSet(CreditedOf(u))'
  BY DEF RowsInv, Unoffered, CreditedOf
<1>6. Onward
  BY DEF Onward, Unpayable
<1> QED
  BY <1>3, <1>4, <1>5, <1>6 DEF RowsInv

-----------------------------------------------------------------------------
(* Handlers.                                                               *)

\* The places that rest on nothing but the order, and its expiry if
\* CloseExpiredOrders took it up.
Anywhere == {"idle", "internalError", "payGateway", "payReload",
             "rechargeFailed", "rechargePaying", "rechargeClose", "syncLoad",
             "query", "syncReload", "linkedLoad", "linkedClose"}

LEMMA AnywhereIsKnown ==
  ASSUME NEW p, NEW pc \in Anywhere, NEW entry, NEW o \in Orders,
         entry = "cronExpire" => expired[o]
  PROVE  pc \in PC /\ Knows(p, pc, entry, o)
BY DEF Anywhere, PC, Knows

\* A handler that reads, and goes where what it read leads.
LEMMA ReadKeeps ==
  ASSUME PaymentInv, UnchangedRows, UNCHANGED trade,
         NEW p \in Processes, NEW pc \in PC, Goto(p, pc),
         Knows(p, pc, proc[p].entry, proc[p].order)
  PROVE  PaymentInv'
<1> DEFINE e == proc[p].entry
           o == proc[p].order
<1>1. RowsInv' /\ Onward
  BY NothingMoves DEF PaymentInv
<1>2. PICK entry, q: entry = e /\ q = o
  OBVIOUS
<1>3. Knows(p, pc, entry, q)'
  BY <1>2 DEF Knows, UnchangedRows, Unpayable
<1>4. ProcsInv'
  BY <1>1, <1>2, <1>3, MoveKeeps DEF PaymentInv
<1> QED
  BY <1>1, <1>4 DEF PaymentInv

\* A handler under way has an order, which is past its expiry if
\* CloseExpiredOrders took it up.
LEMMA BusyHasOrder ==
  ASSUME PaymentInv, NEW p \in Processes, ~Resting(p)
  PROVE  /\ proc[p].order \in Orders
         /\ proc[p].entry \in Entry
         /\ order[proc[p].order] \in OrderStatus
         /\ trade[proc[p].order] \in {"none", "offered", "wait", "success", "closed"}
         /\ expired[proc[p].order] \in BOOLEAN
         /\ proc[p].entry = "cronExpire" => expired[proc[p].order]
BY DEF PaymentInv, ProcsInv, RowsInv, RowsTypeOK, Informed, Knows, Resting, Process

\* A handler that writes, and goes where it needs to know nothing.
LEMMA WriteKeeps ==
  ASSUME PaymentInv, RowsInv', Onward, NEW p \in Processes, ~Resting(p),
         NEW pc \in Anywhere, Goto(p, pc)
  PROVE  PaymentInv'
<1>1. PICK entry, o: entry = proc[p].entry /\ o = proc[p].order
  OBVIOUS
<1>2. o \in Orders /\ (entry = "cronExpire" => expired'[o])
  BY <1>1, BusyHasOrder DEF Onward
<1>3. pc \in PC /\ Knows(p, pc, entry, o)'
  BY <1>2 DEF Anywhere, PC, Knows
<1>4. ProcsInv'
  BY <1>1, <1>3, MoveKeeps DEF PaymentInv
<1> QED
  BY <1>4 DEF PaymentInv

\* PayOrder, and what payRechargeRow records of it.
LEMMA PayKeeps ==
  ASSUME PaymentInv, NEW p \in Processes,
         \/ PayLoad(p) \/ PayClock(p) \/ PayExpire(p) \/ PayStored(p)
         \/ PayRefused(p) \/ PayReload(p) \/ RechargeAnswered(p) \/ RechargeClose(p)
  PROVE  PaymentInv'
<1> DEFINE o == proc[p].order
<1>1. /\ ~Resting(p) /\ o \in Orders /\ order[o] \in OrderStatus
      /\ expired[o] \in BOOLEAN
      /\ proc[p].entry = "cronExpire" => expired[o]
  BY BusyHasOrder DEF PayLoad, PayClock, PayExpire, PayStored, PayRefused, PayReload,
     RechargeAnswered, RechargeClose, At, Resting
<1>2. \A answer \in {"paying", "closed", "error"}: AfterPay(p, answer) \in Anywhere
  BY DEF AfterPay, Anywhere
<1>3. ASSUME NEW pc \in Anywhere, Goto(p, pc), UnchangedRows, UNCHANGED trade
      PROVE  PaymentInv'
  BY <1>1, <1>3, ReadKeeps, AnywhereIsKnown
<1>4. CASE PayLoad(p) \/ PayClock(p)
  <2>1. /\ UnchangedRows /\ UNCHANGED trade
        /\ \/ Goto(p, "payClock")
           \/ expired[o] /\ Goto(p, "payExpire")
           \/ \E pc \in Anywhere: Goto(p, pc)
    BY <1>1, <1>2, <1>4 DEF PayLoad, PayClock, OrderStatus, Anywhere
  <2>2. proc[p].entry # "cronExpire"
    BY <1>4 DEF PayLoad, PayClock, At, PaymentInv, ProcsInv, Informed, Knows
  <2>3. CASE Goto(p, "payClock")
    BY <1>1, <2>1, <2>2, <2>3, ReadKeeps DEF Knows, PC
  <2>4. CASE expired[o] /\ Goto(p, "payExpire")
    BY <1>1, <2>1, <2>2, <2>4, ReadKeeps DEF Knows, PC
  <2> QED
    BY <1>3, <2>1, <2>3, <2>4
<1>5. CASE PayExpire(p)
  <2>1. PICK hit \in BOOLEAN:
          /\ UpdateOrder(o, "closed", hit)
          /\ Goto(p, AfterPay(p, IF hit THEN "closed" ELSE "error"))
    BY <1>5 DEF PayExpire
  <2>2. RowsInv' /\ Onward
    BY <1>1, <1>5, <2>1, OrderWriteKeeps DEF PayExpire, PaymentInv
  <2> QED
    BY <1>1, <1>2, <2>1, <2>2, WriteKeeps
<1>6. CASE PayStored(p)
  <2>1. PICK hit \in BOOLEAN:
          /\ UpdateOrder(o, "paying", hit)
          /\ trade' = IF hit THEN [trade EXCEPT ![o] = "offered"] ELSE trade
    BY <1>6 DEF PayStored
  <2>2. RowsInv' /\ Onward
    BY <1>1, <1>6, <2>1, OrderWriteKeeps DEF PayStored, PaymentInv
  <2>3. Goto(p, "payReload") /\ "payReload" \in Anywhere
    BY <1>6 DEF PayStored, Anywhere
  <2> QED
    BY <1>1, <2>2, <2>3, WriteKeeps
<1>7. CASE PayRefused(p)
  <2>1. PICK hit \in BOOLEAN:
          /\ UpdateOrder(o, "failed", hit)
          /\ Goto(p, IF hit THEN AfterPay(p, "error") ELSE "payReload")
    BY <1>7 DEF PayRefused
  <2>2. RowsInv' /\ Onward
    BY <1>1, <1>7, <2>1, OrderWriteKeeps DEF PayRefused, PaymentInv
  <2>3. (IF hit THEN AfterPay(p, "error") ELSE "payReload") \in Anywhere
    BY <1>2 DEF Anywhere
  <2> QED
    BY <1>1, <2>1, <2>2, <2>3, WriteKeeps
<1>8. CASE PayReload(p)
  BY <1>2, <1>3, <1>8 DEF PayReload
<1>9. CASE RechargeAnswered(p)
  <2>1. PICK hit \in BOOLEAN, status \in {"paying", "failed"}:
          UpdateRecharge(o, status, hit)
    BY <1>9 DEF RechargeAnswered
  <2>2. RowsInv' /\ Onward
    BY <1>1, <1>9, <2>1, RechargeWriteKeeps DEF RechargeAnswered, PaymentInv
  <2>3. Goto(p, "idle") /\ "idle" \in Anywhere
    BY <1>9 DEF RechargeAnswered, Anywhere
  <2> QED
    BY <1>1, <2>2, <2>3, WriteKeeps
<1>10. CASE RechargeClose(p)
  <2>1. PICK hit \in BOOLEAN:
          /\ UpdateRecharge(o, "closed", hit)
          /\ Goto(p, IF hit \/ proc[p].entry = "payRecharge"
                     THEN "idle" ELSE "internalError")
    BY <1>10 DEF RechargeClose
  <2>2. RowsInv' /\ Onward
    BY <1>1, <1>10, <2>1, RechargeWriteKeeps DEF RechargeClose, PaymentInv
  <2>3. {"idle", "internalError"} \subseteq Anywhere
    BY DEF Anywhere
  <2> QED
    BY <1>1, <2>1, <2>2, <2>3, WriteKeeps
<1> QED
  BY <1>4, <1>5, <1>6, <1>7, <1>8, <1>9, <1>10
\* SyncOrder, the cron's query, and what either does with a settled order.
LEMMA SyncKeeps ==
  ASSUME PaymentInv, NEW p \in Processes,
         \/ SyncLoad(p) \/ Query(p) \/ NotExist(p) \/ QueryFails(p) \/ SyncReload(p)
  PROVE  PaymentInv'
<1> DEFINE o == proc[p].order
           e == proc[p].entry
<1>1. /\ o \in Orders /\ e \in Entry /\ order[o] \in OrderStatus
      /\ trade[o] \in {"none", "offered", "wait", "success", "closed"}
      /\ expired[o] \in BOOLEAN
      /\ e = "cronExpire" => expired[o]
  BY BusyHasOrder DEF SyncLoad, Query, NotExist, QueryFails, SyncReload, At, Resting
<1>2. /\ UnchangedRows /\ UNCHANGED trade
      /\ {"idle", "query", "syncReload", "rechargeClose"} \subseteq Anywhere
  BY DEF SyncLoad, Query, NotExist, QueryFails, SyncReload, Anywhere
<1>3. ASSUME NEW pc \in Anywhere, Goto(p, pc) PROVE PaymentInv'
  BY <1>1, <1>2, <1>3, ReadKeeps, AnywhereIsKnown
<1>4. CASE SyncLoad(p) \/ QueryFails(p)
  BY <1>2, <1>3, <1>4 DEF SyncLoad, QueryFails
<1>5. CASE Query(p)
  <2>1. \/ trade[o] = "success" /\ Goto(p, "finalize")
        \/ trade[o] = "closed" /\ Goto(p, "closeOrder")
        \/ (e = "cronExpire" => Unpayable(o)) /\ Goto(p, "notExist")
        \/ Goto(p, "gatewayClose")
        \/ Goto(p, "idle") \/ Goto(p, "syncReload")
    BY <1>1, <1>5 DEF Query, AfterQuery, TradeAnswer, AfterSync, Unpayable
  <2>2. ASSUME NEW pc \in {"finalize", "closeOrder", "notExist", "gatewayClose"},
               Goto(p, pc), Knows(p, pc, e, o)
        PROVE  PaymentInv'
    BY <1>2, <2>2, ReadKeeps DEF PC
  <2> QED
    BY <1>1, <1>2, <1>3, <2>1, <2>2 DEF Knows
<1>6. CASE SyncReload(p)
  <2>1. \/ order[o] = "paid" /\ Goto(p, "settleAgain")
        \/ Goto(p, "rechargeClose") \/ Goto(p, "idle")
    BY <1>1, <1>6 DEF SyncReload
  <2>2. CASE order[o] = "paid" /\ Goto(p, "settleAgain")
    BY <1>1, <1>2, <2>2, ReadKeeps DEF Knows, PC
  <2> QED
    BY <1>2, <1>3, <2>1, <2>2
<1>7. CASE NotExist(p)
  <2>1. \/ expired[o] /\ Goto(p, "closeOrder")
        \/ Goto(p, "idle")
    BY <1>7 DEF NotExist
  <2>2. e = "cronExpire" => Unpayable(o)
    BY <1>7 DEF NotExist, At, PaymentInv, ProcsInv, Informed, Knows
  <2>3. CASE expired[o] /\ Goto(p, "closeOrder")
    BY <1>1, <1>2, <2>2, <2>3, ReadKeeps DEF Knows, PC
  <2> QED
    BY <1>2, <1>3, <2>1, <2>3
<1> QED
  BY <1>4, <1>5, <1>6, <1>7

\* Whoever finalizes, settles an order the buyer has paid.
LEMMA FinalizerKeeps ==
  ASSUME PaymentInv, NEW p \in Processes,
         \/ Finalize(p) \/ FinalizeIdles(p) \/ SettleAgain(p)
         \/ ResolvePaid(p) \/ ResolveFails(p)
  PROVE  PaymentInv'
<1> DEFINE o == proc[p].order
<1>1. /\ ~Resting(p) /\ o \in Orders /\ order[o] \in OrderStatus
      /\ trade[o] \in {"none", "offered", "wait", "success", "closed"}
      /\ proc[p].entry = "cronExpire" => expired[o]
  BY BusyHasOrder DEF Finalize, FinalizeIdles, SettleAgain, ResolvePaid, ResolveFails,
     At, Resting
<1>2. AfterSync(p) \in Anywhere /\ "idle" \in Anywhere
  BY DEF AfterSync, Anywhere
<1>3. Informed(p) /\ RowsInv /\ RowsTypeOK
  BY DEF PaymentInv, ProcsInv, RowsInv
<1>4. CASE Finalize(p)
  <2>1. trade[o] = "success"
    BY <1>3, <1>4 DEF Finalize, At, Informed, Knows
  <2>2. RowsInv' /\ Onward
    BY <1>1, <1>3, <1>4, <2>1, SettleKeeps DEF Finalize
  <2>3. Goto(p, AfterSync(p))
    BY <1>4 DEF Finalize
  <2> QED
    BY <1>1, <1>2, <2>2, <2>3, WriteKeeps
<1>5. CASE FinalizeIdles(p)
  BY <1>1, <1>2, <1>5, ReadKeeps, AnywhereIsKnown DEF FinalizeIdles
<1>6. CASE SettleAgain(p)
  <2>1. ~Settleable(o)
    BY <1>3, <1>6 DEF SettleAgain, At, Informed, Knows, Settleable
  <2>2. UnchangedRows /\ UNCHANGED trade /\ Goto(p, "idle")
    BY <1>6, <2>1 DEF SettleAgain, UnchangedRows, walletVars
  <2> QED
    BY <1>1, <1>2, <2>2, ReadKeeps, AnywhereIsKnown
<1>7. CASE ResolvePaid(p)
  <2>1. trade[o] = "success" /\ Goto(p, "idle") /\ UNCHANGED <<expired, trade>>
    BY <1>3, <1>7 DEF ResolvePaid, At, Informed, Knows
  <2>2. event' = [event EXCEPT ![o] = "success"]
    BY <1>7 DEF ResolvePaid
  <2>3. CASE Settleable(o)
    <3>1. RowsInv' /\ Onward
      BY <1>1, <1>3, <1>7, <2>1, <2>2, <2>3, SettleKeeps DEF ResolvePaid
    <3> QED
      BY <1>1, <1>2, <2>1, <3>1, WriteKeeps
  <2>4. CASE ~Settleable(o)
    <3>1. Settled(o) /\ UNCHANGED <<walletVars, order, recharge>>
      BY <1>7, <2>4 DEF ResolvePaid, Resolves
    <3>2. RowsInv' /\ Onward
      BY <1>1, <1>3, <2>1, <2>2, <3>1, ReplayKeeps
    <3> QED
      BY <1>1, <1>2, <2>1, <3>2, WriteKeeps
  <2> QED
    BY <2>3, <2>4
<1>8. CASE ResolveFails(p)
  <2>1. /\ UNCHANGED <<walletVars, order, recharge, expired, trade>> /\ Goto(p, "idle")
        /\ event' = IF event[o] = "success" THEN event ELSE [event EXCEPT ![o] = "failed"]
    BY <1>8 DEF ResolveFails
  <2>2. /\ event' \in [Orders -> {"none", "pending", "failed", "success"}]
        /\ \A q \in Orders: event'[q] = "success" => event[q] = "success"
        /\ expired' \in [Orders -> BOOLEAN]
    BY <1>1, <1>3, <2>1 DEF RowsTypeOK
  <2>3. RowsInv' /\ Onward
    BY <1>3, <2>1, <2>2, NoteKeeps
  <2> QED
    BY <1>1, <1>2, <2>1, <2>3, WriteKeeps
<1> QED
  BY <1>4, <1>5, <1>6, <1>7, <1>8
\* What closes an order and its recharge, at Alipay and in the rows.
LEMMA CloseKeeps ==
  ASSUME PaymentInv, NEW p \in Processes,
         \/ CloseQueriedOrder(p) \/ LinkedLoad(p) \/ LinkedClose(p) \/ CloseLoad(p)
         \/ GatewayClose(p) \/ GatewayCloseFails(p) \/ CloseCas(p)
  PROVE  PaymentInv'
<1> DEFINE o == proc[p].order
           e == proc[p].entry
<1>1. /\ ~Resting(p) /\ o \in Orders /\ e \in Entry /\ order[o] \in OrderStatus
      /\ trade[o] \in {"none", "offered", "wait", "success", "closed"}
      /\ expired[o] \in BOOLEAN
      /\ e = "cronExpire" => expired[o]
  BY BusyHasOrder DEF CloseQueriedOrder, LinkedLoad, LinkedClose, CloseLoad,
     GatewayClose, GatewayCloseFails, CloseCas, At, Resting
<1>2. /\ AfterSync(p) \in Anywhere /\ AfterClose(p) \in Anywhere
      /\ AfterGatewayError(p) \in Anywhere
      /\ {"idle", "internalError", "linkedLoad", "linkedClose"} \subseteq Anywhere
  BY DEF AfterSync, AfterClose, AfterGatewayError, Anywhere
<1>3. Informed(p) /\ RowsInv /\ RowsTypeOK
  BY DEF PaymentInv, ProcsInv, RowsInv
<1>4. CASE CloseQueriedOrder(p)
  <2>1. PICK hit \in BOOLEAN: /\ UpdateOrder(o, "closed", hit)
                              /\ Goto(p, IF hit THEN "linkedLoad" ELSE AfterSync(p))
    BY <1>4 DEF CloseQueriedOrder
  <2>2. RowsInv' /\ Onward
    BY <1>1, <1>3, <1>4, <2>1, OrderWriteKeeps DEF CloseQueriedOrder
  <2> QED
    BY <1>1, <1>2, <2>1, <2>2, WriteKeeps
<1>5. CASE LinkedLoad(p)
  BY <1>1, <1>2, <1>5, ReadKeeps, AnywhereIsKnown DEF LinkedLoad
<1>6. CASE LinkedClose(p)
  <2>1. PICK hit \in BOOLEAN: /\ UpdateRecharge(o, "closed", hit)
                              /\ Goto(p, IF hit THEN AfterSync(p) ELSE "idle")
    BY <1>6 DEF LinkedClose
  <2>2. RowsInv' /\ Onward
    BY <1>1, <1>3, <1>6, <2>1, RechargeWriteKeeps DEF LinkedClose
  <2> QED
    BY <1>1, <1>2, <2>1, <2>2, WriteKeeps
<1>7. CASE CloseLoad(p)
  <2>1. UnchangedRows /\ UNCHANGED trade
    BY <1>7 DEF CloseLoad
  <2>2. ASSUME NEW pc \in {"gatewayClose", "closeCas"}, Goto(p, pc)
        PROVE  PaymentInv'
    BY <1>1, <2>1, <2>2, ReadKeeps DEF Knows, PC
  <2>3. ASSUME NEW pc \in Anywhere, Goto(p, pc) PROVE PaymentInv'
    BY <1>1, <1>7, <2>3, ReadKeeps, AnywhereIsKnown DEF CloseLoad
  <2>4. \/ Goto(p, AfterClose(p)) \/ Goto(p, "gatewayClose")
        \/ Goto(p, "closeCas") \/ Goto(p, "idle")
    BY <1>1, <1>7 DEF CloseLoad
  <2> QED
    BY <1>2, <2>2, <2>3, <2>4
<1>8. ASSUME trade' \in {trade, [trade EXCEPT ![o] = IF @ = "wait" THEN "closed" ELSE @]},
             UnchangedRows
      PROVE  RowsInv' /\ Onward
  <2>1. CASE trade' = trade
    BY <1>3, <1>8, <2>1, NothingMoves
  <2>2. CASE trade' # trade
    <3>1. trade[o] = "wait" /\ trade' = [trade EXCEPT ![o] = "closed"]
      BY <1>1, <1>3, <1>8, <2>2 DEF RowsTypeOK
    <3> QED
      BY <1>1, <1>3, <1>8, <3>1, TradeMoveKeeps
  <2> QED
    BY <2>1, <2>2
<1>9. CASE GatewayClose(p)
  <2>1. /\ RowsInv' /\ Onward
        /\ trade' = [trade EXCEPT ![o] = IF @ = "wait" THEN "closed" ELSE @]
        /\ Goto(p, AfterGatewayClose(p))
    BY <1>8, <1>9 DEF GatewayClose
  <2>2. PICK entry, q: entry = e /\ q = o
    OBVIOUS
  <2>3. CASE e = "cronExpire"
    <3>1. trade'[o] = "closed" /\ expired'[o]
      BY <1>1, <1>3, <1>9, <2>1, <2>3 DEF GatewayClose, RowsTypeOK, Onward
    <3>2. Knows(p, "closeOrder", entry, q)'
      BY <1>1, <2>2, <3>1 DEF Knows
    <3>3. Goto(p, "closeOrder") /\ "closeOrder" \in PC
      BY <2>1, <2>3 DEF AfterGatewayClose, PC
    <3>4. ProcsInv'
      BY <2>1, <2>2, <3>2, <3>3, MoveKeeps DEF PaymentInv
    <3> QED
      BY <2>1, <3>4 DEF PaymentInv
  <2>4. CASE e # "cronExpire"
    <3>1. Knows(p, "closeCas", entry, q)'
      BY <1>1, <2>2, <2>4 DEF Knows
    <3>2. Goto(p, "closeCas") /\ "closeCas" \in PC
      BY <2>1, <2>4 DEF AfterGatewayClose, PC
    <3>3. ProcsInv'
      BY <2>1, <2>2, <3>1, <3>2, MoveKeeps DEF PaymentInv
    <3> QED
      BY <2>1, <3>3 DEF PaymentInv
  <2> QED
    BY <2>3, <2>4
<1>10. CASE GatewayCloseFails(p)
  <2>1. RowsInv' /\ Onward /\ Goto(p, AfterGatewayError(p))
    BY <1>8, <1>10 DEF GatewayCloseFails
  <2> QED
    BY <1>1, <1>2, <2>1, WriteKeeps
<1>11. CASE CloseCas(p)
  <2>1. PICK hit \in BOOLEAN: /\ UpdateOrder(o, "closed", hit)
                              /\ Goto(p, IF hit THEN AfterClose(p) ELSE "internalError")
    BY <1>11 DEF CloseCas
  <2>2. RowsInv' /\ Onward
    BY <1>1, <1>3, <1>11, <2>1, OrderWriteKeeps DEF CloseCas
  <2> QED
    BY <1>1, <1>2, <2>1, <2>2, WriteKeeps
<1> QED
  BY <1>4, <1>5, <1>6, <1>7, <1>9, <1>10, <1>11

LEMMA CrashKeeps ==
  ASSUME PaymentInv, NEW p \in Processes, Crash(p)
  PROVE  PaymentInv'
<1>1. RowsInv' /\ Onward
  BY NothingMoves DEF Crash, PaymentInv
<1>2. "idle" \in Anywhere /\ ~Resting(p) /\ Goto(p, "idle")
  BY DEF Anywhere, Crash
<1> QED
  BY <1>1, <1>2, WriteKeeps

-----------------------------------------------------------------------------
(* Entry points, the buyer and the clock.                                  *)

\* A request or a cron task takes up an order and moves no row yet.
LEMMA BeginKeeps ==
  ASSUME PaymentInv, UnchangedRows, UNCHANGED trade,
         NEW p \in Processes, NEW pc \in PC, NEW entry \in Entry, NEW o \in Orders,
         Begin(p, entry, o, pc), Knows(p, pc, entry, o)
  PROVE  PaymentInv'
<1>1. RowsInv' /\ Onward
  BY NothingMoves DEF PaymentInv
<1>2. Knows(p, pc, entry, o)'
  BY DEF Knows, UnchangedRows, Unpayable
<1>3. ProcsInv'
  BY <1>1, <1>2, StartKeeps DEF PaymentInv
<1> QED
  BY <1>1, <1>3 DEF PaymentInv

LEMMA RequestsAreProcesses == Requests \subseteq Processes /\ Workers \subseteq Processes
BY DEF Processes

LEMMA RequestKeeps ==
  ASSUME PaymentInv, NEW p \in Requests, NEW o \in Orders,
         \/ PayRecharge(p, o) \/ SyncRecharge(p, o) \/ CloseRecharge(p, o)
         \/ AdminOrder(p, o)
  PROVE  PaymentInv'
<1>1. UnchangedRows /\ UNCHANGED trade /\ p \in Processes
  BY RequestsAreProcesses DEF PayRecharge, SyncRecharge, CloseRecharge, AdminOrder
<1> DEFINE Asked == Entry \ {"cronExpire"}
<1>2. ASSUME NEW entry \in Asked, NEW pc \in Anywhere, Begin(p, entry, o, pc)
      PROVE  PaymentInv'
  BY <1>1, <1>2, BeginKeeps, AnywhereIsKnown
<1>3. ASSUME NEW entry \in Asked, NEW pc \in {"payLoad", "closeLoad"},
             Begin(p, entry, o, pc)
      PROVE  PaymentInv'
  BY <1>1, <1>3, BeginKeeps DEF Knows, PC
<1>4. /\ {"syncLoad", "rechargeClose"} \subseteq Anywhere
      /\ {"payRecharge", "syncRecharge", "closeRecharge", "payOrder", "syncOrder",
          "closeOrder"} \subseteq Asked
  BY DEF Anywhere, Entry
<1>5. CASE PayRecharge(p, o)
  BY <1>3, <1>4, <1>5 DEF PayRecharge
<1>6. CASE SyncRecharge(p, o)
  <2>1. \/ Begin(p, "syncRecharge", o, "syncLoad")
        \/ Begin(p, "syncRecharge", o, "rechargeClose")
        \/ order[o] = "paid" /\ Begin(p, "syncRecharge", o, "settleAgain")
    BY <1>6 DEF SyncRecharge
  <2>2. CASE order[o] = "paid" /\ Begin(p, "syncRecharge", o, "settleAgain")
    BY <1>1, <1>4, <2>2, BeginKeeps DEF Knows, PC
  <2> QED
    BY <1>2, <1>4, <2>1, <2>2
<1>7. CASE CloseRecharge(p, o)
  BY <1>3, <1>4, <1>7 DEF CloseRecharge
<1>8. CASE AdminOrder(p, o)
  BY <1>2, <1>3, <1>4, <1>8 DEF AdminOrder
<1> QED
  BY <1>5, <1>6, <1>7, <1>8

LEMMA CallbackKeeps ==
  ASSUME PaymentInv, NEW p \in Requests, NEW o \in Orders, Callback(p, o)
  PROVE  PaymentInv'
<1>1. /\ trade[o] = "success" /\ Begin(p, "callback", o, "resolve") /\ p \in Processes
      /\ UNCHANGED <<walletVars, order, recharge, expired, trade>>
      /\ event' = [event EXCEPT ![o] = IF @ = "none" THEN "pending" ELSE @]
  BY RequestsAreProcesses DEF Callback
<1>2. RowsInv /\ RowsTypeOK
  BY DEF PaymentInv, RowsInv
<1>3. /\ event' \in [Orders -> {"none", "pending", "failed", "success"}]
      /\ \A q \in Orders: event'[q] = "success" => event[q] = "success"
      /\ expired' \in [Orders -> BOOLEAN]
  BY <1>1, <1>2 DEF RowsTypeOK
<1>4. RowsInv' /\ Onward
  BY <1>1, <1>2, <1>3, NoteKeeps
<1>5. Knows(p, "resolve", "callback", o)'
  BY <1>1 DEF Knows
<1>6. "resolve" \in PC /\ "callback" \in Entry
  BY DEF PC, Entry
<1>7. ProcsInv'
  BY <1>1, <1>4, <1>5, <1>6, StartKeeps DEF PaymentInv
<1> QED
  BY <1>4, <1>7 DEF PaymentInv

\* A row is taken up by a cron task as it was when it was listed.
LEMMA CronKeeps ==
  ASSUME PaymentInv, NEW p \in Workers, NEW o \in Orders,
         CronSync(p, o) \/ CronExpire(p, o)
  PROVE  PaymentInv'
<1>1. UnchangedRows /\ UNCHANGED trade /\ p \in Processes
  BY RequestsAreProcesses DEF CronSync, SyncListed, CronExpire
<1>2. /\ {"cronSync", "cronExpire"} \subseteq Entry /\ "query" \in Anywhere
      /\ {"finalize", "closeOrder", "query"} \subseteq PC
  BY DEF Entry, Anywhere, PC
<1>3. \/ Begin(p, "cronSync", o, "query")
      \/ order[o] = "paid" /\ Begin(p, "cronSync", o, "finalize")
      \/ expired[o] /\ order[o] = "pending" /\ Begin(p, "cronExpire", o, "closeOrder")
      \/ expired[o] /\ Begin(p, "cronExpire", o, "query")
  BY DEF CronSync, SyncListed, CronExpire, Listed, Uncredited, ExpiredOrders
<1>4. CASE order[o] = "paid" /\ Begin(p, "cronSync", o, "finalize")
  <2>1. trade[o] = "success"
    BY <1>4 DEF PaymentInv, RowsInv, SettledTogether
  <2>2. Knows(p, "finalize", "cronSync", o)
    BY <2>1 DEF Knows
  <2> QED
    BY <1>1, <1>2, <1>4, <2>2, BeginKeeps
<1>5. CASE expired[o] /\ order[o] = "pending" /\ Begin(p, "cronExpire", o, "closeOrder")
  <2>1. expired[o] /\ Unpayable(o)
    BY <1>5 DEF PaymentInv, RowsInv, Unoffered, Unpayable
  <2>2. Knows(p, "closeOrder", "cronExpire", o)
    BY <2>1 DEF Knows
  <2> QED
    BY <1>1, <1>2, <1>5, <2>2, BeginKeeps
<1>6. ASSUME NEW entry \in {"cronSync", "cronExpire"}, Begin(p, entry, o, "query"),
             entry = "cronExpire" => expired[o]
      PROVE  PaymentInv'
  BY <1>1, <1>2, <1>6, BeginKeeps, AnywhereIsKnown
<1> QED
  BY <1>3, <1>4, <1>5, <1>6

\* GetOrCreateWallet of CreateRecharge writes zeros or nothing.
LEMMA WalletIsThere ==
  ASSUME WalletTypeOK, NEW u \in Users,
         wallets' = [wallets EXCEPT ![u] = LockOrCreateWallet(u)],
         UNCHANGED <<holds, ledger>>
  PROVE  [WalletNext]_walletVars
<1>1. CASE wallets[u].exists
  <2>1. LockOrCreateWallet(u) = wallets[u]
    BY <1>1 DEF WalletTypeOK, WalletRow, LockOrCreateWallet
  <2>2. wallets' = wallets
    BY <2>1 DEF WalletTypeOK
  <2> QED
    BY <2>2 DEF walletVars
<1>2. CASE ~wallets[u].exists
  BY <1>2 DEF GetOrCreateWallet, WalletNext
<1> QED
  BY <1>1, <1>2

LEMMA CreateKeeps ==
  ASSUME PaymentInv, NEW o \in Orders,
         CreateOrder(o) \/ \E p \in Requests: CreateRecharge(p, o)
  PROVE  PaymentInv'
<1>1. RowsInv /\ RowsTypeOK /\ WalletTypeOK
  BY DEF PaymentInv, RowsInv, RowsTypeOK
<1>2. CASE CreateOrder(o)
  <2>1. WalletTypeOK' /\ UNCHANGED <<wallets, ledger, recharge, expired, event, trade, proc>>
    BY <1>1, <1>2, WalletNextTyped DEF CreateOrder, walletVars
  <2>2. RowsInv' /\ Onward
    BY <1>1, <1>2, <2>1, CreatedKeeps DEF CreateOrder, Fresh
  <2> QED
    BY <2>1, <2>2, RestKeeps DEF PaymentInv
<1>3. ASSUME NEW p \in Requests, CreateRecharge(p, o)
      PROVE  PaymentInv'
  <2>1. Owner[o] \in Users
    BY OrdersAreRecharges
  <2>2. WalletTypeOK'
    BY <1>1, <1>3, <2>1, WalletIsThere, WalletNextTyped DEF CreateRecharge
  <2>3. \A u \in Users: wallets'[u].totalRecharge = wallets[u].totalRecharge
    BY <1>1, <1>3, <2>1, LockTyped DEF CreateRecharge, WalletTypeOK
  <2>4. RowsInv' /\ Onward
    BY <1>1, <1>3, <2>2, <2>3, CreatedKeeps DEF CreateRecharge, Fresh
  <2>5. /\ Begin(p, "payRecharge", o, "payLoad") /\ p \in Processes
        /\ "payLoad" \in PC /\ "payRecharge" \in Entry
    BY <1>3, RequestsAreProcesses DEF CreateRecharge, PC, Entry
  <2>6. Knows(p, "payLoad", "payRecharge", o)'
    BY DEF Knows
  <2>7. ProcsInv'
    BY <2>4, <2>5, <2>6, StartKeeps DEF PaymentInv
  <2> QED
    BY <2>4, <2>7 DEF PaymentInv
<1> QED
  BY <1>2, <1>3

LEMMA EnvironmentKeeps ==
  ASSUME PaymentInv, NEW o \in Orders, Expire(o) \/ Buyer(o)
  PROVE  PaymentInv'
<1>1. RowsInv /\ RowsTypeOK
  BY DEF PaymentInv, RowsInv
<1>2. CASE Expire(o)
  <2>1. /\ UNCHANGED <<walletVars, order, recharge, event, trade, proc>>
        /\ event' \in [Orders -> {"none", "pending", "failed", "success"}]
        /\ expired' \in [Orders -> BOOLEAN]
        /\ \A q \in Orders: expired[q] => expired'[q]
    BY <1>1, <1>2 DEF Expire, RowsTypeOK
  <2>2. RowsInv' /\ Onward
    BY <1>1, <2>1, NoteKeeps
  <2> QED
    BY <2>1, <2>2, RestKeeps DEF PaymentInv
<1>3. CASE Buyer(o)
  <2>1. PICK to \in {"wait", "success", "closed"}:
          /\ trade' = [trade EXCEPT ![o] = to]
          /\ trade[o] = "wait" \/ (trade[o] = "offered" /\ ~expired[o])
    BY <1>3 DEF Buyer
  <2>2. UnchangedRows /\ UNCHANGED proc
    BY <1>3 DEF Buyer
  <2>3. RowsInv' /\ Onward
    BY <1>1, <2>1, <2>2, TradeMoveKeeps
  <2> QED
    BY <2>2, <2>3, RestKeeps DEF PaymentInv
<1> QED
  BY <1>2, <1>3
-----------------------------------------------------------------------------
(* Theorems.                                                               *)

LEMMA PaymentInvHoldsAtFirst == PaymentInit => PaymentInv
<1> SUFFICES ASSUME PaymentInit PROVE PaymentInv
  OBVIOUS
<1>1. WalletTypeOK
  BY WalletInitTyped DEF PaymentInit
<1>2. RowsTypeOK /\ Unoffered
  BY <1>1 DEF PaymentInit, RowsTypeOK, OrderStatus, RechargeStatus, Unoffered
<1>3. \A u \in Users: CreditedOf(u) = {}
  BY OrdersAreRecharges DEF PaymentInit, CreditedOf
<1>4. \A u \in Users: /\ IsFiniteSet(CreditedOf(u)) /\ Cardinality(CreditedOf(u)) = 0
                      /\ wallets[u].totalRecharge = 0
  BY <1>3, FS_EmptySet DEF PaymentInit, WalletInit, NoWallet
<1>5. OrderUnits \in Int
  BY AmountsAssumption
<1>6. SettledTogether
  <2>1. \A o \in Orders: RowsOf(<<"recharge", o>>) = {}
    BY DEF PaymentInit, WalletInit, RowsOf
  <2>2. \A u \in Users: wallets[u].totalRecharge = OrderUnits * Cardinality(CreditedOf(u))
    BY <1>4, <1>5
  <2> QED
    BY <2>1, <2>2, OrdersAreRecharges
       DEF PaymentInit, SettledTogether, Settled, HasRecharge, CreditedOf
<1>7. ProcsInv
  BY DEF PaymentInit, ProcsInv, IdleProcess, Process, PC, Entry, Informed, Knows
<1> QED
  BY <1>2, <1>4, <1>6, <1>7 DEF PaymentInv, RowsInv

LEMMA PaymentInvInductive ==
  PaymentInv /\ [PaymentNext]_paymentVars => PaymentInv'
<1> SUFFICES ASSUME PaymentInv, [PaymentNext]_paymentVars PROVE PaymentInv'
  OBVIOUS
<1>1. ASSUME NEW p \in Processes, Handle(p) PROVE PaymentInv'
  BY <1>1, PayKeeps, SyncKeeps, FinalizerKeeps, CloseKeeps, CrashKeeps DEF Handle
<1>2. ASSUME NEW p \in Requests, Request(p) PROVE PaymentInv'
  BY <1>2, RequestKeeps, CallbackKeeps, CreateKeeps DEF Request
<1>3. CASE UNCHANGED paymentVars
  <2>1. UnchangedRows /\ UNCHANGED <<trade, proc>>
    BY <1>3 DEF paymentVars, UnchangedRows, walletVars
  <2>2. RowsInv' /\ Onward
    BY <2>1, NothingMoves DEF PaymentInv
  <2> QED
    BY <2>1, <2>2, RestKeeps DEF PaymentInv
<1> QED
  BY <1>1, <1>2, <1>3, CronKeeps, CreateKeeps, EnvironmentKeeps DEF PaymentNext

\* However requests, callbacks and cron tasks interleave, repeat or die, a
\* recharge is credited exactly with its order and its ledger row, the buyer's
\* money is there, and a wallet has received one payment per credited recharge.
THEOREM OrdersSettleTogether == PaymentSpec => []SettledTogether
<1>1. PaymentInv => SettledTogether
  BY DEF PaymentInv, RowsInv
<1> QED
  BY <1>1, PaymentInvHoldsAtFirst, PaymentInvInductive, PTL DEF PaymentSpec

\* The status columns of both tables keep to the statuses the code knows, a
\* recharge has its order, and every handler under way has an order.
THEOREM PaymentTypeCorrect == PaymentSpec => []PaymentTypeOK
<1>1. PaymentInv => PaymentTypeOK
  BY DEF PaymentInv, RowsInv, RowsTypeOK, ProcsInv, PaymentTypeOK
<1> QED
  BY <1>1, PaymentInvHoldsAtFirst, PaymentInvInductive, PTL DEF PaymentSpec

\* Only the finalizer writes the wallet.
LEMMA SettleIsACredit ==
  ASSUME RowsInv, NEW o \in Orders, Settle(o)
  PROVE  [WalletNext]_walletVars
<1>1. Owner[o] \in Users /\ o \in Recharges
  BY OrdersAreRecharges
<1> QED
  BY <1>1 DEF Settle, WalletNext

LEMMA PaymentStepsAreWalletSteps ==
  ASSUME PaymentInv, [PaymentNext]_paymentVars
  PROVE  [WalletNext]_walletVars
<1>1. RowsInv /\ WalletTypeOK
  BY DEF PaymentInv, RowsInv, RowsTypeOK
<1>2. ASSUME NEW p \in Processes, Finalize(p) \/ SettleAgain(p) \/ ResolvePaid(p)
      PROVE  [WalletNext]_walletVars
  <2>1. proc[p].order \in Orders
    BY <1>2, BusyHasOrder DEF Finalize, SettleAgain, ResolvePaid, At, Resting
  <2> QED
    BY <1>1, <1>2, <2>1, SettleIsACredit DEF Finalize, SettleAgain, ResolvePaid
<1>3. ASSUME NEW p \in Processes, Handle(p)
      PROVE  [WalletNext]_walletVars
  <2>1. \/ UNCHANGED walletVars
        \/ Finalize(p) \/ SettleAgain(p) \/ ResolvePaid(p)
    BY <1>3 DEF Handle, UnchangedRows, PayLoad, PayClock, PayExpire, PayStored,
       PayRefused, PayReload, RechargeAnswered, RechargeClose, SyncLoad, Query, NotExist, QueryFails,
       SyncReload, FinalizeIdles, ResolveFails, CloseQueriedOrder, LinkedLoad,
       LinkedClose, CloseLoad, GatewayClose, GatewayCloseFails, CloseCas, Crash
  <2> QED
    BY <1>2, <2>1
<1>4. ASSUME NEW p \in Requests, NEW o \in Orders, CreateRecharge(p, o)
      PROVE  [WalletNext]_walletVars
  <2>1. Owner[o] \in Users
    BY OrdersAreRecharges
  <2> QED
    BY <1>1, <1>4, <2>1, WalletIsThere DEF CreateRecharge
<1>5. ASSUME NEW p \in Requests, Request(p)
      PROVE  [WalletNext]_walletVars
  BY <1>4, <1>5 DEF Request, PayRecharge, SyncRecharge, CloseRecharge, AdminOrder,
     Callback, UnchangedRows
<1>6. CASE UNCHANGED paymentVars
  BY <1>6 DEF paymentVars, walletVars
<1> QED
  BY <1>3, <1>5, <1>6 DEF PaymentNext, CronSync, SyncListed, CronExpire, CreateOrder, Expire,
     Buyer, UnchangedRows

\* Payment implements the wallet: what is proved of every history of wallet
\* operations holds of the wallets that recharges are credited to.
THEOREM PaymentKeepsToTheWallet == PaymentSpec => WalletSpec
<1>1. PaymentInit => WalletInit
  BY DEF PaymentInit
<1>2. PaymentInv /\ [PaymentNext]_paymentVars => [WalletNext]_walletVars
  BY PaymentStepsAreWalletSteps
<1> QED
  BY <1>1, <1>2, PaymentInvHoldsAtFirst, PaymentInvInductive, PTL
     DEF PaymentSpec, WalletSpec

\* Recharges never overdraw a wallet, and their money is the escrow account's
\* deposits, one per recharge.
THEOREM PaymentsAreDeposits ==
  PaymentSpec => []WalletSolvent /\ []ReplayValidates /\ ImplementsEscrow
BY PaymentKeepsToTheWallet, WalletAlwaysSolvent, ReplaysAlwaysValidate,
   WalletImplementsEscrow
-----------------------------------------------------------------------------
(* Outcomes are final.                                                     *)

\* What UpdateOrderClosed rests on, wherever it is called.
ClosesKnowingly(p, o) ==
  At(p, "closeCas")
  \/ /\ expired[o] \/ trade[o] = "closed"
     /\ proc[p].entry = "cronExpire" => trade[o] # "success"

OrderMayMove(o) ==
  \/ order'[o] = order[o]
  \/ order[o] \notin {"paid", "closed"} /\ order'[o] # "closed"
  \/ /\ order[o] # "paid" /\ order'[o] = "closed"
     /\ \A p \in Processes:
          proc[p].order = o /\ proc'[p] # proc[p] => ClosesKnowingly(p, o)

\* One handler moves, and it closes no order but its own.
LEMMA UpdateMayMove ==
  ASSUME RowsInv, NEW p \in Processes, NEW o \in Orders, NEW hit \in BOOLEAN,
         NEW status \in {"paying", "failed", "closed"}, UpdateOrder(o, status, hit),
         \A q \in Processes \ {p}: proc'[q] = proc[q],
         status = "closed" => ClosesKnowingly(p, o)
  PROVE  \A q \in Orders: OrderMayMove(q)
BY OrderMoves DEF OrderMayMove

LEMMA OthersRest ==
  ASSUME PaymentInv, NEW p \in Processes, NEW pc, Goto(p, pc)
  PROVE  \A q \in Processes \ {p}: proc'[q] = proc[q]
BY DEF PaymentInv, ProcsInv, Goto

LEMMA HandleMovesOrders ==
  ASSUME PaymentInv, NEW p \in Processes, Handle(p)
  PROVE  \A q \in Orders: OrderMayMove(q)
<1> DEFINE o == proc[p].order
<1>1. RowsInv /\ RowsTypeOK /\ Informed(p)
  BY DEF PaymentInv, RowsInv, ProcsInv
<1>2. ASSUME UNCHANGED order PROVE \A q \in Orders: OrderMayMove(q)
  BY <1>2 DEF OrderMayMove
<1>3. ~Resting(p) => o \in Orders
  BY BusyHasOrder
<1>4. CASE PayStored(p) \/ PayRefused(p)
  <2>1. PICK hit \in BOOLEAN, status \in {"paying", "failed"}: UpdateOrder(o, status, hit)
    BY <1>4 DEF PayStored, PayRefused
  <2>2. o \in Orders
    BY <1>3, <1>4 DEF PayStored, PayRefused, At, Resting
  <2>3. \A q \in Processes \ {p}: proc'[q] = proc[q]
    BY <1>4, OthersRest DEF PayStored, PayRefused
  <2> QED
    BY <1>1, <2>1, <2>2, <2>3, UpdateMayMove
<1>5. CASE PayExpire(p) \/ CloseQueriedOrder(p) \/ CloseCas(p)
  <2>1. PICK hit \in BOOLEAN: UpdateOrder(o, "closed", hit)
    BY <1>5 DEF PayExpire, CloseQueriedOrder, CloseCas
  <2>2. o \in Orders
    BY <1>3, <1>5 DEF PayExpire, CloseQueriedOrder, CloseCas, At, Resting
  <2>3. \A q \in Processes \ {p}: proc'[q] = proc[q]
    BY <1>5, OthersRest DEF PayExpire, CloseQueriedOrder, CloseCas
  <2>4. ClosesKnowingly(p, o)
    BY <1>1, <1>5 DEF PayExpire, CloseQueriedOrder, CloseCas, At, Informed, Knows,
       ClosesKnowingly, Unpayable
  <2> QED
    BY <1>1, <2>1, <2>2, <2>3, <2>4, UpdateMayMove
<1>6. CASE Finalize(p) \/ SettleAgain(p) \/ ResolvePaid(p)
  <2>1. UNCHANGED order \/ (Settleable(o) /\ Settle(o))
    BY <1>6 DEF Finalize, SettleAgain, ResolvePaid
  <2>2. CASE Settleable(o) /\ Settle(o)
    BY <1>1, <2>2 DEF Settleable, Settle, RowsTypeOK, OrderMayMove
  <2> QED
    BY <1>2, <2>1, <2>2
<1>7. \/ UNCHANGED order
      \/ PayStored(p) \/ PayRefused(p) \/ PayExpire(p) \/ CloseQueriedOrder(p)
      \/ CloseCas(p) \/ Finalize(p) \/ SettleAgain(p) \/ ResolvePaid(p)
  BY DEF Handle, UnchangedRows, PayLoad, PayClock, PayReload, RechargeAnswered,
     RechargeClose, SyncLoad, Query, NotExist, QueryFails, SyncReload, FinalizeIdles,
     ResolveFails, LinkedLoad, LinkedClose, CloseLoad, GatewayClose,
     GatewayCloseFails, Crash
<1> QED
  BY <1>2, <1>4, <1>5, <1>6, <1>7

LEMMA OrdersMove ==
  ASSUME PaymentInv, [PaymentNext]_paymentVars
  PROVE  \A q \in Orders: OrderMayMove(q)
<1>1. ASSUME UNCHANGED order PROVE \A q \in Orders: OrderMayMove(q)
  BY <1>1 DEF OrderMayMove
<1>2. ASSUME NEW o \in Orders, order[o] = "none", order' = [order EXCEPT ![o] = "pending"]
      PROVE  \A q \in Orders: OrderMayMove(q)
  BY <1>2 DEF PaymentInv, RowsInv, RowsTypeOK, OrderMayMove, OrderStatus
<1>3. ASSUME NEW p \in Requests, Request(p) PROVE \A q \in Orders: OrderMayMove(q)
  BY <1>1, <1>2, <1>3 DEF Request, CreateRecharge, Fresh, PayRecharge, SyncRecharge,
     CloseRecharge, AdminOrder, Callback, UnchangedRows
<1>4. ASSUME NEW p \in Workers, NEW o \in Orders, CronSync(p, o) \/ CronExpire(p, o)
      PROVE  UNCHANGED order
  BY <1>4 DEF CronSync, SyncListed, CronExpire, UnchangedRows
<1>5. ASSUME NEW o \in Orders, CreateOrder(o) \/ Expire(o) \/ Buyer(o)
      PROVE  \A q \in Orders: OrderMayMove(q)
  BY <1>1, <1>2, <1>5 DEF CreateOrder, Fresh, Expire, Buyer, UnchangedRows
<1>6. CASE UNCHANGED paymentVars
  BY <1>1, <1>6 DEF paymentVars
<1> QED
  BY <1>1, <1>3, <1>4, <1>5, <1>6, HandleMovesOrders DEF PaymentNext

LEMMA RechargesMove ==
  ASSUME PaymentInv, [PaymentNext]_paymentVars
  PROVE  \A q \in Orders: recharge[q] \in {"credited", "closed"} =>
                            recharge'[q] = recharge[q]
<1> DEFINE Kept == \A q \in Orders: recharge[q] \in {"credited", "closed"} =>
                                      recharge'[q] = recharge[q]
<1>1. recharge \in [Orders -> RechargeStatus]
  BY DEF PaymentInv, RowsInv, RowsTypeOK
<1>2. ASSUME NEW o, NEW status, NEW hit \in BOOLEAN, UpdateRecharge(o, status, hit)
      PROVE  Kept
  BY <1>1, <1>2 DEF UpdateRecharge, RechargeLeaves
<1>3. ASSUME NEW o, Settleable(o), Settle(o) PROVE Kept
  BY <1>1, <1>3 DEF Settleable, Settle, HasRecharge
<1>4. ASSUME NEW p \in Processes, Handle(p) PROVE Kept
  <2>1. \/ UNCHANGED recharge
        \/ RechargeAnswered(p) \/ RechargeClose(p) \/ LinkedClose(p)
        \/ Finalize(p) \/ SettleAgain(p) \/ ResolvePaid(p)
    BY <1>4 DEF Handle, UnchangedRows, PayLoad, PayClock, PayExpire, PayStored,
       PayRefused, PayReload, SyncLoad, Query, NotExist, QueryFails, SyncReload,
       FinalizeIdles, ResolveFails, CloseQueriedOrder, LinkedLoad, CloseLoad, GatewayClose, GatewayCloseFails,
       CloseCas, Crash
  <2>2. CASE RechargeAnswered(p) \/ RechargeClose(p) \/ LinkedClose(p)
    BY <1>2, <2>2 DEF RechargeAnswered, RechargeClose, LinkedClose
  <2>3. CASE Finalize(p) \/ SettleAgain(p) \/ ResolvePaid(p)
    BY <1>3, <2>3 DEF Finalize, SettleAgain, ResolvePaid
  <2> QED
    BY <2>1, <2>2, <2>3
<1>5. ASSUME NEW p \in Requests, NEW o \in Orders, CreateRecharge(p, o) PROVE Kept
  <2>1. recharge[o] = "none" /\ recharge' = [recharge EXCEPT ![o] = "pending"]
    BY <1>5 DEF CreateRecharge, Fresh, PaymentInv, RowsInv, RowsTypeOK
  <2> QED
    BY <1>1, <2>1
<1>6. ASSUME NEW p \in Requests, Request(p) PROVE Kept
  BY <1>5, <1>6 DEF Request, PayRecharge, SyncRecharge, CloseRecharge, AdminOrder,
     Callback, UnchangedRows
<1>7. CASE UNCHANGED paymentVars
  BY <1>7 DEF paymentVars
<1> QED
  BY <1>4, <1>6, <1>7 DEF PaymentNext, CronSync, SyncListed, CronExpire, CreateOrder, Expire,
     Buyer, UnchangedRows

LEMMA EventsMove ==
  ASSUME PaymentInv, [PaymentNext]_paymentVars
  PROVE  \A q \in Orders: event[q] = "success" => event'[q] = "success"
<1>1. event \in [Orders -> {"none", "pending", "failed", "success"}]
  BY DEF PaymentInv, RowsInv, RowsTypeOK
<1> DEFINE Kept == \A q \in Orders: event[q] = "success" => event'[q] = "success"
<1>2. ASSUME NEW p \in Processes, Handle(p) PROVE Kept
  <2>1. UNCHANGED event \/ ResolvePaid(p) \/ ResolveFails(p)
    BY <1>2 DEF Handle, UnchangedRows, PayLoad, PayClock, PayExpire, PayStored,
       PayRefused, PayReload, RechargeAnswered, RechargeClose, SyncLoad, Query, NotExist, QueryFails,
       SyncReload, Finalize, FinalizeIdles, SettleAgain, CloseQueriedOrder, LinkedLoad,
       LinkedClose, CloseLoad, GatewayClose, GatewayCloseFails, CloseCas, Crash
  <2> QED
    BY <1>1, <2>1 DEF ResolvePaid, ResolveFails
<1>3. ASSUME NEW p \in Requests, Request(p) PROVE Kept
  BY <1>1, <1>3 DEF Request, CreateRecharge, PayRecharge, SyncRecharge, CloseRecharge,
     AdminOrder, Callback, UnchangedRows
<1>4. CASE UNCHANGED paymentVars
  BY <1>4 DEF paymentVars
<1> QED
  BY <1>2, <1>3, <1>4 DEF PaymentNext, CronSync, SyncListed, CronExpire, CreateOrder, Expire,
     Buyer, UnchangedRows

\* Paid, credited, closed and processed are never left; whatever happens between
\* the answer of gateway.Query, the reading of the clock and the write, nobody
\* but a user's CloseOrder closes an order whose trade is neither closed nor
\* past its expiry, and CloseExpiredOrders closes none that was paid.
THEOREM OutcomesNeverChange == PaymentSpec => OutcomesAreFinal
<1> DEFINE Final ==
      \A o \in Orders:
        /\ order[o] \in {"paid", "closed"} => order'[o] = order[o]
        /\ recharge[o] \in {"credited", "closed"} => recharge'[o] = recharge[o]
        /\ event[o] = "success" => event'[o] = "success"
        /\ \A p \in Processes: Closes(p, o) /\ ~At(p, "closeCas") =>
             /\ expired[o] \/ trade[o] = "closed"
             /\ proc[p].entry = "cronExpire" => trade[o] # "success"
<1>1. PaymentInv /\ [PaymentNext]_paymentVars => Final
  <2> SUFFICES ASSUME PaymentInv, [PaymentNext]_paymentVars PROVE Final
    OBVIOUS
  <2>1. \A o \in Orders: OrderMayMove(o)
    BY OrdersMove
  <2>2. ASSUME NEW o \in Orders, NEW p \in Processes, Closes(p, o), ~At(p, "closeCas")
        PROVE  /\ expired[o] \/ trade[o] = "closed"
               /\ proc[p].entry = "cronExpire" => trade[o] # "success"
    BY <2>1, <2>2 DEF OrderMayMove, ClosesKnowingly, Closes
  <2> QED
    BY <2>1, <2>2, RechargesMove, EventsMove DEF OrderMayMove
<1>2. PaymentInv /\ [PaymentNext]_paymentVars => [Final]_paymentVars
  BY <1>1
<1> QED
  BY <1>2, PaymentInvHoldsAtFirst, PaymentInvInductive, PTL
     DEF PaymentSpec, OutcomesAreFinal
=============================================================================
