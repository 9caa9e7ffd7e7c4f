------------------------------ MODULE Payment ------------------------------
(***************************************************************************)
(* Payment orders and recharges (internal/module/payment) over the wallet. *)
(*                                                                         *)
(* payment_orders and payment_recharges are written by HTTP requests, by   *)
(* Alipay's callback and by two cron tasks, each a sequence of database    *)
(* and gateway calls with no transaction around it.  A row is moved only   *)
(* by an UPDATE whose WHERE lists the statuses it may leave, so every      *)
(* handler here is a process that takes one such call at a time.  Only the *)
(* finalizer, FinalizePaidOrder, is one transaction over order, recharge   *)
(* and wallet.                                                             *)
(*                                                                         *)
(* A recharge and its order are created together and are named by one id;  *)
(* an order created without a recharge is a raw order of the admin console.*)
(* Alipay is external: an order whose pay URL was handed out is "offered", *)
(* a trade exists once the buyer opens the URL, and gateway.Pay sends the  *)
(* order's expiry as time_expire, after which a trade can neither be       *)
(* opened nor paid.                                                        *)
(***************************************************************************)
EXTENDS Wallet, FiniteSets

CONSTANTS Owner,        \* the user of each recharge
          OrderUnits,   \* what a recharge credits, money.CentsToUnits
          Requests,     \* HTTP requests in flight, callbacks among them
          Workers,      \* task queue workers running the payment cron tasks
          Batch,        \* rows a run of a cron task lists: the job's limit
          Place,        \* the id of each order, and of its recharge
          Deadline      \* payment_orders.expired_at

ASSUME OwnerAssumption == Owner \in [Recharges -> Users]
ASSUME OrderUnitsAssumption == OrderUnits \in Amounts
ASSUME BatchAssumption ==
  /\ Batch \in Nat \ {0}
  /\ Place \in [Recharges -> Nat] /\ Deadline \in [Recharges -> Nat]

VARIABLES order,      \* payment_orders.status
          recharge,   \* payment_recharges.status, "none" for a raw order
          expired,    \* expired_at has passed
          event,      \* payment_callback_events.process_status of the order's
                      \* TRADE_SUCCESS notification, one row by its dedupe key
          trade,      \* the order's trade at Alipay
          proc        \* what each request and worker is doing

paymentVars == <<wallets, holds, ledger, order, recharge, expired, event,
                 trade, proc>>

Orders == Recharges
Processes == Requests \cup Workers
NoOrder == "no order"

OrderStatus == {"none", "pending", "paying", "paid", "failed", "closed"}
\* The code validates a recharge status "paid" too; nothing writes it.
RechargeStatus == {"none", "pending", "paying", "credited", "failed", "closed"}

Entry == {"none", "payRecharge", "syncRecharge", "closeRecharge", "payOrder",
          "syncOrder", "closeOrder", "callback", "cronSync", "cronExpire"}

PC == {"idle", "internalError", "payLoad", "payClock", "payExpire",
       "payGateway", "payReload", "rechargeFailed", "rechargePaying",
       "rechargeClose", "syncLoad", "query", "notExist", "finalize",
       "syncReload", "settleAgain", "closeOrder", "linkedLoad", "linkedClose",
       "closeLoad", "gatewayClose", "closeCas", "resolve"}

Process == [pc: PC, entry: Entry, order: Orders \cup {NoOrder}]

IdleProcess == [pc |-> "idle", entry |-> "none", order |-> NoOrder]

\* A recharge row exists only with the order row it was created with.
PaymentTypeOK ==
  /\ WalletTypeOK
  /\ order \in [Orders -> OrderStatus]
  /\ recharge \in [Orders -> RechargeStatus]
  /\ \A o \in Orders: recharge[o] # "none" => order[o] # "none"
  /\ expired \in [Orders -> BOOLEAN]
  /\ event \in [Orders -> {"none", "pending", "failed", "success"}]
  /\ trade \in [Orders -> {"none", "offered", "wait", "success", "closed"}]
  /\ proc \in [Processes -> Process]

PaymentInit ==
  /\ WalletInit
  /\ order = [o \in Orders |-> "none"]
  /\ recharge = [o \in Orders |-> "none"]
  /\ expired = [o \in Orders |-> FALSE]
  /\ event = [o \in Orders |-> "none"]
  /\ trade = [o \in Orders |-> "none"]
  /\ proc = [p \in Processes |-> IdleProcess]

-----------------------------------------------------------------------------
(* Rows and processes.                                                     *)

\* Fault: a paid order may still be closed.
OrderLeavesPaid(status) ==
  IF status = "closed" THEN {"pending", "failed", "paying", "paid"}
  ELSE {"pending", "failed"}

\* orderPayingCASStatuses, orderFailedCASStatuses, orderClosedCASStatuses: the
\* statuses an order may leave for `status`.
OrderLeaves(status) ==
  IF status = "closed" THEN {"pending", "failed", "paying"}
  ELSE {"pending", "failed"}

\* rechargePayingCASStatuses, rechargeFailedCASStatuses,
\* rechargeClosedCASStatuses.
RechargeLeaves(status) ==
  IF status = "closed" THEN {"pending", "failed", "paying"}
  ELSE {"pending", "failed"}

\* UpdateOrderPaying, UpdateOrderFailed, UpdateOrderClosed: `hit` tells
\* whether a row changed.
UpdateOrder(o, status, hit) ==
  /\ hit = (order[o] \in OrderLeaves(status))
  /\ order' = IF hit THEN [order EXCEPT ![o] = status] ELSE order

\* UpdateRechargePaying, UpdateRechargeFailed, UpdateRechargeClosed.
UpdateRecharge(o, status, hit) ==
  /\ hit = (recharge[o] \in RechargeLeaves(status))
  /\ recharge' = IF hit THEN [recharge EXCEPT ![o] = status] ELSE recharge

At(p, pc) == proc[p].pc = pc

Handling(p, entry, o) == proc[p].entry = entry /\ proc[p].order = o

Resting(p) == proc[p].pc \in {"idle", "internalError"}

\* A handler that returns leaves nothing but its answer behind.
Goto(p, pc) ==
  proc' = [proc EXCEPT ![p] =
             IF pc \in {"idle", "internalError"}
             THEN [IdleProcess EXCEPT !.pc = pc] ELSE [@ EXCEPT !.pc = pc]]

Begin(p, entry, o, pc) ==
  /\ Resting(p)
  /\ proc' = [proc EXCEPT ![p] = [pc |-> pc, entry |-> entry, order |-> o]]

UnchangedRows == UNCHANGED <<walletVars, order, recharge, expired, event>>

-----------------------------------------------------------------------------
(* Entry points.                                                           *)

\* A new row, whose expired_at lies ahead of those that have passed.
Fresh(o) ==
  /\ order[o] = "none"
  /\ \A q \in Orders: expired[q] => Deadline[q] <= Deadline[o]

\* CreateRecharge: the wallet, then order and recharge in one transaction,
\* then payRechargeRow on the row just written.
CreateRecharge(p, o) ==
  /\ Fresh(o)
  /\ Begin(p, "payRecharge", o, "payLoad")
  /\ order' = [order EXCEPT ![o] = "pending"]
  /\ recharge' = [recharge EXCEPT ![o] = "pending"]
  /\ wallets' = [wallets EXCEPT ![Owner[o]] = LockOrCreateWallet(Owner[o])]
  /\ UNCHANGED <<holds, ledger, expired, event, trade>>

CreateOrder(o) ==
  /\ Fresh(o)
  /\ order' = [order EXCEPT ![o] = "pending"]
  /\ UNCHANGED <<walletVars, recharge, expired, event, trade, proc>>

\* payRechargeRow: any other status is answered from the row read.
PayRecharge(p, o) ==
  /\ recharge[o] \in {"pending", "failed"}
  /\ Begin(p, "payRecharge", o, "payLoad")
  /\ UnchangedRows /\ UNCHANGED trade

\* syncRechargeRow up to its first write.
SyncRecharge(p, o) ==
  /\ recharge[o] \in {"pending", "paying", "failed"}
  /\ order[o] \in {"paying", "closed", "paid"}
  /\ Begin(p, "syncRecharge", o,
           CASE order[o] = "paying" -> "syncLoad"
             [] order[o] = "closed" -> "rechargeClose"
             [] order[o] = "paid" -> "settleAgain")
  /\ UnchangedRows /\ UNCHANGED trade

CloseRecharge(p, o) ==
  /\ recharge[o] \in {"pending", "paying", "failed"}
  /\ Begin(p, "closeRecharge", o, "closeLoad")
  /\ UnchangedRows /\ UNCHANGED trade

\* PayOrder, SyncOrder and CloseOrder of the admin console.
AdminOrder(p, o) ==
  /\ order[o] # "none"
  /\ \/ Begin(p, "payOrder", o, "payLoad")
     \/ Begin(p, "syncOrder", o, "syncLoad")
     \/ Begin(p, "closeOrder", o, "closeLoad")
  /\ UnchangedRows /\ UNCHANGED trade

\* ORDER BY rank, id.
Before(rank, q, o) ==
  \/ rank[q] < rank[o]
  \/ rank[q] = rank[o] /\ Place[q] < Place[o]

\* The row is among the first `limit` rows of a query ordered by rank.
Listed(rows, rank, limit, o) ==
  o \in rows /\ Cardinality({q \in rows: Before(rank, q, o)}) < limit

Paying == {o \in Orders: order[o] = "paying"}
Uncredited ==
  {o \in Orders: order[o] = "paid" /\ recharge[o] \in {"pending", "paying"}}

\* SyncPendingOrders on one row, as it was when listed: a row of
\* ListPendingPayingOrders is queried, a row of ListUncreditedPaidRecharges, if
\* the batch has room, is finalized.
SyncListed(p, o, paying) ==
  /\ \/ Listed(paying, Place, Batch, o) /\ Begin(p, "cronSync", o, "query")
     \/ /\ Listed(Uncredited, Place, Batch - Cardinality(paying), o)
        /\ Begin(p, "cronSync", o, "finalize")
  /\ UnchangedRows /\ UNCHANGED trade

\* The cutoff on updated_at leaves out the paying orders written just now.
CronSync(p, o) == \E old \in SUBSET Paying: SyncListed(p, o, old)

\* Fault: paying orders are left to the other task.
ExpiredPending == {"pending"}

\* The statuses ListExpiredOpenOrders lists.
ExpiredOpen == {"pending", "paying"}

ExpiredOrders == {o \in Orders: expired[o] /\ order[o] \in ExpiredOpen}

\* CloseExpiredOrders on one row, as it was when listed.
CronExpire(p, o) ==
  /\ Listed(ExpiredOrders, Deadline, Batch, o)
  /\ Begin(p, "cronExpire", o,
           IF order[o] = "pending" THEN "closeOrder" ELSE "query")
  /\ UnchangedRows /\ UNCHANGED trade

\* AcquireCallbackEvent for a TRADE_SUCCESS notification, first or repeated;
\* a notification already processed is answered at once.
Callback(p, o) ==
  /\ trade[o] = "success" /\ event[o] # "success"
  /\ Begin(p, "callback", o, "resolve")
  /\ event' = [event EXCEPT ![o] = IF @ = "none" THEN "pending" ELSE @]
  /\ UNCHANGED <<walletVars, order, recharge, expired, trade>>

-----------------------------------------------------------------------------
(* PayOrder, and what payRechargeRow does with its answer.                 *)

\* Where PayOrder's answer leads.
AfterPay(p, answer) ==
  IF proc[p].entry = "payOrder" THEN "idle"
  ELSE CASE answer = "paying" -> "rechargePaying"
         [] answer = "closed" -> "rechargeClose"
         [] answer = "error" -> "rechargeFailed"

PayLoad(p) ==
  LET o == proc[p].order
  IN /\ At(p, "payLoad")
     /\ Goto(p, CASE order[o] = "paying" -> AfterPay(p, "paying")
                  [] order[o] \in {"pending", "failed"} -> "payClock"
                  [] OTHER -> AfterPay(p, "error"))
     /\ UnchangedRows /\ UNCHANGED trade

\* s.now() is read after the row was; a missing or broken payment config is
\* an error.
PayClock(p) ==
  /\ At(p, "payClock")
  /\ IF expired[proc[p].order] THEN Goto(p, "payExpire")
     ELSE Goto(p, "payGateway") \/ Goto(p, AfterPay(p, "error"))
  /\ UnchangedRows /\ UNCHANGED trade

PayExpire(p) ==
  LET o == proc[p].order
  IN /\ At(p, "payExpire")
     /\ \E hit \in BOOLEAN:
          /\ UpdateOrder(o, "closed", hit)
          /\ Goto(p, AfterPay(p, IF hit THEN "closed" ELSE "error"))
     /\ UNCHANGED <<walletVars, recharge, expired, event, trade>>

\* gateway.Pay signs a pay URL, which UpdateOrderPaying stores; a lost race
\* for the row is settled by reading it again.
PayStored(p) ==
  LET o == proc[p].order
  IN /\ At(p, "payGateway")
     /\ \E hit \in BOOLEAN:
          /\ UpdateOrder(o, "paying", hit)
          /\ trade' = IF hit THEN [trade EXCEPT ![o] = "offered"] ELSE trade
     /\ Goto(p, "payReload")
     /\ UNCHANGED <<walletVars, recharge, expired, event>>

\* gateway.Pay fails: payOrderFailureResponse.
PayRefused(p) ==
  LET o == proc[p].order
  IN /\ At(p, "payGateway")
     /\ \E hit \in BOOLEAN:
          /\ UpdateOrder(o, "failed", hit)
          /\ Goto(p, IF hit THEN AfterPay(p, "error") ELSE "payReload")
     /\ UNCHANGED <<walletVars, recharge, expired, event, trade>>

\* The row is read again, and the reading may fail.
PayReload(p) ==
  /\ At(p, "payReload")
  /\ \/ order[proc[p].order] = "paying" /\ Goto(p, AfterPay(p, "paying"))
     \/ Goto(p, AfterPay(p, "error"))
  /\ UnchangedRows /\ UNCHANGED trade

\* payRechargeRow records the answer; a lost race is answered from the row.
RechargeAnswered(p) ==
  LET o == proc[p].order
  IN /\ \/ At(p, "rechargePaying") /\ \E hit \in BOOLEAN:
               UpdateRecharge(o, "paying", hit)
        \/ At(p, "rechargeFailed") /\ \E hit \in BOOLEAN:
               UpdateRecharge(o, "failed", hit)
     /\ Goto(p, "idle")
     /\ UNCHANGED <<walletVars, order, expired, event, trade>>

\* UpdateRechargeClosed after the order was closed.  Losing the race is an
\* internal error for SyncRecharge and CloseRecharge and ignored by Pay.
RechargeClose(p) ==
  LET o == proc[p].order
  IN /\ At(p, "rechargeClose")
     /\ \E hit \in BOOLEAN:
          /\ UpdateRecharge(o, "closed", hit)
          /\ Goto(p, IF hit \/ proc[p].entry = "payRecharge"
                     THEN "idle" ELSE "internalError")
     /\ UNCHANGED <<walletVars, order, expired, event, trade>>

-----------------------------------------------------------------------------
(* SyncOrder and the cron's syncPendingOrder.                              *)

SyncLoad(p) ==
  /\ At(p, "syncLoad")
  /\ Goto(p, IF order[proc[p].order] = "paying" THEN "query" ELSE "idle")
  /\ UnchangedRows /\ UNCHANGED trade

\* What gateway.Query says of a trade.
TradeAnswer(o) ==
  IF trade[o] \in {"none", "offered"} THEN "TRADE_NOT_EXIST" ELSE trade[o]

\* Where a handler goes once an order was synced.
AfterSync(p) ==
  IF proc[p].entry = "syncRecharge" THEN "syncReload" ELSE "idle"

\* Fault: the cron leaves paid trades to the callback.
AfterQueryNoCron(p, answer) ==
  CASE answer = "success" /\ proc[p].entry \notin {"cronSync", "cronExpire"} ->
         "finalize"
    [] answer = "closed" -> "closeOrder"
    [] answer = "TRADE_NOT_EXIST" -> "notExist"
    [] OTHER -> "idle"

AfterQuery(p, answer) ==
  CASE answer = "success" -> "finalize"
    [] answer = "closed" -> "closeOrder"
    [] answer = "TRADE_NOT_EXIST" -> "notExist"
    [] answer = "wait" ->
         IF proc[p].entry = "cronExpire" THEN "gatewayClose" ELSE AfterSync(p)

Query(p) ==
  /\ At(p, "query")
  /\ Goto(p, AfterQuery(p, TradeAnswer(proc[p].order)))
  /\ UnchangedRows /\ UNCHANGED trade

\* orderExpired compares with s.now() once Alipay's answer is there: the order
\* may have been paid, and have expired, in between.
NotExist(p) ==
  /\ At(p, "notExist")
  /\ Goto(p, IF expired[proc[p].order] THEN "closeOrder" ELSE "idle")
  /\ UnchangedRows /\ UNCHANGED trade

\* The config, the network or Alipay fails; the handler gives up.
QueryFails(p) ==
  /\ At(p, "query")
  /\ Goto(p, "idle")
  /\ UnchangedRows /\ UNCHANGED trade

\* syncRechargeRow reads both rows again after SyncOrder.
SyncReload(p) ==
  LET o == proc[p].order
  IN /\ At(p, "syncReload")
     /\ Goto(p, CASE order[o] = "closed" -> "rechargeClose"
                  [] order[o] = "paid" -> "settleAgain"
                  [] OTHER -> "idle")
     /\ UnchangedRows /\ UNCHANGED trade

-----------------------------------------------------------------------------
(* The finalizer.                                                          *)

HasRecharge(o) == recharge[o] # "none"

\* validateOrderForPaidFinalization and validateRechargeForPaidFinalization:
\* the order still awaits payment, and so does its recharge if it has one.
Settleable(o) ==
  /\ order[o] \in {"pending", "paying"}
  /\ HasRecharge(o) => recharge[o] \in {"pending", "paying"}

\* Both were settled before: the finalizer replays and changes nothing.
Settled(o) ==
  order[o] = "paid" /\ (HasRecharge(o) => recharge[o] = "credited")

\* Fault: the wallet is credited by a later transaction.
SettleWithoutCredit(o) ==
  /\ order' = [order EXCEPT ![o] = "paid"]
  /\ recharge' = IF HasRecharge(o) THEN [recharge EXCEPT ![o] = "credited"]
                 ELSE recharge
  /\ UNCHANGED walletVars

\* finalizePaidOrderInTx: order paid, wallet credited, recharge credited, or
\* nothing at all.
Settle(o) ==
  /\ order' = [order EXCEPT ![o] = "paid"]
  /\ IF HasRecharge(o)
     THEN /\ CreditRecharge(Owner[o], o, OrderUnits)
          /\ recharge' = [recharge EXCEPT ![o] = "credited"]
     ELSE UNCHANGED <<walletVars, recharge>>

\* FinalizeOrderPaid of SyncOrder and of the cron.
Finalize(p) ==
  LET o == proc[p].order
  IN /\ At(p, "finalize")
     /\ Settleable(o)
     /\ Settle(o)
     /\ Goto(p, AfterSync(p))
     /\ UNCHANGED <<expired, event, trade>>

\* A replay succeeds and changes nothing; any other state, and any database
\* error, rolls back and ends the handler.
FinalizeIdles(p) ==
  /\ At(p, "finalize")
  /\ \/ Settled(proc[p].order) /\ Goto(p, AfterSync(p))
     \/ Goto(p, "idle")
  /\ UnchangedRows /\ UNCHANGED trade

\* syncRechargeRow finalizes once more what its SyncOrder settled.
SettleAgain(p) ==
  LET o == proc[p].order
  IN /\ At(p, "settleAgain")
     /\ IF Settleable(o) THEN Settle(o)
        ELSE UNCHANGED <<walletVars, order, recharge>>
     /\ Goto(p, "idle")
     /\ UNCHANGED <<expired, event, trade>>

\* The finalizer inside ResolveCallbackEvent returns no error.
Resolves(o) == Settleable(o) \/ Settled(o)

\* ResolveCallbackEvent, notification verified: settlement and event in one
\* transaction.  An event already processed is answered as a replay.
ResolvePaid(p) ==
  LET o == proc[p].order
  IN /\ At(p, "resolve") /\ event[o] \in {"pending", "failed"}
     /\ Resolves(o)
     /\ IF Settleable(o) THEN Settle(o)
        ELSE UNCHANGED <<walletVars, order, recharge>>
     /\ event' = [event EXCEPT ![o] = "success"]
     /\ Goto(p, "idle")
     /\ UNCHANGED <<expired, trade>>

\* The verification fails and is recorded, unless another delivery was
\* quicker; Alipay sends the notification again.  (A settlement that fails is
\* rolled back with the event: the handler ends as in Crash.)
ResolveFails(p) ==
  LET o == proc[p].order
  IN /\ At(p, "resolve")
     /\ event' = IF event[o] = "success" THEN event
                 ELSE [event EXCEPT ![o] = "failed"]
     /\ Goto(p, "idle")
     /\ UNCHANGED <<walletVars, order, recharge, expired, trade>>

-----------------------------------------------------------------------------
(* Closing.                                                                *)

\* closeOrderAndLinkedRecharge: a lost race for the order is not an error
\* and leaves the recharge alone.
CloseQueriedOrder(p) ==
  LET o == proc[p].order
  IN /\ At(p, "closeOrder")
     /\ \E hit \in BOOLEAN:
          /\ UpdateOrder(o, "closed", hit)
          /\ Goto(p, IF hit THEN "linkedLoad" ELSE AfterSync(p))
     /\ UNCHANGED <<walletVars, recharge, expired, event, trade>>

LinkedLoad(p) ==
  /\ At(p, "linkedLoad")
  /\ Goto(p, IF recharge[proc[p].order] \in RechargeLeaves("closed")
             THEN "linkedClose" ELSE AfterSync(p))
  /\ UnchangedRows /\ UNCHANGED trade

LinkedClose(p) ==
  LET o == proc[p].order
  IN /\ At(p, "linkedClose")
     /\ \E hit \in BOOLEAN:
          /\ UpdateRecharge(o, "closed", hit)
          /\ Goto(p, IF hit THEN AfterSync(p) ELSE "idle")
     /\ UNCHANGED <<walletVars, order, expired, event, trade>>

\* Where CloseOrder's success leads.
AfterClose(p) ==
  IF proc[p].entry = "closeRecharge" THEN "rechargeClose" ELSE "idle"

CloseLoad(p) ==
  LET o == proc[p].order
  IN /\ At(p, "closeLoad")
     /\ Goto(p, CASE order[o] = "closed" -> AfterClose(p)
                  [] order[o] = "paying" -> "gatewayClose"
                  [] order[o] \in {"pending", "failed"} -> "closeCas"
                  [] OTHER -> "idle")
     /\ UnchangedRows /\ UNCHANGED trade

\* Where gateway.Close's success leads: CloseOrder or the cron.
AfterGatewayClose(p) ==
  IF proc[p].entry = "cronExpire" THEN "closeOrder" ELSE "closeCas"

\* Alipay closes a trade that waits for its buyer.  CloseOrder also goes on
\* when Alipay knows no trade of the order.
GatewayClose(p) ==
  LET o == proc[p].order
  IN /\ At(p, "gatewayClose")
     /\ \/ trade[o] = "wait"
        \/ TradeAnswer(o) = "TRADE_NOT_EXIST" /\ proc[p].entry # "cronExpire"
     /\ trade' = [trade EXCEPT ![o] = IF @ = "wait" THEN "closed" ELSE @]
     /\ Goto(p, AfterGatewayClose(p))
     /\ UnchangedRows

\* An error answer ends the handler.
AfterGatewayError(p) == "idle"

\* Alipay refuses, or the call fails before or after it took effect.
GatewayCloseFails(p) ==
  LET o == proc[p].order
  IN /\ At(p, "gatewayClose")
     /\ trade' \in {trade, [trade EXCEPT ![o] = IF @ = "wait" THEN "closed"
                                                ELSE @]}
     /\ Goto(p, AfterGatewayError(p))
     /\ UnchangedRows

\* CloseOrder's UpdateOrderClosed: here a lost race is an internal error.
CloseCas(p) ==
  LET o == proc[p].order
  IN /\ At(p, "closeCas")
     /\ \E hit \in BOOLEAN:
          /\ UpdateOrder(o, "closed", hit)
          /\ Goto(p, IF hit THEN AfterClose(p) ELSE "internalError")
     /\ UNCHANGED <<walletVars, recharge, expired, event, trade>>

-----------------------------------------------------------------------------
(* The environment.                                                        *)

\* Time passes expired_at, the earliest first.
Expire(o) ==
  /\ order[o] # "none" /\ ~expired[o]
  /\ \A q \in Orders:
       order[q] # "none" /\ Deadline[q] < Deadline[o] => expired[q]
  /\ expired' = [expired EXCEPT ![o] = TRUE]
  /\ UNCHANGED <<walletVars, order, recharge, event, trade, proc>>

\* The buyer opens the pay URL, pays, or lets the trade time out.
Buyer(o) ==
  /\ \/ /\ trade[o] = "offered" /\ ~expired[o]
        /\ trade' = [trade EXCEPT ![o] = "wait"]
     \/ /\ trade[o] = "wait"
        /\ trade' = [trade EXCEPT ![o] = IF expired[o] THEN "closed"
                                         ELSE "success"]
  /\ UnchangedRows /\ UNCHANGED proc

\* A process dies, its client goes away, or a database call fails.  One that
\* dies with Alipay's answer in hand might as well not have had it.
Crash(p) ==
  /\ ~Resting(p) /\ ~At(p, "notExist")
  /\ Goto(p, "idle")
  /\ UnchangedRows /\ UNCHANGED trade

Handle(p) ==
  \/ PayLoad(p) \/ PayClock(p) \/ PayExpire(p) \/ PayStored(p) \/ PayRefused(p)
  \/ PayReload(p) \/ RechargeAnswered(p) \/ RechargeClose(p)
  \/ SyncLoad(p) \/ Query(p) \/ NotExist(p) \/ QueryFails(p) \/ SyncReload(p)
  \/ Finalize(p) \/ FinalizeIdles(p) \/ SettleAgain(p)
  \/ ResolvePaid(p) \/ ResolveFails(p)
  \/ CloseQueriedOrder(p) \/ LinkedLoad(p) \/ LinkedClose(p)
  \/ CloseLoad(p) \/ GatewayClose(p) \/ GatewayCloseFails(p) \/ CloseCas(p)
  \/ Crash(p)

Request(p) ==
  \E o \in Orders:
    \/ CreateRecharge(p, o) \/ PayRecharge(p, o)
    \/ SyncRecharge(p, o) \/ CloseRecharge(p, o)
    \/ AdminOrder(p, o) \/ Callback(p, o)

PaymentNext ==
  \/ \E p \in Requests: Request(p)
  \/ \E p \in Workers, o \in Orders: CronSync(p, o) \/ CronExpire(p, o)
  \/ \E p \in Processes: Handle(p)
  \/ \E o \in Orders: CreateOrder(o) \/ Expire(o) \/ Buyer(o)

PaymentSpec == PaymentInit /\ [][PaymentNext]_paymentVars

\* Time goes on, the scheduler enqueues both cron tasks for ever and their
\* workers take up every row that is among the first again and again, written
\* just now or not; Alipay does not refuse or lose every call about an order,
\* and not every task is killed at the same line.  Nothing is assumed of a row
\* that is not listed, of requests, of the callback or of the buyer.
CronFairness ==
  /\ \A o \in Orders: WF_paymentVars(Expire(o))
  /\ \A p \in Workers:
       /\ WF_paymentVars(Handle(p))
       /\ \A o \in Orders:
            /\ SF_paymentVars(SyncListed(p, o, Paying))
            /\ SF_paymentVars(CronExpire(p, o))
            /\ SF_paymentVars(Handling(p, "cronSync", o) /\ Query(p))
            /\ SF_paymentVars(Handling(p, "cronExpire", o) /\ Query(p))
            /\ SF_paymentVars(proc[p].order = o /\ Finalize(p))
            /\ SF_paymentVars(proc[p].order = o /\ GatewayClose(p))
            /\ SF_paymentVars(proc[p].order = o /\ CloseQueriedOrder(p))

FairPaymentSpec == PaymentSpec /\ CronFairness

-----------------------------------------------------------------------------
(* Properties.                                                             *)

\* A recharge is credited exactly when its order is paid and exactly when its
\* money is in the ledger, and a user's wallet has received one payment per
\* credited recharge: callback, sync and cron share the finalizer and none of
\* their interleavings, repetitions or crashes settles half of it or twice.  A
\* notification is answered "success", and so never sent again, only once its
\* order is settled, and nothing is paid unless Alipay holds the buyer's money,
\* whatever happened between an answer of gateway.Query and its use.
SettledTogether ==
  /\ \A o \in Orders:
       /\ HasRecharge(o) => ((order[o] = "paid") <=> (recharge[o] = "credited"))
       /\ (recharge[o] = "credited") <=> (RowsOf(<<"recharge", o>>) # {})
       /\ order[o] = "paid" => trade[o] = "success"
  /\ \A u \in Users:
       wallets[u].totalRecharge =
         OrderUnits * Cardinality({o \in Recharges: Owner[o] = u
                                                 /\ recharge[o] = "credited"})
  /\ \A o \in Orders: event[o] = "success" => Settled(o)

\* A step of p closes the order.
Closes(p, o) ==
  /\ proc[p].order = o /\ proc'[p] # proc[p]
  /\ order[o] # "closed" /\ order'[o] = "closed"

\* Paid, credited, closed and processed are final: no late callback, sync or
\* cron pass with an old row reopens or reverts them.  Nobody but CloseOrder,
\* asked for by a user, closes an order that can still be paid, and
\* CloseExpiredOrders closes none that was paid.  (PayOrder, SyncOrder and
\* SyncPendingOrders may: they look at the clock too late, and CloseOrder at
\* the row too early.  See PaidIsNotClosed.)
OutcomesAreFinal ==
  [][\A o \in Orders:
       /\ order[o] \in {"paid", "closed"} => order'[o] = order[o]
       /\ recharge[o] \in {"credited", "closed"} => recharge'[o] = recharge[o]
       /\ event[o] = "success" => event'[o] = "success"
       /\ \A p \in Processes: Closes(p, o) /\ ~At(p, "closeCas") =>
            /\ expired[o] \/ trade[o] = "closed"
            /\ proc[p].entry = "cronExpire" => trade[o] # "success"]_paymentVars

\* No order is closed that was paid (docs/architecture.md on orders Alipay knows
\* no trade of, the answer of CloseOrder to a paid order): not by SyncOrder and
\* the cron, whose answer of gateway.Query is older than their clock, and not by
\* CloseOrder, whose row or answer of gateway.Close is older than its write.
PaidIsNotClosed ==
  [][\A p \in Processes, o \in Orders:
       Closes(p, o) => trade[o] # "success"]_paymentVars

\* An expired order whose trade is paid and whose recharge is marked failed:
\* the finalizer refuses it in every pass, and it stays listed.
Stuck(o) ==
  /\ expired[o] /\ order[o] = "paying"
  /\ trade[o] = "success" /\ recharge[o] = "failed"

\* Rows that do not leave the list fill every batch ahead of the order.
Crowded(o) ==
  ~Listed({q \in Orders: Stuck(q)} \cup {o}, Deadline, Batch, o)

\* Settled, or stopped for good by what the finalizer respects.
PaymentEnds(o) ==
  Settled(o) \/ order[o] = "closed" \/ recharge[o] \in {"failed", "closed"}

\* A trade the buyer paid is settled although no callback arrives, unless the
\* order was closed or the recharge marked failed or closed, which the
\* finalizer respects; and an expired order does not stay open, unless it is
\* stuck itself: whatever a batch and the number of orders are, as long as no
\* whole batch of stuck rows is ahead (payment_sync_pending_order and
\* payment_close_expired_order).
OrdersSettle ==
  \A o \in Orders:
    /\ trade[o] = "success" ~> PaymentEnds(o) \/ Crowded(o)
    /\ expired[o] /\ order[o] \in {"pending", "paying"} ~>
         order[o] \notin {"pending", "paying"} \/ Stuck(o) \/ Crowded(o)
=============================================================================
