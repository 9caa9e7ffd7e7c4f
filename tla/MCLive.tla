------------------------------- MODULE MCLive -------------------------------
(* What must come about of replies, and of several orders: a finite instance *)
(* of Reply under fairness, and one of MCOrders with a batch of one row.     *)
EXTENDS MCReply

CONSTANTS Users, Recharges, Payers, CronWorkers

VARIABLES wallets, holds, ledger, order, recharge, expired, event, trade, proc

orderVars == <<wallets, holds, ledger, order, recharge, expired, event, trade, proc>>

\* All recharges belong to one user.
OneOwner == [o \in Recharges |-> CHOOSE u \in Users : TRUE]

\* The order created first has the lower id and expires first.
First == CHOOSE o \in Recharges : TRUE
InTurn == [o \in Recharges |-> IF o = First THEN 0 ELSE 1]

Pay == INSTANCE MCOrders WITH
         Runs <- {}, Codes <- {}, Amounts <- {1}, MaxUnits <- 2,
         Owner <- OneOwner, OrderUnits <- 1, Requests <- Payers, Workers <- CronWorkers,
         Batch <- 1, Place <- InTurn, Deadline <- InTurn

LiveInit == MCInit /\ Pay!PaymentInit

LiveNext ==
  \/ MCNext /\ UNCHANGED orderVars
  \/ /\ part = "orders" /\ [Pay!OrdersNext]_orderVars
     /\ UNCHANGED <<part, vars, realtimeVars>>

\* Only the part that moves owes anything.
LiveSpec ==
  /\ LiveInit /\ [][LiveNext]_<<part, vars, realtimeVars, orderVars>>
  /\ \/ part = "reply" /\ Fairness
     \/ part = "orders" /\ Pay!OrdersFairness

\* Payment's property of that name: paid trades settle and expired orders end,
\* whatever the rows ahead of them are, unless a whole batch of those is stuck
\* (payment_sync_pending_order, payment_close_expired_order).
OrdersSettle == Pay!OrdersSettle
=============================================================================
