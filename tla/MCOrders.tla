------------------------------ MODULE MCOrders ------------------------------
(* Payment with more orders than a run of a cron task lists.  The orders are *)
(* recharges, created in turn; requests only create and pay, and the worker  *)
(* meets no fault (MCWork has one order and all of them).                    *)
EXTENDS Payment

CONSTANTS First     \* the order created first

\* A recharge is created, and paid again while it is not being paid.
Asks(p) ==
  \E o \in Orders:
    \/ (o = First \/ order[First] # "none") /\ CreateRecharge(p, o)
    \/ PayRecharge(p, o)

Answers(p) ==
  \/ PayLoad(p) \/ PayClock(p) \/ PayExpire(p) \/ PayStored(p) \/ PayReload(p)
  \/ RechargeAnswered(p) \/ RechargeClose(p)

\* The worker on one order; the finalizer refuses, and Alipay refuses to close,
\* only what they must.
Works(p) ==
  \/ Query(p) \/ NotExist(p) \/ Finalize(p) \/ CloseQueriedOrder(p)
  \/ LinkedLoad(p) \/ LinkedClose(p) \/ GatewayClose(p)
  \/ At(p, "finalize") /\ ~Settleable(proc[p].order) /\ FinalizeIdles(p)
  \/ At(p, "gatewayClose") /\ trade[proc[p].order] # "wait" /\ GatewayCloseFails(p)

OrdersNext ==
  \/ \E p \in Requests: Asks(p) \/ Answers(p)
  \/ \E p \in Workers: Works(p) \/ \E o \in Orders: CronSync(p, o) \/ CronExpire(p, o)
  \/ \E o \in Orders: Expire(o) \/ Buyer(o)

\* Where no call fails, one condition stands for those of CronFairness on calls.
OrdersFairness ==
  /\ \A o \in Orders: WF_paymentVars(Expire(o))
  /\ \A p \in Requests: WF_paymentVars(Answers(p))
  /\ \A p \in Workers:
       /\ WF_paymentVars(Works(p))
       /\ \A o \in Orders: /\ SF_paymentVars(SyncListed(p, o, Paying))
                           /\ SF_paymentVars(CronExpire(p, o))
=============================================================================
