------------------------------ MODULE VerifyCode ------------------------------
(***************************************************************************)
(* Verification codes (internal/module/auth: code_store.go and the callers *)
(* SendCode, loginByCode and ForgetPassword) of one account in one scene.  *)
(*                                                                         *)
(* The code lives in a Redis key that expires, a delivery is guarded by a  *)
(* lock key that expires too, and the message is in the hands of a mail or *)
(* sms provider.  Every script is a step, and so is every SQL statement.   *)
(***************************************************************************)
EXTENDS Integers, FiniteSets

CONSTANTS Deliveries,    \* SendCode requests; each is the owner of its lease
          Digits,        \* the codes; two deliveries may draw the same one
          Logins,        \* requests that present a code
          MaxCodeFaults  \* bound on lost answers and lapsed leases

VARIABLES slot,       \* the code's key
          lease,      \* the :delivery-lock key
          send,       \* SendCode requests
          told,       \* deliveries that were answered "sent"
          gone,       \* history: what became of a delivered code
          login,      \* requests that present a code
          admitted,   \* history: requests let in on a delivery's code
          account,    \* does a user row carry the account
          codeFaults

codeVars == <<slot, lease, send, told, gone, login, admitted, account, codeFaults>>

Nobody == "nobody"
NoDigits == "none"
Unset == [state |-> "none", owner |-> Nobody, code |-> NoDigits]

CodeInit ==
  /\ slot = Unset
  /\ lease = Nobody
  /\ send = [d \in Deliveries |-> [pc |-> "idle", code |-> NoDigits]]
  /\ told = {}
  /\ gone = [d \in Deliveries |-> "no"]
  /\ login = [l \in Logins |-> [pc |-> "idle", code |-> NoDigits]]
  /\ admitted = [d \in Deliveries |-> 0]
  /\ account \in BOOLEAN
  /\ codeFaults = 0

CodeFault == codeFaults < MaxCodeFaults /\ codeFaults' = codeFaults + 1

SendTo(d, pc) == send' = [send EXCEPT ![d].pc = pc]
LoginTo(l, pc) == login' = [login EXCEPT ![l].pc = pc]

\* A code that stops being good, and why.
Gone(why) ==
  gone' = IF slot.state = "delivered" THEN [gone EXCEPT ![slot.owner] = why] ELSE gone

-----------------------------------------------------------------------------
(* SendCode, after the captcha.                                            *)

\* SET lock owner NX PX.  A request that finds the lock is answered at once,
\* and one whose answer is lost ends without the lease it has.
AcquireDelivery(d, code) ==
  /\ send[d].pc = "idle" /\ lease = Nobody
  /\ lease' = d
  /\ \/ send' = [send EXCEPT ![d] = [pc |-> "pending", code |-> code]] /\ UNCHANGED codeFaults
     \/ SendTo(d, "failed") /\ CodeFault
  /\ UNCHANGED <<slot, told, gone, login, admitted, account>>

\* The key is replaced while the lease is held.  The deadline may have passed
\* before the script runs, and the script's answer may be lost.
SetPendingDelivery(d) ==
  /\ send[d].pc = "pending"
  /\ \/ /\ lease = d
        /\ slot' = [state |-> "pending", owner |-> d, code |-> send[d].code]
        /\ Gone("replaced")
        /\ \/ SendTo(d, "send") /\ UNCHANGED codeFaults
           \/ SendTo(d, "rollback") /\ CodeFault
     \/ SendTo(d, "rollback") /\ UNCHANGED <<slot, gone, codeFaults>>
  /\ UNCHANGED <<lease, told, login, admitted, account>>

\* The provider answers; the renewal that runs beside it fails once the lease
\* is lost, or has not looked since.
SendVerifyCode(d) ==
  /\ send[d].pc = "send"
  /\ SendTo(d, "commit") \/ SendTo(d, "rollback")
  /\ UNCHANGED <<slot, lease, told, gone, login, admitted, account, codeFaults>>

\* Fault: the scripts ask for a code, not for this delivery's pending code.
PendingUnasked(d) == slot.state # "none"

OwnPending(d) == slot.state = "pending" /\ slot.owner = d

\* CommitDelivery; a lost answer is followed by a rollback.
CommitDelivery(d) ==
  /\ send[d].pc = "commit"
  /\ IF lease = d /\ OwnPending(d)
     THEN /\ slot' = [slot EXCEPT !.state = "delivered"]
          /\ lease' = Nobody
          /\ \/ SendTo(d, "sent") /\ told' = told \cup {d} /\ UNCHANGED codeFaults
             \/ SendTo(d, "rollback") /\ UNCHANGED told /\ CodeFault
     ELSE SendTo(d, "rollback") /\ UNCHANGED <<slot, lease, told, codeFaults>>
  /\ UNCHANGED <<gone, login, admitted, account>>

\* RollbackDelivery.  A key that is not this delivery's keeps the lock, too.
RollbackDelivery(d) ==
  /\ send[d].pc = "rollback"
  /\ SendTo(d, "failed")
  /\ IF lease = d /\ (OwnPending(d) \/ slot.state = "none")
     THEN slot' = Unset /\ lease' = Nobody
     ELSE UNCHANGED <<slot, lease>>
  /\ UNCHANGED <<told, gone, login, admitted, account, codeFaults>>

\* Thirty seconds pass without a renewal, or the process dies.
LeaseExpires ==
  /\ lease # Nobody
  /\ IF send[lease].pc = "failed" THEN UNCHANGED <<send, codeFaults>>
     ELSE /\ CodeFault
          /\ UNCHANGED send \/ SendTo(lease, "failed")
  /\ lease' = Nobody
  /\ UNCHANGED <<slot, told, gone, login, admitted, account>>

\* PEXPIREAT.
CodeExpires ==
  /\ slot.state # "none"
  /\ slot' = Unset
  /\ Gone("expired")
  /\ UNCHANGED <<lease, send, told, login, admitted, account, codeFaults>>

-----------------------------------------------------------------------------
(* loginByCode and ForgetPassword.                                         *)

Good(code) == slot.state = "delivered" /\ slot.code = code

\* loginByCode looks at the code before it looks for the user.
LoginByCode(l, code) ==
  /\ login[l].pc = "idle" /\ Good(code)
  /\ login' = [login EXCEPT ![l] = [pc |-> "find", code |-> code]]
  /\ UNCHANGED <<slot, lease, send, told, gone, admitted, account, codeFaults>>

\* A user who is not there is registered later, where the platform allows it.
FindCredential(l) ==
  /\ login[l].pc = "find"
  /\ IF account THEN LoginTo(l, "consume") ELSE LoginTo(l, "enroll") \/ LoginTo(l, "refused")
  /\ UNCHANGED <<slot, lease, send, told, gone, admitted, account, codeFaults>>

\* ForgetPassword looks for the user first and at the code once.
ForgetPassword(l, code) ==
  /\ login[l].pc = "idle" /\ account
  /\ login' = [login EXCEPT ![l] = [pc |-> "forget", code |-> code]]
  /\ UNCHANGED <<slot, lease, send, told, gone, admitted, account, codeFaults>>

\* DEL of the consume script.
Taken == Unset

Consume(l) ==
  /\ login[l].pc \in {"consume", "enroll", "forget"}
  /\ IF Good(login[l].code)
     THEN /\ slot' = Taken
          /\ Gone("used")
          /\ admitted' = [admitted EXCEPT ![slot.owner] = @ + 1]
          /\ \/ /\ LoginTo(l, IF login[l].pc = "enroll" THEN "register" ELSE "in")
                /\ UNCHANGED codeFaults
             \/ LoginTo(l, "refused") /\ CodeFault
     ELSE LoginTo(l, "refused") /\ UNCHANGED <<slot, gone, admitted, codeFaults>>
  /\ UNCHANGED <<lease, send, told, account>>

\* One transaction; a duplicate key finds the user that another request made.
AutoRegister(l) ==
  /\ login[l].pc = "register"
  /\ \/ account' = TRUE /\ LoginTo(l, "in")
     \/ LoginTo(l, "refused") /\ UNCHANGED account
  /\ UNCHANGED <<slot, lease, send, told, gone, admitted, codeFaults>>

CodeNext ==
  \/ \E d \in Deliveries:
       \/ \E c \in Digits: AcquireDelivery(d, c)
       \/ SetPendingDelivery(d) \/ SendVerifyCode(d) \/ CommitDelivery(d)
       \/ RollbackDelivery(d)
  \/ LeaseExpires \/ CodeExpires
  \/ \E l \in Logins:
       \/ \E c \in Digits: LoginByCode(l, c) \/ ForgetPassword(l, c)
       \/ FindCredential(l) \/ Consume(l) \/ AutoRegister(l)

CodeSpec == CodeInit /\ [][CodeNext]_codeVars

-----------------------------------------------------------------------------
(* Properties.                                                             *)

\* A delivery's code lets one request in, however many present it between
\* their look at it and their Consume; and a user who was told "sent" has a
\* code that works until it is used, runs out or is replaced by the next
\* delivery: no rollback of another delivery, late or after a lapsed lease,
\* takes it away.
CodeWorksOnce ==
  /\ \A d \in Deliveries: admitted[d] <= 1 /\ (admitted[d] = 1 => gone[d] = "used")
  /\ \A d \in told: (slot.state = "delivered" /\ slot.owner = d) \/ gone[d] # "no"
=============================================================================
