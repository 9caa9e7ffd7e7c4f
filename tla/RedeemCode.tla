----------------------------- MODULE RedeemCode -----------------------------
(***************************************************************************)
(* Redeem codes (internal/module/payment/redeemcode) over the wallet.      *)
(*                                                                         *)
(* An administrator generates a batch of codes under a request id of their *)
(* own choice and may send the request again.  A user redeems a code: the  *)
(* attempt takes a lock in Redis, asks a failure counter, runs one MySQL   *)
(* transaction over the code and the wallet, records a refusal in the      *)
(* counter and releases the lock.  Lock and counter expire by themselves,  *)
(* and no transaction spans the two stores, so every call is a step.       *)
(***************************************************************************)
EXTENDS Wallet, FiniteSets

CONSTANTS Batches,       \* an administrator's request ids, one batch each
          Fingerprints,  \* what a request asks: amount, quantity, expiry
          Platforms,     \* user and platform name the lock and the counter
          Admins,        \* generate requests in flight
          Attempts,      \* redeem requests in flight
          FailureLimit,  \* failures allowed in a window
          MaxFaults      \* bound on lost answers, deaths and lapsed locks

ASSUME FingerprintsAssumption ==
  Fingerprints \subseteq [amount: Amounts, quantity: Nat \ {0}, expires: BOOLEAN]

VARIABLES batches,   \* redeem_code_batches, by request id
          codes,     \* redeem_codes
          expired,   \* expires_at of a batch has passed
          admin,     \* generate requests
          lock,      \* :attempt keys, held by an attempt
          failures,  \* :failures counters
          lapses,    \* attempts that outlived their lock, by key
          attempt,   \* redeem requests
          faults

redeemVars == <<wallets, holds, ledger, batches, codes, expired, admin, lock,
                failures, lapses, attempt, faults>>

Keys == Platforms \X Users
NoBatch == "no batch"
NoCode == "no code"          \* blank, malformed or never generated

ASSUME RedeemNamesAssumption ==
  NoBatch \notin Batches /\ NoCode \notin Codes /\ NoUser \notin Users

Absent == [amount |-> 0, quantity |-> 0, expires |-> FALSE]
Fresh == [batch |-> NoBatch, state |-> "none", usedBy |-> NoUser]
Quiet == [pc |-> "idle", batch |-> NoBatch, print |-> Absent]
Rest == [pc |-> "idle", key |-> <<"none", NoUser>>, code |-> NoCode, answer |-> "none"]

RedeemInit ==
  /\ WalletInit
  /\ batches = [b \in Batches |-> Absent]
  /\ codes = [c \in Codes |-> Fresh]
  /\ expired = [b \in Batches |-> FALSE]
  /\ admin = [a \in Admins |-> Quiet]
  /\ lock = [k \in Keys |-> "free"]
  /\ failures = [k \in Keys |-> 0]
  /\ lapses = [k \in Keys |-> 0]
  /\ attempt = [p \in Attempts |-> Rest]
  /\ faults = 0

Fault == faults < MaxFaults /\ faults' = faults + 1

-----------------------------------------------------------------------------
(* The administrator.                                                      *)

CodesOf(b) == {c \in Codes: codes[c].batch = b}

\* findBatchByRequestDB: the batch of a request id, whatever it asked for.
FindBatchByRequest(b) == batches[b] # Absent

\* The lookup of the transaction, backed by the unique key.
FreeToInsert(b) == ~FindBatchByRequest(b)

\* The first lookup of GenerateBatch; a batch that is there is replayed if
\* the fingerprint is the same and refused if not, and writes nothing.
GenerateBatch(a, b, print) ==
  /\ admin[a].pc = "idle"
  /\ ~FindBatchByRequest(b)
  /\ admin' = [admin EXCEPT ![a] = [pc |-> "create", batch |-> b, print |-> print]]
  /\ UNCHANGED <<wallets, holds, ledger, batches, codes, expired, lock,
                 failures, lapses, attempt, faults>>

\* The transaction of CreateOrReplayBatch: looks again, refuses an expiry that
\* is not in the future, and inserts the batch with its codes.  The unique key
\* on creator and request id makes the lookup and the insert one step.
CreateOrReplayBatch(a) ==
  LET b == admin[a].batch
      print == admin[a].print
  IN /\ admin[a].pc = "create"
     /\ admin' = [admin EXCEPT ![a] = Quiet]
     /\ \/ /\ FindBatchByRequest(b) \/ print.expires
           /\ UNCHANGED <<batches, codes>>
        \/ /\ FreeToInsert(b)
           /\ batches' = [batches EXCEPT ![b] = print]
           /\ \E S \in SUBSET CodesOf(NoBatch):
                /\ Cardinality(S) = print.quantity
                /\ codes' = [c \in Codes |->
                     IF c \in S THEN [batch |-> b, state |-> "unused", usedBy |-> NoUser]
                     ELSE codes[c]]
     /\ UNCHANGED <<wallets, holds, ledger, expired, lock, failures, lapses,
                    attempt, faults>>

\* Fault: the set is voided whatever became of its codes.
VoidsUsed(S) == \E c \in S: codes[c].state \in {"unused", "used"}

\* VoidCodes goes through with S: no code of it is used, one of it is unused.
Voids(S) ==
  /\ \A c \in S: codes[c].state \in {"unused", "voided"}
  /\ \E c \in S: codes[c].state = "unused"

VoidCodes(S) ==
  /\ Voids(S)
  /\ codes' = [c \in Codes |-> IF c \in S THEN [codes[c] EXCEPT !.state = "voided"]
                               ELSE codes[c]]
  /\ UNCHANGED <<wallets, holds, ledger, batches, expired, admin, lock,
                 failures, lapses, attempt, faults>>

\* The clock passes expires_at.
BatchExpires(b) ==
  /\ batches[b].expires /\ ~expired[b]
  /\ expired' = [expired EXCEPT ![b] = TRUE]
  /\ UNCHANGED <<wallets, holds, ledger, batches, codes, admin, lock, failures,
                 lapses, attempt, faults>>

-----------------------------------------------------------------------------
(* The limiter, in Redis.                                                  *)

Step(p, pc, answer) ==
  attempt' = [attempt EXCEPT ![p] = [@ EXCEPT !.pc = pc, !.answer = answer]]

\* SET key owner NX PX: an attempt that finds the lock is answered at once.
Acquire(p, k, c) ==
  /\ attempt[p].pc = "idle" /\ lock[k] = "free"
  /\ c # NoCode => codes[c].state # "none"
  /\ lock' = [lock EXCEPT ![k] = p]
  /\ attempt' = [attempt EXCEPT ![p] = [pc |-> "check", key |-> k, code |-> c,
                                        answer |-> "none"]]
  /\ UNCHANGED <<wallets, holds, ledger, batches, codes, expired, admin,
                 failures, lapses, faults>>

\* The SET is done and its answer lost: the request ends, the key stays.
AcquireLost(k) ==
  /\ lock[k] = "free" /\ Fault
  /\ lock' = [lock EXCEPT ![k] = "nobody"]
  /\ UNCHANGED <<wallets, holds, ledger, batches, codes, expired, admin,
                 failures, lapses, attempt>>

OverBudget(k) == failures[k] >= FailureLimit

\* FailureState, and the refusal of a user who has used up the failures.
FailureState(p) ==
  /\ attempt[p].pc = "check"
  /\ IF OverBudget(attempt[p].key) THEN Step(p, "release", "limited")
     ELSE Step(p, "redeem", "none")
  /\ UNCHANGED <<wallets, holds, ledger, batches, codes, expired, admin, lock,
                 failures, lapses, faults>>

\* RecordFailure; if its answer is lost the counter may have moved or not.
RecordFailure(p) ==
  /\ attempt[p].pc = "fail"
  /\ \/ /\ failures' = [failures EXCEPT ![attempt[p].key] = @ + 1]
        /\ Step(p, "release", "unavailable")
        /\ UNCHANGED faults
     \/ /\ Fault
        /\ failures' \in {failures, [failures EXCEPT ![attempt[p].key] = @ + 1]}
        /\ Step(p, "release", "dependency")
  /\ UNCHANGED <<wallets, holds, ledger, batches, codes, expired, admin, lock, lapses>>

\* The release script deletes the key only if this attempt still owns it.
Release(p) ==
  /\ attempt[p].pc = "release"
  /\ lock' = IF lock[attempt[p].key] = p THEN [lock EXCEPT ![attempt[p].key] = "free"]
             ELSE lock
  /\ attempt' = [attempt EXCEPT ![p] = Rest]
  /\ UNCHANGED <<wallets, holds, ledger, batches, codes, expired, admin,
                 failures, lapses, faults>>

\* Fifteen seconds pass.  An attempt that still runs has outlived its lock.
LockExpires(k) ==
  /\ lock[k] # "free"
  /\ IF lock[k] = "nobody" THEN UNCHANGED <<lapses, faults>>
     ELSE Fault /\ lapses' = [lapses EXCEPT ![k] = @ + 1]
  /\ lock' = [lock EXCEPT ![k] = "free"]
  /\ UNCHANGED <<wallets, holds, ledger, batches, codes, expired, admin,
                 failures, attempt>>

\* Ten minutes pass since the first failure.
WindowExpires(k) ==
  /\ failures[k] > 0
  /\ failures' = [failures EXCEPT ![k] = 0]
  /\ UNCHANGED <<wallets, holds, ledger, batches, codes, expired, admin, lock,
                 lapses, attempt, faults>>

\* The API process dies: the request ends where it is.
AttemptDies(p) ==
  /\ attempt[p].pc # "idle" /\ Fault
  /\ lock' = [k \in Keys |-> IF lock[k] = p THEN "nobody" ELSE lock[k]]
  /\ attempt' = [attempt EXCEPT ![p] = Rest]
  /\ UNCHANGED <<wallets, holds, ledger, batches, codes, expired, admin,
                 failures, lapses>>

-----------------------------------------------------------------------------
(* The redemption, one transaction over the locked code and the wallet.    *)

\* The replay of StateUsed: the user's own credit, as it was written.
Own(c, u) ==
  /\ c # NoCode /\ codes[c].state = "used" /\ codes[c].usedBy = u
  /\ \E i \in DOMAIN ledger:
       /\ RowsOf(<<"redeem_code", c>>) = {i}
       /\ ledger[i].user = u /\ ledger[i].direction = "in"
       /\ ledger[i].amount = batches[codes[c].batch].amount
       /\ ledger[i].after = ledger[i].before + ledger[i].amount

\* UPDATE ... SET state = 'used' WHERE id = ? AND state = 'unused'.
UseCode(c, u) ==
  codes' = [codes EXCEPT ![c] = [@ EXCEPT !.state = "used", !.usedBy = u]]

Redeemable(c) ==
  c # NoCode /\ codes[c].state = "unused" /\ ~expired[codes[c].batch]

\* The transaction commits.  The commit's answer may be lost, and then the
\* user is told to try again.
Redeem(p) ==
  LET u == attempt[p].key[2]
      c == attempt[p].code
  IN /\ attempt[p].pc = "redeem" /\ Redeemable(c)
     /\ CreditRedeemCode(u, c, batches[codes[c].batch].amount)
     /\ UseCode(c, u)
     /\ \/ Step(p, "release", "ok") /\ UNCHANGED faults
        \/ Step(p, "release", "dependency") /\ Fault
     /\ UNCHANGED <<batches, expired, admin, lock, failures, lapses>>

\* The transaction writes nothing: a replay, a refusal, or an error of the
\* data or of the connection.  Only a refusal goes on to RecordFailure.
RedeemNothing(p) ==
  LET u == attempt[p].key[2]
      c == attempt[p].code
  IN /\ attempt[p].pc = "redeem"
     /\ \/ Own(c, u) /\ Step(p, "release", "ok") /\ UNCHANGED faults
        \/ /\ ~(Own(c, u) \/ Redeemable(c))
           /\ Step(p, "fail", "unavailable") /\ UNCHANGED faults
        \/ /\ Redeemable(c)
           /\ ~CreditFits(LockOrCreateWallet(u), batches[codes[c].batch].amount)
           /\ Step(p, "release", "integrity") /\ UNCHANGED faults
        \/ Step(p, "release", "dependency") /\ Fault
     /\ UNCHANGED <<wallets, holds, ledger, batches, codes, expired, admin,
                    lock, failures, lapses>>

RedeemNext ==
  \/ \E a \in Admins, b \in Batches, f \in Fingerprints: GenerateBatch(a, b, f)
  \/ \E a \in Admins: CreateOrReplayBatch(a)
  \/ \E S \in SUBSET Codes: VoidCodes(S)
  \/ \E b \in Batches: BatchExpires(b)
  \/ \E p \in Attempts, k \in Keys, c \in Codes \cup {NoCode}: Acquire(p, k, c)
  \/ \E k \in Keys: AcquireLost(k) \/ LockExpires(k) \/ WindowExpires(k)
  \/ \E p \in Attempts:
       \/ FailureState(p) \/ Redeem(p) \/ RedeemNothing(p)
       \/ RecordFailure(p) \/ Release(p) \/ AttemptDies(p)

RedeemSpec == RedeemInit /\ [][RedeemNext]_redeemVars

-----------------------------------------------------------------------------
(* Properties.                                                             *)

\* A generated code is used by a user exactly if the ledger holds one credit of it, to
\* that user and for the amount its batch was asked for: Redeem writes ledger,
\* wallet and code, and VoidCodes and the retries leave the pair alone.  So an
\* attempt answered "unavailable" is never about a code that its user redeemed,
\* not even by an attempt on another platform that ran at the same time.  And a
\* request id has the codes it asked for, however often and wherever it is sent.
RedeemedOnce ==
  /\ \A b \in Batches: Cardinality(CodesOf(b)) = batches[b].quantity
  /\ \A c \in Codes \ CodesOf(NoBatch):
       LET rows == RowsOf(<<"redeem_code", c>>)
       IN IF codes[c].state = "used"
          THEN \E i \in DOMAIN ledger:
                 /\ rows = {i}
                 /\ ledger[i].user = codes[c].usedBy
                 /\ ledger[i].amount = batches[codes[c].batch].amount
          ELSE rows = {}
  /\ \A p \in Attempts:
       attempt[p].answer = "unavailable" /\ attempt[p].code # NoCode =>
         codes[attempt[p].code].usedBy # attempt[p].key[2]
=============================================================================
