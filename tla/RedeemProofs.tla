---------------------------- MODULE RedeemProofs ----------------------------
(***************************************************************************)
(* Any number of attempts, on any platforms, behind a lock that may lapse  *)
(* and a counter that may miss a failure: a code pays its user once, and   *)
(* no user is refused a code of their own.                                 *)
(***************************************************************************)
EXTENDS RedeemCode, WalletProofs, FiniteSetTheorems

CodeRow == [batch: Batches \cup {NoBatch}, state: {"none", "unused", "used", "voided"},
            usedBy: Users \cup {NoUser}]

AdminRow == [pc: {"idle", "create"}, batch: Batches \cup {NoBatch},
             print: Fingerprints \cup {Absent}]

AttemptRow == [pc: {"idle", "check", "redeem", "fail", "release"},
               key: Keys \cup {<<"none", NoUser>>}, code: Codes \cup {NoCode},
               answer: {"none", "ok", "limited", "unavailable", "dependency", "integrity"}]

RedeemTypeOK ==
  /\ WalletTypeOK
  /\ batches \in [Batches -> Fingerprints \cup {Absent}]
  /\ codes \in [Codes -> CodeRow]
  /\ expired \in [Batches -> BOOLEAN]
  /\ admin \in [Admins -> AdminRow]
  /\ lock \in [Keys -> Attempts \cup {"free", "nobody"}]
  /\ failures \in [Keys -> Nat] /\ lapses \in [Keys -> Nat]
  /\ attempt \in [Attempts -> AttemptRow]
  /\ faults \in Nat

\* A generate request under way knows what it asks.
AdminsAreWhole ==
  \A a \in Admins: admin[a].pc = "create" =>
    admin[a].batch \in Batches /\ admin[a].print \in Fingerprints

\* An attempt under way has a key, and a code that was generated.  What was
\* refused once cannot be redeemed any more, and was not the user's.
Sound(row) ==
  /\ row.pc # "idle" => row.key \in Keys
  /\ row.pc = "fail" => row.answer = "unavailable"
  /\ row.code # NoCode => codes[row.code].state # "none"
  /\ row.answer = "unavailable" /\ row.code # NoCode =>
       ~Redeemable(row.code) /\ codes[row.code].usedBy # row.key[2]

AttemptsAreSound == \A p \in Attempts: Sound(attempt[p])

\* A code belongs to the batch it was generated with, and to its user.
CodesAreWhole ==
  \A c \in Codes:
    /\ codes[c].state = "none" <=> codes[c].batch = NoBatch
    /\ codes[c].batch # NoBatch => batches[codes[c].batch] # Absent
    /\ codes[c].state = "used" <=> codes[c].usedBy # NoUser

\* The credit of a used code is the one that a replay of its user finds.
CodesAndLedgerAgree ==
  \A c \in Codes:
    IF codes[c].state = "used" THEN Own(c, codes[c].usedBy)
    ELSE RowsOf(<<"redeem_code", c>>) = {}

BatchesAreWhole ==
  \A b \in Batches: Cardinality(CodesOf(b)) = batches[b].quantity

RedeemInv ==
  /\ RedeemTypeOK
  /\ AdminsAreWhole
  /\ AttemptsAreSound
  /\ CodesAreWhole
  /\ CodesAndLedgerAgree
  /\ BatchesAreWhole

\* The facts about codes that attempts rely on outlive the steps of others.
CodesOnward ==
  \A c \in Codes:
    /\ codes[c].state # "none" => codes'[c].state # "none"
    /\ codes[c].state # "none" /\ ~Redeemable(c) =>
         ~Redeemable(c)' /\ codes'[c].usedBy = codes[c].usedBy

LEMMA SoundStays ==
  ASSUME CodesOnward, NEW row, row.code \in Codes \cup {NoCode}, Sound(row)
  PROVE  Sound(row)'
BY RedeemNamesAssumption DEF Sound, CodesOnward

LEMMA AttemptsStaySound ==
  ASSUME RedeemTypeOK, AttemptsAreSound, CodesOnward,
         \A p \in Attempts: attempt'[p] = attempt[p] \/ Sound(attempt[p])'
  PROVE  AttemptsAreSound'
<1> SUFFICES ASSUME NEW p \in Attempts PROVE Sound(attempt[p])'
  BY DEF AttemptsAreSound
<1>1. CASE attempt'[p] = attempt[p]
  <2>1. PICK row: row = attempt[p]
    OBVIOUS
  <2>2. Sound(row) /\ row.code \in Codes \cup {NoCode}
    BY <2>1 DEF AttemptsAreSound, RedeemTypeOK, AttemptRow
  <2>3. Sound(row)'
    BY <2>2, SoundStays
  <2> QED
    BY <1>1, <2>1, <2>3
<1> QED
  BY <1>1

-----------------------------------------------------------------------------
(* Steps that leave codes, wallets and ledger alone.                       *)

\* The limiter, the clock and the first reading of a generate request.
LEMMA OutsideKeeps ==
  ASSUME RedeemInv, UNCHANGED <<wallets, holds, ledger, batches, codes>>,
         expired' \in [Batches -> BOOLEAN], \A b \in Batches: expired[b] => expired'[b],
         admin' \in [Admins -> AdminRow], AdminsAreWhole',
         lock' \in [Keys -> Attempts \cup {"free", "nobody"}],
         failures' \in [Keys -> Nat], lapses' \in [Keys -> Nat], faults' \in Nat,
         attempt' \in [Attempts -> AttemptRow],
         \A p \in Attempts: attempt'[p] = attempt[p] \/ Sound(attempt[p])'
  PROVE  RedeemInv'
<1>1. WalletTypeOK'
  BY WalletNextTyped DEF RedeemInv, RedeemTypeOK, walletVars
<1>2. RedeemTypeOK'
  BY <1>1 DEF RedeemInv, RedeemTypeOK
<1>3. CodesOnward
  <2>1. \A c \in Codes: codes[c].state # "none" => codes[c].batch \in Batches
    BY DEF RedeemInv, RedeemTypeOK, CodeRow, CodesAreWhole
  <2> QED
    BY <2>1 DEF CodesOnward, Redeemable
<1>4. AttemptsAreSound'
  BY <1>3, AttemptsStaySound DEF RedeemInv
<1>5. CodesAreWhole' /\ BatchesAreWhole'
  BY DEF RedeemInv, CodesAreWhole, BatchesAreWhole, CodesOf
<1>6. CodesAndLedgerAgree'
  BY DEF RedeemInv, CodesAndLedgerAgree, Own, RowsOf
<1> QED
  BY <1>2, <1>4, <1>5, <1>6 DEF RedeemInv

\* An attempt goes on.
LEMMA AttemptKeeps ==
  ASSUME RedeemInv, UNCHANGED <<wallets, holds, ledger, batches, codes, expired, admin>>,
         lock' \in [Keys -> Attempts \cup {"free", "nobody"}],
         failures' \in [Keys -> Nat], lapses' \in [Keys -> Nat], faults' \in Nat,
         NEW p \in Attempts, NEW row \in AttemptRow, Sound(row),
         attempt' = [attempt EXCEPT ![p] = row]
  PROVE  RedeemInv'
<1>1. /\ attempt' \in [Attempts -> AttemptRow] /\ attempt'[p] = row
      /\ \A q \in Attempts \ {p}: attempt'[q] = attempt[q]
  BY DEF RedeemInv, RedeemTypeOK
<1>2. Sound(attempt[p])'
  <2>1. Sound(row)'
    BY DEF Sound, Redeemable
  <2> QED
    BY <1>1, <2>1
<1>3. AdminsAreWhole' /\ admin' \in [Admins -> AdminRow] /\ expired' \in [Batches -> BOOLEAN]
  BY DEF RedeemInv, RedeemTypeOK, AdminsAreWhole
<1> QED
  BY <1>1, <1>2, <1>3, OutsideKeeps

LEMMA AttemptTyped ==
  ASSUME RedeemInv, NEW p \in Attempts
  PROVE  /\ attempt[p] \in AttemptRow /\ Sound(attempt[p])
         /\ lock \in [Keys -> Attempts \cup {"free", "nobody"}]
         /\ failures \in [Keys -> Nat] /\ lapses \in [Keys -> Nat] /\ faults \in Nat
BY DEF RedeemInv, RedeemTypeOK, AttemptsAreSound

\* Step moves an attempt on; an answer other than "unavailable" claims nothing.
LEMMA StepKeeps ==
  ASSUME RedeemInv, UNCHANGED <<wallets, holds, ledger, batches, codes, expired, admin>>,
         lock' \in [Keys -> Attempts \cup {"free", "nobody"}],
         failures' \in [Keys -> Nat], lapses' \in [Keys -> Nat], faults' \in Nat,
         NEW p \in Attempts, attempt[p].pc # "idle",
         NEW pc \in {"check", "redeem", "fail", "release"},
         NEW answer \in {"none", "ok", "limited", "unavailable", "dependency", "integrity"},
         Step(p, pc, answer), pc = "fail" => answer = "unavailable",
         answer = "unavailable" /\ attempt[p].code # NoCode =>
           ~Redeemable(attempt[p].code) /\ codes[attempt[p].code].usedBy # attempt[p].key[2]
  PROVE  RedeemInv'
<1>1. PICK row: row = [attempt[p] EXCEPT !.pc = pc, !.answer = answer]
  OBVIOUS
<1>2. attempt[p] \in AttemptRow /\ Sound(attempt[p])
  BY AttemptTyped
<1>3. /\ row \in AttemptRow /\ row.pc = pc /\ row.answer = answer
      /\ row.key = attempt[p].key /\ row.code = attempt[p].code
  BY <1>1, <1>2 DEF AttemptRow
<1>4. Sound(row)
  BY <1>2, <1>3 DEF Sound
<1>5. attempt' = [attempt EXCEPT ![p] = row]
  BY <1>1 DEF Step
<1> QED
  BY <1>3, <1>4, <1>5, AttemptKeeps

\* What the failure counter says is not about the code.
LEMMA LimiterKeeps ==
  ASSUME RedeemInv, NEW p \in Attempts,
         FailureState(p) \/ RecordFailure(p) \/ Release(p) \/ AttemptDies(p)
  PROVE  RedeemInv'
<1>1. /\ attempt[p] \in AttemptRow /\ Sound(attempt[p]) /\ attempt[p].pc # "idle"
      /\ lock \in [Keys -> Attempts \cup {"free", "nobody"}]
      /\ failures \in [Keys -> Nat] /\ lapses \in [Keys -> Nat] /\ faults \in Nat
      /\ attempt[p].key \in Keys
  BY AttemptTyped DEF FailureState, RecordFailure, Release, AttemptDies, Sound
<1>2. CASE FailureState(p)
  BY <1>1, <1>2, StepKeeps DEF FailureState
<1>3. CASE RecordFailure(p)
  <2>1. /\ failures' \in [Keys -> Nat] /\ faults' \in Nat
        /\ UNCHANGED <<wallets, holds, ledger, batches, codes, expired, admin, lock, lapses>>
    BY <1>1, <1>3 DEF RecordFailure, Fault
  <2>2. Step(p, "release", "dependency") \/ Step(p, "release", "unavailable")
    BY <1>3 DEF RecordFailure
  <2>3. Step(p, "release", "dependency") => RedeemInv'
    BY <1>1, <2>1, StepKeeps
  <2>4. Step(p, "release", "unavailable") => RedeemInv'
    BY <1>1, <1>3, <2>1, StepKeeps DEF RecordFailure, Sound
  <2> QED
    BY <2>2, <2>3, <2>4
<1>4. Rest \in AttemptRow /\ Sound(Rest)
  BY DEF Rest, AttemptRow, Sound
<1>5. CASE Release(p)
  <2>1. lock' \in [Keys -> Attempts \cup {"free", "nobody"}]
    BY <1>1, <1>5 DEF Release
  <2> QED
    BY <1>1, <1>4, <1>5, <2>1, AttemptKeeps DEF Release
<1>6. CASE AttemptDies(p)
  <2>1. lock' \in [Keys -> Attempts \cup {"free", "nobody"}] /\ faults' \in Nat
    BY <1>1, <1>6 DEF AttemptDies, Fault
  <2> QED
    BY <1>1, <1>4, <1>6, <2>1, AttemptKeeps DEF AttemptDies
<1> QED
  BY <1>2, <1>3, <1>5, <1>6

LEMMA AcquireKeeps ==
  ASSUME RedeemInv, NEW p \in Attempts, NEW k \in Keys, NEW c \in Codes \cup {NoCode},
         Acquire(p, k, c)
  PROVE  RedeemInv'
<1>1. PICK row: row = [pc |-> "check", key |-> k, code |-> c, answer |-> "none"]
  OBVIOUS
<1>2. row \in AttemptRow /\ Sound(row)
  BY <1>1 DEF Acquire, AttemptRow, Sound
<1>3. /\ lock' \in [Keys -> Attempts \cup {"free", "nobody"}]
      /\ failures' \in [Keys -> Nat] /\ lapses' \in [Keys -> Nat] /\ faults' \in Nat
  BY AttemptTyped DEF Acquire
<1> QED
  BY <1>1, <1>2, <1>3, AttemptKeeps DEF Acquire

\* The transaction that writes nothing refuses a code only if it is not the
\* user's, and can no longer become it.
LEMMA RedeemNothingKeeps ==
  ASSUME RedeemInv, NEW p \in Attempts, RedeemNothing(p)
  PROVE  RedeemInv'
<1> DEFINE u == attempt[p].key[2]
           c == attempt[p].code
<1>1. /\ attempt[p] \in AttemptRow /\ Sound(attempt[p]) /\ attempt[p].pc # "idle"
      /\ lock \in [Keys -> Attempts \cup {"free", "nobody"}]
      /\ failures \in [Keys -> Nat] /\ lapses \in [Keys -> Nat] /\ faults \in Nat
      /\ attempt[p].key \in Keys
  BY AttemptTyped DEF RedeemNothing, Sound
<1>2. /\ UNCHANGED <<wallets, holds, ledger, batches, codes, expired, admin, lock,
                     failures, lapses>>
      /\ faults' \in Nat
  BY <1>1 DEF RedeemNothing, Fault
<1>3. \/ \E answer \in {"ok", "integrity", "dependency"}: Step(p, "release", answer)
      \/ ~(Own(c, u) \/ Redeemable(c)) /\ Step(p, "fail", "unavailable")
  BY DEF RedeemNothing
<1>4. ASSUME NEW answer \in {"ok", "integrity", "dependency"}, Step(p, "release", answer)
      PROVE  RedeemInv'
  BY <1>1, <1>2, <1>4, StepKeeps
<1>5. ASSUME ~(Own(c, u) \/ Redeemable(c)), Step(p, "fail", "unavailable")
      PROVE  RedeemInv'
  <2>1. ASSUME c # NoCode PROVE codes[c].usedBy # u
    <3>1. c \in Codes /\ u \in Users
      BY <1>1, <2>1 DEF AttemptRow, Keys
    <3>2. CASE codes[c].state = "used"
      <4>1. Own(c, codes[c].usedBy)
        BY <3>1, <3>2 DEF RedeemInv, CodesAndLedgerAgree
      <4> QED
        BY <1>5, <4>1
    <3>3. CASE codes[c].state # "used"
      BY <3>1, <3>3, RedeemNamesAssumption DEF RedeemInv, CodesAreWhole
    <3> QED
      BY <3>2, <3>3
  <2> QED
    BY <1>1, <1>2, <1>5, <2>1, StepKeeps
<1> QED
  BY <1>3, <1>4, <1>5

LEMMA RedisAndClockKeep ==
  ASSUME RedeemInv,
         \/ \E k \in Keys: AcquireLost(k) \/ LockExpires(k) \/ WindowExpires(k)
         \/ \E b \in Batches: BatchExpires(b)
         \/ UNCHANGED redeemVars
  PROVE  RedeemInv'
<1>1. /\ lock \in [Keys -> Attempts \cup {"free", "nobody"}]
      /\ failures \in [Keys -> Nat] /\ lapses \in [Keys -> Nat] /\ faults \in Nat
      /\ expired \in [Batches -> BOOLEAN] /\ admin \in [Admins -> AdminRow]
      /\ attempt \in [Attempts -> AttemptRow]
  BY DEF RedeemInv, RedeemTypeOK
<1>2. /\ UNCHANGED <<wallets, holds, ledger, batches, codes, admin, attempt>>
      /\ AdminsAreWhole'
  BY DEF AcquireLost, LockExpires, WindowExpires, BatchExpires, redeemVars,
     RedeemInv, AdminsAreWhole
<1>3. ASSUME lock' \in [Keys -> Attempts \cup {"free", "nobody"}], failures' \in [Keys -> Nat],
             lapses' \in [Keys -> Nat], faults' \in Nat, UNCHANGED expired
      PROVE  RedeemInv'
  BY <1>1, <1>2, <1>3, OutsideKeeps
<1>4. ASSUME NEW k \in Keys, AcquireLost(k) PROVE RedeemInv'
  BY <1>1, <1>3, <1>4 DEF AcquireLost, Fault
<1>5. ASSUME NEW k \in Keys, LockExpires(k) PROVE RedeemInv'
  <2>1. lock' \in [Keys -> Attempts \cup {"free", "nobody"}] /\ faults' \in Nat
    BY <1>1, <1>5 DEF LockExpires, Fault
  <2>2. lapses' \in [Keys -> Nat]
    BY <1>1, <1>5 DEF LockExpires
  <2> QED
    BY <1>1, <1>3, <1>5, <2>1, <2>2 DEF LockExpires
<1>6. ASSUME NEW k \in Keys, WindowExpires(k) PROVE RedeemInv'
  BY <1>1, <1>3, <1>6 DEF WindowExpires
<1>7. ASSUME NEW b \in Batches, BatchExpires(b) PROVE RedeemInv'
  <2>1. expired' \in [Batches -> BOOLEAN] /\ \A d \in Batches: expired[d] => expired'[d]
    BY <1>1, <1>7 DEF BatchExpires
  <2> QED
    BY <1>1, <1>2, <1>7, <2>1, OutsideKeeps DEF BatchExpires
<1>8. CASE UNCHANGED redeemVars
  BY <1>1, <1>3, <1>8 DEF redeemVars
<1> QED
  BY <1>4, <1>5, <1>6, <1>7, <1>8

-----------------------------------------------------------------------------
(* The administrator.                                                      *)

LEMMA GenerateKeeps ==
  ASSUME RedeemInv, NEW a \in Admins, NEW b \in Batches, NEW print \in Fingerprints,
         GenerateBatch(a, b, print)
  PROVE  RedeemInv'
<1>1. /\ lock' \in [Keys -> Attempts \cup {"free", "nobody"}]
      /\ failures' \in [Keys -> Nat] /\ lapses' \in [Keys -> Nat] /\ faults' \in Nat
      /\ expired' \in [Batches -> BOOLEAN] /\ attempt' \in [Attempts -> AttemptRow]
      /\ UNCHANGED <<wallets, holds, ledger, batches, codes, expired, attempt>>
  BY DEF GenerateBatch, RedeemInv, RedeemTypeOK
<1>2. [pc |-> "create", batch |-> b, print |-> print] \in AdminRow
  BY DEF AdminRow
<1>3. admin' \in [Admins -> AdminRow] /\ AdminsAreWhole'
  BY <1>2 DEF GenerateBatch, RedeemInv, RedeemTypeOK, AdminsAreWhole
<1> QED
  BY <1>1, <1>3, OutsideKeeps

LEMMA FingerprintTyped ==
  ASSUME NEW print \in Fingerprints
  PROVE  /\ print # Absent /\ print.amount \in Amounts /\ print.expires \in BOOLEAN
BY FingerprintsAssumption DEF Absent

\* New codes take the place of codes nobody knew.
LEMMA CreateKeeps ==
  ASSUME RedeemInv, NEW a \in Admins, CreateOrReplayBatch(a)
  PROVE  RedeemInv'
<1>0. PICK b, print: b = admin[a].batch /\ print = admin[a].print
  OBVIOUS
<1>1. /\ b \in Batches /\ print \in Fingerprints
      /\ admin' = [admin EXCEPT ![a] = Quiet]
      /\ UNCHANGED <<wallets, holds, ledger, expired, lock, failures, lapses, attempt, faults>>
      /\ RedeemTypeOK
  BY <1>0 DEF CreateOrReplayBatch, RedeemInv, AdminsAreWhole
<1>2. admin' \in [Admins -> AdminRow] /\ AdminsAreWhole'
  <2>1. Quiet \in AdminRow /\ Quiet.pc = "idle"
    BY DEF Quiet, AdminRow
  <2> QED
    BY <1>1, <2>1 DEF RedeemInv, RedeemTypeOK, AdminsAreWhole
<1>3. CASE UNCHANGED <<batches, codes>>
  <2>1. /\ lock' \in [Keys -> Attempts \cup {"free", "nobody"}]
        /\ failures' \in [Keys -> Nat] /\ lapses' \in [Keys -> Nat] /\ faults' \in Nat
        /\ expired' \in [Batches -> BOOLEAN] /\ attempt' \in [Attempts -> AttemptRow]
    BY <1>1 DEF RedeemTypeOK
  <2> QED
    BY <1>1, <1>2, <1>3, <2>1, OutsideKeeps
<1>4. ASSUME NEW S \in SUBSET CodesOf(NoBatch), FreeToInsert(b),
             batches' = [batches EXCEPT ![b] = print],
             Cardinality(S) = print.quantity,
             codes' = [c \in Codes |->
                         IF c \in S THEN [batch |-> b, state |-> "unused", usedBy |-> NoUser]
                         ELSE codes[c]]
      PROVE  RedeemInv'
  <2>1. /\ codes \in [Codes -> CodeRow] /\ batches \in [Batches -> Fingerprints \cup {Absent}]
        /\ batches[b] = Absent /\ print # Absent
        /\ S \subseteq Codes
        /\ \A c \in S: codes[c].batch = NoBatch /\ codes[c].state = "none"
    BY <1>1, <1>4, FingerprintTyped
       DEF RedeemTypeOK, FreeToInsert, FindBatchByRequest, CodesOf, RedeemInv, CodesAreWhole
  <2>2. /\ \A c \in S: /\ codes'[c].batch = b /\ codes'[c].state = "unused"
                       /\ codes'[c].usedBy = NoUser
        /\ \A c \in Codes \ S: codes'[c] = codes[c]
        /\ batches'[b] = print
        /\ \A d \in Batches \ {b}: batches'[d] = batches[d]
    BY <1>1, <1>4, <2>1
  <2>3. codes' \in [Codes -> CodeRow] /\ batches' \in [Batches -> Fingerprints \cup {Absent}]
    <3>1. [batch |-> b, state |-> "unused", usedBy |-> NoUser] \in CodeRow
      BY <1>1 DEF CodeRow
    <3> QED
      BY <1>1, <1>4, <2>1, <3>1
  <2>4. WalletTypeOK'
    BY <1>1, WalletNextTyped DEF RedeemTypeOK, walletVars
  <2>5. RedeemTypeOK'
    BY <1>1, <1>2, <2>3, <2>4 DEF RedeemTypeOK
  <2>6. CodesAreWhole'
    <3>1. ASSUME NEW c \in S
          PROVE  /\ codes'[c].state # "none" /\ codes'[c].batch # NoBatch
                 /\ batches'[codes'[c].batch] # Absent
                 /\ codes'[c].state # "used" /\ codes'[c].usedBy = NoUser
      <4>1. codes'[c].batch = b /\ b # NoBatch
        BY <1>1, <2>2, RedeemNamesAssumption
      <4> QED
        BY <2>1, <2>2, <4>1
    <3>2. ASSUME NEW c \in Codes \ S
          PROVE  /\ codes'[c].state = "none" <=> codes'[c].batch = NoBatch
                 /\ codes'[c].batch # NoBatch => batches'[codes'[c].batch] # Absent
                 /\ codes'[c].state = "used" <=> codes'[c].usedBy # NoUser
      <4>1. /\ codes[c].state = "none" <=> codes[c].batch = NoBatch
            /\ codes[c].batch # NoBatch => batches[codes[c].batch] # Absent
            /\ codes[c].state = "used" <=> codes[c].usedBy # NoUser
            /\ codes[c].batch \in Batches \cup {NoBatch}
        BY <2>1 DEF RedeemInv, CodesAreWhole, CodeRow
      <4>2. codes[c].batch # NoBatch => batches'[codes[c].batch] = batches[codes[c].batch]
        BY <2>1, <2>2, <4>1
      <4> QED
        BY <2>2, <4>1, <4>2
    <3> QED
      BY <3>1, <3>2 DEF CodesAreWhole
  <2>7. CodesOnward
    <3>1. \A c \in Codes: codes[c].state # "none" =>
            codes'[c] = codes[c] /\ codes[c].batch \in Batches
      BY <2>1, <2>2 DEF RedeemInv, CodesAreWhole, CodeRow
    <3> QED
      BY <1>1, <3>1 DEF CodesOnward, Redeemable
  <2>8. AttemptsAreSound'
    BY <1>1, <2>7, AttemptsStaySound DEF RedeemInv
  <2>9. CodesAndLedgerAgree'
    <3>1. \A c \in S: RowsOf(<<"redeem_code", c>>) = {}
      BY <2>1 DEF RedeemInv, CodesAndLedgerAgree
    <3>2. \A s: RowsOf(s)' = RowsOf(s)
      BY <1>1 DEF RowsOf
    <3>3. \A c \in Codes \ S: codes[c].state = "used" =>
            Own(c, codes[c].usedBy) /\ codes[c].batch \in Batches \ {b}
      BY <2>1 DEF RedeemInv, CodesAndLedgerAgree, CodesAreWhole, CodeRow
    <3>4. \A c \in Codes \ S: codes[c].state = "used" => Own(c, codes[c].usedBy)'
      BY <1>1, <2>2, <3>2, <3>3 DEF Own
    <3> QED
      BY <2>2, <3>1, <3>2, <3>4 DEF RedeemInv, CodesAndLedgerAgree
  <2>10. BatchesAreWhole'
    <3>1. CodesOf(b)' = S
      BY <1>1, <2>1, <2>2, RedeemNamesAssumption DEF CodesOf, RedeemInv, CodesAreWhole
    <3>2. \A d \in Batches \ {b}: CodesOf(d)' = CodesOf(d)
      BY <1>1, <2>1, <2>2, RedeemNamesAssumption DEF CodesOf
    <3> QED
      BY <1>4, <2>2, <3>1, <3>2 DEF RedeemInv, BatchesAreWhole
  <2> QED
    BY <1>2, <2>5, <2>6, <2>8, <2>9, <2>10 DEF RedeemInv
<1> QED
  BY <1>0, <1>3, <1>4 DEF CreateOrReplayBatch

LEMMA VoidKeeps ==
  ASSUME RedeemInv, NEW S \in SUBSET Codes, VoidCodes(S)
  PROVE  RedeemInv'
<1>1. /\ codes \in [Codes -> CodeRow] /\ RedeemTypeOK
      /\ UNCHANGED <<wallets, holds, ledger, batches, expired, admin, lock,
                     failures, lapses, attempt, faults>>
      /\ \A c \in S: codes[c].state \in {"unused", "voided"}
  BY DEF RedeemInv, RedeemTypeOK, VoidCodes, Voids
<1>2. /\ codes' \in [Codes -> CodeRow]
      /\ \A c \in S: /\ codes'[c].state = "voided" /\ codes'[c].batch = codes[c].batch
                     /\ codes'[c].usedBy = codes[c].usedBy
      /\ \A c \in Codes \ S: codes'[c] = codes[c]
  BY <1>1 DEF VoidCodes, CodeRow
<1>3. WalletTypeOK'
  BY <1>1, WalletNextTyped DEF RedeemTypeOK, walletVars
<1>4. RedeemTypeOK'
  BY <1>1, <1>2, <1>3 DEF RedeemTypeOK
<1>5. AdminsAreWhole'
  BY <1>1 DEF RedeemInv, AdminsAreWhole
<1>6. CodesAreWhole'
  BY <1>1, <1>2 DEF RedeemInv, CodesAreWhole
<1>7. AttemptsAreSound'
  <2>1. CodesOnward
    BY <1>1, <1>2 DEF CodesOnward, Redeemable
  <2> QED
    BY <1>1, <2>1, AttemptsStaySound DEF RedeemInv
<1>8. CodesAndLedgerAgree'
  <2>1. \A s: RowsOf(s)' = RowsOf(s)
    BY <1>1 DEF RowsOf
  <2>2. \A c \in S: RowsOf(<<"redeem_code", c>>) = {}
    BY <1>1 DEF RedeemInv, CodesAndLedgerAgree
  <2>3. \A c \in Codes \ S: codes[c].state = "used" => Own(c, codes[c].usedBy)'
    BY <1>1, <1>2, <2>1 DEF RedeemInv, CodesAndLedgerAgree, Own
  <2> QED
    BY <1>2, <2>1, <2>2, <2>3 DEF RedeemInv, CodesAndLedgerAgree
<1>9. BatchesAreWhole'
  <2>1. \A b \in Batches: CodesOf(b)' = CodesOf(b)
    BY <1>1, <1>2 DEF CodesOf
  <2> QED
    BY <1>1, <2>1 DEF RedeemInv, BatchesAreWhole
<1> QED
  BY <1>4, <1>5, <1>6, <1>7, <1>8, <1>9 DEF RedeemInv

-----------------------------------------------------------------------------
(* The redemption.                                                         *)

\* The transaction finds an unused code and no row of it: it writes the first.
LEMMA RedeemKeeps ==
  ASSUME RedeemInv, NEW p \in Attempts, Redeem(p)
  PROVE  RedeemInv'
<1>0. PICK u, c, n, b: /\ u = attempt[p].key[2] /\ c = attempt[p].code
                       /\ b = codes[c].batch /\ n = batches[b].amount
  OBVIOUS
<1>1. /\ attempt[p] \in AttemptRow /\ Sound(attempt[p]) /\ RedeemTypeOK
      /\ attempt[p].pc = "redeem" /\ faults \in Nat
  BY AttemptTyped DEF Redeem, RedeemInv
<1>2. /\ u \in Users /\ c \in Codes /\ codes[c] \in CodeRow
      /\ codes[c].state = "unused" /\ Redeemable(c)
  BY <1>0, <1>1 DEF Redeem, Redeemable, Sound, AttemptRow, Keys, RedeemTypeOK
<1>3. b \in Batches /\ batches[b] \in Fingerprints /\ n \in Amounts
  <2>1. b \in Batches /\ batches[b] # Absent
    BY <1>0, <1>2 DEF RedeemInv, CodesAreWhole, CodeRow
  <2>2. batches[b] \in Fingerprints
    BY <1>1, <2>1 DEF RedeemTypeOK
  <2> QED
    BY <1>0, <2>1, <2>2, FingerprintTyped
<1>4. /\ Credit(u, <<"redeem_code", c>>, n)
      /\ codes' = [codes EXCEPT ![c] = [@ EXCEPT !.state = "used", !.usedBy = u]]
      /\ UNCHANGED <<batches, expired, admin, lock, failures, lapses>>
      /\ faults' \in Nat
      /\ Step(p, "release", "ok") \/ Step(p, "release", "dependency")
  BY <1>0, <1>1 DEF Redeem, CreditRedeemCode, UseCode, Fault
<1>5. <<"redeem_code", c>> \in Source /\ WalletTypeOK
  BY <1>1, <1>2, SourceTyped DEF RedeemTypeOK
<1>6. WalletTypeOK'
  BY <1>2, <1>3, <1>4, <1>5, CreditTyped
<1>7. /\ codes' \in [Codes -> CodeRow]
      /\ codes'[c].state = "used" /\ codes'[c].usedBy = u /\ codes'[c].batch = b
      /\ \A d \in Codes \ {c}: codes'[d] = codes[d]
  BY <1>0, <1>1, <1>2, <1>4 DEF RedeemTypeOK, CodeRow
<1>8. PICK row: /\ attempt' = [attempt EXCEPT ![p] = row] /\ row \in AttemptRow
                /\ row.answer \in {"ok", "dependency"} /\ row.pc = "release"
                /\ row.key = attempt[p].key /\ row.code = c
  <2>1. ASSUME NEW answer \in {"ok", "dependency"}, Step(p, "release", answer)
        PROVE  \E row \in AttemptRow:
                 /\ attempt' = [attempt EXCEPT ![p] = row]
                 /\ row.answer \in {"ok", "dependency"} /\ row.pc = "release"
                 /\ row.key = attempt[p].key /\ row.code = c
    <3>1. PICK row: row = [attempt[p] EXCEPT !.pc = "release", !.answer = answer]
      OBVIOUS
    <3>2. attempt' = [attempt EXCEPT ![p] = row]
      BY <2>1, <3>1 DEF Step
    <3>3. /\ row \in AttemptRow /\ row.answer \in {"ok", "dependency"} /\ row.pc = "release"
          /\ row.key = attempt[p].key /\ row.code = c
      BY <1>0, <1>1, <3>1 DEF AttemptRow
    <3> QED
      BY <3>2, <3>3
  <2> QED
    BY <1>4, <2>1
<1>9. /\ attempt' \in [Attempts -> AttemptRow] /\ attempt'[p] = row
      /\ \A q \in Attempts \ {p}: attempt'[q] = attempt[q]
  BY <1>1, <1>8 DEF RedeemTypeOK
<1>10. RedeemTypeOK'
  BY <1>1, <1>4, <1>6, <1>7, <1>9 DEF RedeemTypeOK
<1>11. AdminsAreWhole'
  BY <1>4 DEF RedeemInv, AdminsAreWhole
<1>12. CodesAreWhole'
  <2>1. u # NoUser /\ codes[c].batch # NoBatch
    BY <1>0, <1>2, <1>3, RedeemNamesAssumption
  <2> QED
    BY <1>0, <1>2, <1>4, <1>7, <2>1 DEF RedeemInv, CodesAreWhole
<1>13. AttemptsAreSound'
  <2>1. CodesOnward
    BY <1>2, <1>4, <1>7 DEF CodesOnward, Redeemable
  <2>2. Sound(attempt[p])'
    <3>1. Sound(row)'
      BY <1>1, <1>7, <1>8 DEF Sound
    <3> QED
      BY <1>9, <3>1
  <2> QED
    BY <1>1, <1>9, <2>1, <2>2, AttemptsStaySound DEF RedeemInv
<1>14. CodesAndLedgerAgree'
  <2>1. /\ RowsOf(<<"redeem_code", c>>)' = {Len(ledger) + 1}
        /\ \A d \in Codes \ {c}: RowsOf(<<"redeem_code", d>>)' = RowsOf(<<"redeem_code", d>>)
        /\ DOMAIN ledger' = DOMAIN ledger \cup {Len(ledger) + 1}
        /\ \A i \in DOMAIN ledger: ledger'[i] = ledger[i]
        /\ ledger'[Len(ledger) + 1].user = u
        /\ ledger'[Len(ledger) + 1].direction = "in"
        /\ ledger'[Len(ledger) + 1].amount = n
        /\ ledger'[Len(ledger) + 1].after = ledger'[Len(ledger) + 1].before
                                             + ledger'[Len(ledger) + 1].amount
    BY <1>2, <1>3, <1>4, <1>5, CreditRows
  <2>2. Own(c, u)'
    BY <1>0, <1>2, <1>4, <1>7, <2>1, RedeemNamesAssumption DEF Own
  <2>3. ASSUME NEW d \in Codes \ {c}, codes[d].state = "used"
        PROVE  Own(d, codes[d].usedBy)'
    <3>1. Own(d, codes[d].usedBy)
      BY <2>3 DEF RedeemInv, CodesAndLedgerAgree
    <3> QED
      BY <1>4, <1>7, <2>1, <2>3, <3>1 DEF Own
  <2> QED
    BY <1>7, <2>1, <2>2, <2>3 DEF RedeemInv, CodesAndLedgerAgree
<1>15. BatchesAreWhole'
  <2>1. \A d \in Batches: CodesOf(d)' = CodesOf(d)
    BY <1>0, <1>7 DEF CodesOf
  <2> QED
    BY <1>4, <2>1 DEF RedeemInv, BatchesAreWhole
<1> QED
  BY <1>10, <1>11, <1>12, <1>13, <1>14, <1>15 DEF RedeemInv

LEMMA RedeemInvHoldsAtFirst == RedeemInit => RedeemInv
<1> SUFFICES ASSUME RedeemInit PROVE RedeemInv
  OBVIOUS
<1>1. WalletTypeOK
  BY WalletInitTyped DEF RedeemInit
<1>2. Fresh \in CodeRow /\ Quiet \in AdminRow /\ Rest \in AttemptRow
  BY DEF Fresh, CodeRow, Quiet, AdminRow, Rest, AttemptRow
<1>3. RedeemTypeOK
  BY <1>1, <1>2 DEF RedeemInit, RedeemTypeOK
<1>4. AdminsAreWhole /\ AttemptsAreSound /\ CodesAreWhole
  BY DEF RedeemInit, AdminsAreWhole, Quiet, AttemptsAreSound, Sound, Rest,
     CodesAreWhole, Fresh
<1>5. CodesAndLedgerAgree
  BY DEF RedeemInit, WalletInit, CodesAndLedgerAgree, Fresh, RowsOf
<1>6. BatchesAreWhole
  <2>1. \A b \in Batches: CodesOf(b) = {} /\ batches[b].quantity = 0
    BY RedeemNamesAssumption DEF RedeemInit, CodesOf, Fresh, Absent
  <2> QED
    BY <2>1, FS_EmptySet DEF BatchesAreWhole
<1> QED
  BY <1>3, <1>4, <1>5, <1>6 DEF RedeemInv

LEMMA RedeemInvInductive == RedeemInv /\ [RedeemNext]_redeemVars => RedeemInv'
BY GenerateKeeps, CreateKeeps, VoidKeeps, AcquireKeeps, LimiterKeeps, RedeemKeeps,
   RedeemNothingKeeps, RedisAndClockKeep DEF RedeemNext

\* However generate and redeem requests are repeated, interleaved or cut off,
\* a used code has one credit, to its user and for its batch's amount; an
\* unused one has none; a batch has the codes it asked for; and no user was
\* refused a code of their own.
THEOREM CodesPayOnce == RedeemSpec => []RedeemedOnce
<1>1. RedeemInv => RedeemedOnce
  <2> SUFFICES ASSUME RedeemInv PROVE RedeemedOnce
    OBVIOUS
  <2>1. ASSUME NEW p \in Attempts, attempt[p].answer = "unavailable",
               attempt[p].code # NoCode
        PROVE  codes[attempt[p].code].usedBy # attempt[p].key[2]
    BY <2>1 DEF RedeemInv, AttemptsAreSound, Sound
  <2>2. ASSUME NEW c \in Codes, codes[c].state = "used"
        PROVE  \E i \in DOMAIN ledger:
                 /\ RowsOf(<<"redeem_code", c>>) = {i}
                 /\ ledger[i].user = codes[c].usedBy
                 /\ ledger[i].amount = batches[codes[c].batch].amount
    BY <2>2 DEF RedeemInv, CodesAndLedgerAgree, Own
  <2> QED
    BY <2>1, <2>2 DEF RedeemedOnce, RedeemInv, BatchesAreWhole, CodesAndLedgerAgree
<1> QED
  BY <1>1, RedeemInvHoldsAtFirst, RedeemInvInductive, PTL DEF RedeemSpec

\* Every row of the redeem tables and of the limiter has its type.
THEOREM RedeemTypeCorrect == RedeemSpec => []RedeemTypeOK
<1>1. RedeemInv => RedeemTypeOK
  BY DEF RedeemInv
<1> QED
  BY <1>1, RedeemInvHoldsAtFirst, RedeemInvInductive, PTL DEF RedeemSpec

\* Redeeming does nothing to a wallet that the wallet's own operations do not
\* do: each step is a credit of a code nobody was credited for, or leaves the
\* wallet alone.
THEOREM RedeemKeepsToTheWallet == RedeemSpec => WalletSpec
<1>1. RedeemInit => WalletInit
  BY DEF RedeemInit
<1>2. RedeemInv /\ [RedeemNext]_redeemVars => [WalletNext]_walletVars
  <2> SUFFICES ASSUME RedeemInv, [RedeemNext]_redeemVars PROVE [WalletNext]_walletVars
    OBVIOUS
  <2>1. ASSUME NEW p \in Attempts, Redeem(p) PROVE WalletNext
    <3>0. PICK u, c, n, b: /\ u = attempt[p].key[2] /\ c = attempt[p].code
                           /\ b = codes[c].batch /\ n = batches[b].amount
      OBVIOUS
    <3>1. /\ attempt[p] \in AttemptRow /\ Sound(attempt[p]) /\ RedeemTypeOK
          /\ attempt[p].pc = "redeem"
      BY <2>1, AttemptTyped DEF Redeem, RedeemInv
    <3>2. u \in Users /\ c \in Codes /\ codes[c] \in CodeRow /\ codes[c].state = "unused"
      BY <2>1, <3>0, <3>1 DEF Redeem, Redeemable, Sound, AttemptRow, Keys, RedeemTypeOK
    <3>3. b \in Batches /\ batches[b] # Absent
      BY <3>0, <3>2 DEF RedeemInv, CodesAreWhole, CodeRow
    <3>4. n \in Amounts
      <4>1. batches[b] \in Fingerprints
        BY <3>1, <3>3 DEF RedeemTypeOK
      <4> QED
        BY <3>0, <4>1, FingerprintTyped
    <3>5. CreditRedeemCode(u, c, n)
      BY <2>1, <3>0 DEF Redeem
    <3> QED
      BY <3>2, <3>4, <3>5 DEF WalletNext
  <2>2. CASE UNCHANGED redeemVars
    BY <2>2 DEF redeemVars, walletVars
  <2> QED
    BY <2>1, <2>2 DEF RedeemNext, walletVars, GenerateBatch, CreateOrReplayBatch,
       VoidCodes, BatchExpires, Acquire, AcquireLost, LockExpires, WindowExpires,
       FailureState, RedeemNothing, RecordFailure, Release, AttemptDies
<1> QED
  BY <1>1, <1>2, RedeemInvHoldsAtFirst, RedeemInvInductive, PTL
     DEF RedeemSpec, WalletSpec

\* So the money of redeemed codes stays solvent and conserved.
THEOREM RedemptionsAreDeposits ==
  RedeemSpec => []WalletSolvent /\ []ReplayValidates /\ ImplementsEscrow
BY RedeemKeepsToTheWallet, WalletAlwaysSolvent, ReplaysAlwaysValidate,
   WalletImplementsEscrow
=============================================================================
