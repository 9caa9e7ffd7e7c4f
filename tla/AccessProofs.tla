---------------------------- MODULE AccessProofs ----------------------------
(***************************************************************************)
(* Getting in and staying in.  A verification code lets one request in,    *)
(* for any number of deliveries and requests; the sessions of a user keep  *)
(* their limit, their credentials and their end, for any number of         *)
(* requests in flight, ids, rotations and limits; no request is decided on *)
(* a snapshot a committed change has overtaken, for any number of users,   *)
(* changes and requests; and a role opens what its grants say, for any     *)
(* tree, any roles and any number of administrators.                       *)
(***************************************************************************)
EXTENDS VerifyCode, Session, Principal, Permissions, FiniteSetTheorems, TLAPS

-----------------------------------------------------------------------------
(* Verification codes.                                                     *)

SendStates == {"idle", "pending", "send", "commit", "rollback", "sent", "failed"}

CodeTypeOK ==
  /\ slot \in [state : {"none", "pending", "delivered"}, owner : Deliveries \cup {Nobody},
               code : Digits \cup {NoDigits}]
  /\ slot.state # "none" => slot.owner \in Deliveries
  /\ lease \in Deliveries \cup {Nobody}
  /\ send \in [Deliveries -> [pc : SendStates, code : Digits \cup {NoDigits}]]
  /\ told \subseteq Deliveries
  /\ gone \in [Deliveries -> {"no", "replaced", "expired", "used"}]
  /\ admitted \in [Deliveries -> {0, 1}]

\* The delivery whose code is in the key has written it, and nobody has used it.
SlotIsFresh ==
  slot.state # "none" =>
    /\ send[slot.owner].pc \notin {"idle", "pending"}
    /\ admitted[slot.owner] = 0 /\ gone[slot.owner] = "no"
    /\ slot.state = "pending" => slot.owner \notin told

\* A delivery that has not written its code has no history.
UnwrittenIsUnknown ==
  \A d \in Deliveries : send[d].pc \in {"idle", "pending"} =>
    admitted[d] = 0 /\ gone[d] = "no" /\ d \notin told

CodeInv == CodeTypeOK /\ SlotIsFresh /\ UnwrittenIsUnknown /\ CodeWorksOnce

-----------------------------------------------------------------------------
\* No delivery has begun at first.
LEMMA CodeInvHoldsAtFirst == CodeInit => CodeInv
  BY DEF CodeInit, CodeInv, CodeTypeOK, SlotIsFresh, UnwrittenIsUnknown, CodeWorksOnce, Unset, SendStates

\* Whatever ends the code in the key ends the one of its owner alone.
LEMMA GoneIsOwners ==
  ASSUME CodeInv, NEW why \in {"replaced", "expired", "used"}, Gone(why)
  PROVE  /\ gone' \in [Deliveries -> {"no", "replaced", "expired", "used"}]
         /\ \A d \in Deliveries : gone'[d] = IF slot.state = "delivered" /\ slot.owner = d THEN why ELSE gone[d]
  BY DEF CodeInv, CodeTypeOK, Gone

\* The step of a delivery before its script writes the key, and of the lease.
LEMMA LeaseStepKeeps ==
  ASSUME CodeInv,
         UNCHANGED <<slot, told, gone, admitted>>,
         lease' \in Deliveries \cup {Nobody},
         send' \in [Deliveries -> [pc : SendStates, code : Digits \cup {NoDigits}]],
         \A d \in Deliveries : send'[d].pc \in {"idle", "pending"} => send[d].pc \in {"idle", "pending"}
  PROVE  CodeInv'
  BY DEF CodeInv, CodeTypeOK, SlotIsFresh, UnwrittenIsUnknown, CodeWorksOnce

\* SetPendingDelivery replaces what was in the key by a code nobody has seen.
LEMMA PendingKeeps == ASSUME CodeInv, NEW d \in Deliveries, SetPendingDelivery(d) PROVE CodeInv'
  <1> USE DEF CodeInv, CodeTypeOK
  <1>0. /\ send[d].pc = "pending" /\ UNCHANGED <<lease, told, admitted>>
        /\ admitted[d] = 0 /\ gone[d] = "no" /\ d \notin told
        /\ (slot.state # "none" => slot.owner # d)
    BY DEF SetPendingDelivery, UnwrittenIsUnknown, SlotIsFresh
  <1>1. /\ send' \in [Deliveries -> [pc : SendStates, code : Digits \cup {NoDigits}]]
        /\ send'[d].pc \in {"send", "rollback"}
        /\ \A e \in Deliveries \ {d} : send'[e] = send[e]
    BY DEF SetPendingDelivery, SendTo, SendStates
  <1>2. CASE UNCHANGED <<slot, gone>>
    BY <1>0, <1>1, <1>2 DEF SlotIsFresh, UnwrittenIsUnknown, CodeWorksOnce
  <1>3. CASE slot' = [state |-> "pending", owner |-> d, code |-> send[d].code] /\ Gone("replaced")
    <2>1. /\ gone' \in [Deliveries -> {"no", "replaced", "expired", "used"}]
          /\ \A e \in Deliveries :
               gone'[e] = IF slot.state = "delivered" /\ slot.owner = e THEN "replaced" ELSE gone[e]
      BY <1>3, GoneIsOwners
    <2>2. /\ slot' \in [state : {"none", "pending", "delivered"}, owner : Deliveries \cup {Nobody},
                        code : Digits \cup {NoDigits}]
          /\ slot'.owner = d /\ slot'.state = "pending"
      BY <1>3
    <2>3. SlotIsFresh'
      BY <1>0, <1>1, <2>1, <2>2 DEF SlotIsFresh
    <2>4. UnwrittenIsUnknown'
      BY <1>0, <1>1, <2>1 DEF UnwrittenIsUnknown, SlotIsFresh
    <2>5. CodeWorksOnce'
      BY <1>0, <2>1, <2>2 DEF CodeWorksOnce, SlotIsFresh
    <2> QED  BY <1>0, <1>1, <2>1, <2>2, <2>3, <2>4, <2>5
  <1> QED  BY <1>2, <1>3 DEF SetPendingDelivery

\* CommitDelivery and RollbackDelivery touch a key only while it holds their
\* own code, which nobody was told of, or no code at all.
LEMMA OutcomeKeeps ==
  ASSUME CodeInv, NEW d \in Deliveries, CommitDelivery(d) \/ RollbackDelivery(d)
  PROVE  CodeInv'
  <1> USE DEF CodeInv, CodeTypeOK
  <1>0. /\ send[d].pc \in {"commit", "rollback"} /\ UNCHANGED <<gone, admitted>>
        /\ send' \in [Deliveries -> [pc : SendStates, code : Digits \cup {NoDigits}]]
        /\ send'[d].pc \notin {"idle", "pending"}
        /\ \A e \in Deliveries \ {d} : send'[e] = send[e]
        /\ lease' \in Deliveries \cup {Nobody}
    BY DEF CommitDelivery, RollbackDelivery, SendTo, SendStates
  <1>1. CASE UNCHANGED <<slot, told>>
    BY <1>0, <1>1 DEF SlotIsFresh, UnwrittenIsUnknown, CodeWorksOnce
  <1>2. CASE slot' = Unset /\ (OwnPending(d) \/ slot.state = "none") /\ UNCHANGED told
    BY <1>0, <1>2 DEF SlotIsFresh, UnwrittenIsUnknown, CodeWorksOnce, Unset, OwnPending
  <1>3. CASE OwnPending(d) /\ slot' = [slot EXCEPT !.state = "delivered"] /\ told' \in {told, told \cup {d}}
    <2>1. /\ slot.owner = d /\ slot'.owner = d /\ slot'.state = "delivered"
          /\ slot' \in [state : {"none", "pending", "delivered"}, owner : Deliveries \cup {Nobody},
                        code : Digits \cup {NoDigits}]
      BY <1>3 DEF OwnPending
    <2> QED
      BY <1>0, <1>3, <2>1 DEF SlotIsFresh, UnwrittenIsUnknown, CodeWorksOnce, OwnPending
  <1> QED  BY <1>1, <1>2, <1>3 DEF CommitDelivery, RollbackDelivery

\* A code that expires or is used leaves the key with its one entry in the
\* history, and one request at most is let in on it.
LEMMA ConsumedKeeps ==
  ASSUME CodeInv, UNCHANGED <<lease, send, told>>, slot.state # "none", slot' = Unset,
         \/ Gone("expired") /\ UNCHANGED admitted
         \/ /\ slot.state = "delivered" /\ Gone("used")
            /\ admitted' = [admitted EXCEPT ![slot.owner] = @ + 1]
  PROVE  CodeInv'
  <1> USE DEF CodeInv, CodeTypeOK
  <1> DEFINE d == slot.owner
  <1>0. /\ d \in Deliveries /\ send[d].pc \notin {"idle", "pending"}
        /\ admitted[d] = 0 /\ gone[d] = "no" /\ (slot.state = "pending" => d \notin told)
    BY DEF SlotIsFresh
  <1>1. CASE Gone("expired") /\ UNCHANGED admitted
    <2>1. /\ gone' \in [Deliveries -> {"no", "replaced", "expired", "used"}]
          /\ \A e \in Deliveries :
               gone'[e] = IF slot.state = "delivered" /\ slot.owner = e THEN "expired" ELSE gone[e]
      BY <1>1, GoneIsOwners
    <2> QED
      BY <1>0, <1>1, <2>1 DEF SlotIsFresh, UnwrittenIsUnknown, CodeWorksOnce, Unset
  <1>2. CASE slot.state = "delivered" /\ Gone("used") /\ admitted' = [admitted EXCEPT ![slot.owner] = @ + 1]
    <2>1. /\ gone' \in [Deliveries -> {"no", "replaced", "expired", "used"}]
          /\ \A e \in Deliveries :
               gone'[e] = IF slot.state = "delivered" /\ slot.owner = e THEN "used" ELSE gone[e]
      BY <1>2, GoneIsOwners
    <2>2. admitted'[d] = 1 /\ admitted' \in [Deliveries -> {0, 1}]
          /\ \A e \in Deliveries \ {d} : admitted'[e] = admitted[e]
      BY <1>0, <1>2
    <2>3. slot'.state = "none" /\ CodeTypeOK'
      BY <2>1, <2>2 DEF Unset
    <2>4. UnwrittenIsUnknown'
      BY <1>0, <2>1, <2>2 DEF UnwrittenIsUnknown
    <2>5. CodeWorksOnce'
      BY <1>0, <1>2, <2>1, <2>2 DEF CodeWorksOnce
    <2> QED
      BY <2>3, <2>4, <2>5 DEF SlotIsFresh
  <1> QED  BY <1>1, <1>2

\* The invariant is inductive.
LEMMA CodeInvInductive == CodeInv /\ [CodeNext]_codeVars => CodeInv'
  <1> SUFFICES ASSUME CodeInv, [CodeNext]_codeVars PROVE CodeInv'
    OBVIOUS
  <1>1. ASSUME NEW d \in Deliveries, NEW c \in Digits, AcquireDelivery(d, c) PROVE CodeInv'
    <2>1. /\ lease' \in Deliveries \cup {Nobody} /\ send[d].pc = "idle"
          /\ send' \in [Deliveries -> [pc : SendStates, code : Digits \cup {NoDigits}]]
          /\ \A e \in Deliveries \ {d} : send'[e] = send[e]
      BY <1>1 DEF AcquireDelivery, SendTo, SendStates, CodeInv, CodeTypeOK
    <2> QED  BY <1>1, <2>1, LeaseStepKeeps DEF AcquireDelivery
  <1>2. ASSUME NEW d \in Deliveries, SetPendingDelivery(d) PROVE CodeInv'
    BY <1>2, PendingKeeps
  <1>3. ASSUME NEW d \in Deliveries, SendVerifyCode(d) PROVE CodeInv'
    <2>1. /\ send' \in [Deliveries -> [pc : SendStates, code : Digits \cup {NoDigits}]]
          /\ send'[d].pc \in {"commit", "rollback"} /\ \A e \in Deliveries \ {d} : send'[e] = send[e]
      BY <1>3 DEF SendVerifyCode, SendTo, SendStates, CodeInv, CodeTypeOK
    <2> QED  BY <1>3, <2>1, LeaseStepKeeps DEF SendVerifyCode, CodeInv, CodeTypeOK
  <1>4. ASSUME NEW d \in Deliveries, CommitDelivery(d) \/ RollbackDelivery(d) PROVE CodeInv'
    BY <1>4, OutcomeKeeps
  <1>5. CASE LeaseExpires
    <2>1. /\ lease \in Deliveries
          /\ send' \in [Deliveries -> [pc : SendStates, code : Digits \cup {NoDigits}]]
          /\ \A e \in Deliveries : send'[e] = send[e] \/ send'[e].pc = "failed"
      BY <1>5 DEF LeaseExpires, SendTo, SendStates, CodeInv, CodeTypeOK
    <2> QED  BY <1>5, <2>1, LeaseStepKeeps DEF LeaseExpires
  <1>6. CASE CodeExpires
    BY <1>6, ConsumedKeeps DEF CodeExpires
  <1>7. ASSUME NEW l \in Logins, Consume(l) PROVE CodeInv'
    <2>1. CASE Good(login[l].code)
      BY <1>7, <2>1, ConsumedKeeps DEF Consume, Good, Taken
    <2>2. CASE ~Good(login[l].code)
      BY <1>7, <2>2 DEF Consume, CodeInv, CodeTypeOK, SlotIsFresh, UnwrittenIsUnknown, CodeWorksOnce
    <2> QED  BY <2>1, <2>2
  <1>8. ASSUME NEW l \in Logins, NEW c \in Digits, LoginByCode(l, c) \/ ForgetPassword(l, c)
        PROVE  CodeInv'
    <2>1. UNCHANGED <<slot, lease, send, told, gone, admitted>>
      BY <1>8 DEF LoginByCode, ForgetPassword
    <2> QED  BY <2>1 DEF CodeInv, CodeTypeOK, SlotIsFresh, UnwrittenIsUnknown, CodeWorksOnce
  <1>9. ASSUME NEW l \in Logins, FindCredential(l) \/ AutoRegister(l) PROVE CodeInv'
    <2>1. UNCHANGED <<slot, lease, send, told, gone, admitted>>
      BY <1>9 DEF FindCredential, AutoRegister
    <2> QED  BY <2>1 DEF CodeInv, CodeTypeOK, SlotIsFresh, UnwrittenIsUnknown, CodeWorksOnce
  <1>10. CASE UNCHANGED codeVars
    BY <1>10 DEF codeVars, CodeInv, CodeTypeOK, SlotIsFresh, UnwrittenIsUnknown, CodeWorksOnce
  <1> QED
    BY <1>1, <1>2, <1>3, <1>4, <1>5, <1>6, <1>7, <1>8, <1>9, <1>10 DEF CodeNext

\* A delivery's code lets one request in and ends as used; who was told "sent"
\* has a code that works until it is used, expires or is replaced (code_store.go,
\* SendCode, loginByCode, ForgetPassword).
THEOREM SentCodeWorksOnce == CodeSpec => []CodeWorksOnce
  <1>1. CodeInv => CodeWorksOnce
    BY DEF CodeInv
  <1> QED
    BY <1>1, CodeInvHoldsAtFirst, CodeInvInductive, PTL DEF CodeSpec

-----------------------------------------------------------------------------
(* The least and the greatest of a set of ids, which Min and Max choose.   *)

LEMMA LeastExists ==
  ASSUME NEW n \in Nat, NEW S \in SUBSET (1..n), S # {}
  PROVE  \E m \in S: \A k \in S: m <= k
<1> DEFINE F == {S \cap (1..k): k \in S}
<1>1. IsFiniteSet(1..n)
  BY FS_Interval
<1>2. IsWellFoundedOn(StrictSubsetOrdering(1..n), SUBSET (1..n))
  BY <1>1, FS_StrictSubsetOrderingWellFounded, FS_FiniteSubsetsOfFinite
<1>3. F \subseteq SUBSET (1..n) /\ F # {}
  OBVIOUS
<1>4. PICK A \in F: \A B \in F: <<B, A>> \notin StrictSubsetOrdering(1..n)
  BY <1>2, <1>3, WFMin
<1>5. PICK m \in S: A = S \cap (1..m)
  BY <1>4
<1>6. ASSUME NEW k \in S, k < m PROVE FALSE
  <2>1. S \cap (1..k) \in F /\ A \in F
    OBVIOUS
  <2>2. S \cap (1..k) \subseteq A /\ m \in A /\ m \notin S \cap (1..k)
    BY <1>5, <1>6
  <2>3. <<S \cap (1..k), A>> \in StrictSubsetOrdering(1..n)
    BY <2>1, <2>2, <1>3 DEF StrictSubsetOrdering
  <2> QED
    BY <1>4, <2>1, <2>3
<1>7. S \subseteq Int
  OBVIOUS
<1> QED
  BY <1>6, <1>7

LEMMA MinIsLeast ==
  ASSUME NEW n \in Nat, NEW S \in SUBSET (1..n), S # {}
  PROVE  Min(S) \in S /\ \A k \in S: Min(S) <= k
BY LeastExists DEF Min

-----------------------------------------------------------------------------
(* Sessions.                                                               *)

ReqRow == [op: {"none", "issue", "auth", "rotate", "revoke"}, pc: Points, id: 0..MaxId,
           gen: Gens, seen: 0..MaxId, todo: SUBSET Ids]

Issued(s) == row[s].state # "none"

\* Ids are handed out one after the other.
IssuedInOrder == \E n \in 0..MaxId: \A s \in Ids: Issued(s) <=> s <= n

\* A platform of single sessions has one live row at most.
OneLive == Single => \A s, t \in Live: s = t

\* A pair is still the one its row stands for, or has been exchanged.
StillGood(s, g) == row[s].gen = g \/ <<s, g>> \in spent

HeldIsGood == \A c \in held: Issued(c[1]) /\ StillGood(c[1], c[2])

SettledIsOver ==
  \A s \in Ids: fate[s] = "settled" => row[s].state = "revoked" /\ cache[s] = Empty

\* What a request may rely on at the call it is at.
ReqSound(q) ==
  /\ q.op # "none" => /\ q.id \in Ids /\ Issued(q.id)
                      /\ \A t \in q.todo: Issued(t)
  /\ q.op = "issue" => q.pc \in {"drop", "point"}
  /\ q.op = "auth" =>
       /\ q.pc \in {"pointer", "latest", "repair"} => Single
       /\ q.pc = "latest" => q.seen # q.id
       /\ q.pc = "repair" => q.seen = q.id \/ row[q.id].state = "revoked"
       /\ q.pc = "evict" /\ q.seen # 0 => row[q.id].state = "revoked"
       /\ q.pc # "fetch" => fate[q.id] # "settled"
  /\ q.op = "rotate" =>
       /\ q.pc \in {"pointer", "latest", "repair"} => Single
       /\ q.pc \in {"pointer", "latest", "repair", "swap"} => q.gen < MaxGen /\ q.todo # {}
  /\ q.op \in {"issue", "rotate"} =>
       /\ q.pc = "drop" => q.todo # {}
       /\ q.pc \in {"drop", "point"} => StillGood(q.id, q.gen)
  /\ q.op = "revoke" => q.id \in q.todo

ReqsSound == \A h \in Requests: ReqSound(req[h])

SessionInv ==
  /\ TypeOK /\ IssuedInOrder /\ SessionLimit /\ OneLive
  /\ HeldIsGood /\ SettledIsOver /\ ReqsSound

LEMMA IdsTyped == Ids = 1..MaxId /\ MaxId \in Nat /\ MaxGen \in Nat /\ Limits \subseteq Nat
BY SessionAssumption DEF Ids

\* What other requests do to the rows leaves a request what it relies on.
LEMMA OthersSound ==
  ASSUME NEW q \in ReqRow, ReqSound(q), UNCHANGED limit, spent \subseteq spent',
         \A s \in Ids: /\ Issued(s) => Issued(s)'
                       /\ row[s].state = "revoked" => row'[s].state = "revoked"
                       /\ Issued(s) => row'[s].gen = row[s].gen \/ <<s, row[s].gen>> \in spent',
         q.op = "auth" /\ q.pc # "fetch" => fate'[q.id] # "settled"
  PROVE  ReqSound(q)'
<1>1. q.op # "none" => q.id \in Ids /\ Issued(q.id) /\ \A t \in q.todo: t \in Ids /\ Issued(t)
  BY DEF ReqSound, ReqRow
<1>2. q.op # "none" => \A g: StillGood(q.id, g) => StillGood(q.id, g)'
  BY <1>1 DEF StillGood
<1> QED
  BY <1>1, <1>2 DEF ReqSound, Single

LEMMA RequestTyped ==
  ASSUME SessionInv, NEW h \in Requests
  PROVE  /\ req[h] \in ReqRow /\ ReqSound(req[h]) /\ limit \in Nat /\ pointer \in 0..MaxId
         /\ cache \in [Ids -> Gens \cup {Empty}]
         /\ row \in [Ids -> [state: {"none", "live", "revoked"}, gen: Gens]]
         /\ fate \in [Ids -> {"no", "dropped", "settled"}]
         /\ req \in [Requests -> ReqRow]
BY IdsTyped DEF SessionInv, TypeOK, ReqRow, ReqsSound

\* A request goes on, and the rows stay as they are.
LEMMA MoveKeeps ==
  ASSUME SessionInv, UNCHANGED <<limit, row, held, spent, fate>>,
         pointer' \in 0..MaxId, cache' \in [Ids -> Gens \cup {Empty}],
         \A s \in Ids: fate[s] = "settled" => cache'[s] = Empty,
         NEW h \in Requests, NEW q \in ReqRow, ReqSound(q),
         req' = [req EXCEPT ![h] = q]
  PROVE  SessionInv'
<1>1. /\ req' \in [Requests -> ReqRow] /\ req'[h] = q
      /\ \A k \in Requests \ {h}: req'[k] = req[k]
  BY RequestTyped
<1>2. TypeOK'
  BY <1>1 DEF SessionInv, TypeOK, ReqRow
<1>3. IssuedInOrder' /\ SessionLimit' /\ OneLive' /\ HeldIsGood'
  BY DEF SessionInv, IssuedInOrder, SessionLimit, OneLive, HeldIsGood, Issued, Live,
     Single, StillGood
<1>4. SettledIsOver'
  BY DEF SessionInv, SettledIsOver
<1>5. \A k: ReqSound(k)' <=> ReqSound(k)
  BY DEF ReqSound, Issued, Single, StillGood
<1>6. ReqsSound'
  <2> SUFFICES ASSUME NEW k \in Requests PROVE ReqSound(req[k])'
    BY DEF ReqsSound
  <2>1. PICK c: c = req'[k]
    OBVIOUS
  <2>2. ReqSound(c)
    BY <1>1, <2>1 DEF SessionInv, ReqsSound
  <2>3. ReqSound(c)'
    BY <1>5, <2>2
  <2> QED
    BY <2>1, <2>3
<1> QED
  BY <1>2, <1>3, <1>4, <1>6 DEF SessionInv

LEMMA IdleIsSound == Idle \in ReqRow /\ ReqSound(Idle)
BY IdsTyped DEF Idle, ReqRow, ReqSound, Points, Gens

\* Goto and Finish.
LEMMA GotoSound ==
  ASSUME SessionInv, NEW h \in Requests, NEW pc \in Points, Goto(h, pc)
  PROVE  \E q \in ReqRow: /\ q = [req[h] EXCEPT !.pc = pc]
                          /\ req' = [req EXCEPT ![h] = q]
                          /\ q.op = req[h].op /\ q.id = req[h].id /\ q.gen = req[h].gen
                          /\ q.seen = req[h].seen /\ q.todo = req[h].todo /\ q.pc = pc
<1>1. PICK q: q = [req[h] EXCEPT !.pc = pc]
  OBVIOUS
<1>2. q \in ReqRow
  BY <1>1, RequestTyped DEF ReqRow
<1> QED
  BY <1>1, <1>2, RequestTyped DEF Goto, ReqRow

\* The end of a request, whatever becomes of pointer and copies.
LEMMA FinishKeeps ==
  ASSUME SessionInv, UNCHANGED <<limit, row, held, spent, fate>>,
         pointer' \in 0..MaxId, cache' \in [Ids -> Gens \cup {Empty}],
         \A s \in Ids: fate[s] = "settled" => cache'[s] = Empty,
         NEW h \in Requests, Finish(h)
  PROVE  SessionInv'
BY IdleIsSound, MoveKeeps DEF Finish

LEMMA CacheTyped ==
  ASSUME SessionInv
  PROVE  /\ cache \in [Ids -> Gens \cup {Empty}] /\ pointer \in 0..MaxId
         /\ \A s \in Ids: fate[s] = "settled" => cache[s] = Empty
BY DEF SessionInv, TypeOK, SettledIsOver

\* A request moves to its next call, and copies and pointer stay as they are.
LEMMA StepKeeps ==
  ASSUME SessionInv, UNCHANGED <<limit, row, cache, held, spent, fate>>,
         pointer' \in 0..MaxId,
         NEW h \in Requests, NEW q \in ReqRow, ReqSound(q), req' = [req EXCEPT ![h] = q]
  PROVE  SessionInv'
BY CacheTyped, MoveKeeps

LEMMA StartKeeps ==
  ASSUME SessionInv, NEW h \in Requests, NEW op \in {"auth", "rotate", "revoke"},
         NEW pc \in Points, NEW s \in Ids, NEW g \in Gens, NEW D \in SUBSET Ids,
         Start(h, op, pc, s, g, D),
         \A q \in ReqRow: /\ q.op = op /\ q.pc = pc /\ q.id = s /\ q.gen = g /\ q.seen = 0
                          /\ q.todo = D
                          => ReqSound(q),
         UNCHANGED <<limit, row, cache, pointer, held, spent, fate>>
  PROVE  SessionInv'
<1>1. PICK q: q = [op |-> op, pc |-> pc, id |-> s, gen |-> g, seen |-> 0, todo |-> D]
  OBVIOUS
<1>2. q \in ReqRow
  BY <1>1, IdsTyped DEF ReqRow
<1>3. ReqSound(q)
  BY <1>1, <1>2
<1>4. req' = [req EXCEPT ![h] = q] /\ pointer' \in 0..MaxId
  BY <1>1, CacheTyped DEF Start
<1> QED
  BY <1>2, <1>3, <1>4, StepKeeps

-----------------------------------------------------------------------------
(* Authenticate.                                                           *)

\* Credentials that reached a client are those of an issued row.
LEMMA HeldTyped ==
  ASSUME SessionInv, NEW s, NEW g, <<s, g>> \in held
  PROVE  s \in Ids /\ g \in Gens /\ Issued(s) /\ StillGood(s, g)
<1>1. <<s, g>>[1] = s /\ <<s, g>>[2] = g
  OBVIOUS
<1> QED
  BY <1>1 DEF SessionInv, TypeOK, HeldIsGood

LEMMA AuthenticateKeeps ==
  ASSUME SessionInv, NEW h \in Requests, NEW s \in Ids, NEW g \in Gens, Authenticate(h, s, g)
  PROVE  SessionInv'
<1>1. Issued(s) /\ (fate[s] = "settled" => cache[s] = Empty)
  BY HeldTyped, CacheTyped DEF Authenticate
<1>2. UNCHANGED <<limit, row, cache, pointer, held, spent, fate>>
  BY DEF Authenticate
<1> DEFINE Pc == CASE cache[s] = Empty -> "fetch"
                   [] cache[s] = g -> "pointer"
                   [] OTHER -> "evict"
           Todo == IF cache[s] = Empty THEN {s} ELSE {}
<1>6. PICK pc, D: pc = Pc /\ D = Todo
  OBVIOUS
<1>7. Start(h, "auth", pc, s, g, D) /\ (cache[s] = g => Single)
  BY <1>6 DEF Authenticate
<1>8. g # Empty
  BY IdsTyped DEF Gens, Empty
<1>3. CASE cache[s] = Empty
  <2>1. pc = "fetch" /\ D = {s}
    BY <1>3, <1>6, <1>8
  <2> QED
    BY <1>1, <1>2, <2>1, <1>7, StartKeeps DEF ReqSound, Points
<1>4. CASE cache[s] = g /\ cache[s] # Empty
  <2>1. pc = "pointer" /\ D = {} /\ Single
    BY <1>4, <1>6, <1>7
  <2> QED
    BY <1>1, <1>2, <1>4, <2>1, <1>7, StartKeeps DEF ReqSound, Points
<1>5. CASE cache[s] # g /\ cache[s] # Empty
  <2>1. pc = "evict" /\ D = {}
    BY <1>5, <1>6
  <2> QED
    BY <1>1, <1>2, <1>5, <2>1, <1>7, StartKeeps DEF ReqSound, Points
<1> QED
  BY <1>3, <1>4, <1>5

\* A request that is served has nothing left to rely on.
LEMMA AcceptKeeps ==
  ASSUME SessionInv, UNCHANGED <<limit, row, cache, held, spent, fate>>,
         pointer' \in 0..MaxId, NEW h \in Requests, req[h].op = "auth",
         req[h].pc # "fetch", Accept(h)
  PROVE  SessionInv'
<1>1. CASE req[h].todo = {}
  BY <1>1, IdleIsSound, StepKeeps DEF Accept
<1>2. CASE req[h].todo # {}
  <2>1. PICK q: q = [req[h] EXCEPT !.pc = "fill", !.seen = 0]
    OBVIOUS
  <2>5. req[h] \in ReqRow /\ 0 \in 0..MaxId
    BY RequestTyped, IdsTyped
  <2>2. /\ q \in ReqRow /\ q.op = "auth" /\ q.pc = "fill" /\ q.id = req[h].id
        /\ q.todo = req[h].todo
    BY <2>1, <2>5 DEF ReqRow, Points
  <2>3. ReqSound(q)
    BY <2>2, RequestTyped DEF ReqSound
  <2>4. req' = [req EXCEPT ![h] = q]
    BY <1>2, <2>1 DEF Accept
  <2> QED
    BY <2>2, <2>3, <2>4, StepKeeps
<1> QED
  BY <1>1, <1>2

\* With one live row at most, the latest one is the only one.
LEMMA LatestIsOnly ==
  ASSUME SessionInv, Single
  PROVE  /\ Latest \in 0..MaxId
         /\ Latest # 0 => Latest \in Live
         /\ \A s \in Live: s = Latest
<1>1. Live \subseteq Ids /\ Ids = 1..MaxId
  BY IdsTyped DEF Live
<1>2. CASE Live = {}
  BY <1>2, IdsTyped DEF Latest
<1>3. CASE Live # {}
  <2>1. PICK s \in Live: \A t \in Live: t = s
    BY <1>3 DEF SessionInv, OneLive
  <2>2. Live = {s} /\ s \in Int /\ s >= s
    <3>1. Live = {s}
      BY <2>1
    <3>2. s \in Int
      BY <1>1, <2>1
    <3> QED
      BY <3>1, <3>2
  <2>3. Max(Live) = s
    BY <2>2 DEF Max
  <2> QED
    BY <1>1, <1>3, <2>1, <2>3, IdsTyped DEF Latest
<1> QED
  BY <1>2, <1>3

LEMMA AuthReadsKeep ==
  ASSUME SessionInv, NEW h \in Requests, AuthFetch(h) \/ AuthPointer(h) \/ AuthLatest(h)
  PROVE  SessionInv'
<1>1. /\ UNCHANGED <<limit, row, cache, pointer, held, spent, fate>>
      /\ req[h].op = "auth" /\ pointer' \in 0..MaxId
      /\ \A s \in Ids: fate[s] = "settled" => row[s].state = "revoked"
      /\ req[h] \in ReqRow /\ ReqSound(req[h]) /\ req[h].id \in Ids /\ Issued(req[h].id)
  BY RequestTyped DEF AuthFetch, AuthPointer, AuthLatest, At, SessionInv, SettledIsOver, ReqSound
<1>2. CASE AuthFetch(h)
  <2>1. CASE Finish(h)
    BY <1>1, <2>1, CacheTyped, FinishKeeps
  <2>2. CASE ~Finish(h)
    <3>1. PICK pc \in {"pointer", "fill"}: Goto(h, pc) /\ (pc = "pointer" => Single)
      BY <1>2, <2>2 DEF AuthFetch
    <3>2. row[req[h].id].state = "live"
      BY <1>2, <2>2 DEF AuthFetch
    <3>3. PICK q \in ReqRow: /\ req' = [req EXCEPT ![h] = q]
                             /\ q.op = req[h].op /\ q.id = req[h].id
                             /\ q.todo = req[h].todo /\ q.pc = pc
      BY <3>1, GotoSound DEF Points
    <3>4. ReqSound(q)
      BY <1>1, <3>1, <3>2, <3>3 DEF ReqSound
    <3> QED
      BY <1>1, <3>3, <3>4, StepKeeps
  <2> QED
    BY <2>1, <2>2
<1>3. CASE AuthPointer(h)
  <2>1. CASE pointer = req[h].id
    BY <1>1, <1>3, <2>1, AcceptKeeps DEF AuthPointer, At
  <2>2. CASE pointer # req[h].id
    <3>1. PICK q: q = [req[h] EXCEPT !.pc = "latest", !.seen = pointer]
      OBVIOUS
    <3>2. /\ q \in ReqRow /\ q.op = "auth" /\ q.pc = "latest" /\ q.id = req[h].id
          /\ q.todo = req[h].todo /\ q.seen = pointer
      BY <1>1, <3>1, RequestTyped DEF ReqRow, Points
    <3>3. ReqSound(q)
      BY <1>1, <1>3, <2>2, <3>2 DEF ReqSound, AuthPointer, At
    <3>4. req' = [req EXCEPT ![h] = q]
      BY <1>3, <2>2, <3>1 DEF AuthPointer
    <3> QED
      BY <1>1, <3>2, <3>3, <3>4, StepKeeps
  <2> QED
    BY <2>1, <2>2
<1>4. CASE AuthLatest(h)
  <2>1. CASE Latest = 0
    BY <1>1, <1>4, <2>1, AcceptKeeps DEF AuthLatest, At
  <2>2. CASE Latest # 0
    <3>1. PICK q: q = [req[h] EXCEPT !.seen = Latest,
                         !.pc = IF Latest = req[h].seen THEN "evict" ELSE "repair"]
      OBVIOUS
    <3>2. Single /\ req[h].seen # req[h].id /\ fate[req[h].id] # "settled"
      BY <1>1, <1>4 DEF AuthLatest, At, ReqSound
    <3>3. Latest \in 0..MaxId /\ \A s \in Live: s = Latest
      BY <3>2, LatestIsOnly
    <3>4. /\ q \in ReqRow /\ q.op = "auth" /\ q.id = req[h].id /\ q.todo = req[h].todo
          /\ q.seen = Latest /\ q.pc \in {"evict", "repair"}
          /\ q.pc = "evict" => Latest = req[h].seen
      BY <1>1, <3>1, <3>3 DEF ReqRow, Points
    <3>5. req[h].id # Latest => row[req[h].id].state = "revoked"
      <4>1. row[req[h].id].state \in {"live", "revoked"}
        BY <1>1, RequestTyped DEF Issued
      <4> QED
        BY <1>1, <3>3, <4>1 DEF Live
    <3>6. ReqSound(q)
      BY <1>1, <3>2, <3>4, <3>5 DEF ReqSound
    <3>7. req' = [req EXCEPT ![h] = q]
      BY <1>4, <2>2, <3>1 DEF AuthLatest
    <3> QED
      BY <1>1, <3>4, <3>6, <3>7, StepKeeps
  <2> QED
    BY <2>1, <2>2
<1> QED
  BY <1>2, <1>3, <1>4

LEMMA AuthWritesKeep ==
  ASSUME SessionInv, NEW h \in Requests, AuthRepair(h) \/ AuthEvict(h) \/ AuthFill(h)
  PROVE  SessionInv'
<1>1. /\ UNCHANGED <<limit, row, held, spent, fate>> /\ req[h].op = "auth"
      /\ req[h] \in ReqRow /\ ReqSound(req[h]) /\ req[h].id \in Ids /\ pointer \in 0..MaxId
      /\ req[h].seen \in 0..MaxId /\ req[h].gen \in Gens
      /\ cache \in [Ids -> Gens \cup {Empty}]
      /\ \A s \in Ids: fate[s] = "settled" => cache[s] = Empty
  BY RequestTyped, CacheTyped DEF AuthRepair, AuthEvict, AuthFill, At, ReqSound, ReqRow
<1>2. CASE AuthRepair(h)
  <2>1. pointer' \in 0..MaxId /\ UNCHANGED cache
    BY <1>1, <1>2 DEF AuthRepair
  <2>2. CASE req[h].seen = req[h].id
    BY <1>1, <1>2, <2>1, <2>2, AcceptKeeps DEF AuthRepair, At
  <2>3. CASE req[h].seen # req[h].id
    <3>1. Goto(h, "evict")
      BY <1>2, <2>3 DEF AuthRepair
    <3>2. PICK q \in ReqRow: /\ req' = [req EXCEPT ![h] = q]
                             /\ q.op = req[h].op /\ q.id = req[h].id
                             /\ q.todo = req[h].todo /\ q.pc = "evict"
      BY <3>1, GotoSound DEF Points
    <3>3. ReqSound(q)
      BY <1>1, <1>2, <2>3, <3>2 DEF ReqSound, AuthRepair, At
    <3> QED
      BY <1>1, <2>1, <3>2, <3>3, StepKeeps
  <2> QED
    BY <2>2, <2>3
<1>3. CASE AuthEvict(h)
  <2>1. /\ cache' \in [Ids -> Gens \cup {Empty}] /\ pointer' \in 0..MaxId
        /\ \A s \in Ids: fate[s] = "settled" => cache'[s] = Empty
    BY <1>1, <1>3 DEF AuthEvict
  <2> QED
    BY <1>1, <1>3, <2>1, FinishKeeps DEF AuthEvict
<1>4. CASE AuthFill(h)
  <2>1. fate[req[h].id] # "settled"
    BY <1>1, <1>4 DEF AuthFill, At, ReqSound
  <2>2. /\ cache' \in [Ids -> Gens \cup {Empty}] /\ pointer' \in 0..MaxId
        /\ \A s \in Ids: fate[s] = "settled" => cache'[s] = Empty
    BY <1>1, <1>4, <2>1 DEF AuthFill
  <2> QED
    BY <1>1, <1>4, <2>2, FinishKeeps DEF AuthFill
<1> QED
  BY <1>2, <1>3, <1>4

-----------------------------------------------------------------------------
(* Rotate.                                                                 *)

LEMMA RotateKeeps ==
  ASSUME SessionInv, NEW h \in Requests, NEW s \in Ids, NEW g \in Gens, Rotate(h, s, g)
  PROVE  SessionInv'
<1>1. Issued(s) /\ g < MaxGen
  BY HeldTyped DEF Rotate
<1>2. UNCHANGED <<limit, row, cache, pointer, held, spent, fate>>
  BY DEF Rotate
<1>3. PICK pc: pc = IF Single THEN "pointer" ELSE "swap"
  OBVIOUS
<1>4. Start(h, "rotate", pc, s, g, {s})
  BY <1>3 DEF Rotate
<1>5. pc \in {"pointer", "swap"} /\ (pc = "pointer" => Single)
  BY <1>3
<1>6. ASSUME NEW q \in ReqRow, q.op = "rotate", q.pc = pc, q.id = s, q.gen = g, q.todo = {s}
      PROVE  ReqSound(q)
  <2>1. q.todo # {} /\ \A t \in q.todo: t = s
    BY <1>6
  <2> QED
    BY <1>1, <1>5, <1>6, <2>1 DEF ReqSound
<1>7. pc \in Points /\ {s} \in SUBSET Ids
  BY <1>5 DEF Points
<1> QED
  BY <1>2, <1>4, <1>6, <1>7, StartKeeps

LEMMA RotateReadsKeep ==
  ASSUME SessionInv, NEW h \in Requests,
         RotatePointer(h) \/ RotateLatest(h) \/ RotateRepair(h)
  PROVE  SessionInv'
<1>1. /\ UNCHANGED <<limit, row, cache, held, spent, fate>>
      /\ req[h].op = "rotate" /\ req[h].pc \in {"pointer", "latest", "repair"}
      /\ req[h] \in ReqRow /\ ReqSound(req[h]) /\ req[h].id \in Ids
      /\ Single /\ req[h].gen < MaxGen /\ req[h].todo # {} /\ req[h].seen \in 0..MaxId
      /\ cache' \in [Ids -> Gens \cup {Empty}]
      /\ \A s \in Ids: fate[s] = "settled" => cache'[s] = Empty
  BY RequestTyped, CacheTyped
     DEF RotatePointer, RotateLatest, RotateRepair, At, ReqSound, ReqRow
<1>2. pointer' \in 0..MaxId
  BY <1>1, CacheTyped DEF RotatePointer, RotateLatest, RotateRepair
<1>3. ASSUME NEW pc \in {"latest", "swap", "repair"},
             NEW q \in ReqRow, req' = [req EXCEPT ![h] = q], q.op = "rotate", q.pc = pc,
             q.id = req[h].id, q.gen = req[h].gen, q.todo = req[h].todo
      PROVE  SessionInv'
  <2>1. ReqSound(q)
    BY <1>1, <1>3 DEF ReqSound
  <2> QED
    BY <1>1, <1>2, <1>3, <2>1, StepKeeps
<1>4. ASSUME NEW pc \in {"latest", "swap"}, Goto(h, pc) PROVE SessionInv'
  <2>1. PICK q \in ReqRow: /\ req' = [req EXCEPT ![h] = q]
                           /\ q.op = req[h].op /\ q.id = req[h].id /\ q.gen = req[h].gen
                           /\ q.todo = req[h].todo /\ q.pc = pc
    BY <1>4, GotoSound DEF Points
  <2> QED
    BY <1>1, <1>3, <2>1
<1>5. Finish(h) => SessionInv'
  BY <1>1, <1>2, FinishKeeps
<1>6. CASE RotatePointer(h)
  <2>1. CASE pointer = 0
    BY <1>4, <1>6, <2>1 DEF RotatePointer
  <2>2. CASE pointer # 0 /\ pointer = req[h].id
    BY <1>4, <1>6, <2>2 DEF RotatePointer
  <2>3. CASE pointer # 0 /\ pointer # req[h].id
    BY <1>5, <1>6, <2>3 DEF RotatePointer
  <2> QED
    BY <2>1, <2>2, <2>3
<1>7. CASE RotateLatest(h)
  <2>1. PICK pc: pc = IF Latest = 0 THEN "swap" ELSE "repair"
    OBVIOUS
  <2>2. PICK q: q = [req[h] EXCEPT !.seen = Latest, !.pc = pc]
    OBVIOUS
  <2>3. req' = [req EXCEPT ![h] = q]
    BY <1>7, <2>1, <2>2 DEF RotateLatest
  <2>4. Latest \in 0..MaxId
    BY <1>1, LatestIsOnly
  <2>5. /\ q \in ReqRow /\ q.op = "rotate" /\ q.pc = pc /\ q.id = req[h].id
        /\ q.gen = req[h].gen /\ q.todo = req[h].todo /\ pc \in {"swap", "repair"}
    BY <1>1, <2>1, <2>2, <2>4 DEF ReqRow, Points
  <2> QED
    BY <1>3, <2>3, <2>5
<1>8. CASE RotateRepair(h)
  BY <1>4, <1>5, <1>8 DEF RotateRepair
<1> QED
  BY <1>6, <1>7, <1>8

\* A step that changes rows, what reached a client, or the history: each part
\* of the invariant that is not about requests is shown by itself.
LEMMA ChangeKeeps ==
  ASSUME SessionInv, UNCHANGED limit, spent \subseteq spent',
         TypeOK', IssuedInOrder', SessionLimit', OneLive', HeldIsGood', SettledIsOver',
         \A s \in Ids: /\ Issued(s) => Issued(s)'
                       /\ row[s].state = "revoked" => row'[s].state = "revoked"
                       /\ Issued(s) => row'[s].gen = row[s].gen \/ <<s, row[s].gen>> \in spent',
         NEW h \in Requests, ReqSound(req[h])',
         \A k \in Requests \ {h}: /\ req'[k] = req[k]
                                  /\ req[k].op = "auth" /\ req[k].pc # "fetch" =>
                                       fate'[req[k].id] # "settled"
  PROVE  SessionInv'
<1>1. ASSUME NEW k \in Requests \ {h} PROVE ReqSound(req[k])'
  <2>1. PICK c: c = req[k]
    OBVIOUS
  <2>2. c \in ReqRow /\ ReqSound(c)
    BY <2>1, RequestTyped
  <2>3. ReqSound(c)'
    BY <1>1, <2>1, <2>2, OthersSound
  <2> QED
    BY <1>1, <2>1, <2>3
<1> QED
  BY <1>1 DEF SessionInv, ReqsSound

\* RotateIfRefreshHash exchanges the pair the row stands for.
LEMMA SwapKeeps ==
  ASSUME SessionInv, NEW h \in Requests, RotateSwap(h)
  PROVE  SessionInv'
<1>0. PICK s, g: s = req[h].id /\ g = req[h].gen
  OBVIOUS
<1>1. /\ UNCHANGED <<limit, cache, pointer, held, fate>>
      /\ req[h] \in ReqRow /\ ReqSound(req[h]) /\ req[h].op = "rotate" /\ req[h].pc = "swap"
      /\ req \in [Requests -> ReqRow]
      /\ row \in [Ids -> [state: {"none", "live", "revoked"}, gen: Gens]]
  BY RequestTyped DEF RotateSwap, At
<1>2. /\ s \in Ids /\ Issued(s) /\ g \in Gens /\ g < MaxGen
      /\ \A t \in req[h].todo: Issued(t)
  BY <1>0, <1>1 DEF ReqSound, ReqRow
<1>3. CASE ~Swappable(s, g)
  <2>1. Finish(h) /\ UNCHANGED <<row, spent>>
    BY <1>0, <1>3 DEF RotateSwap
  <2> QED
    BY <1>1, <2>1, CacheTyped, FinishKeeps
<1>4. CASE Swappable(s, g)
  <2>1. /\ row[s].state = "live" /\ row[s].gen = g
        /\ row' = [row EXCEPT ![s].gen = @ + 1] /\ spent' = spent \cup {<<s, g>>}
        /\ req' = [req EXCEPT ![h].pc = "drop", ![h].gen = row[s].gen + 1]
    BY <1>0, <1>4 DEF RotateSwap, Swappable
  <2>2. g + 1 \in Gens
    BY <1>2, IdsTyped DEF Gens
  <2>3. /\ row' \in [Ids -> [state: {"none", "live", "revoked"}, gen: Gens]]
        /\ row'[s].gen = g + 1 /\ row'[s].state = "live"
        /\ \A t \in Ids: row'[t].state = row[t].state
        /\ \A t \in Ids \ {s}: row'[t] = row[t]
    BY <1>1, <1>2, <2>1, <2>2
  <2>4. PICK q: q = [req[h] EXCEPT !.pc = "drop", !.gen = g + 1]
    OBVIOUS
  <2>5. /\ q \in ReqRow /\ q.op = "rotate" /\ q.pc = "drop" /\ q.id = s /\ q.gen = g + 1
        /\ q.todo = req[h].todo
    BY <1>0, <1>1, <2>2, <2>4 DEF ReqRow, Points
  <2>6. req' = [req EXCEPT ![h] = q]
    BY <2>1, <2>4
  <2>7. /\ req' \in [Requests -> ReqRow] /\ req'[h] = q
        /\ \A k \in Requests \ {h}: req'[k] = req[k]
    BY <1>1, <2>5, <2>6
  <2>8. TypeOK'
    BY <1>1, <1>2, <2>1, <2>3, <2>7 DEF SessionInv, TypeOK, ReqRow
  <2>9. IssuedInOrder'
    BY <2>3 DEF SessionInv, IssuedInOrder, Issued
  <2>10. SessionLimit' /\ OneLive'
    <3>1. Live' = Live
      BY <2>3 DEF Live
    <3> QED
      BY <1>1, <3>1 DEF SessionInv, SessionLimit, OneLive, Single
  <2>11. \A t \in Ids: row'[t].gen = row[t].gen \/ <<t, row[t].gen>> \in spent'
    BY <2>1, <2>3
  <2>12. HeldIsGood'
    <3>1. ASSUME NEW c \in held PROVE Issued(c[1])' /\ StillGood(c[1], c[2])'
      <4>1. c[1] \in Ids /\ Issued(c[1]) /\ StillGood(c[1], c[2])
        BY <3>1 DEF SessionInv, TypeOK, HeldIsGood
      <4> QED
        BY <2>1, <2>3, <2>11, <4>1 DEF Issued, StillGood
    <3> QED
      BY <1>1, <3>1 DEF HeldIsGood
  <2>13. SettledIsOver'
    BY <1>1, <2>3 DEF SessionInv, SettledIsOver
  <2>14. \A t \in Ids: Issued(t) <=> Issued(t)'
    BY <2>3 DEF Issued
  <2>15. ReqSound(q)'
    <3>1. Issued(s)' /\ \A t \in q.todo: Issued(t)'
      BY <1>1, <1>2, <2>5, <2>14 DEF ReqRow
    <3>2. q.todo # {}
      BY <1>1, <2>5 DEF ReqSound
    <3>3. StillGood(s, g + 1)'
      BY <2>3 DEF StillGood
    <3> QED
      BY <1>2, <2>5, <3>1, <3>2, <3>3 DEF ReqSound
  <2>16. ReqSound(req[h])'
    BY <2>7, <2>15
  <2>17. \A k \in Requests: req[k].op = "auth" /\ req[k].pc # "fetch" =>
           fate'[req[k].id] # "settled"
    BY <1>1 DEF SessionInv, ReqsSound, ReqSound
  <2> QED
    BY <1>1, <2>1, <2>3, <2>7, <2>8, <2>9, <2>10, <2>11, <2>12, <2>13, <2>14, <2>16,
       <2>17, ChangeKeeps
<1> QED
  BY <1>3, <1>4

-----------------------------------------------------------------------------
(* Issue, and what follows a change of rows.                               *)

\* A copy is deleted: a revocation is settled only if no authentication of the
\* session is past its reads.
LEMMA DropKeeps ==
  ASSUME SessionInv, NEW s \in Ids, DropCopy(s), UNCHANGED <<limit, row, pointer, held, spent>>,
         NEW h \in Requests, req[h].op # "auth", NEW q \in ReqRow, q.op # "auth", ReqSound(q),
         req' = [req EXCEPT ![h] = q]
  PROVE  SessionInv'
<1>1. /\ req' \in [Requests -> ReqRow] /\ req'[h] = q
      /\ \A k \in Requests \ {h}: req'[k] = req[k]
      /\ cache \in [Ids -> Gens \cup {Empty}]
      /\ fate \in [Ids -> {"no", "dropped", "settled"}]
  BY RequestTyped
<1>2. /\ cache' \in [Ids -> Gens \cup {Empty}] /\ cache'[s] = Empty
      /\ \A t \in Ids \ {s}: cache'[t] = cache[t] /\ fate'[t] = fate[t]
  BY <1>1 DEF DropCopy
<1>3. /\ fate' \in [Ids -> {"no", "dropped", "settled"}]
      /\ fate'[s] = "settled" => \/ fate[s] = "settled"
                                 \/ row[s].state = "revoked" /\ ~MayFill(s)
  BY <1>1 DEF DropCopy
<1>4. TypeOK'
  BY <1>1, <1>2, <1>3 DEF SessionInv, TypeOK, ReqRow
<1>5. IssuedInOrder' /\ SessionLimit' /\ OneLive' /\ HeldIsGood'
  BY DEF SessionInv, IssuedInOrder, SessionLimit, OneLive, HeldIsGood, Issued, Live,
     Single, StillGood
<1>6. SettledIsOver'
  BY <1>2, <1>3 DEF SessionInv, SettledIsOver
<1>7. ReqSound(req[h])'
  <2>1. ReqSound(q)'
    BY DEF ReqSound, Issued, StillGood, Single
  <2> QED
    BY <1>1, <2>1
<1>8. ASSUME NEW k \in Requests \ {h}, req[k].op = "auth", req[k].pc # "fetch"
      PROVE  fate'[req[k].id] # "settled"
  <2>1. req[k].id \in Ids /\ fate[req[k].id] # "settled"
    BY <1>8 DEF SessionInv, ReqsSound, ReqSound
  <2>2. MayFill(req[k].id)
    BY <1>8 DEF MayFill
  <2> QED
    BY <1>2, <1>3, <2>1, <2>2
<1>9. \A t \in Ids: Issued(t) => Issued(t)'
  BY DEF Issued
<1> QED
  BY <1>1, <1>4, <1>5, <1>6, <1>7, <1>8, <1>9, ChangeKeeps

LEMMA DropCachesKeeps ==
  ASSUME SessionInv, NEW h \in Requests, DropCaches(h)
  PROVE  SessionInv'
<1>0. PICK s: s = Min(req[h].todo)
  OBVIOUS
<1>1. /\ req[h] \in ReqRow /\ ReqSound(req[h])
      /\ req[h].op \in {"issue", "rotate"} /\ req[h].pc = "drop"
  BY RequestTyped DEF DropCaches
<1>2. req[h].todo \in SUBSET (1..MaxId) /\ req[h].todo # {}
  BY <1>1, IdsTyped DEF ReqRow, ReqSound
<1>3. s \in req[h].todo /\ s \in Ids
  BY <1>0, <1>2, IdsTyped, MinIsLeast
<1>4. PICK pc: pc = IF req[h].todo = {s} THEN "point" ELSE "drop"
  OBVIOUS
<1>5. PICK q: q = [req[h] EXCEPT !.todo = @ \ {s}, !.pc = pc]
  OBVIOUS
<1>6. /\ q \in ReqRow /\ q.op = req[h].op /\ q.pc = pc /\ q.id = req[h].id
      /\ q.gen = req[h].gen /\ q.todo = req[h].todo \ {s} /\ pc \in {"point", "drop"}
  BY <1>1, <1>4, <1>5 DEF ReqRow, Points
<1>7. ReqSound(q)
  BY <1>1, <1>2, <1>3, <1>4, <1>6 DEF ReqSound
<1>8. req' = [req EXCEPT ![h] = q] /\ DropCopy(s) /\ UNCHANGED <<limit, row, pointer, held, spent>>
  BY <1>0, <1>4, <1>5 DEF DropCaches
<1> QED
  BY <1>1, <1>3, <1>6, <1>7, <1>8, DropKeeps

LEMMA PointAndReturnKeeps ==
  ASSUME SessionInv, NEW h \in Requests, PointAndReturn(h)
  PROVE  SessionInv'
<1>1. /\ UNCHANGED <<limit, row, cache, spent, fate>>
      /\ req[h] \in ReqRow /\ ReqSound(req[h])
      /\ req[h].op \in {"issue", "rotate"} /\ req[h].pc = "point"
      /\ req[h].id \in Ids /\ req[h].gen \in Gens /\ req \in [Requests -> ReqRow]
      /\ Issued(req[h].id) /\ StillGood(req[h].id, req[h].gen)
      /\ held' = held \cup {<<req[h].id, req[h].gen>>}
  BY RequestTyped DEF PointAndReturn, ReqSound, ReqRow
<1>2. pointer' \in 0..MaxId
  BY <1>1, RequestTyped, IdsTyped DEF PointAndReturn, SetIfGreater
<1>3. /\ req' \in [Requests -> ReqRow] /\ req'[h] = Idle
      /\ \A k \in Requests \ {h}: req'[k] = req[k]
  BY <1>1, IdleIsSound DEF PointAndReturn, Finish
<1>4. TypeOK'
  BY <1>1, <1>2, <1>3 DEF SessionInv, TypeOK, ReqRow
<1>5. IssuedInOrder' /\ SessionLimit' /\ OneLive' /\ SettledIsOver'
  BY <1>1 DEF SessionInv, IssuedInOrder, SessionLimit, OneLive, SettledIsOver, Issued,
     Live, Single
<1>6. HeldIsGood'
  <2>1. ASSUME NEW c \in held' PROVE Issued(c[1]) /\ StillGood(c[1], c[2])
    BY <1>1, <2>1 DEF SessionInv, HeldIsGood
  <2> QED
    BY <1>1, <2>1 DEF HeldIsGood, Issued, StillGood
<1>7. ReqSound(req[h])'
  <2>1. ReqSound(Idle)'
    BY DEF ReqSound, Idle
  <2> QED
    BY <1>3, <2>1
<1>8. \A k \in Requests \ {h}: req[k].op = "auth" /\ req[k].pc # "fetch" =>
        fate'[req[k].id] # "settled"
  BY <1>1 DEF SessionInv, ReqsSound, ReqSound
<1>9. \A t \in Ids: Issued(t) => Issued(t)'
  BY <1>1 DEF Issued
<1> QED
  BY <1>1, <1>3, <1>4, <1>5, <1>6, <1>7, <1>8, <1>9, ChangeKeeps

\* The id that Issue takes is the next one, and no row has it.
LEMMA NextId ==
  ASSUME SessionInv, NEW s \in Ids,
         s = 1 + Cardinality({t \in Ids: row[t].state # "none"})
  PROVE  ~Issued(s) /\ \A t \in Ids: Issued(t) <=> t < s
<1>1. PICK n \in 0..MaxId: \A t \in Ids: Issued(t) <=> t <= n
  BY DEF SessionInv, IssuedInOrder
<1>2. {t \in Ids: row[t].state # "none"} = 1..n
  BY <1>1, IdsTyped DEF Issued
<1>3. s = n + 1
  <2>1. n \in Nat /\ 1 \in Int /\ n \in Int
    BY IdsTyped
  <2>2. Cardinality(1..n) = IF 1 > n THEN 0 ELSE n - 1 + 1
    BY ONLY <2>1, FS_Interval
  <2>3. Cardinality(1..n) = n
    BY <2>1, <2>2
  <2>4. s = 1 + Cardinality(1..n)
    BY <1>2
  <2> QED
    BY <2>1, <2>3, <2>4
<1>4. \A t \in Ids: t \in Int
  BY IdsTyped
<1>5. n \in Int
  BY IdsTyped
<1>6. \A t \in Ids: t <= n <=> t < s
  BY <1>3, <1>4, <1>5
<1>7. ~(s < s)
  BY <1>4
<1> QED
  BY <1>1, <1>6, <1>7

\* Issue revokes what it has to: with the new session the platform has no more
\* live sessions than its limit.
LEMMA RevokesEnough ==
  ASSUME SessionInv, limit > 0, NEW s \in Ids, ~Issued(s)
  PROVE  Cardinality((Live \ ToRevoke) \cup {s}) <= limit
<1>1. /\ limit \in Nat /\ IsFiniteSet(Ids) /\ Live \in SUBSET Ids /\ s \notin Live
  <2>1. limit \in Nat
    BY IdsTyped DEF SessionInv, TypeOK
  <2>2. IsFiniteSet(Ids)
    <3>1. 1 \in Int /\ MaxId \in Int /\ Ids = 1..MaxId
      BY IdsTyped
    <3> QED
      BY <3>1, FS_Interval
  <2> QED
    BY <2>1, <2>2 DEF Live, Issued
<1>2. /\ IsFiniteSet(Live) /\ Cardinality(Live) \in Nat /\ Cardinality(Live) <= limit
  BY <1>1, FS_Subset, FS_CardinalityType DEF SessionInv, SessionLimit
<1>3. ASSUME NEW T \in SUBSET Live, Cardinality(T) < limit
      PROVE  Cardinality(T \cup {s}) <= limit
  <2>1. IsFiniteSet(T) /\ s \notin T
    BY <1>1, <1>2, <1>3, FS_Subset
  <2>2. Cardinality(T) \in Nat /\ Cardinality(T \cup {s}) = Cardinality(T) + 1
    BY <2>1, FS_AddElement, FS_CardinalityType
  <2> QED
    BY <1>1, <1>3, <2>2
<1>4. CASE Single
  <2>1. Live \ ToRevoke = {}
    BY <1>4 DEF ToRevoke
  <2> QED
    BY <1>3, <1>1, <2>1, FS_EmptySet
<1>5. CASE ~Single /\ Cardinality(Live) < limit
  <2>1. Live \ ToRevoke \in SUBSET Live
    OBVIOUS
  <2>2. /\ Cardinality(Live \ ToRevoke) <= Cardinality(Live)
        /\ Cardinality(Live \ ToRevoke) \in Nat
    BY <1>2, <2>1, FS_Subset, FS_CardinalityType
  <2> QED
    BY <1>1, <1>2, <1>3, <1>5, <2>1, <2>2
<1>6. CASE ~Single /\ Cardinality(Live) = limit
  <2>1. Live # {} /\ Live \in SUBSET (1..MaxId) /\ MaxId \in Nat
    <3>1. Live # {}
      BY <1>6, FS_EmptySet
    <3> QED
      BY <1>1, <3>1, IdsTyped
  <2>2. PICK m \in Live: \A k \in Live: m <= k
    BY <2>1, LeastExists
  <2>3. {t \in Live: t < m} = {}
    <3>1. \A t \in Live: t \in Int
      BY <2>1
    <3>2. \A t \in Live: ~(t < m)
      BY <2>2, <3>1
    <3> QED
      BY <3>2
  <2>4. Cardinality({t \in Live: t < m}) = 0
    BY <2>3, FS_EmptySet
  <2>5. Cardinality(Live) - limit + 1 = 1
    BY <1>1, <1>2, <1>6
  <2>6. m \in ToRevoke
    BY <1>1, <1>6, <2>2, <2>4, <2>5 DEF ToRevoke
  <2>7. Live \ ToRevoke \in SUBSET (Live \ {m})
    BY <2>6
  <2>8. IsFiniteSet(Live \ {m}) /\ Cardinality(Live \ {m}) = limit - 1
    BY <1>2, <1>6, <2>2, FS_RemoveElement
  <2>9. Cardinality(Live \ ToRevoke) <= limit - 1
    BY <2>7, <2>8, FS_Subset
  <2>10. Cardinality(Live \ ToRevoke) \in Nat
    BY <2>7, <2>8, FS_Subset, FS_CardinalityType
  <2> QED
    BY <1>1, <1>3, <2>9, <2>10
<1> QED
  BY <1>1, <1>2, <1>4, <1>5, <1>6

\* The rows of a login: the new one lives, those it revokes are over.
LEMMA IssueRows ==
  ASSUME SessionInv, NEW s \in Ids, s = 1 + Cardinality({t \in Ids: row[t].state # "none"}),
         row' = [t \in Ids |->
                   IF t = s THEN [state |-> "live", gen |-> 0]
                   ELSE IF t \in ToRevoke THEN [row[t] EXCEPT !.state = "revoked"]
                   ELSE row[t]]
  PROVE  /\ row' \in [Ids -> [state: {"none", "live", "revoked"}, gen: Gens]]
         /\ Live' = (Live \ ToRevoke) \cup {s} /\ Issued(s)' /\ row'[s].gen = 0
         /\ \A t \in Ids \ {s}: /\ row'[t].gen = row[t].gen
                                /\ Issued(t)' <=> Issued(t)
                                /\ row[t].state = "revoked" => row'[t].state = "revoked"
         /\ IssuedInOrder'
<1>1. ToRevoke \subseteq Live /\ ~Issued(s) /\ s \notin Live
  BY NextId DEF ToRevoke, Live, Issued
<1>2. row \in [Ids -> [state: {"none", "live", "revoked"}, gen: Gens]]
  BY DEF SessionInv, TypeOK
<1>3. 0 \in Gens
  BY IdsTyped DEF Gens
<1>4. row'[s] = [state |-> "live", gen |-> 0]
  OBVIOUS
<1>5. ASSUME NEW t \in ToRevoke
      PROVE  row'[t] = [row[t] EXCEPT !.state = "revoked"] /\ t \in Ids /\ t # s
  BY <1>1 DEF Live
<1>6. ASSUME NEW t \in Ids \ {s}, t \notin ToRevoke PROVE row'[t] = row[t]
  BY <1>6
<1>7. \A t \in ToRevoke: /\ row'[t].state = "revoked" /\ row'[t].gen = row[t].gen
                         /\ row[t].state = "live"
                         /\ row'[t] \in [state: {"none", "live", "revoked"}, gen: Gens]
  BY <1>1, <1>2, <1>5 DEF Live
<1>8. row' \in [Ids -> [state: {"none", "live", "revoked"}, gen: Gens]]
  BY <1>2, <1>3
<1>9. ASSUME NEW t \in Ids \ {s}
      PROVE  /\ row'[t].gen = row[t].gen
             /\ Issued(t)' <=> Issued(t)
             /\ row[t].state = "revoked" => row'[t].state = "revoked"
             /\ row'[t].state = "live" <=> row[t].state = "live" /\ t \notin ToRevoke
  BY <1>6, <1>7 DEF Issued
<1>10. Live' = (Live \ ToRevoke) \cup {s}
  BY <1>4, <1>9 DEF Live
<1>11. IssuedInOrder'
  <2>1. s \in 0..MaxId /\ \A t \in Ids: t \in Int /\ (Issued(t) <=> t < s)
    BY NextId, IdsTyped
  <2>2. Issued(s)'
    BY <1>4 DEF Issued
  <2>3. ASSUME NEW t \in Ids PROVE Issued(t)' <=> t <= s
    <3>1. CASE t = s
      BY <2>1, <2>2, <3>1
    <3>2. CASE t # s
      <4>1. Issued(t)' <=> Issued(t)
        BY <1>9, <3>2
      <4>2. t \in Int /\ s \in Int /\ (Issued(t) <=> t < s)
        BY <2>1
      <4>3. t < s <=> t <= s
        BY <3>2, <4>2
      <4> QED
        BY <4>1, <4>2, <4>3
    <3> QED
      BY <3>1, <3>2
  <2> QED
    BY <2>1, <2>3 DEF IssuedInOrder
<1> QED
  BY <1>4, <1>8, <1>9, <1>10, <1>11 DEF Issued

LEMMA IssueKeeps ==
  ASSUME SessionInv, NEW h \in Requests, Issue(h)
  PROVE  SessionInv'
<1>1. PICK s \in Ids:
        /\ s = 1 + Cardinality({t \in Ids: row[t].state # "none"})
        /\ Start(h, "issue", IF ToRevoke = {} THEN "point" ELSE "drop", s, 0, ToRevoke)
        /\ row' = [t \in Ids |->
                     IF t = s THEN [state |-> "live", gen |-> 0]
                     ELSE IF t \in ToRevoke THEN [row[t] EXCEPT !.state = "revoked"]
                     ELSE row[t]]
        /\ UNCHANGED <<limit, cache, pointer, held, spent, fate>>
  BY DEF Issue
<1>2. /\ row' \in [Ids -> [state: {"none", "live", "revoked"}, gen: Gens]]
      /\ Live' = (Live \ ToRevoke) \cup {s} /\ Issued(s)' /\ row'[s].gen = 0
      /\ \A t \in Ids \ {s}: /\ row'[t].gen = row[t].gen
                             /\ Issued(t)' <=> Issued(t)
                             /\ row[t].state = "revoked" => row'[t].state = "revoked"
      /\ IssuedInOrder'
  BY <1>1, IssueRows
<1>3. ~Issued(s) /\ ToRevoke \subseteq Live /\ Live \subseteq Ids
      /\ \A t \in Live: Issued(t)
  BY <1>1, NextId DEF ToRevoke, Live, Issued
<1>4. PICK pc, D: pc = (IF ToRevoke = {} THEN "point" ELSE "drop") /\ D = ToRevoke
  OBVIOUS
<1>5. PICK q: q = [op |-> "issue", pc |-> pc, id |-> s, gen |-> 0, seen |-> 0, todo |-> D]
  OBVIOUS
<1>6. /\ pc \in {"point", "drop"} /\ (pc = "drop" => D # {}) /\ D \subseteq Ids
      /\ \A t \in D: Issued(t)'
  BY <1>2, <1>3, <1>4
<1>7. 0 \in 0..MaxId /\ 0 \in Gens /\ s \in 0..MaxId
  BY IdsTyped DEF Gens
<1>8. q \in ReqRow /\ q.op = "issue" /\ q.pc = pc /\ q.id = s /\ q.gen = 0 /\ q.todo = D
  BY <1>5, <1>6, <1>7 DEF ReqRow, Points
<1>9. /\ req' = [req EXCEPT ![h] = q] /\ req \in [Requests -> ReqRow]
  BY <1>1, <1>4, <1>5, RequestTyped DEF Start
<1>10. /\ req' \in [Requests -> ReqRow] /\ req'[h] = q
       /\ \A k \in Requests \ {h}: req'[k] = req[k]
  BY <1>8, <1>9
<1>11. TypeOK'
  BY <1>1, <1>2, <1>10 DEF SessionInv, TypeOK, ReqRow
<1>12. SessionLimit'
  <2>1. limit \in Nat /\ limit' = limit
    BY <1>1, RequestTyped
  <2>2. CASE limit > 0
    BY <1>2, <1>3, <2>1, <2>2, RevokesEnough DEF SessionLimit
  <2> QED
    BY <2>1, <2>2 DEF SessionLimit
<1>13. OneLive'
  <2>1. Single' <=> Single
    BY <1>1 DEF Single
  <2>2. CASE Single
    <3>1. Live' = {s}
      BY <1>2, <2>2 DEF ToRevoke
    <3> QED
      BY <3>1 DEF OneLive
  <2> QED
    BY <2>1, <2>2 DEF OneLive
<1>14. HeldIsGood'
  <2>1. ASSUME NEW c \in held PROVE Issued(c[1])' /\ StillGood(c[1], c[2])'
    <3>1. c[1] \in Ids /\ Issued(c[1]) /\ StillGood(c[1], c[2])
      BY <2>1 DEF SessionInv, TypeOK, HeldIsGood
    <3> QED
      BY <1>1, <1>2, <1>3, <3>1 DEF StillGood
  <2> QED
    BY <1>1, <2>1 DEF HeldIsGood
<1>15. SettledIsOver'
  <2>1. ASSUME NEW t \in Ids, fate[t] = "settled"
        PROVE  row'[t].state = "revoked" /\ cache[t] = Empty
    <3>1. row[t].state = "revoked" /\ cache[t] = Empty
      BY <2>1 DEF SessionInv, SettledIsOver
    <3>2. t # s
      BY <1>3, <3>1 DEF Issued
    <3> QED
      BY <1>2, <3>1, <3>2
  <2> QED
    BY <1>1, <2>1 DEF SettledIsOver
<1>16. ReqSound(req[h])'
  <2>1. StillGood(s, 0)'
    BY <1>2 DEF StillGood
  <2>2. ReqSound(q)'
    BY <1>2, <1>6, <1>8, <2>1 DEF ReqSound
  <2> QED
    BY <1>10, <2>2
<1>17. \A t \in Ids: /\ Issued(t) => Issued(t)'
                     /\ row[t].state = "revoked" => row'[t].state = "revoked"
                     /\ Issued(t) => row'[t].gen = row[t].gen
  <2>1. row[s].state = "none"
    BY <1>3 DEF Issued
  <2> QED
    BY <1>2, <1>3, <2>1
<1>18. \A k \in Requests: req[k].op = "auth" /\ req[k].pc # "fetch" =>
         fate'[req[k].id] # "settled"
  BY <1>1 DEF SessionInv, ReqsSound, ReqSound
<1>19. UNCHANGED limit /\ spent \subseteq spent'
  BY <1>1
<1> QED
  BY <1>2, <1>10, <1>11, <1>12, <1>13, <1>14, <1>15, <1>16, <1>17, <1>18, <1>19,
     ChangeKeeps

-----------------------------------------------------------------------------
(* Revoke.                                                                 *)

LEMMA LogoutKeeps ==
  ASSUME SessionInv, NEW h \in Requests, NEW s \in Ids, Logout(h, s)
  PROVE  SessionInv'
<1>1. PICK g \in Gens: <<s, g>> \in held
  BY DEF Logout
<1>2. Issued(s)
  BY <1>1, HeldTyped
<1>3. /\ Start(h, "revoke", "mark", s, 0, {s})
      /\ UNCHANGED <<limit, row, cache, pointer, held, spent, fate>>
  BY DEF Logout
<1>4. ASSUME NEW q \in ReqRow, q.op = "revoke", q.pc = "mark", q.id = s, q.todo = {s}
      PROVE  ReqSound(q)
  BY <1>2, <1>4 DEF ReqSound
<1>5. "mark" \in Points /\ {s} \in SUBSET Ids /\ 0 \in Gens
  BY IdsTyped DEF Points, Gens
<1> QED
  BY <1>3, <1>4, <1>5, StartKeeps

LEMMA AdminRevokeKeeps ==
  ASSUME SessionInv, NEW h \in Requests, NEW D \in SUBSET Ids, AdminRevoke(h, D)
  PROVE  SessionInv'
<1>0. PICK s: s = Min(D)
  OBVIOUS
<1>1. D \in SUBSET (1..MaxId) /\ D # {} /\ D \subseteq Live
  BY IdsTyped DEF AdminRevoke
<1>2. s \in D /\ s \in Ids
  BY <1>0, <1>1, IdsTyped, MinIsLeast
<1>3. \A t \in D: Issued(t)
  BY <1>1 DEF Live, Issued
<1>4. /\ Start(h, "revoke", "mark", s, 0, D)
      /\ UNCHANGED <<limit, row, cache, pointer, held, spent, fate>>
  BY <1>0 DEF AdminRevoke
<1>5. ASSUME NEW q \in ReqRow, q.op = "revoke", q.pc = "mark", q.id = s, q.todo = D
      PROVE  ReqSound(q)
  BY <1>2, <1>3, <1>5 DEF ReqSound
<1>6. "mark" \in Points /\ 0 \in Gens
  BY IdsTyped DEF Points, Gens
<1> QED
  BY <1>2, <1>4, <1>5, <1>6, StartKeeps

\* Fewer rows are live, and nothing else about them changes.
LEMMA RevokeMarkKeeps ==
  ASSUME SessionInv, NEW h \in Requests, RevokeMark(h)
  PROVE  SessionInv'
<1>0. PICK D: D = req[h].todo
  OBVIOUS
<1>1. /\ UNCHANGED <<limit, cache, pointer, held, spent, fate>>
      /\ req[h] \in ReqRow /\ ReqSound(req[h]) /\ req[h].op = "revoke" /\ limit \in Nat
      /\ D \subseteq Ids /\ \A t \in D: Issued(t)
      /\ req \in [Requests -> ReqRow]
      /\ row \in [Ids -> [state: {"none", "live", "revoked"}, gen: Gens]]
      /\ row' = [s \in Ids |-> IF s \in D THEN [row[s] EXCEPT !.state = "revoked"] ELSE row[s]]
  BY <1>0, RequestTyped DEF RevokeMark, At, ReqSound, ReqRow
<1>2. PICK q \in ReqRow: /\ req' = [req EXCEPT ![h] = q]
                         /\ q.op = req[h].op /\ q.id = req[h].id /\ q.todo = req[h].todo
                         /\ q.pc = "drop"
  BY GotoSound DEF RevokeMark, Points
<1>3. \A t \in D: /\ row'[t].state = "revoked" /\ row'[t].gen = row[t].gen
                  /\ row'[t] \in [state: {"none", "live", "revoked"}, gen: Gens]
  BY <1>1
<1>4. \A t \in Ids \ D: row'[t] = row[t]
  BY <1>1
<1>5. row' \in [Ids -> [state: {"none", "live", "revoked"}, gen: Gens]]
  BY <1>1
<1>6. \A t \in Ids: /\ Issued(t)' <=> Issued(t)
                    /\ row'[t].gen = row[t].gen
                    /\ row[t].state = "revoked" => row'[t].state = "revoked"
                    /\ row'[t].state = "live" => row[t].state = "live"
  BY <1>1, <1>3, <1>4 DEF Issued
<1>7. Live' \in SUBSET Live
  BY <1>6 DEF Live
<1>8. /\ req' \in [Requests -> ReqRow] /\ req'[h] = q
      /\ \A k \in Requests \ {h}: req'[k] = req[k]
  BY <1>1, <1>2
<1>9. TypeOK'
  BY <1>1, <1>5, <1>8 DEF SessionInv, TypeOK, ReqRow
<1>10. IssuedInOrder'
  BY <1>6 DEF SessionInv, IssuedInOrder
<1>11. SessionLimit'
  <2>1. IsFiniteSet(Live)
    <3>1. IsFiniteSet(Ids)
      <4>1. 1 \in Int /\ MaxId \in Int /\ Ids = 1..MaxId
        BY IdsTyped
      <4> QED
        BY <4>1, FS_Interval
    <3>2. Live \in SUBSET Ids
      BY DEF Live
    <3> QED
      BY <3>1, <3>2, FS_Subset
  <2>2. /\ Cardinality(Live') <= Cardinality(Live)
        /\ Cardinality(Live) \in Nat /\ Cardinality(Live') \in Nat
    BY <1>7, <2>1, FS_Subset, FS_CardinalityType
  <2>3. limit > 0 => Cardinality(Live) <= limit
    BY DEF SessionInv, SessionLimit
  <2>4. limit > 0 => Cardinality(Live') <= limit
    BY <1>1, <2>2, <2>3
  <2> QED
    BY <1>1, <2>4 DEF SessionLimit
<1>12. OneLive'
  BY <1>1, <1>7 DEF SessionInv, OneLive, Single
<1>13. HeldIsGood'
  <2>1. ASSUME NEW c \in held PROVE Issued(c[1])' /\ StillGood(c[1], c[2])'
    <3>1. c[1] \in Ids /\ Issued(c[1]) /\ StillGood(c[1], c[2])
      BY <2>1 DEF SessionInv, TypeOK, HeldIsGood
    <3> QED
      BY <1>1, <1>6, <3>1 DEF StillGood
  <2> QED
    BY <1>1, <2>1 DEF HeldIsGood
<1>14. SettledIsOver'
  BY <1>1, <1>6 DEF SessionInv, SettledIsOver
<1>15. ReqSound(req[h])'
  <2>1. /\ q.op = "revoke" /\ q.id \in Ids /\ q.id \in q.todo /\ Issued(q.id)'
        /\ \A t \in q.todo: Issued(t)'
    BY <1>0, <1>1, <1>2, <1>6 DEF ReqSound
  <2>2. ReqSound(q)'
    BY <2>1 DEF ReqSound
  <2> QED
    BY <1>8, <2>2
<1>16. \A k \in Requests: req[k].op = "auth" /\ req[k].pc # "fetch" =>
         fate'[req[k].id] # "settled"
  BY <1>1 DEF SessionInv, ReqsSound, ReqSound
<1>17. UNCHANGED limit /\ spent \subseteq spent'
  BY <1>1
<1> QED
  BY <1>6, <1>8, <1>9, <1>10, <1>11, <1>12, <1>13, <1>14, <1>15, <1>16, <1>17, ChangeKeeps

LEMMA RevokeDropKeeps ==
  ASSUME SessionInv, NEW h \in Requests, RevokeDrop(h)
  PROVE  SessionInv'
<1>1. /\ req[h] \in ReqRow /\ ReqSound(req[h]) /\ req[h].op = "revoke" /\ req[h].id \in Ids
      /\ DropCopy(req[h].id) /\ UNCHANGED <<limit, row, pointer, held, spent>>
  BY RequestTyped DEF RevokeDrop, At, ReqSound
<1>2. PICK q \in ReqRow: /\ req' = [req EXCEPT ![h] = q]
                         /\ q.op = req[h].op /\ q.id = req[h].id /\ q.todo = req[h].todo
                         /\ q.pc = "match"
  BY GotoSound DEF RevokeDrop, Points
<1>3. ReqSound(q)
  BY <1>1, <1>2 DEF ReqSound
<1> QED
  BY <1>1, <1>2, <1>3, DropKeeps

\* The next session of a batch is one of those that are left.
LEMMA RevokeNextKeeps ==
  ASSUME SessionInv, NEW h \in Requests, req[h].op = "revoke", RevokeNext(h),
         UNCHANGED <<limit, row, cache, held, spent, fate>>, pointer' \in 0..MaxId
  PROVE  SessionInv'
<1>0. PICK left: left = req[h].todo \ {req[h].id}
  OBVIOUS
<1>1. req[h] \in ReqRow /\ ReqSound(req[h]) /\ left \in SUBSET (1..MaxId)
      /\ \A t \in left: Issued(t)
  BY <1>0, RequestTyped, IdsTyped DEF ReqRow, ReqSound
<1>2. CASE left = {}
  BY <1>0, <1>2, IdleIsSound, StepKeeps DEF RevokeNext
<1>3. CASE left # {}
  <2>1. PICK s: s = Min(left)
    OBVIOUS
  <2>2. s \in left /\ s \in Ids /\ s \in 0..MaxId
    <3>1. s \in left
      BY <1>1, <1>3, <2>1, IdsTyped, MinIsLeast
    <3> QED
      BY <1>1, <3>1, IdsTyped
  <2>3. PICK q: q = [req[h] EXCEPT !.todo = left, !.id = s, !.pc = "drop"]
    OBVIOUS
  <2>4. q \in ReqRow /\ q.op = "revoke" /\ q.id = s /\ q.todo = left
    BY <1>1, <2>2, <2>3, IdsTyped DEF ReqRow, Points
  <2>5. ReqSound(q)
    BY <1>1, <2>2, <2>4 DEF ReqSound
  <2>6. req' = [req EXCEPT ![h] = q]
    BY <1>0, <1>3, <2>1, <2>3 DEF RevokeNext
  <2> QED
    BY <2>4, <2>5, <2>6, StepKeeps
<1> QED
  BY <1>2, <1>3

LEMMA RevokePointerKeeps ==
  ASSUME SessionInv, NEW h \in Requests, RevokeMatch(h) \/ RevokeClear(h)
  PROVE  SessionInv'
<1>1. /\ req[h] \in ReqRow /\ ReqSound(req[h]) /\ req[h].op = "revoke"
      /\ UNCHANGED <<limit, row, cache, held, spent, fate>> /\ pointer' \in 0..MaxId
  BY RequestTyped, IdsTyped DEF RevokeMatch, RevokeClear, At
<1>2. CASE Goto(h, "clear")
  <2>1. PICK q \in ReqRow: /\ req' = [req EXCEPT ![h] = q]
                           /\ q.op = req[h].op /\ q.id = req[h].id /\ q.todo = req[h].todo
                           /\ q.pc = "clear"
    BY <1>2, GotoSound DEF Points
  <2>2. ReqSound(q)
    BY <1>1, <2>1 DEF ReqSound
  <2> QED
    BY <1>1, <2>1, <2>2, StepKeeps
<1>3. CASE RevokeNext(h)
  BY <1>1, <1>3, RevokeNextKeeps
<1> QED
  BY <1>2, <1>3 DEF RevokeMatch, RevokeClear

-----------------------------------------------------------------------------
(* The invariant, and what follows from it.                                *)

\* Keys that expire change no request and no row.
LEMMA ExpiryKeeps ==
  ASSUME SessionInv, UNCHANGED <<limit, row, held, req, spent, fate>>,
         pointer' \in 0..MaxId, cache' \in [Ids -> Gens \cup {Empty}],
         \A s \in Ids: fate[s] = "settled" => cache'[s] = Empty
  PROVE  SessionInv'
<1>1. TypeOK'
  BY DEF SessionInv, TypeOK
<1>2. IssuedInOrder' /\ SessionLimit' /\ OneLive' /\ HeldIsGood'
  BY DEF SessionInv, IssuedInOrder, SessionLimit, OneLive, HeldIsGood, Issued, Live,
     Single, StillGood
<1>3. SettledIsOver'
  BY DEF SessionInv, SettledIsOver
<1>4. \A k: ReqSound(k)' <=> ReqSound(k)
  BY DEF ReqSound, Issued, Single, StillGood
<1>5. ReqsSound'
  BY <1>4 DEF SessionInv, ReqsSound
<1> QED
  BY <1>1, <1>2, <1>3, <1>5 DEF SessionInv

LEMMA SessionInvHoldsAtFirst == Init => SessionInv
<1> SUFFICES ASSUME Init PROVE SessionInv
  OBVIOUS
<1>1. /\ 0 \in Gens /\ 0 \in 0..MaxId /\ limit \in Nat
      /\ \A s \in Ids: s \in Int /\ ~(s <= 0)
  BY IdsTyped DEF Gens, Init
<1>2. TypeOK
  BY <1>1, IdleIsSound DEF Init, TypeOK, ReqRow
<1>3. \A s \in Ids: ~Issued(s)
  BY DEF Init, Issued
<1>4. IssuedInOrder
  BY <1>1, <1>3 DEF IssuedInOrder
<1>5. Live = {}
  BY DEF Init, Live
<1>6. SessionLimit /\ OneLive
  BY <1>1, <1>5, FS_EmptySet DEF SessionLimit, OneLive
<1>7. HeldIsGood /\ SettledIsOver
  BY DEF Init, HeldIsGood, SettledIsOver
<1>8. ReqsSound
  <2>1. \A h \in Requests: req[h] = Idle
    BY DEF Init
  <2> QED
    BY <2>1, IdleIsSound DEF ReqsSound
<1> QED
  BY <1>2, <1>4, <1>6, <1>7, <1>8 DEF SessionInv

LEMMA SessionInvInductive == SessionInv /\ [Next]_vars => SessionInv'
<1> SUFFICES ASSUME SessionInv, [Next]_vars PROVE SessionInv'
  OBVIOUS
<1>1. ASSUME NEW h \in Requests, Arrive(h) PROVE SessionInv'
  BY <1>1, IssueKeeps, AuthenticateKeeps, RotateKeeps, LogoutKeeps, AdminRevokeKeeps
     DEF Arrive
<1>2. ASSUME NEW h \in Requests, Continue(h) PROVE SessionInv'
  <2>1. CASE DropCaches(h) \/ PointAndReturn(h)
    BY <2>1, DropCachesKeeps, PointAndReturnKeeps
  <2>2. CASE AuthFetch(h) \/ AuthPointer(h) \/ AuthLatest(h)
    BY <2>2, AuthReadsKeep
  <2>3. CASE AuthRepair(h) \/ AuthEvict(h) \/ AuthFill(h)
    BY <2>3, AuthWritesKeep
  <2>4. CASE RotatePointer(h) \/ RotateLatest(h) \/ RotateRepair(h)
    BY <2>4, RotateReadsKeep
  <2>5. CASE RotateSwap(h)
    BY <2>5, SwapKeeps
  <2>6. CASE RevokeMark(h) \/ RevokeDrop(h)
    BY <2>6, RevokeMarkKeeps, RevokeDropKeeps
  <2>7. CASE RevokeMatch(h) \/ RevokeClear(h)
    BY <2>7, RevokePointerKeeps
  <2> QED
    BY <1>2, <2>1, <2>2, <2>3, <2>4, <2>5, <2>6, <2>7 DEF Continue
<1>3. ASSUME NEW h \in Requests, Crash(h) PROVE SessionInv'
  BY <1>3, CacheTyped, FinishKeeps DEF Crash
<1>4. ASSUME NEW s \in Ids, CopyExpires(s) PROVE SessionInv'
  BY <1>4, CacheTyped, ExpiryKeeps DEF CopyExpires
<1>5. CASE PointerExpires
  <2>1. 0 \in 0..MaxId
    BY IdsTyped
  <2> QED
    BY <1>5, <2>1, CacheTyped, ExpiryKeeps DEF PointerExpires
<1>6. CASE UNCHANGED vars
  BY <1>6, CacheTyped, ExpiryKeeps DEF vars
<1> QED
  BY <1>1, <1>2, <1>3, <1>4, <1>5, <1>6 DEF Next

LEMMA SessionInvHolds == Spec => []SessionInv
BY SessionInvHoldsAtFirst, SessionInvInductive, PTL DEF Spec

\* Rows, copies, the pointer and the requests keep their domains: an id is never
\* beyond those issued, a rotation never beyond its bound (session_service.go).
THEOREM SessionTypeCorrect == Spec => []TypeOK
<1>1. SessionInv => TypeOK
  BY DEF SessionInv
<1> QED
  BY <1>1, SessionInvHolds, PTL

\* However many logins overlap, and however many sessions there were, Issue
\* leaves the platform with no more live sessions than it allows.
THEOREM LimitIsKept == Spec => []SessionLimit
<1>1. SessionInv => SessionLimit
  BY DEF SessionInv
<1> QED
  BY <1>1, SessionInvHolds, PTL

\* RotateIfRefreshHash: a pair that reached a client is the one its row holds,
\* or was itself exchanged for the next.
THEOREM CredentialsAreGood == Spec => []CredentialsStayGood
<1>1. SessionInv => CredentialsStayGood
  <2> SUFFICES ASSUME SessionInv, NEW c \in held
               PROVE  row[c[1]].gen = c[2] \/ c \in spent
    BY DEF CredentialsStayGood
  <2>1. c = <<c[1], c[2]>>
    BY DEF SessionInv, TypeOK
  <2> QED
    BY <2>1 DEF SessionInv, HeldIsGood, StillGood
<1> QED
  BY <1>1, SessionInvHolds, PTL

\* A revocation that no authentication was past is final: no copy returns, and
\* every later authentication reads the revoked row.
THEOREM RevocationSettles == Spec => []SettledRevocation
<1>1. SessionInv => SettledRevocation
  <2> SUFFICES ASSUME SessionInv PROVE SettledRevocation
    OBVIOUS
  <2>1. ASSUME NEW s \in Ids, fate[s] = "settled", NEW h \in Requests,
               req[h].op = "auth", req[h].id = s
        PROVE  req[h].pc = "fetch"
    BY <2>1, RequestTyped DEF ReqSound
  <2> QED
    BY <2>1 DEF SessionInv, SettledIsOver, SettledRevocation
<1> QED
  BY <1>1, SessionInvHolds, PTL

\* enforceSingleSession: with one live row at most, whoever is told of another
\* login has lost its session, whatever the pointer said in between.
THEOREM NobodyIsLockedOut == Spec => []NeverLockedOut
<1>1. SessionInv => NeverLockedOut
  BY RequestTyped DEF NeverLockedOut, At, ReqSound
<1> QED
  BY <1>1, SessionInvHolds, PTL

-----------------------------------------------------------------------------
(* Principals.                                                             *)

\* What the code leaves open: a change slower than its gate's thirty seconds, a
\* start beside serving processes, a commit whose answer is lost, and the
\* move of a user between the two reads of a change of grants.
Calm == \A s \in Scenes : /\ s \cap {"slow", "rolling", "ambiguous"} = {}
                          /\ ~({"assign", "grants"} \subseteq s)

VersionRows == [version : Nat, role : Roles]
VersionMaps == UNION {[U -> VersionRows] : U \in SUBSET Subjects}
GateRows == [gate : {"none", "ready", "invalidating"}, version : Nat, role : Roles \cup {NoRole},
             token : Nat, aged : BOOLEAN]
MutatorRows == [pc : {"idle", "versions", "begin", "mutate", "publish", "abort"},
                change : Changes \cup {[kind |-> "none"]}, subjects : SUBSET Subjects,
                token : Nat, current : VersionMaps, next : VersionMaps]
ReaderRows == [pc : {"idle", "grants", "store"}, user : Subjects \cup {NoSubject}, version : Nat,
               row : [role : Roles \cup {NoRole}, active : BOOLEAN], grants : Nat]
SnapRows == [role : Roles, version : Nat, active : BOOLEAN, grants : Nat]

PrincipalTypeOK ==
  /\ user \in [Subjects -> [role : Roles, active : BOOLEAN]]
  /\ grants \in [Roles -> Nat] /\ version \in [Subjects -> Nat]
  /\ gate \in [Subjects -> GateRows] /\ snaps \in [Subjects -> SUBSET SnapRows]
  /\ mutator \in [Mutators -> MutatorRows] /\ reader \in [Readers -> ReaderRows]
  /\ mutations \in Nat /\ boot \in [pc : {"up", "reconcile"}, versions : VersionMaps]
  /\ scene \in Scenes

Present(u) == [version |-> version[u], role |-> user[u].role]

\* An open gate names the present version and role.
GatesTrue == \A u \in Subjects : gate[u].gate = "ready" => /\ gate[u].version = version[u]
                                                           /\ gate[u].role = user[u].role

\* A snapshot of the present version says what is present.
SnapsTrue ==
  \A u \in Subjects : \A s \in snaps[u] :
    /\ s.version <= version[u]
    /\ s.version = version[u] =>
         s.role = user[u].role /\ s.active = user[u].active /\ s.grants = grants[user[u].role]

\* So does what a request has read, and as long as a user has no gate nothing
\* has changed.
ReadTrue(r) ==
  r.pc # "idle" =>
    /\ r.user \in Subjects /\ r.version <= version[r.user]
    /\ r.version = version[r.user] => /\ r.row = user[r.user]
                                      /\ r.pc = "store" => r.grants = grants[user[r.user].role]
    /\ gate[r.user].gate = "none" => r.version = version[r.user]
    /\ r.row.role \in Roles

ReadersTrue == \A q \in Readers : ReadTrue(reader[q])

\* Every change has a token of its own.
TokensDiffer ==
  /\ \A m \in Mutators : mutator[m].pc # "idle" => mutator[m].token \in 1..mutations
  /\ \A m, n \in Mutators :
       mutator[m].pc # "idle" /\ mutator[n].pc # "idle" /\ mutator[m].token = mutator[n].token => m = n
  /\ \A u \in Subjects : gate[u].token <= mutations

\* A change names everybody it concerns.
SubjectsNamed ==
  \A m \in Mutators : mutator[m].pc # "idle" =>
    /\ mutator[m].change \in Changes /\ mutator[m].change.kind \in scene
    /\ mutator[m].subjects = SubjectsOf(mutator[m].change)

\* A change that has yet to close a gate is blocked if what it read is old; one
\* that has closed it and not committed has the gate at the present version; one
\* that has committed and has the gate still publishes the present version.
Fenced(m, u) ==
  LET me == mutator[m] IN
  /\ me.pc = "begin" => \/ me.current[u] = Present(u)
                        \/ /\ me.current[u].version \in Nat /\ me.current[u].version < version[u]
                           /\ Blocks(gate[u], me.current[u].version)
  /\ me.pc \in {"mutate", "abort"} =>
       /\ gate[u].gate = "invalidating" /\ gate[u].token = me.token /\ ~gate[u].aged
       /\ gate[u].version = version[u] /\ me.current[u] = Present(u)
  /\ me.pc = "publish" => (Holds(m, u) => me.next[u] = Present(u))

ChangesFenced == \A m \in Mutators : \A u \in mutator[m].subjects : Fenced(m, u)

\* A process that starts finds nobody at work.
StartsAlone ==
  boot.pc = "reconcile" => /\ \A m \in Mutators : mutator[m] = AtRest
                           /\ \A u \in Subjects : boot.versions[u] = Present(u)

PrincipalInv ==
  /\ PrincipalTypeOK /\ GatesTrue /\ SnapsTrue /\ ReadersTrue
  /\ TokensDiffer /\ SubjectsNamed /\ ChangesFenced /\ StartsAlone

-----------------------------------------------------------------------------
\* The scene of a run does not let the excluded events happen.
LEMMA SceneIsCalm ==
  ASSUME Calm, scene \in Scenes
  PROVE  /\ "slow" \notin scene /\ "rolling" \notin scene /\ "ambiguous" \notin scene
         /\ ~("assign" \in scene /\ "grants" \in scene)
  BY DEF Calm

\* What stands for nobody has the types of a row.
LEMMA IdleRows ==
  /\ AtRest \in MutatorRows /\ AtRest.pc = "idle" /\ AtRest.subjects = {}
  /\ Unread \in ReaderRows /\ Unread.pc = "idle"
  /\ Open \in GateRows /\ Open.gate = "none" /\ Open.token = 0
  /\ [u \in {} |-> 0] \in VersionMaps
  <1>1. [u \in {} |-> 0] \in VersionMaps
    <2>1. [u \in {} |-> 0] \in [{} -> VersionRows]
      OBVIOUS
    <2> QED  BY <2>1 DEF VersionMaps
  <1>2. AtRest \in MutatorRows /\ AtRest.pc = "idle" /\ AtRest.subjects = {}
    BY <1>1 DEF AtRest, MutatorRows
  <1> QED
    BY <1>1, <1>2 DEF Unread, ReaderRows, Nothing, Open, GateRows

\* Nothing has changed and nobody is at work at first.
LEMMA PrincipalInvHoldsAtFirst == PrincipalInit => PrincipalInv
  <1> SUFFICES ASSUME PrincipalInit PROVE PrincipalInv
    OBVIOUS
  <1>1. PrincipalTypeOK
    BY IdleRows DEF PrincipalInit, PrincipalTypeOK
  <1>2. GatesTrue /\ SnapsTrue /\ ReadersTrue
    BY IdleRows DEF PrincipalInit, GatesTrue, SnapsTrue, ReadersTrue, ReadTrue
  <1>3. TokensDiffer /\ SubjectsNamed /\ ChangesFenced /\ StartsAlone
    BY IdleRows DEF PrincipalInit, TokensDiffer, SubjectsNamed, ChangesFenced, StartsAlone
  <1> QED  BY <1>1, <1>2, <1>3 DEF PrincipalInv

\* What a change or a start reads of MySQL.
LEMMA VersionsRead ==
  ASSUME PrincipalTypeOK, NEW U \in SUBSET Subjects
  PROVE  /\ Versions(U) \in VersionMaps
         /\ \A u \in U : Versions(U)[u] = Present(u)
  <1>1. Versions(U) \in [U -> VersionRows]
    BY DEF PrincipalTypeOK, Versions, VersionRows
  <1> QED  BY <1>1 DEF VersionMaps, Versions, Present

-----------------------------------------------------------------------------
(* Requests.                                                               *)

\* A request that reads.
LEMMA ReaderKeeps ==
  ASSUME PrincipalInv, NEW q \in Readers, NEW r \in ReaderRows, ReadTrue(r),
         reader' = [reader EXCEPT ![q] = r],
         UNCHANGED <<user, grants, version, gate, snaps, mutator, mutations, boot, scene>>
  PROVE  PrincipalInv'
  <1>1. PrincipalTypeOK'
    BY DEF PrincipalInv, PrincipalTypeOK
  <1>2. ReadersTrue'
    BY DEF PrincipalInv, PrincipalTypeOK, ReadersTrue, ReadTrue
  <1>3. GatesTrue' /\ SnapsTrue' /\ TokensDiffer' /\ SubjectsNamed' /\ StartsAlone'
    BY DEF PrincipalInv, GatesTrue, SnapsTrue, TokensDiffer, SubjectsNamed, SubjectsOf, UserIDsByRoleIDs,
           StartsAlone, Present
  <1>4. ChangesFenced'
    BY DEF PrincipalInv, ChangesFenced, Fenced, Holds, Present
  <1> QED  BY <1>1, <1>2, <1>3, <1>4 DEF PrincipalInv

\* A miss reads the version and the row together.
LEMMA AuthorizeKeeps ==
  ASSUME PrincipalInv, NEW q \in Readers, NEW u \in Subjects, Authorize(q, u) PROVE PrincipalInv'
  <1> DEFINE r == [pc |-> "grants", user |-> u, version |-> version[u], row |-> user[u], grants |-> 0]
  <1>1. r \in ReaderRows /\ ReadTrue(r)
    BY DEF PrincipalInv, PrincipalTypeOK, ReaderRows, ReadTrue
  <1>2. reader' = [reader EXCEPT ![q] = r]
    BY DEF Authorize
  <1> HIDE DEF r
  <1> QED  BY <1>1, <1>2, ReaderKeeps DEF Authorize

\* The grants are those of the version that was read unless it has changed.
LEMMA LoadSnapshotKeeps ==
  ASSUME PrincipalInv, NEW q \in Readers, LoadSnapshot(q) PROVE PrincipalInv'
  <1> DEFINE r == [reader[q] EXCEPT !.pc = "store", !.grants = grants[reader[q].row.role]]
  <1>1. reader[q] \in ReaderRows /\ ReadTrue(reader[q]) /\ reader[q].pc = "grants"
    BY DEF PrincipalInv, PrincipalTypeOK, ReadersTrue, LoadSnapshot
  <1>2. grants[reader[q].row.role] \in Nat
    BY <1>1 DEF PrincipalInv, PrincipalTypeOK, ReadTrue
  <1>3. /\ r \in ReaderRows /\ r.pc = "store" /\ r.user = reader[q].user /\ r.version = reader[q].version
        /\ r.row = reader[q].row /\ r.grants = grants[reader[q].row.role]
    BY <1>1, <1>2 DEF ReaderRows
  <1>4. reader' = [reader EXCEPT ![q] = r]
    BY DEF LoadSnapshot
  <1> HIDE DEF r
  <1>5. ReadTrue(r)
    BY <1>1, <1>3 DEF ReadTrue
  <1> QED  BY <1>3, <1>4, <1>5, ReaderKeeps DEF LoadSnapshot

\* A snapshot is stored under an open gate of its own version or under none.
LEMMA StoreKeeps ==
  ASSUME PrincipalInv, NEW q \in Readers, Store(q) PROVE PrincipalInv'
  <1> DEFINE r == reader[q]
             u == r.user
             new == [role |-> r.row.role, version |-> r.version, active |-> r.row.active, grants |-> r.grants]
  <1>1. /\ r \in ReaderRows /\ r.pc = "store" /\ u \in Subjects /\ r.version <= version[u] /\ r.row.role \in Roles
        /\ r.version = version[u] => r.row = user[u] /\ r.grants = grants[user[u].role]
        /\ gate[u].gate = "none" => r.version = version[u]
    BY DEF PrincipalInv, PrincipalTypeOK, ReadersTrue, ReadTrue, Store
  <1>2. reader' = [reader EXCEPT ![q] = Unread] /\ UNCHANGED <<user, grants, version, mutator, mutations, boot, scene>>
    BY DEF Store
  <1>4. CASE ~Storable(gate[u], r.version, r.row.role)
    <2>1. UNCHANGED <<gate, snaps>>
      BY <1>4 DEF Store
    <2> QED
      BY <1>2, <2>1, IdleRows, ReaderKeeps DEF ReadTrue
  <1>5. CASE Storable(gate[u], r.version, r.row.role)
    <2>1. /\ gate' = [gate EXCEPT ![u] = Ready(new)]
          /\ snaps' = [snaps EXCEPT ![u] = {s \in snaps[u] : ~(s.role = r.row.role /\ s.version = r.version)} \cup {new}]
      BY <1>5 DEF Store
    <2>2. /\ new \in SnapRows /\ new.role = r.row.role /\ new.version = r.version
          /\ new.active = r.row.active /\ new.grants = r.grants
      BY <1>1 DEF ReaderRows, SnapRows
    <2>3. /\ Ready(new) \in GateRows /\ Ready(new).gate = "ready" /\ Ready(new).version = r.version
          /\ Ready(new).role = r.row.role /\ Ready(new).token = 0
      BY <1>1, <2>2 DEF ReaderRows, Ready, GateRows
    <2>4. r.version = version[u] /\ r.row = user[u] /\ gate[u].gate # "invalidating"
          /\ (gate[u].gate = "ready" => gate[u].version = r.version)
      BY <1>1, <1>5 DEF Storable, PrincipalInv, GatesTrue
    <2> HIDE DEF new
    <2>5. /\ gate'[u] = Ready(new) /\ \A v \in Subjects \ {u} : gate'[v] = gate[v]
          /\ \A v \in Subjects \ {u} : snaps'[v] = snaps[v]
          /\ \A s \in snaps'[u] : s \in snaps[u] \/ s = new
      BY <1>1, <2>1 DEF PrincipalInv, PrincipalTypeOK
    <2>6. PrincipalTypeOK'
      <3>1. gate' \in [Subjects -> GateRows]
        BY <1>1, <2>1, <2>3 DEF PrincipalInv, PrincipalTypeOK
      <3>2. snaps' \in [Subjects -> SUBSET SnapRows]
        BY <1>1, <2>1, <2>2 DEF PrincipalInv, PrincipalTypeOK
      <3> QED  BY <1>2, <3>1, <3>2, IdleRows DEF PrincipalInv, PrincipalTypeOK
    <2>7. GatesTrue'
      BY <1>1, <1>2, <2>3, <2>4, <2>5 DEF PrincipalInv, GatesTrue
    <2>8. SnapsTrue'
      <3> SUFFICES ASSUME NEW v \in Subjects, NEW s \in snaps'[v]
                   PROVE  /\ s.version <= version[v]
                          /\ s.version = version[v] => s.role = user[v].role /\ s.active = user[v].active
                                                       /\ s.grants = grants[user[v].role]
        BY <1>2 DEF SnapsTrue
      <3>1. CASE s \in snaps[v]
        BY <3>1 DEF PrincipalInv, SnapsTrue
      <3>2. CASE s = new /\ v = u
        BY <1>1, <2>2, <2>4, <3>2
      <3> QED  BY <2>5, <3>1, <3>2
    <2>9. ReadersTrue'
      BY <1>2, <2>3, <2>5, IdleRows DEF PrincipalInv, PrincipalTypeOK, ReadersTrue, ReadTrue
    <2>10. TokensDiffer'
      BY <1>2, <2>3, <2>5 DEF PrincipalInv, PrincipalTypeOK, TokensDiffer
    <2>11. SubjectsNamed' /\ StartsAlone'
      BY <1>2 DEF PrincipalInv, SubjectsNamed, SubjectsOf, UserIDsByRoleIDs, StartsAlone, Present
    <2>12. ChangesFenced'
      <3> SUFFICES ASSUME NEW m \in Mutators, NEW v \in mutator[m].subjects PROVE Fenced(m, v)'
        BY <1>2 DEF ChangesFenced
      <3>1. Fenced(m, v) /\ v \in Subjects
        BY DEF PrincipalInv, PrincipalTypeOK, MutatorRows, ChangesFenced
      <3>2. CASE v # u
        BY <1>2, <2>5, <3>1, <3>2 DEF Fenced, Holds, Present
      <3>3. CASE v = u
        <4>0. gate'[v].gate = "ready" /\ gate'[v].version = version[v]
          BY <2>3, <2>4, <2>5, <3>3
        <4>1. mutator[m].pc = "begin" =>
                \/ mutator[m].current[v] = Present(v)
                \/ /\ mutator[m].current[v].version \in Nat /\ mutator[m].current[v].version < version[v]
                   /\ Blocks(gate'[v], mutator[m].current[v].version)
          BY <3>1, <4>0 DEF Fenced, Blocks
        <4>2. mutator[m].pc \notin {"mutate", "abort"}
          BY <2>4, <3>1, <3>3 DEF Fenced
        <4>3. ~Holds(m, v)'
          BY <4>0 DEF Holds
        <4> QED  BY <1>2, <4>1, <4>2, <4>3 DEF Fenced, Present
      <3> QED  BY <3>2, <3>3
    <2> QED
      BY <2>6, <2>7, <2>8, <2>9, <2>10, <2>11, <2>12 DEF PrincipalInv
  <1> QED  BY <1>4, <1>5

-----------------------------------------------------------------------------
(* Clocks.                                                                 *)

\* Snapshots may go at any time.
LEMMA SnapshotExpiresKeeps ==
  ASSUME PrincipalInv, NEW u \in Subjects, SnapshotExpires(u) PROVE PrincipalInv'
  <1>1. /\ snaps' \in [Subjects -> SUBSET SnapRows]
        /\ \A v \in Subjects : snaps'[v] \subseteq snaps[v]
    BY DEF SnapshotExpires, PrincipalInv, PrincipalTypeOK
  <1>2. UNCHANGED <<user, grants, version, gate, mutator, reader, mutations, boot, scene>>
    BY DEF SnapshotExpires
  <1>3. PrincipalTypeOK' /\ SnapsTrue'
    BY <1>1, <1>2 DEF PrincipalInv, PrincipalTypeOK, SnapsTrue
  <1>4. GatesTrue' /\ ReadersTrue' /\ TokensDiffer' /\ SubjectsNamed' /\ StartsAlone'
    BY <1>2 DEF PrincipalInv, GatesTrue, ReadersTrue, ReadTrue, TokensDiffer, SubjectsNamed, SubjectsOf,
                UserIDsByRoleIDs, StartsAlone, Present
  <1>5. ChangesFenced'
    BY <1>2 DEF PrincipalInv, ChangesFenced, Fenced, Holds, Present
  <1> QED  BY <1>3, <1>4, <1>5 DEF PrincipalInv

\* A gate comes of age only after the change that closed it.
LEMMA GateAgesKeeps ==
  ASSUME Calm, PrincipalInv, NEW u \in Subjects, GateAges(u) PROVE PrincipalInv'
  <1>1. \A m \in Mutators : u \notin mutator[m].subjects
    BY SceneIsCalm DEF GateAges, PrincipalInv, PrincipalTypeOK
  <1>2. UNCHANGED <<user, grants, version, snaps, mutator, reader, mutations, boot, scene>>
    BY DEF GateAges
  <1>3. /\ gate' \in [Subjects -> GateRows]
        /\ \A v \in Subjects : /\ gate'[v].gate = gate[v].gate /\ gate'[v].version = gate[v].version
                               /\ gate'[v].role = gate[v].role /\ gate'[v].token = gate[v].token
                               /\ v # u => gate'[v] = gate[v]
    BY DEF GateAges, PrincipalInv, PrincipalTypeOK, GateRows
  <1>4. PrincipalTypeOK' /\ GatesTrue' /\ SnapsTrue' /\ ReadersTrue'
    BY <1>2, <1>3 DEF PrincipalInv, PrincipalTypeOK, GatesTrue, SnapsTrue, ReadersTrue, ReadTrue
  <1>5. TokensDiffer' /\ SubjectsNamed' /\ StartsAlone'
    BY <1>2, <1>3 DEF PrincipalInv, TokensDiffer, SubjectsNamed, SubjectsOf, UserIDsByRoleIDs, StartsAlone, Present
  <1>6. ChangesFenced'
    <2> SUFFICES ASSUME NEW m \in Mutators, NEW v \in mutator[m].subjects PROVE Fenced(m, v)'
      BY <1>2 DEF ChangesFenced
    <2>1. Fenced(m, v) /\ v # u /\ v \in Subjects
      BY <1>1 DEF PrincipalInv, PrincipalTypeOK, MutatorRows, ChangesFenced
    <2> QED  BY <1>2, <1>3, <2>1 DEF Fenced, Holds, Present
  <1> QED  BY <1>4, <1>5, <1>6 DEF PrincipalInv

-----------------------------------------------------------------------------
(* Changes.                                                                *)

\* A change that moves on without touching Redis or MySQL.
LEMMA MutatorKeeps ==
  ASSUME PrincipalInv, NEW m \in Mutators, NEW me \in MutatorRows,
         mutator' = [mutator EXCEPT ![m] = me], boot.pc # "reconcile",
         mutations' \in Nat, mutations <= mutations',
         UNCHANGED <<user, grants, version, gate, snaps, reader, boot, scene>>,
         me.pc # "idle" =>
           /\ me.token \in 1..mutations'
           /\ \/ me.token = mutator[m].token /\ mutator[m].pc # "idle"
              \/ me.token > mutations
           /\ me.change \in Changes /\ me.change.kind \in scene /\ me.subjects = SubjectsOf(me.change),
         \A u \in me.subjects : Fenced(m, u)'
  PROVE  PrincipalInv'
  <1>0. mutator'[m] = me /\ \A n \in Mutators \ {m} : mutator'[n] = mutator[n]
    BY DEF PrincipalInv, PrincipalTypeOK
  <1>1. PrincipalTypeOK' /\ GatesTrue' /\ SnapsTrue' /\ ReadersTrue' /\ StartsAlone'
    BY DEF PrincipalInv, PrincipalTypeOK, GatesTrue, SnapsTrue, ReadersTrue, ReadTrue, StartsAlone
  <1>2. TokensDiffer'
    <2>1. \A n \in Mutators : mutator'[n].pc # "idle" => mutator'[n].token \in 1..mutations'
      BY <1>0 DEF PrincipalInv, TokensDiffer, PrincipalTypeOK
    <2>2. ASSUME NEW k \in Mutators, NEW n \in Mutators, mutator'[k].pc # "idle", mutator'[n].pc # "idle",
                 mutator'[k].token = mutator'[n].token
          PROVE  k = n
      BY <1>0, <2>2 DEF PrincipalInv, TokensDiffer, PrincipalTypeOK
    <2>3. \A u \in Subjects : gate'[u].token <= mutations'
      BY DEF PrincipalInv, TokensDiffer, PrincipalTypeOK, GateRows
    <2> QED  BY <2>1, <2>2, <2>3 DEF TokensDiffer
  <1>3. SubjectsNamed'
    <2>1. \A change \in Changes : SubjectsOf(change)' = SubjectsOf(change)
      BY DEF SubjectsOf, UserIDsByRoleIDs
    <2>2. ASSUME NEW n \in Mutators, mutator'[n].pc # "idle"
          PROVE  /\ mutator'[n].change \in Changes /\ mutator'[n].change.kind \in scene
                 /\ mutator'[n].subjects = SubjectsOf(mutator'[n].change)
      BY <1>0, <2>2 DEF PrincipalInv, SubjectsNamed
    <2> QED  BY <2>1, <2>2 DEF SubjectsNamed
  <1>4. ChangesFenced'
    <2> SUFFICES ASSUME NEW n \in Mutators, NEW u \in mutator'[n].subjects PROVE Fenced(n, u)'
      BY DEF ChangesFenced
    <2>1. CASE n = m
      BY <1>0, <2>1
    <2>2. CASE n # m
      BY <1>0, <2>2 DEF PrincipalInv, ChangesFenced, Fenced, Holds, Present
    <2> QED  BY <2>1, <2>2
  <1> QED  BY <1>1, <1>2, <1>3, <1>4 DEF PrincipalInv

\* A change begins with a token of its own and its subjects.
LEMMA StartMutationKeeps ==
  ASSUME Calm, PrincipalInv, NEW m \in Mutators, NEW change \in Changes, StartMutation(m, change)
  PROVE  PrincipalInv'
  <1> DEFINE me == [pc |-> IF SubjectsOf(change) = {} THEN "mutate" ELSE "versions",
                    change |-> change, subjects |-> SubjectsOf(change), token |-> mutations + 1,
                    current |-> [u \in {} |-> 0], next |-> [u \in {} |-> 0]]
  <1>1. SubjectsOf(change) \subseteq Subjects
    BY DEF SubjectsOf, UserIDsByRoleIDs, Changes, RoleUpdates, PermissionUpdates, UserUpdates, StatusChanges
  <1>2. mutations \in Nat /\ mutations' = mutations + 1 /\ boot.pc # "reconcile"
        /\ change.kind \in scene /\ mutator' = [mutator EXCEPT ![m] = me]
        /\ UNCHANGED <<user, grants, version, gate, snaps, reader, boot, scene>>
    BY SceneIsCalm DEF StartMutation, SetMutator, Serving, PrincipalInv, PrincipalTypeOK
  <1>3. /\ me \in MutatorRows /\ me.token = mutations + 1 /\ me.change = change /\ me.subjects = SubjectsOf(change)
        /\ me.pc = "versions" \/ me.subjects = {}
    BY <1>1, <1>2, IdleRows DEF MutatorRows
  <1> HIDE DEF me
  <1>4. \A u \in me.subjects : Fenced(m, u)'
    BY <1>2, <1>3 DEF Fenced, PrincipalInv, PrincipalTypeOK
  <1>5. /\ mutations' \in Nat /\ mutations <= mutations' /\ me.token \in 1..mutations' /\ me.token > mutations
        /\ me.change \in Changes /\ me.change.kind \in scene /\ me.subjects = SubjectsOf(me.change)
    BY <1>2, <1>3
  <1> QED  BY <1>2, <1>3, <1>4, <1>5, MutatorKeeps

\* It reads the versions of its subjects.
LEMMA LoadVersionsKeeps ==
  ASSUME PrincipalInv, NEW m \in Mutators, LoadVersions(m)
  PROVE  PrincipalInv'
  <1> DEFINE current == Versions(mutator[m].subjects)
             me == [mutator[m] EXCEPT !.pc = "begin", !.current = current]
  <1>1. /\ mutator[m] \in MutatorRows /\ mutator[m].pc = "versions" /\ mutator' = [mutator EXCEPT ![m] = me]
        /\ boot.pc # "reconcile" /\ mutations \in Nat
        /\ UNCHANGED <<user, grants, version, gate, snaps, reader, mutations, boot, scene>>
    BY IdleRows DEF LoadVersions, SetMutator, PrincipalInv, PrincipalTypeOK, StartsAlone
  <1>2. mutator[m].subjects \in SUBSET Subjects
    BY <1>1 DEF MutatorRows
  <1>3. current \in VersionMaps /\ \A u \in mutator[m].subjects : current[u] = Present(u)
    BY <1>2, VersionsRead DEF PrincipalInv
  <1> HIDE DEF current
  <1>4. /\ me \in MutatorRows /\ me.pc = "begin" /\ me.subjects = mutator[m].subjects
        /\ me.token = mutator[m].token /\ me.change = mutator[m].change /\ me.current = current
    BY <1>1, <1>3 DEF MutatorRows
  <1> HIDE DEF me
  <1>5. \A u \in me.subjects : Fenced(m, u)'
    <2>1. mutator'[m] = me
      BY <1>1 DEF PrincipalInv, PrincipalTypeOK
    <2> QED  BY <1>1, <1>3, <1>4, <2>1 DEF Fenced, Present
  <1>6. /\ mutations' \in Nat /\ mutations <= mutations' /\ me.token \in 1..mutations'
        /\ me.token = mutator[m].token /\ mutator[m].pc # "idle" /\ me.change \in Changes /\ me.change.kind \in scene
        /\ me.subjects = SubjectsOf(me.change)
    BY <1>1, <1>4 DEF PrincipalInv, TokensDiffer, SubjectsNamed
  <1> QED  BY <1>1, <1>4, <1>5, <1>6, MutatorKeeps

\* A transaction that fails leaves the gates to Abort; a process that dies
\* leaves them closed.
LEMMA FailKeeps ==
  ASSUME PrincipalInv, NEW m \in Mutators, Fail(m) \/ MutatorStops(m)
  PROVE  PrincipalInv'
  <1>1. /\ mutator[m] \in MutatorRows /\ mutator[m].pc # "idle" /\ boot.pc # "reconcile"
        /\ mutations' \in Nat /\ mutations <= mutations'
        /\ UNCHANGED <<user, grants, version, gate, snaps, reader, mutations, boot, scene>>
    BY IdleRows DEF Fail, MutatorStops, PrincipalInv, PrincipalTypeOK, StartsAlone
  <1>2. CASE MutatorStops(m)
    <2>1. mutator' = [mutator EXCEPT ![m] = AtRest]
      BY <1>2 DEF MutatorStops, SetMutator
    <2> QED  BY <1>1, <2>1, IdleRows, MutatorKeeps
  <1>3. CASE Fail(m)
    <2> DEFINE me == [mutator[m] EXCEPT !.pc = "abort"]
    <2>1. mutator[m].pc = "mutate" /\ mutator' = [mutator EXCEPT ![m] = me]
      BY <1>3 DEF Fail, SetMutator
    <2>2. /\ me \in MutatorRows /\ me.pc = "abort" /\ me.subjects = mutator[m].subjects
          /\ me.token = mutator[m].token /\ me.change = mutator[m].change /\ me.current = mutator[m].current
      BY <1>1 DEF MutatorRows
    <2> HIDE DEF me
    <2>3. \A u \in me.subjects : Fenced(m, u)'
      <3>1. mutator'[m] = me
        BY <2>1 DEF PrincipalInv, PrincipalTypeOK
      <3>2. \A u \in me.subjects : Fenced(m, u)
        BY <2>2 DEF PrincipalInv, ChangesFenced
      <3> QED  BY <1>1, <2>1, <2>2, <3>1, <3>2 DEF Fenced, Present
    <2>4. /\ me.token \in 1..mutations' /\ me.token = mutator[m].token /\ me.change \in Changes /\ me.change.kind \in scene
          /\ me.subjects = SubjectsOf(me.change)
      BY <1>1, <2>2 DEF PrincipalInv, TokensDiffer, SubjectsNamed
    <2> QED  BY <1>1, <2>1, <2>2, <2>3, <2>4, MutatorKeeps
  <1> QED  BY <1>2, <1>3

\* Whoever closes the gates of its subjects has read the present versions, and
\* nobody else has a gate of theirs that is still needed.
LEMMA ClosingKeeps ==
  ASSUME PrincipalInv, NEW m \in Mutators, mutator[m].pc = "begin",
         ~\E u \in mutator[m].subjects : Blocks(gate[u], mutator[m].current[u].version),
         mutator' \in {[mutator EXCEPT ![m] = AtRest], [mutator EXCEPT ![m] = [mutator[m] EXCEPT !.pc = "mutate"]]},
         gate' = [u \in Subjects |->
           IF u \in mutator[m].subjects
           THEN [gate |-> "invalidating", version |-> mutator[m].current[u].version,
                 role |-> mutator[m].current[u].role, token |-> mutator[m].token, aged |-> FALSE]
           ELSE gate[u]],
         snaps' = [u \in Subjects |-> IF u \in mutator[m].subjects
                                      THEN DropOld(u, mutator[m].current[u]) ELSE snaps[u]],
         UNCHANGED <<user, grants, version, reader, mutations, boot, scene>>
  PROVE  PrincipalInv'
  <1> DEFINE me == mutator[m]
             S == me.subjects
             token == me.token
  <1>1. /\ me \in MutatorRows /\ S \subseteq Subjects /\ token \in 1..mutations /\ mutations \in Nat
        /\ me.change \in Changes /\ me.change.kind \in scene /\ S = SubjectsOf(me.change)
        /\ boot.pc # "reconcile"
    BY IdleRows DEF PrincipalInv, PrincipalTypeOK, MutatorRows, TokensDiffer, SubjectsNamed, StartsAlone
  <1>2. \A u \in S : /\ me.current[u] = Present(u) /\ ~Blocks(gate[u], version[u])
                     /\ me.current[u].version = version[u] /\ me.current[u].role = user[u].role
    BY DEF PrincipalInv, ChangesFenced, Fenced, Present
  <1>3. /\ \A u \in S : /\ gate'[u].gate = "invalidating" /\ gate'[u].version = version[u]
                        /\ gate'[u].token = token /\ ~gate'[u].aged
                        /\ gate'[u].role = user[u].role /\ gate'[u] \in GateRows
        /\ \A u \in Subjects \ S : gate'[u] = gate[u]
        /\ \A u \in Subjects : snaps'[u] \subseteq snaps[u]
    <2>0. token \in Nat /\ \A u \in S : version[u] \in Nat /\ user[u].role \in Roles
      BY <1>1 DEF PrincipalInv, PrincipalTypeOK
    <2>1. ASSUME NEW u \in S
          PROVE  /\ gate'[u].gate = "invalidating" /\ gate'[u].version = version[u]
                 /\ gate'[u].token = token /\ ~gate'[u].aged
                 /\ gate'[u].role = user[u].role /\ gate'[u] \in GateRows
      <3> DEFINE shut == [gate |-> "invalidating", version |-> version[u], role |-> user[u].role,
                          token |-> token, aged |-> FALSE]
      <3>1. gate'[u] = shut
        <4>1. gate'[u] = [gate |-> "invalidating", version |-> me.current[u].version,
                          role |-> me.current[u].role, token |-> token, aged |-> FALSE]
          BY <1>1
        <4>2. me.current[u].version = version[u] /\ me.current[u].role = user[u].role
          BY ONLY <1>2, <2>1
        <4> QED  BY ONLY <4>1, <4>2
      <3>2. /\ shut \in GateRows /\ shut.gate = "invalidating" /\ shut.version = version[u]
            /\ shut.token = token /\ ~shut.aged /\ shut.role = user[u].role
        BY ONLY <2>0, <2>1 DEF GateRows
      <3> HIDE DEF shut
      <3> QED  BY ONLY <3>1, <3>2
    <2>2. \A u \in Subjects \ S : gate'[u] = gate[u]
      BY <1>1
    <2>3. \A u \in Subjects : snaps'[u] = snaps[u] \/ snaps'[u] = DropOld(u, me.current[u])
      BY <1>1
    <2>4. \A u \in Subjects : snaps'[u] \subseteq snaps[u]
      BY <2>3 DEF DropOld
    <2> QED  BY ONLY <2>1, <2>2, <2>4
  <1>4. /\ \A n \in Mutators \ {m} : mutator'[n] = mutator[n]
        /\ \/ mutator'[m] = AtRest
           \/ /\ mutator'[m] \in MutatorRows /\ mutator'[m].pc = "mutate" /\ mutator'[m].subjects = S
              /\ mutator'[m].token = token /\ mutator'[m].change = me.change /\ mutator'[m].current = me.current
    BY <1>1 DEF PrincipalInv, PrincipalTypeOK, MutatorRows
  <1>5. PrincipalTypeOK'
    <2>1. gate' \in [Subjects -> GateRows]
      <3> SUFFICES ASSUME NEW u \in Subjects PROVE gate'[u] \in GateRows
        OBVIOUS
      <3>1. CASE u \in S
        BY <1>3, <3>1
      <3>2. CASE u \notin S
        BY <1>3, <3>2 DEF PrincipalInv, PrincipalTypeOK
      <3> QED  BY <3>1, <3>2
    <2>2. snaps' \in [Subjects -> SUBSET SnapRows]
      BY <1>3 DEF PrincipalInv, PrincipalTypeOK
    <2>3. mutator' \in [Mutators -> MutatorRows]
      <3>1. [me EXCEPT !.pc = "mutate"] \in MutatorRows
        BY <1>1 DEF MutatorRows
      <3> QED  BY <3>1, IdleRows DEF PrincipalInv, PrincipalTypeOK
    <2> QED  BY <2>1, <2>2, <2>3 DEF PrincipalInv, PrincipalTypeOK
  <1> HIDE DEF me, S, token
  <1>6. GatesTrue' /\ SnapsTrue'
    BY <1>1, <1>3 DEF PrincipalInv, GatesTrue, SnapsTrue
  <1>7. ReadersTrue'
    BY <1>3 DEF PrincipalInv, ReadersTrue, ReadTrue
  <1>8. StartsAlone'
    BY <1>1 DEF StartsAlone
  <1>9. TokensDiffer'
    <2>1. \A n \in Mutators : mutator'[n].pc # "idle" =>
            mutator[n].pc # "idle" /\ mutator'[n].token = mutator[n].token
      BY <1>4, IdleRows DEF me, token
    <2>2. \A u \in Subjects : gate'[u].token <= mutations
      BY <1>1, <1>3 DEF PrincipalInv, TokensDiffer
    <2> QED  BY <2>1, <2>2 DEF PrincipalInv, TokensDiffer
  <1>10. SubjectsNamed'
    <2>1. \A change \in Changes : SubjectsOf(change)' = SubjectsOf(change)
      BY DEF SubjectsOf, UserIDsByRoleIDs
    <2>2. ASSUME NEW n \in Mutators, mutator'[n].pc # "idle"
          PROVE  /\ mutator'[n].change \in Changes /\ mutator'[n].change.kind \in scene
                 /\ mutator'[n].subjects = SubjectsOf(mutator'[n].change)
      BY <1>1, <1>4, <2>2, IdleRows DEF PrincipalInv, SubjectsNamed
    <2> QED  BY <2>1, <2>2 DEF SubjectsNamed
  <1>11. ChangesFenced'
    <2> SUFFICES ASSUME NEW n \in Mutators, NEW u \in mutator'[n].subjects PROVE Fenced(n, u)'
      BY DEF ChangesFenced
    <2>1. CASE n = m
      <3>1. u \in S /\ mutator'[m].pc = "mutate" /\ mutator'[m].token = token /\ mutator'[m].current = me.current
        BY <1>4, <2>1, IdleRows
      <3> QED
        BY <1>2, <1>3, <2>1, <3>1 DEF Fenced, Present
    <2>2. CASE n # m /\ u \notin S
      <3>1. u \in mutator[n].subjects /\ u \in Subjects
        BY <1>4, <2>2 DEF PrincipalInv, PrincipalTypeOK, MutatorRows
      <3>2. Fenced(n, u) /\ gate'[u] = gate[u] /\ mutator'[n] = mutator[n]
        BY <1>3, <1>4, <2>2, <3>1 DEF PrincipalInv, ChangesFenced
      <3> QED  BY <3>2 DEF Fenced, Holds, Present
    <2>3. CASE n # m /\ u \in S
      <3>1. Fenced(n, u) /\ mutator'[n] = mutator[n]
        BY <1>4, <2>3 DEF PrincipalInv, ChangesFenced
      <3>2. mutator[n].pc \notin {"mutate", "abort"}
        BY <1>2, <2>3, <3>1 DEF Fenced, Blocks
      <3>3. mutator[n].pc = "publish" => ~Holds(n, u)'
        <4>1. mutator[n].pc = "publish" => mutator[n].token # mutator[m].token
          BY <2>3 DEF PrincipalInv, TokensDiffer
        <4> QED  BY <1>3, <2>3, <3>1, <4>1 DEF Holds, token, me
      <3>4. mutator[n].pc = "begin" =>
              \/ mutator[n].current[u] = Present(u)
              \/ /\ mutator[n].current[u].version \in Nat /\ mutator[n].current[u].version < version[u]
                 /\ Blocks(gate'[u], mutator[n].current[u].version)
        BY <1>3, <2>3, <3>1 DEF Fenced, Blocks
      <3> QED  BY <3>1, <3>2, <3>3, <3>4 DEF Fenced, Present
    <2> QED  BY <2>1, <2>2, <2>3
  <1> QED  BY <1>5, <1>6, <1>7, <1>8, <1>9, <1>10, <1>11 DEF PrincipalInv

\* Begin closes all gates or none, and its answer may be lost.
LEMMA BeginKeeps ==
  ASSUME PrincipalInv, NEW m \in Mutators, Begin(m) \/ BeginLost(m) PROVE PrincipalInv'
  <1>1. CASE BeginLost(m)
    BY <1>1, ClosingKeeps DEF BeginLost, SetMutator
  <1>2. CASE Begin(m) /\ \E u \in mutator[m].subjects : Blocks(gate[u], mutator[m].current[u].version)
    <2>1. /\ mutator' = [mutator EXCEPT ![m] = AtRest] /\ boot.pc # "reconcile" /\ mutations' \in Nat
          /\ mutations <= mutations' /\ UNCHANGED <<user, grants, version, gate, snaps, reader, boot, scene>>
      BY <1>2, IdleRows DEF Begin, SetMutator, PrincipalInv, PrincipalTypeOK, StartsAlone
    <2> QED  BY <2>1, IdleRows, MutatorKeeps
  <1>3. CASE Begin(m) /\ ~\E u \in mutator[m].subjects : Blocks(gate[u], mutator[m].current[u].version)
    BY <1>3, ClosingKeeps DEF Begin, SetMutator
  <1> QED  BY <1>1, <1>2, <1>3

\* What a commit writes concerns its subjects, and raises their versions.
LEMMA CommitWrites ==
  ASSUME Calm, PrincipalInv, NEW m \in Mutators, Commit(m)
  PROVE  /\ user' \in [Subjects -> [role : Roles, active : BOOLEAN]]
         /\ grants' \in [Roles -> Nat] /\ version' \in [Subjects -> Nat]
         /\ \A u \in mutator[m].subjects : version'[u] = version[u] + 1
         /\ \A u \in Subjects \ mutator[m].subjects :
              /\ version'[u] = version[u] /\ user'[u] = user[u]
              /\ grants'[user[u].role] = grants[user[u].role]
         /\ (\A u \in Subjects : user'[u].role = user[u].role) \/ "grants" \notin scene
  <1> DEFINE me == mutator[m]
             S == me.subjects
             change == me.change
  <1>1. /\ me \in MutatorRows /\ S \subseteq Subjects /\ change \in Changes /\ change.kind \in scene
        /\ S = SubjectsOf(change) /\ scene \in Scenes
        /\ user \in [Subjects -> [role : Roles, active : BOOLEAN]]
        /\ grants \in [Roles -> Nat] /\ version \in [Subjects -> Nat]
    BY DEF PrincipalInv, PrincipalTypeOK, MutatorRows, SubjectsNamed, Commit
  <1>2. /\ user' = CASE change.kind = "assign" -> [user EXCEPT ![change.user].role = change.role]
                     [] change.kind = "status" -> [user EXCEPT ![change.user].active = ~@]
                     [] OTHER -> user
        /\ grants' = IF change.kind # "grants" THEN grants
                     ELSE [r \in Roles |-> grants[r] + IF r \in change.roles THEN 1 ELSE 0]
        /\ version' = [u \in Subjects |-> version[u] + IF u \in S THEN 1 ELSE 0]
    BY DEF Commit
  <1>3. /\ version' \in [Subjects -> Nat] /\ \A u \in S : version'[u] = version[u] + 1
        /\ \A u \in Subjects \ S : version'[u] = version[u]
    BY <1>1, <1>2
  <1> HIDE DEF S, change, me
  <1>4. CASE change.kind = "assign"
    <2>1. S = {change.user} /\ change.user \in Subjects /\ change.role \in Roles
      BY <1>1, <1>4 DEF SubjectsOf, Changes, RoleUpdates, PermissionUpdates, UserUpdates, StatusChanges
    <2>2. user' = [user EXCEPT ![change.user].role = change.role] /\ UNCHANGED grants
      BY <1>2, <1>4
    <2>3. "grants" \notin scene
      BY <1>1, <1>4, SceneIsCalm
    <2> QED  BY <1>1, <1>3, <2>1, <2>2, <2>3 DEF S, me
  <1>5. CASE change.kind = "status"
    <2>1. S = {change.user} /\ change.user \in Subjects
      BY <1>1, <1>5 DEF SubjectsOf, Changes, RoleUpdates, PermissionUpdates, UserUpdates, StatusChanges
    <2>2. user' = [user EXCEPT ![change.user].active = ~@] /\ UNCHANGED grants
      BY <1>2, <1>5
    <2> QED  BY <1>1, <1>3, <2>1, <2>2 DEF S, me
  <1>6. CASE change.kind = "grants"
    <2>1. S = {u \in Subjects : user[u].role \in change.roles}
      BY <1>1, <1>6 DEF SubjectsOf, UserIDsByRoleIDs
    <2>2. UNCHANGED user /\ grants' = [r \in Roles |-> grants[r] + IF r \in change.roles THEN 1 ELSE 0]
      BY <1>2, <1>6
    <2>3. grants' \in [Roles -> Nat]
      BY <1>1, <2>2
    <2>4. \A u \in Subjects \ S : grants'[user[u].role] = grants[user[u].role]
      BY <1>1, <2>1, <2>2
    <2> QED  BY <1>1, <1>3, <2>2, <2>3, <2>4 DEF S, me
  <1>7. change.kind \in {"assign", "status", "grants"}
    BY <1>1 DEF Changes, RoleUpdates, PermissionUpdates, UserUpdates, StatusChanges
  <1> QED  BY <1>4, <1>5, <1>6, <1>7

\* A commit finds the gates of its subjects closed by itself.
LEMMA CommitKeeps ==
  ASSUME Calm, PrincipalInv, NEW m \in Mutators, Commit(m) PROVE PrincipalInv'
  <1> DEFINE me == mutator[m]
             S == me.subjects
  <1>1. /\ me \in MutatorRows /\ me.pc = "mutate" /\ S \subseteq Subjects
        /\ UNCHANGED <<gate, snaps, reader, mutations, boot, scene>> /\ boot.pc # "reconcile"
        /\ "ambiguous" \notin scene
    BY IdleRows, SceneIsCalm DEF PrincipalInv, PrincipalTypeOK, MutatorRows, Commit, StartsAlone
  <1>2. /\ user' \in [Subjects -> [role : Roles, active : BOOLEAN]]
        /\ grants' \in [Roles -> Nat] /\ version' \in [Subjects -> Nat]
        /\ \A u \in S : version'[u] = version[u] + 1
        /\ \A u \in Subjects \ S : /\ version'[u] = version[u] /\ user'[u] = user[u]
                                   /\ grants'[user[u].role] = grants[user[u].role]
        /\ (\A u \in Subjects : user'[u].role = user[u].role) \/ "grants" \notin scene
    BY CommitWrites
  <1>3. \A u \in S : /\ gate[u].gate = "invalidating" /\ gate[u].token = me.token /\ ~gate[u].aged
                     /\ gate[u].version = version[u]
    BY <1>1 DEF PrincipalInv, ChangesFenced, Fenced
  <1> DEFINE next == [u \in S |-> [version |-> version'[u], role |-> user'[u].role]]
             done == [me EXCEPT !.pc = "publish", !.next = next]
  <1>4. next \in VersionMaps /\ \A u \in S : next[u] = Present(u)'
    <2>1. next \in [S -> VersionRows]
      BY <1>1, <1>2 DEF VersionRows
    <2> QED  BY <1>1, <2>1 DEF VersionMaps, Present
  <1>5. mutator' = [mutator EXCEPT ![m] = IF S = {} THEN AtRest ELSE done]
    BY <1>1 DEF Commit, SetMutator
  <1> HIDE DEF next
  <1>6. /\ done \in MutatorRows /\ done.pc = "publish" /\ done.subjects = S /\ done.token = me.token
        /\ done.change = me.change /\ done.next = next
    BY <1>1, <1>4 DEF MutatorRows
  <1> HIDE DEF done
  <1>7. /\ mutator' \in [Mutators -> MutatorRows]
        /\ \A n \in Mutators \ {m} : mutator'[n] = mutator[n]
        /\ mutator'[m] = AtRest \/ mutator'[m] = done
    BY <1>5, <1>6, IdleRows DEF PrincipalInv, PrincipalTypeOK
  <1>8. PrincipalTypeOK'
    BY <1>1, <1>2, <1>7 DEF PrincipalInv, PrincipalTypeOK
  <1>9. \A u \in S : version'[u] > version[u] /\ version[u] \in Nat
    BY <1>1, <1>2 DEF PrincipalInv, PrincipalTypeOK
  <1> HIDE DEF me, S
  <1>10. GatesTrue'
    BY <1>1, <1>2, <1>3 DEF PrincipalInv, GatesTrue
  <1>11. SnapsTrue'
    <2> SUFFICES ASSUME NEW u \in Subjects, NEW s \in snaps[u]
                 PROVE  /\ s.version <= version'[u]
                        /\ s.version = version'[u] => s.role = user'[u].role /\ s.active = user'[u].active
                                                      /\ s.grants = grants'[user'[u].role]
      BY <1>1 DEF SnapsTrue
    <2>1. /\ s.version <= version[u] /\ s.version \in Nat
          /\ s.version = version[u] => s.role = user[u].role /\ s.active = user[u].active
                                       /\ s.grants = grants[user[u].role]
      BY DEF PrincipalInv, PrincipalTypeOK, SnapsTrue, SnapRows
    <2>2. CASE u \in S
      <3>1. version[u] \in Nat /\ version'[u] = version[u] + 1
        BY <1>2, <1>9, <2>2
      <3> QED  BY <2>1, <3>1
    <2>3. CASE u \notin S
      BY <1>2, <2>1, <2>3
    <2> QED  BY <2>2, <2>3
  <1>12. ReadersTrue'
    <2> SUFFICES ASSUME NEW q \in Readers PROVE ReadTrue(reader[q])'
      BY DEF ReadersTrue
    <2>1. ReadTrue(reader[q]) /\ reader[q].version \in Nat /\ UNCHANGED reader
      BY <1>1 DEF PrincipalInv, PrincipalTypeOK, ReadersTrue, ReaderRows
    <2>2. CASE reader[q].pc # "idle" /\ reader[q].user \in S
      <3>1. version[reader[q].user] \in Nat /\ version'[reader[q].user] = version[reader[q].user] + 1
        BY <1>2, <1>9, <2>2
      <3> QED  BY <1>1, <1>3, <2>1, <2>2, <3>1 DEF ReadTrue
    <2>3. CASE reader[q].pc # "idle" /\ reader[q].user \notin S
      BY <1>1, <1>2, <2>1, <2>3 DEF ReadTrue
    <2>4. CASE reader[q].pc = "idle"
      BY <2>1, <2>4 DEF ReadTrue
    <2> QED  BY <2>2, <2>3, <2>4
  <1>13. TokensDiffer'
    <2>1. \A n \in Mutators : mutator'[n].pc # "idle" =>
            mutator[n].pc # "idle" /\ mutator'[n].token = mutator[n].token
      BY <1>1, <1>6, <1>7, IdleRows DEF me
    <2> QED  BY <1>1, <2>1 DEF PrincipalInv, TokensDiffer
  <1>14. SubjectsNamed'
    <2>1. ASSUME NEW c \in Changes, c.kind \in scene PROVE SubjectsOf(c)' = SubjectsOf(c)
      <3>1. CASE c.kind = "grants"
        BY <1>2, <2>1, <3>1 DEF SubjectsOf, UserIDsByRoleIDs
      <3>2. CASE c.kind # "grants"
        BY <3>2 DEF SubjectsOf
      <3> QED  BY <3>1, <3>2
    <2>2. ASSUME NEW n \in Mutators, mutator'[n].pc # "idle"
          PROVE  /\ mutator'[n].change \in Changes /\ mutator'[n].change.kind \in scene
                 /\ mutator'[n].subjects = SubjectsOf(mutator'[n].change)
      <3>1. /\ mutator[n].pc # "idle" /\ mutator'[n].change = mutator[n].change
            /\ mutator'[n].subjects = mutator[n].subjects
        BY <1>1, <1>6, <1>7, <2>2, IdleRows DEF me, S
      <3> QED  BY <3>1 DEF PrincipalInv, SubjectsNamed
    <2> QED  BY <1>1, <2>1, <2>2 DEF SubjectsNamed
  <1>15. StartsAlone'
    BY <1>1 DEF StartsAlone
  <1>16. ChangesFenced'
    <2> SUFFICES ASSUME NEW n \in Mutators, NEW u \in mutator'[n].subjects PROVE Fenced(n, u)'
      BY DEF ChangesFenced
    <2>1. CASE n = m
      <3>1. mutator'[m] = done /\ u \in S
        BY <1>6, <1>7, <2>1, IdleRows
      <3> QED  BY <1>4, <1>6, <2>1, <3>1 DEF Fenced
    <2>2. CASE n # m /\ u \notin S
      <3>1. u \in mutator[n].subjects /\ u \in Subjects /\ mutator'[n] = mutator[n]
        BY <1>7, <2>2 DEF PrincipalInv, PrincipalTypeOK, MutatorRows
      <3>2. Fenced(n, u)
        BY <3>1 DEF PrincipalInv, ChangesFenced
      <3> QED  BY <1>1, <1>2, <2>2, <3>1, <3>2 DEF Fenced, Holds, Present
    <2>3. CASE n # m /\ u \in S
      <3>1. Fenced(n, u) /\ mutator'[n] = mutator[n]
        BY <1>7, <2>3 DEF PrincipalInv, ChangesFenced
      <3>2. mutator[n].pc # "idle" => gate[u].token # mutator[n].token
        BY <1>1, <1>3, <2>3 DEF PrincipalInv, TokensDiffer, me
      <3>3. mutator[n].pc = "begin" =>
              /\ mutator[n].current[u].version \in Nat /\ mutator[n].current[u].version < version'[u]
              /\ Blocks(gate[u], mutator[n].current[u].version)
        <4>1. version[u] \in Nat /\ version'[u] = version[u] + 1
          BY <1>2, <1>9, <2>3
        <4>2. CASE mutator[n].pc = "begin" /\ mutator[n].current[u] = Present(u)
          <5>1. mutator[n].current[u].version = version[u]
            BY <4>2 DEF Present
          <5> QED  BY <1>3, <2>3, <4>1, <5>1 DEF Blocks
        <4>3. CASE /\ mutator[n].pc = "begin" /\ mutator[n].current[u].version < version[u]
                   /\ mutator[n].current[u].version \in Nat
                   /\ Blocks(gate[u], mutator[n].current[u].version)
          <5>1. mutator[n].current[u].version < version'[u]
            BY <4>1, <4>3 DEF Blocks
          <5> QED  BY <4>3, <5>1
        <4> QED  BY <3>1, <4>2, <4>3 DEF Fenced
      <3>4. mutator[n].pc \notin {"mutate", "abort"} /\ (mutator[n].pc = "publish" => ~Holds(n, u))
        BY <3>1, <3>2 DEF Fenced, Holds
      <3> QED  BY <1>1, <3>1, <3>3, <3>4 DEF Fenced, Holds
    <2> QED  BY <2>1, <2>2, <2>3
  <1> QED
    BY <1>8, <1>10, <1>11, <1>12, <1>13, <1>14, <1>15, <1>16 DEF PrincipalInv


-----------------------------------------------------------------------------
(* Opening a gate.                                                         *)

\* Whoever opens gates opens them at the present version and role; a change
\* that reads or has closed them is not among those.
LEMMA OpeningKeeps ==
  ASSUME PrincipalInv, NEW S \in SUBSET Subjects, NEW current \in VersionMaps,
         \A u \in S : current[u] = Present(u),
         gate' = [u \in Subjects |-> IF u \in S THEN Ready(current[u]) ELSE gate[u]],
         snaps' \in [Subjects -> SUBSET SnapRows], \A u \in Subjects : snaps'[u] \subseteq snaps[u],
         mutator' \in [Mutators -> MutatorRows],
         \A n \in Mutators : mutator'[n] = mutator[n] \/ mutator'[n] = AtRest,
         \A n \in Mutators : mutator'[n] # AtRest /\ mutator'[n].pc \in {"mutate", "abort"} =>
           \A u \in mutator[n].subjects : u \notin S,
         boot'.pc \in {"up", boot.pc}, boot' \in [pc : {"up", "reconcile"}, versions : VersionMaps],
         boot'.pc = "reconcile" => boot' = boot /\ UNCHANGED mutator,
         UNCHANGED <<user, grants, version, reader, mutations, scene>>
  PROVE  PrincipalInv'
  <1>1. /\ \A u \in S : /\ gate'[u] \in GateRows /\ gate'[u].gate = "ready" /\ gate'[u].version = version[u]
                        /\ gate'[u].role = user[u].role /\ gate'[u].token = 0
        /\ \A u \in Subjects \ S : gate'[u] = gate[u]
    <2>1. ASSUME NEW u \in S
          PROVE  /\ gate'[u] \in GateRows /\ gate'[u].gate = "ready" /\ gate'[u].version = version[u]
                 /\ gate'[u].role = user[u].role /\ gate'[u].token = 0
      <3>1. gate'[u] = Ready(Present(u))
        BY <2>1
      <3>2. version[u] \in Nat /\ user[u].role \in Roles
        BY <2>1 DEF PrincipalInv, PrincipalTypeOK
      <3> QED  BY ONLY <3>1, <3>2 DEF Ready, Present, GateRows
    <2> QED  BY <2>1
  <1>2. PrincipalTypeOK'
    <2>1. gate' \in [Subjects -> GateRows]
      BY <1>1 DEF PrincipalInv, PrincipalTypeOK
    <2> QED  BY <2>1 DEF PrincipalInv, PrincipalTypeOK
  <1>3. GatesTrue' /\ SnapsTrue'
    <2>1. GatesTrue'
      <3>1. \A u \in Subjects : gate[u].gate = "ready" => gate[u].version = version[u] /\ gate[u].role = user[u].role
        BY DEF PrincipalInv, GatesTrue
      <3>2. \A u \in Subjects : gate'[u].gate = "ready" => gate'[u].version = version[u] /\ gate'[u].role = user[u].role
        BY ONLY <1>1, <3>1
      <3> QED  BY <3>2 DEF GatesTrue
    <2>2. SnapsTrue'
      <3>1. \A u \in Subjects : \A s \in snaps'[u] : s \in snaps[u]
        OBVIOUS
      <3> QED  BY <3>1 DEF PrincipalInv, SnapsTrue
    <2> QED  BY <2>1, <2>2
  <1>4. ReadersTrue'
    BY <1>1 DEF PrincipalInv, ReadersTrue, ReadTrue
  <1>5. TokensDiffer'
    <2>0. mutations \in Nat /\ \A u \in Subjects : gate[u].token <= mutations
      BY DEF PrincipalInv, PrincipalTypeOK, TokensDiffer
    <2>1. \A u \in Subjects : gate'[u].token <= mutations
      BY ONLY <1>1, <2>0
    <2>2. \A n \in Mutators : mutator'[n].pc # "idle" => mutator'[n] = mutator[n]
      BY IdleRows
    <2> QED  BY <2>1, <2>2 DEF PrincipalInv, TokensDiffer
  <1>6. SubjectsNamed'
    <2>1. \A change \in Changes : SubjectsOf(change)' = SubjectsOf(change)
      BY DEF SubjectsOf, UserIDsByRoleIDs
    <2>2. ASSUME NEW n \in Mutators, mutator'[n].pc # "idle"
          PROVE  /\ mutator'[n].change \in Changes /\ mutator'[n].change.kind \in scene
                 /\ mutator'[n].subjects = SubjectsOf(mutator'[n].change)
      BY <2>2, IdleRows DEF PrincipalInv, SubjectsNamed
    <2> QED  BY <2>1, <2>2 DEF SubjectsNamed
  <1>7. StartsAlone'
    BY DEF PrincipalInv, StartsAlone, Present
  <1>8. ChangesFenced'
    <2> SUFFICES ASSUME NEW n \in Mutators, NEW u \in mutator'[n].subjects PROVE Fenced(n, u)'
      BY DEF ChangesFenced
    <2>1. mutator'[n] = mutator[n] /\ mutator'[n] # AtRest /\ Fenced(n, u) /\ u \in Subjects
      BY IdleRows DEF PrincipalInv, PrincipalTypeOK, MutatorRows, ChangesFenced
    <2>2. CASE u \notin S
      BY <1>1, <2>1, <2>2 DEF Fenced, Holds, Present
    <2>3. CASE u \in S
      <3>1. mutator[n].pc \notin {"mutate", "abort"} /\ ~Holds(n, u)'
        BY <1>1, <2>1, <2>3 DEF Holds
      <3>2. mutator[n].pc = "begin" =>
              \/ mutator[n].current[u] = Present(u)
              \/ /\ mutator[n].current[u].version \in Nat /\ mutator[n].current[u].version < version[u]
                 /\ Blocks(gate'[u], mutator[n].current[u].version)
        BY <1>1, <2>1, <2>3 DEF Fenced, Blocks
      <3> QED  BY <2>1, <3>1, <3>2 DEF Fenced, Present
    <2> QED  BY <2>2, <2>3
  <1> QED  BY <1>2, <1>3, <1>4, <1>5, <1>6, <1>7, <1>8 DEF PrincipalInv


\* Publish finds its change the last one, Abort finds its change undone.
LEMMA PublishKeeps ==
  ASSUME PrincipalInv, NEW m \in Mutators, Publish(m) \/ Abort(m) PROVE PrincipalInv'
  <1> DEFINE me == mutator[m]
  <1>1. /\ me \in MutatorRows /\ me.subjects \subseteq Subjects /\ me.pc \in {"publish", "abort"}
        /\ boot.pc # "reconcile" /\ boot \in [pc : {"up", "reconcile"}, versions : VersionMaps]
        /\ mutator' = [mutator EXCEPT ![m] = AtRest]
        /\ UNCHANGED <<user, grants, version, reader, mutations, boot, scene>>
    BY IdleRows DEF PrincipalInv, PrincipalTypeOK, MutatorRows, Publish, Abort, SetMutator, StartsAlone
  <1>2. /\ mutator' \in [Mutators -> MutatorRows] /\ mutator'[m] = AtRest
        /\ \A n \in Mutators \ {m} : mutator'[n] = mutator[n]
    BY <1>1, IdleRows DEF PrincipalInv, PrincipalTypeOK
  <1>3. ASSUME NEW S \in SUBSET me.subjects, NEW current \in VersionMaps,
               \A u \in S : Holds(m, u) /\ current[u] = Present(u),
               gate' = [u \in Subjects |-> IF u \in S THEN Ready(current[u]) ELSE gate[u]],
               snaps' \in [Subjects -> SUBSET SnapRows], \A u \in Subjects : snaps'[u] \subseteq snaps[u]
        PROVE  PrincipalInv'
    <2>1. ASSUME NEW n \in Mutators, mutator'[n] # AtRest, mutator'[n].pc \in {"mutate", "abort"},
                 NEW u \in mutator[n].subjects, u \in S
          PROVE  FALSE
      <3>1. n # m /\ mutator'[n] = mutator[n]
        BY <1>2, <2>1
      <3>2. gate[u].token = mutator[n].token /\ gate[u].token = mutator[m].token
        BY <1>3, <2>1, <3>1 DEF PrincipalInv, ChangesFenced, Fenced, Holds
      <3> QED  BY <1>1, <2>1, <3>1, <3>2 DEF PrincipalInv, TokensDiffer
    <2>2. \A n \in Mutators : mutator'[n] # AtRest /\ mutator'[n].pc \in {"mutate", "abort"} =>
            \A u \in mutator[n].subjects : u \notin S
      BY <2>1
    <2>3. \A n \in Mutators : mutator'[n] = mutator[n] \/ mutator'[n] = AtRest
      BY <1>2
    <2>4. S \in SUBSET Subjects /\ boot'.pc \in {"up", boot.pc} /\ boot'.pc # "reconcile"
          /\ boot' \in [pc : {"up", "reconcile"}, versions : VersionMaps]
      BY <1>1, <1>3
    <2>5. /\ UNCHANGED <<user, grants, version, reader, mutations, scene>>
          /\ mutator' \in [Mutators -> MutatorRows]
          /\ boot'.pc = "reconcile" => boot' = boot /\ UNCHANGED mutator
      BY <1>1, <1>2, <2>4
    <2>6. \A u \in S : current[u] = Present(u)
      BY <1>3
    <2> QED  BY ONLY PrincipalInv, <1>3, <2>2, <2>3, <2>4, <2>5, <2>6, OpeningKeeps
  <1>4. CASE Publish(m)
    <2>1. CASE \A u \in me.subjects : Holds(m, u)
      <3>1. /\ gate' = [u \in Subjects |-> IF u \in me.subjects THEN Ready(me.next[u]) ELSE gate[u]]
            /\ snaps' = [u \in Subjects |-> IF u \in me.subjects THEN DropOld(u, me.next[u]) ELSE snaps[u]]
            /\ me.pc = "publish"
        BY <1>4, <2>1 DEF Publish
      <3>2. \A u \in me.subjects : Holds(m, u) /\ me.next[u] = Present(u)
        BY <2>1, <3>1 DEF PrincipalInv, ChangesFenced, Fenced
      <3>3. me.next \in VersionMaps
        BY <1>1 DEF MutatorRows
      <3>4. \A u \in Subjects : snaps'[u] \subseteq snaps[u]
        BY <3>1 DEF DropOld
      <3>5. snaps' \in [Subjects -> SUBSET SnapRows]
        BY <3>1, <3>4 DEF PrincipalInv, PrincipalTypeOK
      <3> QED  BY <1>3, <3>1, <3>2, <3>3, <3>4, <3>5
    <2>2. CASE ~\A u \in me.subjects : Holds(m, u)
      <3>1. UNCHANGED <<user, grants, version, gate, snaps, reader, boot, scene>>
        BY <1>1, <1>4, <2>2 DEF Publish
      <3>2. /\ mutations' \in Nat /\ mutations <= mutations' /\ boot.pc # "reconcile"
            /\ mutator' = [mutator EXCEPT ![m] = AtRest]
        BY <1>1 DEF PrincipalInv, PrincipalTypeOK
      <3> QED  BY ONLY PrincipalInv, m \in Mutators, <3>1, <3>2, IdleRows, MutatorKeeps
    <2> QED  BY <2>1, <2>2
  <1>5. CASE Abort(m)
    <2> DEFINE S == {u \in me.subjects : Holds(m, u)}
    <2>1. /\ gate' = [u \in Subjects |-> IF u \in me.subjects /\ Holds(m, u) THEN Ready(me.current[u]) ELSE gate[u]]
          /\ UNCHANGED snaps /\ me.pc = "abort"
      BY <1>5 DEF Abort
    <2>2. gate' = [u \in Subjects |-> IF u \in S THEN Ready(me.current[u]) ELSE gate[u]]
      BY <2>1
    <2>3. \A u \in S : Holds(m, u) /\ me.current[u] = Present(u)
      BY <2>1 DEF PrincipalInv, ChangesFenced, Fenced
    <2>4. me.current \in VersionMaps /\ snaps' \in [Subjects -> SUBSET SnapRows]
          /\ \A u \in Subjects : snaps'[u] \subseteq snaps[u]
      BY <1>1, <2>1 DEF MutatorRows, PrincipalInv, PrincipalTypeOK
    <2>5. S \in SUBSET me.subjects
      OBVIOUS
    <2> HIDE DEF S
    <2> QED  BY <1>3, <2>2, <2>3, <2>4, <2>5
  <1> QED  BY <1>4, <1>5

-----------------------------------------------------------------------------
(* The start of a process.                                                 *)

\* It reads the versions with nobody at work, and repairs what it may.
LEMMA StartProcessKeeps ==
  ASSUME Calm, PrincipalInv, StartProcess PROVE PrincipalInv'
  <1>1. /\ mutator' = [m \in Mutators |-> AtRest] /\ reader' = [q \in Readers |-> Unread]
        /\ boot' = [pc |-> "reconcile", versions |-> Versions(Subjects)]
        /\ UNCHANGED <<user, grants, version, gate, snaps, mutations, scene>>
    BY SceneIsCalm DEF StartProcess, PrincipalInv, PrincipalTypeOK
  <1>2. Versions(Subjects) \in VersionMaps /\ \A u \in Subjects : Versions(Subjects)[u] = Present(u)
    BY VersionsRead DEF PrincipalInv
  <1>3. PrincipalTypeOK'
    BY <1>1, <1>2, IdleRows DEF PrincipalInv, PrincipalTypeOK
  <1>4. GatesTrue' /\ SnapsTrue'
    BY <1>1 DEF PrincipalInv, GatesTrue, SnapsTrue
  <1>5. ReadersTrue' /\ SubjectsNamed' /\ ChangesFenced'
    BY <1>1, IdleRows DEF ReadersTrue, ReadTrue, SubjectsNamed, ChangesFenced
  <1>6. TokensDiffer'
    BY <1>1, IdleRows DEF PrincipalInv, TokensDiffer
  <1>7. StartsAlone'
    BY <1>1, <1>2 DEF StartsAlone, Present
  <1> QED  BY <1>3, <1>4, <1>5, <1>6, <1>7 DEF PrincipalInv

\* The reconciliation at start finds nobody changing anything, and opens the
\* gates it repairs at what MySQL holds.
LEMMA ReconcileKeeps ==
  ASSUME PrincipalInv, Reconcile PROVE PrincipalInv'
  <1> DEFINE S == {u \in Subjects : Repairs(gate[u], boot.versions[u].version)}
  <1>1. /\ boot.pc = "reconcile" /\ boot \in [pc : {"up", "reconcile"}, versions : VersionMaps]
        /\ boot' = [boot EXCEPT !.pc = "up"]
        /\ gate' = [u \in Subjects |-> IF u \in S THEN Ready(boot.versions[u]) ELSE gate[u]]
        /\ snaps' = [u \in Subjects |-> IF u \in S THEN DropOld(u, boot.versions[u]) ELSE snaps[u]]
        /\ UNCHANGED <<user, grants, version, mutator, reader, mutations, scene>>
    BY DEF Reconcile, PrincipalInv, PrincipalTypeOK
  <1>2. (\A m \in Mutators : mutator[m] = AtRest) /\ \A u \in Subjects : boot.versions[u] = Present(u)
    BY <1>1 DEF PrincipalInv, StartsAlone
  <1>3. \A u \in Subjects : snaps'[u] \subseteq snaps[u]
    BY <1>1 DEF DropOld
  <1>4. snaps' \in [Subjects -> SUBSET SnapRows]
    BY <1>1, <1>3 DEF PrincipalInv, PrincipalTypeOK
  <1>5. /\ boot.versions \in VersionMaps /\ boot' \in [pc : {"up", "reconcile"}, versions : VersionMaps]
        /\ boot'.pc = "up" /\ S \in SUBSET Subjects /\ mutator' \in [Mutators -> MutatorRows]
    BY <1>1 DEF PrincipalInv, PrincipalTypeOK
  <1> HIDE DEF S
  <1> QED  BY <1>1, <1>2, <1>3, <1>4, <1>5, OpeningKeeps

-----------------------------------------------------------------------------
\* The invariant is inductive.
LEMMA PrincipalInvInductive == ASSUME Calm PROVE PrincipalInv /\ [PrincipalNext]_principalVars => PrincipalInv'
  <1> SUFFICES ASSUME PrincipalInv, [PrincipalNext]_principalVars PROVE PrincipalInv'
    OBVIOUS
  <1>1. ASSUME NEW m \in Mutators, NEW change \in Changes, StartMutation(m, change) PROVE PrincipalInv'
    BY <1>1, StartMutationKeeps
  <1>2. ASSUME NEW m \in Mutators,
               LoadVersions(m) \/ Begin(m) \/ BeginLost(m) \/ Commit(m) \/ Fail(m) \/ Publish(m) \/ Abort(m)
               \/ MutatorStops(m)
        PROVE  PrincipalInv'
    BY <1>2, LoadVersionsKeeps, BeginKeeps, CommitKeeps, FailKeeps, PublishKeeps
  <1>3. ASSUME NEW q \in Readers, NEW u \in Subjects, Authorize(q, u) PROVE PrincipalInv'
    BY <1>3, AuthorizeKeeps
  <1>4. ASSUME NEW q \in Readers, LoadSnapshot(q) \/ Store(q) PROVE PrincipalInv'
    BY <1>4, LoadSnapshotKeeps, StoreKeeps
  <1>5. ASSUME NEW u \in Subjects, GateAges(u) \/ SnapshotExpires(u) PROVE PrincipalInv'
    BY <1>5, GateAgesKeeps, SnapshotExpiresKeeps
  <1>6. CASE StartProcess \/ Reconcile
    BY <1>6, StartProcessKeeps, ReconcileKeeps
  <1>7. CASE UNCHANGED principalVars
    <2>1. PrincipalTypeOK' /\ GatesTrue' /\ SnapsTrue' /\ ReadersTrue' /\ TokensDiffer'
      BY <1>7 DEF principalVars, PrincipalInv, PrincipalTypeOK, GatesTrue, SnapsTrue, ReadersTrue, ReadTrue, TokensDiffer
    <2>2. SubjectsNamed' /\ ChangesFenced' /\ StartsAlone'
      BY <1>7 DEF principalVars, PrincipalInv, SubjectsNamed, SubjectsOf, UserIDsByRoleIDs, ChangesFenced, Fenced,
                  Holds, StartsAlone, Present
    <2> QED  BY <2>1, <2>2 DEF PrincipalInv
  <1> QED  BY <1>1, <1>2, <1>3, <1>4, <1>5, <1>6, <1>7 DEF PrincipalNext

\* Where the excluded events do not happen, no request is decided on a status,
\* a role or grants that a committed change took away (Mutate, Authorize,
\* Reconcile and their scripts).
THEOREM NoRequestHitsStale == ASSUME Calm PROVE PrincipalSpec => []NoStaleHit
  <1>1. PrincipalInv => NoStaleHit
    BY DEF PrincipalInv, GatesTrue, SnapsTrue, NoStaleHit, Hit, SnapAt
  <1> QED
    BY <1>1, PrincipalInvHoldsAtFirst, PrincipalInvInductive, PTL DEF PrincipalSpec

-----------------------------------------------------------------------------
(***************************************************************************)
(* Permissions.  The tree, the roles and the grants under any requests.    *)
(***************************************************************************)
USE PermissionAssumption DEF Root

-----------------------------------------------------------------------------
(* A forest is a function f from nodes to rows.  What stands in it and what *)
(* hangs below a node are least sets, and every fact about them comes from  *)
(* a set that is closed the same way.                                       *)

LiveIn(f) == {n \in Nodes : f[n].state = "live"}
EnabledIn(f) == {n \in LiveIn(f) : f[n].on}

\* What has its parent in it, or none, is in it.
Grown(f, M) == \A m \in EnabledIn(f) : f[m].parent \in M \cup {Root} => m \in M

\* What is live and has its parent in it is in it.
Downward(f, M) == \A c \in LiveIn(f) : f[c].parent \in M => c \in M

StandingIn(f) ==
  {n \in EnabledIn(f) : \A M \in SUBSET EnabledIn(f) : Grown(f, M) => n \in M}

BelowIn(f, N) ==
  N \cup {n \in LiveIn(f) :
            \A M \in SUBSET LiveIn(f) :
              (\A c \in LiveIn(f) : f[c].parent \in N \cup M => c \in M) => n \in M}

\* What the grants P open: the nodes that stand with a standing grant at or
\* below them.
OpenedIn(f, P) ==
  {n \in StandingIn(f) : BelowIn(f, {n}) \cap P \cap StandingIn(f) # {}}

LEMMA TreeOfNode ==
  /\ LiveNodes = LiveIn(node) /\ Enabled = EnabledIn(node)
  /\ Standing = StandingIn(node)
  /\ \A N : CascadeIDs(N) = BelowIn(node, N)
<1>1. LiveNodes = LiveIn(node) /\ Enabled = EnabledIn(node)
  BY DEF LiveNodes, LiveIn, Enabled, EnabledIn
<1>2. Standing = StandingIn(node)
  BY <1>1 DEF Standing, StandingIn, Grown
<1>3. ASSUME NEW N PROVE CascadeIDs(N) = BelowIn(node, N)
  BY <1>1 DEF CascadeIDs, BelowIn
<1> QED
  BY <1>1, <1>2, <1>3

LEMMA StandingGrows ==
  ASSUME NEW f
  PROVE  /\ StandingIn(f) \subseteq EnabledIn(f)
         /\ Grown(f, StandingIn(f))
BY DEF StandingIn, Grown

LEMMA StandingLeast ==
  ASSUME NEW f, NEW M, Grown(f, M)
  PROVE  StandingIn(f) \subseteq M
<1> DEFINE K == M \cap EnabledIn(f)
<1>1. ASSUME NEW m \in EnabledIn(f), f[m].parent \in K \cup {Root} PROVE m \in K
  BY <1>1 DEF Grown
<1>2. Grown(f, K) /\ K \in SUBSET EnabledIn(f)
  BY <1>1 DEF Grown
<1> QED
  BY <1>2 DEF StandingIn

LEMMA StandingUp ==
  ASSUME NEW f, NEW n \in StandingIn(f)
  PROVE  f[n].parent \in StandingIn(f) \cup {Root}
<1> DEFINE K == {m \in StandingIn(f) : f[m].parent \in StandingIn(f) \cup {Root}}
<1>1. Grown(f, K)
  BY StandingGrows DEF Grown
<1> QED
  BY <1>1, StandingLeast

LEMMA BelowGrows ==
  ASSUME NEW f, NEW N
  PROVE  N \subseteq BelowIn(f, N) /\ Downward(f, BelowIn(f, N))
<1>1. ASSUME NEW c \in LiveIn(f), f[c].parent \in BelowIn(f, N),
             NEW M \in SUBSET LiveIn(f),
             \A x \in LiveIn(f) : f[x].parent \in N \cup M => x \in M
      PROVE  c \in M
  BY <1>1 DEF BelowIn
<1> QED
  BY <1>1 DEF BelowIn, Downward

LEMMA BelowLeast ==
  ASSUME NEW f, NEW N, NEW M, N \subseteq M, Downward(f, M)
  PROVE  BelowIn(f, N) \subseteq M
<1> DEFINE K == M \cap LiveIn(f)
<1>1. K \in SUBSET LiveIn(f) /\ \A c \in LiveIn(f) : f[c].parent \in N \cup K => c \in K
  BY DEF Downward
<1>2. ASSUME NEW n \in BelowIn(f, N) PROVE n \in M
  BY <1>1, <1>2 DEF BelowIn
<1> QED
  BY <1>2

LEMMA BelowParent ==
  ASSUME NEW f, NEW n \in LiveIn(f), NEW g \in BelowIn(f, {n})
  PROVE  g \in BelowIn(f, {f[n].parent})
<1>1. f[n].parent \in BelowIn(f, {f[n].parent}) /\ Downward(f, BelowIn(f, {f[n].parent}))
  BY BelowGrows
<1>2. n \in BelowIn(f, {f[n].parent})
  BY <1>1 DEF Downward
<1> QED
  BY <1>1, <1>2, BelowLeast

\* What is above an opened node is open.
LEMMA OpenedUp ==
  ASSUME NEW f, NEW P, NEW n \in OpenedIn(f, P)
  PROVE  f[n].parent \in OpenedIn(f, P) \cup {Root}
<1>1. n \in StandingIn(f) /\ n \in LiveIn(f)
  BY StandingGrows DEF OpenedIn, EnabledIn
<1>2. PICK g \in BelowIn(f, {n}) : g \in P \cap StandingIn(f)
  BY DEF OpenedIn
<1>3. f[n].parent \in StandingIn(f) \cup {Root}
  BY <1>1, StandingUp
<1>4. g \in BelowIn(f, {f[n].parent})
  BY <1>1, <1>2, BelowParent
<1> QED
  BY <1>2, <1>3, <1>4 DEF OpenedIn

-----------------------------------------------------------------------------
(* The walk from a granted node.                                           *)

ParentsInTree == \A m \in Nodes : node[m].parent \in Nodes \cup {Root}

LEMMA WalkedWalks ==
  ASSUME ParentsInTree, NEW n \in Nodes, NEW I
  PROVE  /\ Walked(n, I) \in SUBSET Nodes /\ n \in Walked(n, I)
         /\ \A k \in EnabledIn(node) \ I :
              k \in Walked(n, I) => node[k].parent \in Walked(n, I) \cup {Root}
<1> DEFINE walks == {M \in SUBSET Nodes :
                       n \in M /\ \A k \in EnabledIn(node) \ I :
                                    k \in M => node[k].parent \in M \cup {Root}}
<1>1. Walked(n, I) = {m \in Nodes : \A M \in walks : m \in M}
  BY TreeOfNode DEF Walked
<1>2. ASSUME NEW k \in EnabledIn(node) \ I, k \in Walked(n, I), node[k].parent # Root
      PROVE  node[k].parent \in Walked(n, I)
  <2>1. \A M \in walks : node[k].parent \in M
    BY <1>1, <1>2
  <2>2. node[k].parent \in Nodes
    BY <1>1, <1>2 DEF ParentsInTree
  <2> QED
    BY <1>1, <2>1, <2>2
<1> QED
  BY <1>1, <1>2

LEMMA WalkedLeast ==
  ASSUME NEW n \in Nodes, NEW I, NEW M \in SUBSET Nodes, n \in M,
         \A k \in EnabledIn(node) \ I : k \in M => node[k].parent \in M \cup {Root}
  PROVE  Walked(n, I) \subseteq M
BY TreeOfNode DEF Walked

\* A walk from a node that stands ends at the root or at what is open already.
LEMMA StandingClimbs ==
  ASSUME ParentsInTree, NEW n \in StandingIn(node), NEW I
  PROVE  /\ Walked(n, I) \subseteq StandingIn(node)
         /\ Climb(n, I) = Walked(n, I)
<1> DEFINE W == Walked(n, I)
<1>1. n \in Nodes /\ StandingIn(node) \in SUBSET Nodes
  BY StandingGrows DEF EnabledIn, LiveIn
<1>2. W \subseteq StandingIn(node)
  BY <1>1, WalkedLeast, StandingUp
<1>3. W \subseteq EnabledIn(node)
  BY <1>2, StandingGrows
<1>4. ASSUME \A m \in W : m \notin I /\ node[m].parent # Root PROVE FALSE
  <2>1. \A m \in W : node[m].parent \in W
    BY <1>1, <1>3, <1>4, WalkedWalks
  <2>2. Grown(node, EnabledIn(node) \ W)
    <3>1. ASSUME NEW m \in EnabledIn(node), m \in W,
                 node[m].parent \in (EnabledIn(node) \ W) \cup {Root}
          PROVE  FALSE
      BY <1>4, <2>1, <3>1
    <3> QED
      BY <3>1 DEF Grown
  <2> QED
    BY <1>1, <2>2, StandingLeast, WalkedWalks
<1> QED
  BY <1>2, <1>3, <1>4, TreeOfNode DEF Climb

\* A walk from another node ends at a gap or goes round.
LEMMA OthersClimbNowhere ==
  ASSUME ParentsInTree, NEW n \in Nodes, n \notin StandingIn(node), NEW I, I \subseteq StandingIn(node)
  PROVE  Climb(n, I) = {}
<1> DEFINE W == Walked(n, I)
           M == W \ StandingIn(node)
<1>1. W \in SUBSET Nodes /\ n \in W
  BY WalkedWalks
<1>2. ASSUME NEW k \in EnabledIn(node) \ I, k \in M PROVE node[k].parent \in M \cup {Root}
  <2>1. node[k].parent \in W \cup {Root}
    BY <1>2, WalkedWalks
  <2>2. node[k].parent \notin StandingIn(node)
    BY <1>2, StandingGrows DEF Grown
  <2> QED
    BY <2>1, <2>2
<1>3. W \cap StandingIn(node) = {}
  <2>1. M \in SUBSET Nodes /\ n \in M
    BY <1>1
  <2>2. W \subseteq M
    <3> HIDE DEF M
    <3> QED
      BY <1>2, <2>1, WalkedLeast
  <2> QED
    BY <2>2
<1>4. ASSUME NEW m \in W, W \subseteq EnabledIn(node), m \in I \/ node[m].parent = Root
      PROVE  FALSE
  BY <1>3, <1>4, StandingGrows DEF Grown
<1> QED
  BY <1>4, TreeOfNode DEF Climb

\* One grant opens what is above it if it stands, and nothing otherwise.
LEMMA ClimbOpens ==
  ASSUME ParentsInTree, NEW P, NEW g \in Nodes
  PROVE  OpenedIn(node, P) \cup Climb(g, OpenedIn(node, P)) = OpenedIn(node, P \cup {g})
<1> DEFINE S == StandingIn(node)
           I == OpenedIn(node, P)
           U == {n \in S : g \in BelowIn(node, {n})}
<1>1. I \subseteq S
  BY DEF OpenedIn
<1>2. CASE g \notin S
  <2>1. Climb(g, I) = {}
    BY <1>1, <1>2, OthersClimbNowhere
  <2>2. OpenedIn(node, P \cup {g}) = I
    BY <1>2 DEF OpenedIn
  <2> QED
    BY <2>1, <2>2
<1>3. CASE g \in S
  <2> DEFINE W == Walked(g, I)
  <2>1. W \subseteq S /\ Climb(g, I) = W
    BY <1>3, StandingClimbs
  <2>2. OpenedIn(node, P \cup {g}) = I \cup U
    BY <1>3 DEF OpenedIn
  <2>3. W \subseteq U
    <3>1. g \in U
      BY <1>3, BelowGrows
    <3>2. ASSUME NEW k \in U PROVE node[k].parent \in U \cup {Root}
      <4>1. k \in LiveIn(node)
        BY StandingGrows DEF EnabledIn
      <4> QED
        BY <4>1, StandingUp, BelowParent
    <3>3. U \in SUBSET Nodes
      BY StandingGrows DEF EnabledIn, LiveIn
    <3> HIDE DEF U
    <3> QED
      BY <3>1, <3>2, <3>3, WalkedLeast
  <2>4. U \subseteq I \cup W
    <3>1. SUFFICES ASSUME NEW n \in U, n \notin I \cup W PROVE FALSE
      OBVIOUS
    <3>2. ASSUME NEW c \in I \cup W PROVE node[c].parent \in I \cup W \cup {Root}
      <4>1. CASE c \in I
        BY <4>1, OpenedUp
      <4>2. CASE c \in W \ I
        <5>1. c \in EnabledIn(node)
          BY <2>1, <4>2, StandingGrows
        <5> QED
          BY <4>2, <5>1, WalkedWalks
      <4> QED
        BY <3>2, <4>1, <4>2
    <3>3. Downward(node, Nodes \ (I \cup W))
      <4>1. \A c \in LiveIn(node) : node[c].parent \in Nodes => node[c].parent # Root
        OBVIOUS
      <4> QED
        BY <3>2, <4>1 DEF Downward, LiveIn
    <3>4. n \in Nodes
      BY StandingGrows DEF EnabledIn, LiveIn
    <3>5. BelowIn(node, {n}) \subseteq Nodes \ (I \cup W)
      BY <3>1, <3>3, <3>4, BelowLeast
    <3>6. g \in W
      BY WalkedWalks
    <3> QED
      BY <3>5, <3>6
  <2> QED
    BY <2>1, <2>2, <2>3, <2>4
<1> QED
  BY <1>2, <1>3

-----------------------------------------------------------------------------
(* Resolved is a recursive function on sets of nodes.  That it exists and   *)
(* what it computes is shown by induction over the subsets of a finite set. *)

LEMMA SetInduction ==
  ASSUME NEW U, IsFiniteSet(U), NEW Q,
         \A N \in SUBSET U : (\A M \in SUBSET N : M # N => M \in Q) => N \in Q
  PROVE  SUBSET U \subseteq Q
<1> DEFINE bad == (SUBSET U) \ Q
<1>1. IsWellFoundedOn(StrictSubsetOrdering(U), SUBSET U)
  BY FS_StrictSubsetOrderingWellFounded, FS_FiniteSubsetsOfFinite
<1>2. SUFFICES ASSUME bad # {} PROVE FALSE
  OBVIOUS
<1>3. PICK N \in bad : \A M \in bad : <<M, N>> \notin StrictSubsetOrdering(U)
  <2>1. bad \subseteq SUBSET U
    OBVIOUS
  <2> HIDE DEF bad
  <2> QED
    BY <1>1, <1>2, <2>1, WFMin
<1>4. ASSUME NEW M \in SUBSET N, M # N PROVE M \in Q
  <2>1. M \in SUBSET U /\ N \in SUBSET U
    BY <1>3
  <2>2. <<M, N>> \in StrictSubsetOrdering(U)
    BY <1>4, <2>1 DEF StrictSubsetOrdering
  <2> QED
    BY <1>3, <2>1, <2>2
<1>5. N \in SUBSET U /\ N \notin Q
  BY <1>3
<1>6. \A M \in SUBSET N : M # N => M \in Q
  BY <1>4
<1> HIDE DEF bad
<1> QED
  BY <1>5, <1>6

\* The equation of Resolved.
After(f, N) ==
  [included \in SUBSET Nodes |->
     IF N = {} THEN included
     ELSE LET n == CHOOSE n \in N : TRUE
          IN f[N \ {n}][included \cup Climb(n, included)]]

Results == [SUBSET Nodes -> SUBSET Nodes]

Computes(f, F) == f \in [F -> Results] /\ \A N \in F : f[N] = After(f, N)

LEMMA AfterTyped ==
  ASSUME NEW f, NEW N \in SUBSET Nodes,
         \A M \in SUBSET N : M # N => f[M] \in Results
  PROVE  After(f, N) \in Results
<1>1. CASE N = {}
  BY <1>1 DEF After, Results
<1>2. CASE N # {}
  <2> DEFINE n == CHOOSE n \in N : TRUE
  <2>1. n \in N
    BY <1>2
  <2> HIDE DEF n
  <2>2. f[N \ {n}] \in Results
    BY <2>1
  <2>3. ASSUME NEW I \in SUBSET Nodes PROVE I \cup Climb(n, I) \in SUBSET Nodes
    BY DEF Climb, Walked
  <2>4. After(f, N) = [I \in SUBSET Nodes |-> f[N \ {n}][I \cup Climb(n, I)]]
    BY <1>2 DEF After, n
  <2>5. ASSUME NEW I \in SUBSET Nodes PROVE f[N \ {n}][I \cup Climb(n, I)] \in SUBSET Nodes
    BY <2>2, <2>3 DEF Results
  <2> QED
    BY <2>4, <2>5 DEF Results
<1> QED
  BY <1>1, <1>2

LEMMA AfterSame ==
  ASSUME NEW f, NEW g, NEW N \in SUBSET Nodes,
         \A M \in SUBSET N : M # N => f[M] = g[M]
  PROVE  After(f, N) = After(g, N)
<1>1. CASE N = {}
  BY <1>1 DEF After
<1>2. CASE N # {}
  <2> DEFINE n == CHOOSE n \in N : TRUE
  <2>1. n \in N
    BY <1>2
  <2>2. f[N \ {n}] = g[N \ {n}]
    <3> HIDE DEF n
    <3> QED
      BY <2>1
  <2> QED
    BY <1>2, <2>2 DEF After
<1> QED
  BY <1>1, <1>2

LEMMA ResultsExist == \E f : Computes(f, SUBSET Nodes)
<1> DEFINE X == SUBSET Nodes
           Whole(F) == \A N \in F : SUBSET N \subseteq F
           Q == {C \in SUBSET X : Whole(X \ C) /\ (\E f : Computes(f, X \ C)) =>
                                    \E f : Computes(f, X)}
<1>1. ASSUME NEW C \in SUBSET X, \A D \in SUBSET C : D # C => D \in Q,
             Whole(X \ C), NEW f, Computes(f, X \ C)
      PROVE  \E g : Computes(g, X)
  <2>1. CASE C = {}
    BY <1>1, <2>1
  <2>2. CASE C # {}
    <3>1. PICK N \in C : \A M \in SUBSET N : M # N => M \notin C
      <4>1. SUFFICES ASSUME \A N \in C : \E M \in SUBSET N : M # N /\ M \in C PROVE FALSE
        OBVIOUS
      <4>2. \A N \in SUBSET Nodes : (\A M \in SUBSET N : M # N => M \in X \ C) => N \in X \ C
        BY <4>1
      <4>3. X \subseteq X \ C
        <5> DEFINE R == X \ C
        <5>1. \A N \in SUBSET Nodes : (\A M \in SUBSET N : M # N => M \in R) => N \in R
          BY <4>2
        <5> HIDE DEF R
        <5>2. SUBSET Nodes \subseteq R
          BY <5>1, SetInduction, PermissionAssumption
        <5> QED
          BY <5>2 DEF R
      <4> QED
        BY <2>2, <4>3
    <3> DEFINE F == X \ C
               G == X \ (C \ {N})
               g == [M \in G |-> IF M = N THEN After(f, N) ELSE f[M]]
    <3>2. G = F \cup {N} /\ N \in X /\ N \notin F /\ F \subseteq X
      BY <3>1
    <3>3. \A M \in SUBSET N : M # N => M \in F
      BY <3>1
    <3>4. f \in [F -> Results] /\ \A M \in F : f[M] = After(f, M)
      BY <1>1 DEF Computes
    <3>5. After(f, N) \in Results
      BY <3>2, <3>3, <3>4, AfterTyped
    <3>6. g \in [G -> Results]
      BY <3>2, <3>4, <3>5
    <3>7. g[N] = After(f, N) /\ \A M \in F : g[M] = f[M]
      BY <3>2
    <3>8. Whole(F)
      BY <1>1
    <3> HIDE DEF F, G, g
    <3>9. ASSUME NEW M \in G PROVE g[M] = After(g, M)
      <4>1. \A K \in SUBSET M : K # M => f[K] = g[K]
        BY <3>2, <3>3, <3>7, <3>8
      <4>2. After(f, M) = After(g, M)
        BY <3>2, <4>1, AfterSame
      <4> QED
        BY <3>2, <3>4, <3>7, <4>2
    <3>10. Computes(g, G)
      BY <3>6, <3>9 DEF Computes
    <3>11. Whole(G)
      BY <3>2, <3>3, <3>8
    <3>12. C \ {N} \in SUBSET C /\ C \ {N} # C
      BY <3>1
    <3>13. C \ {N} \in Q
      BY <1>1, <3>12
    <3>14. Whole(X \ (C \ {N})) /\ Computes(g, X \ (C \ {N}))
      BY <3>10, <3>11 DEF G
    <3> QED
      BY <3>13, <3>14
  <2> QED
    BY <2>1, <2>2
<1>2. SUBSET X \subseteq Q
  <2>1. IsFiniteSet(X)
    BY FS_SUBSET, PermissionAssumption
  <2>2. ASSUME NEW C \in SUBSET X, \A D \in SUBSET C : D # C => D \in Q PROVE C \in Q
    BY <1>1, <2>2
  <2> HIDE DEF Q, X
  <2> QED
    BY <2>1, <2>2, SetInduction
<1>3. X \in Q
  BY <1>2
<1>4. Computes([N \in {} |-> {}], X \ X) /\ Whole(X \ X)
  BY DEF Computes
<1> QED
  BY <1>3, <1>4

LEMMA ResolvedEquation == Computes(Resolved, SUBSET Nodes)
<1>1. PICK f : Computes(f, SUBSET Nodes)
  BY ResultsExist
<1>2. f = [N \in SUBSET Nodes |-> After(f, N)]
  BY <1>1 DEF Computes
<1>3. Resolved = CHOOSE g : g = [N \in SUBSET Nodes |-> After(g, N)]
  BY DEF Resolved, After
<1>4. Resolved = [N \in SUBSET Nodes |-> After(Resolved, N)]
  BY <1>2, <1>3
<1> DEFINE typed == {N \in SUBSET Nodes : Resolved[N] \in Results}
<1>5. ASSUME NEW N \in SUBSET Nodes, \A M \in SUBSET N : M # N => M \in typed
      PROVE  N \in typed
  <2>1. After(Resolved, N) \in Results
    BY <1>5, AfterTyped
  <2> QED
    BY <1>4, <2>1
<1>6. SUBSET Nodes \subseteq typed
  <2> HIDE DEF typed
  <2> QED
    BY <1>5, SetInduction
<1> QED
  BY <1>4, <1>6 DEF Computes

\* Walked in any order, the grants open what they open together.
LEMMA ResolvedOpens ==
  ASSUME ParentsInTree, NEW N \in SUBSET Nodes
  PROVE  ResolveEnabled(N) = OpenedIn(node, N)
<1> DEFINE opens == {K \in SUBSET Nodes :
                       \A P \in SUBSET Nodes :
                         Resolved[K][OpenedIn(node, P)] = OpenedIn(node, P \cup K)}
<1>1. ASSUME NEW P PROVE OpenedIn(node, P) \in SUBSET Nodes
  BY StandingGrows DEF OpenedIn, EnabledIn, LiveIn
<1>2. ASSUME NEW K \in SUBSET Nodes, \A M \in SUBSET K : M # K => M \in opens
      PROVE  K \in opens
  <2> SUFFICES ASSUME NEW P \in SUBSET Nodes
               PROVE  Resolved[K][OpenedIn(node, P)] = OpenedIn(node, P \cup K)
    OBVIOUS
  <2>1. Resolved[K] = After(Resolved, K)
    BY ResolvedEquation DEF Computes
  <2>2. OpenedIn(node, P) \in SUBSET Nodes
    BY <1>1
  <2>3. CASE K = {}
    <3>1. P \cup K = P
      BY <2>3
    <3> QED
      BY <2>1, <2>2, <2>3, <3>1 DEF After
  <2>4. CASE K # {}
    <3> DEFINE n == CHOOSE n \in K : TRUE
               I == OpenedIn(node, P)
    <3>1. n \in K
      BY <2>4
    <3>2. Resolved[K][I] = Resolved[K \ {n}][I \cup Climb(n, I)]
      BY <2>1, <2>2, <2>4 DEF After
    <3> HIDE DEF n
    <3>3. I \cup Climb(n, I) = OpenedIn(node, P \cup {n})
      BY <3>1, ClimbOpens
    <3>4. K \ {n} \in opens /\ P \cup {n} \in SUBSET Nodes
      BY <1>2, <3>1
    <3>5. Resolved[K \ {n}][OpenedIn(node, P \cup {n})] = OpenedIn(node, (P \cup {n}) \cup (K \ {n}))
      BY <3>4
    <3>6. (P \cup {n}) \cup (K \ {n}) = P \cup K
      BY <3>1
    <3> QED
      BY <3>2, <3>3, <3>5, <3>6
  <2> QED
    BY <2>3, <2>4
<1>3. N \in opens
  <2> HIDE DEF opens
  <2> QED
    BY <1>2, SetInduction
<1>4. Resolved[N][OpenedIn(node, {})] = OpenedIn(node, {} \cup N)
  BY <1>3
<1>5. OpenedIn(node, {}) = {} /\ {} \cup N = N
  BY DEF OpenedIn
<1> QED
  BY <1>4, <1>5 DEF ResolveEnabled

LEMMA GroundedWhenTyped ==
  ASSUME ParentsInTree, granted \in [RoleIds -> SUBSET Nodes]
  PROVE  AccessIsGrounded
<1> DEFINE below == [n \in Standing |-> CascadeIDs({n})]
<1> SUFFICES ASSUME NEW r \in RoleIds
             PROVE  ResolveEnabled(granted[r]) =
                      {n \in Standing :
                         \E g \in granted[r] \cap Standing : g \in below[n]}
  BY DEF AccessIsGrounded
<1>1. ResolveEnabled(granted[r]) = OpenedIn(node, granted[r])
  BY ResolvedOpens
<1> QED
  BY <1>1, TreeOfNode DEF OpenedIn

-----------------------------------------------------------------------------
(* Changes that keep the forest in order.                                  *)

NodeRow == [state : {"absent", "live", "deleted"}, on : BOOLEAN, kind : Kinds,
            parent : Nodes \cup {Root}]

\* Everything live is reached from the root: a set that has what hangs off the
\* root and with a node what hangs off it has all of it.
Rooted(f) ==
  \A M \in SUBSET Nodes :
    (\A n \in LiveIn(f) : f[n].parent \in M \cup {Root} => n \in M) => LiveIn(f) \subseteq M

\* assertValidParentAssignment, without the subtree of the moved node.
KindFits(f, kind, parent) ==
  \/ parent = Root /\ kind # "button"
  \/ /\ parent \in LiveIn(f)
     /\ f[parent].kind = IF kind = "button" THEN "page" ELSE "dir"

\* assertExistingChildrenCompatible.
BelowFits(f, n, kind) ==
  \A c \in LiveIn(f) : f[c].parent = n => kind = IF f[c].kind = "button" THEN "page" ELSE "dir"

KindsFit(f) == \A n \in LiveIn(f) : KindFits(f, f[n].kind, f[n].parent)

LEMMA AddKeepsOrder ==
  ASSUME NEW f \in [Nodes -> NodeRow], NEW n \in Nodes, f[n].state # "live",
         NEW new \in NodeRow, new.state = "live", KindFits(f, new.kind, new.parent),
         Rooted(f), KindsFit(f),
         NEW h, h = [f EXCEPT ![n] = new]
  PROVE  Rooted(h) /\ KindsFit(h) /\ LiveIn(h) = LiveIn(f) \cup {n}
<1>1. h[n] = new /\ \A m \in Nodes : m # n => h[m] = f[m]
  OBVIOUS
<1>2. n \notin LiveIn(f) /\ LiveIn(h) = LiveIn(f) \cup {n}
  BY <1>1 DEF LiveIn
<1>3. \A m \in LiveIn(f) : m # n /\ m \in Nodes
  BY <1>2 DEF LiveIn
<1>4. ASSUME NEW M \in SUBSET Nodes,
             \A m \in LiveIn(h) : h[m].parent \in M \cup {Root} => m \in M
      PROVE  LiveIn(h) \subseteq M
  <2>1. \A m \in LiveIn(f) : f[m].parent \in M \cup {Root} => m \in M
    BY <1>1, <1>2, <1>3, <1>4
  <2>2. LiveIn(f) \subseteq M
    BY <2>1 DEF Rooted
  <2>3. n \in M
    BY <1>1, <1>2, <1>4, <2>2 DEF KindFits
  <2> QED
    BY <1>2, <2>2, <2>3
<1>5. ASSUME NEW m \in LiveIn(h) PROVE KindFits(h, h[m].kind, h[m].parent)
  <2>1. \A kind, parent : KindFits(f, kind, parent) => KindFits(h, kind, parent)
    BY <1>1, <1>2, <1>3 DEF KindFits
  <2>2. KindFits(f, h[m].kind, h[m].parent)
    BY <1>1, <1>2, <1>3, <1>5 DEF KindsFit
  <2> QED
    BY <2>1, <2>2
<1> QED
  BY <1>2, <1>4, <1>5 DEF Rooted, KindsFit

\* A node that moves, with what hangs below it, to a parent that does not hang
\* below it.
LEMMA MoveKeepsOrder ==
  ASSUME NEW f \in [Nodes -> NodeRow], NEW n \in LiveIn(f),
         NEW new \in NodeRow, new.state = "live", KindFits(f, new.kind, new.parent),
         new.parent \notin BelowIn(f, {n}),
         BelowFits(f, n, new.kind),
         Rooted(f), KindsFit(f),
         NEW h, h = [f EXCEPT ![n] = new]
  PROVE  Rooted(h) /\ KindsFit(h) /\ LiveIn(h) = LiveIn(f)
<1>1. n \in Nodes /\ h[n] = new /\ \A m \in Nodes : m # n => h[m] = f[m]
  BY DEF LiveIn
<1>2. LiveIn(h) = LiveIn(f)
  BY <1>1 DEF LiveIn
<1>3. \A m \in LiveIn(f) : m \in Nodes /\ m # Root
  BY DEF LiveIn
<1>4. n \in BelowIn(f, {n}) /\ Downward(f, BelowIn(f, {n})) /\ new.parent # n
  BY BelowGrows
<1>5. ASSUME NEW M \in SUBSET Nodes,
             \A m \in LiveIn(h) : h[m].parent \in M \cup {Root} => m \in M
      PROVE  LiveIn(h) \subseteq M
  <2> DEFINE D == BelowIn(f, {n})
  <2>1. D \in SUBSET Nodes
    BY <1>1 DEF BelowIn, LiveIn
  <2>2. \A m \in LiveIn(f) : f[m].parent \in M \cup D \cup {Root} => m \in M \cup D
    BY <1>1, <1>2, <1>3, <1>4, <1>5 DEF Downward
  <2>3. LiveIn(f) \subseteq M \cup D
    <3> DEFINE K == M \cup D
    <3>1. K \in SUBSET Nodes /\ \A m \in LiveIn(f) : f[m].parent \in K \cup {Root} => m \in K
      BY <2>1, <2>2
    <3> HIDE DEF K
    <3>2. LiveIn(f) \subseteq K
      BY <3>1 DEF Rooted
    <3> QED
      BY <3>2 DEF K
  <2>4. n \in M
    BY <1>1, <1>2, <1>5, <2>3 DEF KindFits
  <2>5. Downward(f, M)
    BY <1>1, <1>2, <1>3, <1>5, <2>4 DEF Downward
  <2>6. D \subseteq M
    BY <2>4, <2>5, BelowLeast
  <2> QED
    BY <1>2, <2>3, <2>6
<1>6. ASSUME NEW m \in LiveIn(h) PROVE KindFits(h, h[m].kind, h[m].parent)
  <2>1. CASE m = n
    BY <1>1, <1>2, <1>3, <1>4, <2>1 DEF KindFits
  <2>2. CASE m # n
    <3>1. h[m] = f[m] /\ KindFits(f, f[m].kind, f[m].parent)
      BY <1>1, <1>2, <1>3, <2>2 DEF KindsFit
    <3>2. CASE f[m].parent = n
      BY <1>1, <1>2, <2>2, <3>1, <3>2 DEF KindFits, BelowFits
    <3>3. CASE f[m].parent # n
      BY <1>1, <1>2, <1>3, <3>1, <3>3 DEF KindFits
    <3> QED
      BY <3>2, <3>3
  <2> QED
    BY <2>1, <2>2
<1> QED
  BY <1>2, <1>5, <1>6 DEF Rooted, KindsFit

LEMMA RemoveKeepsOrder ==
  ASSUME NEW f \in [Nodes -> NodeRow], NEW N \in SUBSET Nodes, Downward(f, N),
         Rooted(f), KindsFit(f), NEW h \in [Nodes -> NodeRow],
         \A m \in Nodes : h[m] = IF m \in N \cap LiveIn(f)
                                THEN [f[m] EXCEPT !.state = "deleted"] ELSE f[m]
  PROVE  Rooted(h) /\ KindsFit(h) /\ LiveIn(h) = LiveIn(f) \ N
<1>1. \A m \in N \cap LiveIn(f) : h[m].state = "deleted"
  BY DEF NodeRow
<1>2. \A m \in Nodes \ (N \cap LiveIn(f)) : h[m] = f[m]
  OBVIOUS
<1>3. LiveIn(h) = LiveIn(f) \ N
  BY <1>1, <1>2 DEF LiveIn
<1>4. \A m \in LiveIn(h) : h[m] = f[m] /\ f[m].parent \notin N /\ m \in LiveIn(f) \ N
  BY <1>2, <1>3 DEF Downward, LiveIn
<1>5. ASSUME NEW M \in SUBSET Nodes,
             \A m \in LiveIn(h) : h[m].parent \in M \cup {Root} => m \in M
      PROVE  LiveIn(h) \subseteq M
  <2> DEFINE K == M \cup N
  <2>1. K \in SUBSET Nodes /\ \A m \in LiveIn(f) : f[m].parent \in K \cup {Root} => m \in K
    BY <1>3, <1>4, <1>5
  <2> HIDE DEF K
  <2>2. LiveIn(f) \subseteq K
    BY <2>1 DEF Rooted
  <2> QED
    BY <1>3, <2>2 DEF K
<1>6. ASSUME NEW m \in LiveIn(h) PROVE KindFits(h, h[m].kind, h[m].parent)
  <2>1. KindFits(f, h[m].kind, h[m].parent) /\ h[m].parent \notin N
    BY <1>4 DEF KindsFit
  <2>2. h[m].parent \in LiveIn(f) => h[m].parent \in LiveIn(h) /\ h[h[m].parent] = f[h[m].parent]
    BY <1>2, <1>3, <2>1 DEF LiveIn
  <2> QED
    BY <2>1, <2>2 DEF KindFits
<1> QED
  BY <1>3, <1>5, <1>6 DEF Rooted, KindsFit

\* The status of a row is no part of the order.
LEMMA StatusKeepsOrder ==
  ASSUME NEW f, NEW h, Rooted(f), KindsFit(f),
         \A m \in Nodes : /\ h[m].state = f[m].state /\ h[m].kind = f[m].kind
                         /\ h[m].parent = f[m].parent
  PROVE  Rooted(h) /\ KindsFit(h) /\ LiveIn(h) = LiveIn(f)
<1>1. LiveIn(h) = LiveIn(f) /\ LiveIn(f) \subseteq Nodes
  BY DEF LiveIn
<1>2. Rooted(h)
  BY <1>1 DEF Rooted
<1>3. KindsFit(h)
  BY <1>1 DEF KindsFit, KindFits
<1> QED
  BY <1>1, <1>2, <1>3

\* A change below the grants of a role does not change what the role opens.
LEMMA HalfOpen ==
  ASSUME NEW f, NEW h, NEW E, \A n \in Nodes \ E : h[n] = f[n],
         Downward(f, E), Downward(h, E), NEW P, P \cap E = {}
  PROVE  OpenedIn(f, P) \subseteq OpenedIn(h, P) /\ OpenedIn(f, P) \cap E = {}
<1>1. EnabledIn(f) \subseteq Nodes /\ EnabledIn(f) \subseteq LiveIn(f) /\ LiveIn(f) \subseteq Nodes
  BY DEF EnabledIn, LiveIn
<1>2. \A m \in EnabledIn(f) \ E : m \in EnabledIn(h) /\ h[m].parent = f[m].parent
  BY DEF EnabledIn, LiveIn
<1>3. \A m \in LiveIn(f) \ E : m \in LiveIn(h) /\ h[m].parent = f[m].parent
  BY DEF LiveIn
<1>4. StandingIn(f) \subseteq StandingIn(h) \cup E
  <2> DEFINE M == StandingIn(h) \cup E
  <2>1. ASSUME NEW m \in EnabledIn(f), f[m].parent \in M \cup {Root} PROVE m \in M
    <3>1. CASE f[m].parent \in E
      BY <1>1, <3>1 DEF Downward
    <3>2. CASE f[m].parent \in StandingIn(h) \cup {Root}
      BY <1>2, <3>2, StandingGrows DEF Grown
    <3> QED
      BY <2>1, <3>1, <3>2
  <2> HIDE DEF M
  <2>2. Grown(f, M)
    BY <2>1 DEF Grown
  <2>3. StandingIn(f) \subseteq M
    BY <2>2, StandingLeast
  <2> QED
    BY <2>3 DEF M
<1>5. ASSUME NEW n PROVE BelowIn(f, {n}) \subseteq BelowIn(h, {n}) \cup E
  <2> DEFINE M == BelowIn(h, {n}) \cup E
  <2>1. ASSUME NEW c \in LiveIn(f), f[c].parent \in M PROVE c \in M
    <3>1. CASE f[c].parent \in E
      BY <3>1 DEF Downward
    <3>2. CASE f[c].parent \in BelowIn(h, {n})
      BY <1>3, <3>2, BelowGrows DEF Downward
    <3> QED
      BY <2>1, <3>1, <3>2
  <2>2. {n} \subseteq M
    BY BelowGrows
  <2> HIDE DEF M
  <2>3. Downward(f, M)
    BY <2>1 DEF Downward
  <2>4. BelowIn(f, {n}) \subseteq M
    BY <2>2, <2>3, BelowLeast
  <2> QED
    BY <2>4 DEF M
<1>6. ASSUME NEW n \in E PROVE BelowIn(f, {n}) \subseteq E
  BY BelowLeast
<1>7. ASSUME NEW n \in OpenedIn(f, P) PROVE n \in OpenedIn(h, P) /\ n \notin E
  <2>1. PICK g \in BelowIn(f, {n}) : g \in P \cap StandingIn(f)
    BY <1>7 DEF OpenedIn
  <2>2. g \notin E
    BY <2>1
  <2>3. n \notin E
    BY <1>6, <2>1, <2>2
  <2>4. n \in StandingIn(h) /\ g \in StandingIn(h) /\ g \in BelowIn(h, {n})
    BY <1>4, <1>5, <1>7, <2>1, <2>2, <2>3 DEF OpenedIn
  <2> QED
    BY <2>1, <2>3, <2>4 DEF OpenedIn
<1> QED
  BY <1>7

LEMMA SameOpen ==
  ASSUME NEW f, NEW h, NEW E, \A n \in Nodes \ E : h[n] = f[n],
         Downward(f, E), Downward(h, E), NEW P, P \cap E = {}
  PROVE  /\ OpenedIn(h, P) = OpenedIn(f, P)
         /\ \A n \in OpenedIn(f, P) : h[n] = f[n]
<1>1. OpenedIn(f, P) \subseteq OpenedIn(h, P) /\ OpenedIn(f, P) \cap E = {}
  BY HalfOpen
<1>2. OpenedIn(h, P) \subseteq OpenedIn(f, P)
  BY HalfOpen
<1>3. OpenedIn(f, P) \subseteq Nodes
  BY DEF OpenedIn, StandingIn, EnabledIn, LiveIn
<1> QED
  BY <1>1, <1>2, <1>3

-----------------------------------------------------------------------------
(* The invariant.  Tables and requests have their types; and with a crew of *)
(* one the tables are in order, at most one request is under way, and what  *)
(* it checked when it was asked still holds of the tables it will change.   *)

RoleRow == [state : {"live", "deleted"}, default : BOOLEAN]

DeskTyped(q) ==
  /\ q.op \in {"insert", "restore", "update"} => q.node \in Nodes /\ q.row \in NodeRow
  /\ q.op = "status" => q.node \in Nodes /\ q.on \in BOOLEAN
  /\ q.op = "delete" => q.nodes \in SUBSET Nodes
  /\ q.op \in {"revive", "sync"} => q.role \in RoleIds /\ q.grants \in SUBSET Nodes
  /\ q.op \in {"drop", "default"} => q.role \in RoleIds
  /\ q.op = "assign" => q.user \in Members /\ q.role \in RoleIds

PermissionTypeOK ==
  /\ node \in [Nodes -> NodeRow]
  /\ roleRow \in [RoleIds -> RoleRow]
  /\ granted \in [RoleIds -> SUBSET Nodes]
  /\ member \in [Members -> RoleIds]
  /\ desk \in [Admins -> {desk[a] : a \in Admins}]
  /\ \A a \in Admins : DeskTyped(desk[a])

GrantsLive(f, rr, g) ==
  \A r \in RoleIds : g[r] \subseteq LiveIn(f) /\ (rr[r].state # "live" => g[r] = {})

Defaults(rr) == {x \in RoleIds : rr[x].state = "live" /\ rr[x].default}

MembersLive(rr, m) == \A u \in Members : rr[m[u]].state = "live"

\* Trees, roles, grants and members in order.
Ordered(f, rr, g, m) ==
  /\ Rooted(f) /\ KindsFit(f) /\ GrantsLive(f, rr, g) /\ MembersLive(rr, m)
  /\ \E r \in RoleIds : Defaults(rr) = {r}

Holders(g, m, N) == {u \in Members : m[u] \in {r \in RoleIds : g[r] \cap N # {}}}

StillFits(f, rr, g, m, q) ==
  /\ q.op = "insert" => f[q.node].state = "absent"
  /\ q.op = "restore" => f[q.node].state = "deleted"
  /\ q.op \in {"insert", "restore", "update"} =>
       q.row.state = "live" /\ KindFits(f, q.row.kind, q.row.parent)
  /\ q.op = "update" =>
       /\ q.node \in LiveIn(f) /\ q.row.parent \notin BelowIn(f, {q.node})
       /\ BelowFits(f, q.node, q.row.kind)
  /\ q.op \in {"update", "status"} => q.subjects = Holders(g, m, BelowIn(f, {q.node}))
  /\ q.op = "delete" => Downward(f, q.nodes) /\ q.subjects = Holders(g, m, q.nodes)
  /\ q.op = "revive" => rr[q.role].state # "live" /\ q.grants \subseteq LiveIn(f)
  /\ q.op = "sync" => /\ rr[q.role].state = "live" /\ q.grants \subseteq LiveIn(f)
                     /\ q.subjects = {u \in Members : m[u] = q.role}
  /\ q.op = "drop" => /\ rr[q.role].state = "live" /\ ~rr[q.role].default
                     /\ \A u \in Members : m[u] # q.role
  /\ q.op = "default" => rr[q.role].state = "live"
  /\ q.op = "assign" => rr[q.role].state = "live" /\ q.subjects = {q.user}

OneAtATime ==
  \A a, b \in Admins : desk[a] # NoRequest /\ desk[b] # NoRequest => a = b

AloneInv ==
  crew.size = 1 =>
    /\ OneAtATime
    /\ Ordered(node, roleRow, granted, member)
    /\ \A a \in Admins : StillFits(node, roleRow, granted, member, desk[a])

PermissionInv == PermissionTypeOK /\ AloneInv

-----------------------------------------------------------------------------
(* The checks of a request make it fit.                                    *)

LEMMA RowTyped ==
  ASSUME NEW kind \in Kinds, NEW parent \in Nodes \cup {Root}
  PROVE  /\ Row(kind, parent) \in NodeRow /\ Row(kind, parent).state = "live"
         /\ Row(kind, parent).kind = kind /\ Row(kind, parent).parent = parent
BY DEF Row, NodeRow

LEMMA ParentFitsAsked ==
  ASSUME NEW kind, NEW parent, NEW N, ParentFits(kind, parent, N)
  PROVE  KindFits(node, kind, parent) /\ parent \notin BelowIn(node, N)
BY TreeOfNode DEF ParentFits, KindFits

LEMMA ChildrenFitAsked ==
  ASSUME NEW kind \in Kinds, NEW n, ChildrenFit(kind, n)
  PROVE  BelowFits(node, n, kind)
<1>1. ASSUME NEW c \in LiveIn(node), node[c].parent = n
      PROVE  kind = IF node[c].kind = "button" THEN "page" ELSE "dir"
  <2>1. c \in ActiveChildren(n)
    BY <1>1, TreeOfNode DEF ActiveChildren
  <2> QED
    BY <2>1 DEF ChildrenFit, Kinds
<1> QED
  BY <1>1 DEF BelowFits

LEMMA AssignableLive ==
  ASSUME NEW N PROVE Assignable(N) \subseteq LiveIn(node)
BY DEF Assignable, Enabled, LiveNodes, LiveIn

LEMMA ConcernedHold ==
  ASSUME NEW N
  PROVE  /\ Concerned(N, FALSE) = Holders(granted, member, N)
         /\ Concerned(N, TRUE) = Holders(granted, member, BelowIn(node, N))
BY TreeOfNode DEF Concerned, UsersOfRoles, RoleIDsByPermissionIDs, Holders

Fitting(q) == DeskTyped(q) /\ StillFits(node, roleRow, granted, member, q)

LEMMA CreateFits ==
  ASSUME PermissionTypeOK, NEW a \in Admins, NEW n \in Nodes, NEW kind \in Kinds,
         NEW parent \in Nodes \cup {Root}, CreatePermission(a, n, kind, parent)
  PROVE  \E q : Ask(a, q) /\ Fitting(q)
<1>1. Row(kind, parent) \in NodeRow /\ Row(kind, parent).state = "live"
      /\ KindFits(node, Row(kind, parent).kind, Row(kind, parent).parent)
  BY RowTyped, ParentFitsAsked DEF CreatePermission
<1> DEFINE q == [op |-> "insert", node |-> n, row |-> Row(kind, parent), subjects |-> {}]
           p == [op |-> "restore", node |-> n, row |-> Row(kind, parent),
                 subjects |-> Concerned({n}, FALSE)]
<1>2. CASE node[n].state = "absent" /\ Ask(a, q)
  <2>1. Fitting(q)
    BY <1>1, <1>2 DEF Fitting, DeskTyped, StillFits
  <2> QED
    BY <1>2, <2>1
<1>3. CASE node[n].state = "deleted" /\ Ask(a, p)
  <2>1. Fitting(p)
    BY <1>1, <1>3 DEF Fitting, DeskTyped, StillFits
  <2> QED
    BY <1>3, <2>1
<1> QED
  BY <1>2, <1>3 DEF CreatePermission

LEMMA EditFits ==
  ASSUME PermissionTypeOK, NEW a \in Admins, NEW n \in Nodes, NEW kind \in Kinds,
         NEW parent \in Nodes \cup {Root}, EditPermission(a, n, kind, parent)
  PROVE  \E q : Ask(a, q) /\ Fitting(q)
<1> DEFINE new == Row(kind, parent)
           q == [op |-> "update", node |-> n, row |-> new, subjects |-> Concerned({n}, TRUE)]
<1>1. new \in NodeRow /\ new.state = "live" /\ new.kind = kind /\ new.parent = parent
  BY RowTyped
<1>2. KindFits(node, kind, parent) /\ parent \notin BelowIn(node, {n}) /\ n \in LiveIn(node)
  BY ParentFitsAsked, TreeOfNode DEF EditPermission
<1>3. BelowFits(node, n, kind)
  BY ChildrenFitAsked DEF EditPermission
<1>4. Concerned({n}, TRUE) = Holders(granted, member, BelowIn(node, {n}))
  BY ConcernedHold
<1> HIDE DEF new
<1>5. Fitting(q)
  BY <1>1, <1>2, <1>3, <1>4 DEF Fitting, DeskTyped, StillFits
<1> QED
  BY <1>5 DEF EditPermission, new

LEMMA StatusFits ==
  ASSUME PermissionTypeOK, NEW a \in Admins, NEW n \in Nodes, NEW on \in BOOLEAN,
         ChangeStatus(a, n, on)
  PROVE  \E q : Ask(a, q) /\ Fitting(q)
<1> DEFINE q == [op |-> "status", node |-> n, on |-> on, subjects |-> Concerned({n}, TRUE)]
<1>1. Concerned({n}, TRUE) = Holders(granted, member, BelowIn(node, {n}))
  BY ConcernedHold
<1>2. Fitting(q)
  BY <1>1 DEF Fitting, DeskTyped, StillFits
<1> QED
  BY <1>2 DEF ChangeStatus

LEMMA DeleteFits ==
  ASSUME PermissionTypeOK, NEW a \in Admins, NEW N \in SUBSET Nodes, DeletePermissions(a, N)
  PROVE  \E q : Ask(a, q) /\ Fitting(q)
<1> DEFINE q == [op |-> "delete", nodes |-> N, subjects |-> Concerned(N, FALSE)]
<1>1. Concerned(N, FALSE) = Holders(granted, member, N)
  BY ConcernedHold
<1>2. ASSUME NEW c \in LiveIn(node), node[c].parent \in N PROVE c \in N
  <2>1. c \in ActiveChildren(node[c].parent)
    BY TreeOfNode DEF ActiveChildren
  <2> QED
    BY <1>2, <2>1 DEF DeletePermissions
<1>3. Fitting(q)
  BY <1>1, <1>2 DEF Fitting, DeskTyped, StillFits, Downward
<1> QED
  BY <1>3 DEF DeletePermissions

LEMMA RoleRequestFits ==
  ASSUME PermissionTypeOK, NEW a \in Admins, NEW r \in RoleIds,
         \/ \E N \in SUBSET LiveNodes : CreateRole(a, r, N) \/ EditRole(a, r, N)
         \/ DeleteRole(a, r) \/ SetDefault(a, r)
  PROVE  \E q : Ask(a, q) /\ Fitting(q)
<1>1. r \in LiveRoles <=> roleRow[r].state = "live"
  BY DEF LiveRoles
<1>2. UsersOfRoles({r}) = {u \in Members : member[u] = r}
  BY DEF UsersOfRoles
<1>3. LiveIn(node) \subseteq Nodes
  BY DEF LiveIn
<1>4. CASE \E N \in SUBSET LiveNodes : CreateRole(a, r, N) \/ EditRole(a, r, N)
  <2>1. PICK N \in SUBSET LiveNodes : CreateRole(a, r, N) \/ EditRole(a, r, N)
    BY <1>4
  <2> DEFINE q == [op |-> "revive", role |-> r, grants |-> Assignable(N),
                   subjects |-> UsersOfRoles({r})]
             p == [op |-> "sync", role |-> r, grants |-> Assignable(N),
                   subjects |-> UsersOfRoles({r})]
  <2>2. Assignable(N) \in SUBSET LiveIn(node)
    BY AssignableLive
  <2>3. CASE CreateRole(a, r, N)
    <3>1. Fitting(q)
      BY <1>1, <1>3, <2>2, <2>3 DEF Fitting, DeskTyped, StillFits, CreateRole
    <3> QED
      BY <2>3, <3>1 DEF CreateRole
  <2>4. CASE EditRole(a, r, N)
    <3>1. Fitting(p)
      BY <1>1, <1>2, <1>3, <2>2, <2>4 DEF Fitting, DeskTyped, StillFits, EditRole
    <3> QED
      BY <2>4, <3>1 DEF EditRole
  <2> QED
    BY <2>1, <2>3, <2>4
<1>5. CASE DeleteRole(a, r)
  <2> DEFINE q == [op |-> "drop", role |-> r, subjects |-> {}]
  <2>1. Fitting(q)
    BY <1>1, <1>2, <1>5 DEF Fitting, DeskTyped, StillFits, DeleteRole
  <2> QED
    BY <1>5, <2>1 DEF DeleteRole
<1>6. CASE SetDefault(a, r)
  <2> DEFINE q == [op |-> "default", role |-> r, subjects |-> {}]
  <2>1. Fitting(q)
    BY <1>1, <1>6 DEF Fitting, DeskTyped, StillFits, SetDefault
  <2> QED
    BY <1>6, <2>1 DEF SetDefault
<1> QED
  BY <1>4, <1>5, <1>6

LEMMA AssignFits ==
  ASSUME PermissionTypeOK, NEW a \in Admins, NEW u \in Members, NEW r \in RoleIds,
         AssignRole(a, u, r)
  PROVE  \E q : Ask(a, q) /\ Fitting(q)
<1> DEFINE q == [op |-> "assign", user |-> u, role |-> r, subjects |-> {u}]
<1>1. Fitting(q)
  BY DEF Fitting, DeskTyped, StillFits, AssignRole, LiveRoles
<1> QED
  BY <1>1 DEF AssignRole

LEMMA AskKeeps ==
  ASSUME PermissionInv, NEW a \in Admins, MayAsk(a), AskSomething(a)
  PROVE  PermissionInv'
<1>1. PICK q : Ask(a, q) /\ Fitting(q)
  BY CreateFits, EditFits, StatusFits, DeleteFits, RoleRequestFits, AssignFits
     DEF AskSomething, PermissionInv
<1>2. UNCHANGED <<node, roleRow, granted, member, crew>>
  BY <1>1 DEF Ask
<1>3. desk' = [desk EXCEPT ![a] = q] /\ DeskTyped(q)
  BY <1>1 DEF Ask, Fitting
<1>4. desk'[a] = q /\ \A b \in Admins : b # a => desk'[b] = desk[b]
  BY <1>3 DEF PermissionInv, PermissionTypeOK
<1>5. PermissionTypeOK'
  <2>1. desk' \in [Admins -> {desk'[b] : b \in Admins}]
    BY <1>3 DEF PermissionInv, PermissionTypeOK
  <2> QED
    BY <1>2, <1>3, <1>4, <2>1 DEF PermissionInv, PermissionTypeOK
<1>6. ASSUME crew.size = 1
      PROVE  /\ \A b, c \in Admins : desk'[b] # NoRequest /\ desk'[c] # NoRequest => b = c
             /\ \A b \in Admins : StillFits(node, roleRow, granted, member, desk'[b])
  <2> DEFINE others == {b \in Admins : desk[b] # NoRequest}
  <2>1. Cardinality(others) < 1
    BY <1>6 DEF MayAsk
  <2>2. IsFiniteSet(others)
    BY FS_Subset
  <2>3. Cardinality(others) = 0
    BY <2>1, <2>2, FS_CardinalityType
  <2>4. others = {}
    BY <2>2, <2>3, FS_EmptySet
  <2>5. \A b \in Admins : b # a => desk'[b] = NoRequest
    BY <1>4, <2>4
  <2>6. \A b \in Admins : StillFits(node, roleRow, granted, member, desk'[b])
    BY <1>1, <1>4, <1>6 DEF Fitting, PermissionInv, AloneInv
  <2> QED
    BY <2>5, <2>6
<1>7. AloneInv'
  BY <1>2, <1>6 DEF PermissionInv, AloneInv, OneAtATime
<1> QED
  BY <1>5, <1>7 DEF PermissionInv

-----------------------------------------------------------------------------
(* The transaction of a request keeps the tables in order.                 *)

TablesTyped(f, rr, g, m) ==
  /\ f \in [Nodes -> NodeRow] /\ rr \in [RoleIds -> RoleRow]
  /\ g \in [RoleIds -> SUBSET Nodes] /\ m \in [Members -> RoleIds]

\* The tables stay typed, and in order with a crew of one.
TablesKept ==
  /\ TablesTyped(node', roleRow', granted', member')
  /\ crew.size = 1 => Ordered(node', roleRow', granted', member')

LEMMA TablesNow ==
  ASSUME PermissionInv, NEW a \in Admins
  PROVE  /\ TablesTyped(node, roleRow, granted, member) /\ DeskTyped(desk[a])
         /\ crew.size = 1 => /\ Ordered(node, roleRow, granted, member)
                            /\ StillFits(node, roleRow, granted, member, desk[a])
BY DEF PermissionInv, PermissionTypeOK, AloneInv, TablesTyped

LEMMA InsertKeeps ==
  ASSUME PermissionInv, NEW a \in Admins, InsertPermission(a) \/ RestorePermission(a)
  PROVE  TablesKept
<1> DEFINE q == desk[a]
<1>1. TablesTyped(node, roleRow, granted, member) /\ DeskTyped(q)
  BY TablesNow
<1>2. q.op \in {"insert", "restore"} /\ q.node \in Nodes /\ q.row \in NodeRow
  BY <1>1 DEF InsertPermission, RestorePermission, Done, DeskTyped
<1>3. node' = node \/ node' = [node EXCEPT ![q.node] = q.row]
  BY DEF InsertPermission, RestorePermission, Where
<1>4. granted' = granted \/ granted' = [r \in RoleIds |-> granted[r] \ {q.node}]
  BY DEF InsertPermission, RestorePermission
<1>5. UNCHANGED <<roleRow, member>>
  BY DEF InsertPermission, RestorePermission
<1>6. granted' \in [RoleIds -> SUBSET Nodes] /\ \A r \in RoleIds : granted'[r] \subseteq granted[r]
  BY <1>1, <1>4 DEF TablesTyped
<1>7. TablesTyped(node', roleRow', granted', member')
  BY <1>1, <1>2, <1>3, <1>5, <1>6 DEF TablesTyped
<1>8. ASSUME crew.size = 1 PROVE Ordered(node', roleRow', granted', member')
  <2>1. Ordered(node, roleRow, granted, member) /\ StillFits(node, roleRow, granted, member, q)
    BY <1>8, TablesNow
  <2>2. /\ node[q.node].state # "live" /\ q.row.state = "live"
        /\ KindFits(node, q.row.kind, q.row.parent)
    BY <1>2, <2>1 DEF StillFits
  <2>3. Rooted(node') /\ KindsFit(node') /\ LiveIn(node) \subseteq LiveIn(node')
    <3>1. CASE node' = node
      BY <2>1, <3>1 DEF Ordered
    <3>2. CASE node' = [node EXCEPT ![q.node] = q.row]
      <4>1. node \in [Nodes -> NodeRow] /\ Rooted(node) /\ KindsFit(node)
        BY <1>1, <2>1 DEF Ordered, TablesTyped
      <4> HIDE DEF q
      <4>2. Rooted(node') /\ KindsFit(node') /\ LiveIn(node') = LiveIn(node) \cup {q.node}
        BY <1>2, <2>2, <3>2, <4>1, AddKeepsOrder
      <4> QED
        BY <4>2
    <3> QED
      BY <1>3, <3>1, <3>2
  <2>4. GrantsLive(node', roleRow, granted')
    BY <1>6, <2>1, <2>3 DEF Ordered, GrantsLive
  <2> QED
    BY <1>5, <2>1, <2>3, <2>4 DEF Ordered
<1> QED
  BY <1>7, <1>8 DEF TablesKept

LEMMA UpdateKeeps ==
  ASSUME PermissionInv, NEW a \in Admins, UpdatePermission(a)
  PROVE  TablesKept
<1> DEFINE q == desk[a]
           new == [q.row EXCEPT !.on = node[q.node].on]
<1>1. TablesTyped(node, roleRow, granted, member) /\ DeskTyped(q)
  BY TablesNow
<1>2. q.op = "update" /\ q.node \in Nodes /\ q.row \in NodeRow
  BY <1>1 DEF UpdatePermission, Done, DeskTyped
<1>3. new \in NodeRow /\ new.state = q.row.state /\ new.kind = q.row.kind /\ new.parent = q.row.parent
  BY <1>1, <1>2 DEF TablesTyped, NodeRow
<1>4. node' = node \/ node' = [node EXCEPT ![q.node] = new]
  BY DEF UpdatePermission, Where
<1>5. UNCHANGED <<roleRow, granted, member>>
  BY DEF UpdatePermission
<1> HIDE DEF new
<1>6. TablesTyped(node', roleRow', granted', member')
  BY <1>1, <1>2, <1>3, <1>4, <1>5 DEF TablesTyped
<1>7. ASSUME crew.size = 1 PROVE Ordered(node', roleRow', granted', member')
  <2>1. Ordered(node, roleRow, granted, member) /\ StillFits(node, roleRow, granted, member, q)
    BY <1>7, TablesNow
  <2>2. /\ new.state = "live" /\ KindFits(node, new.kind, new.parent)
        /\ q.node \in LiveIn(node) /\ new.parent \notin BelowIn(node, {q.node})
        /\ BelowFits(node, q.node, new.kind)
    BY <1>2, <1>3, <2>1 DEF StillFits
  <2>3. Rooted(node') /\ KindsFit(node') /\ LiveIn(node') = LiveIn(node)
    <3>1. CASE node' = node
      BY <2>1, <3>1 DEF Ordered
    <3>2. CASE node' = [node EXCEPT ![q.node] = new]
      <4>1. node \in [Nodes -> NodeRow] /\ Rooted(node) /\ KindsFit(node)
        BY <1>1, <2>1 DEF Ordered, TablesTyped
      <4> DEFINE n == q.node
      <4> HIDE DEF q, n
      <4>2. n \in LiveIn(node) /\ new.parent \notin BelowIn(node, {n}) /\ node' = [node EXCEPT ![n] = new]
        BY <2>2, <3>2 DEF n
      <4>3. BelowFits(node, n, new.kind)
        BY <2>2 DEF n
      <4> QED
        BY <1>3, <2>2, <4>1, <4>2, <4>3, MoveKeepsOrder
    <3> QED
      BY <1>4, <3>1, <3>2
  <2>4. GrantsLive(node', roleRow, granted)
    BY <2>1, <2>3 DEF Ordered, GrantsLive
  <2> QED
    BY <1>5, <2>1, <2>3, <2>4 DEF Ordered
<1> QED
  BY <1>6, <1>7 DEF TablesKept

LEMMA StatusKeeps ==
  ASSUME PermissionInv, NEW a \in Admins, UpdateStatus(a)
  PROVE  TablesKept
<1> DEFINE q == desk[a]
           new == [node[q.node] EXCEPT !.on = q.on]
<1>1. TablesTyped(node, roleRow, granted, member) /\ DeskTyped(q)
  BY TablesNow
<1>2. q.op = "status" /\ q.node \in Nodes /\ q.on \in BOOLEAN
  BY <1>1 DEF UpdateStatus, Done, DeskTyped
<1>3. /\ new \in NodeRow /\ new.state = node[q.node].state
      /\ new.kind = node[q.node].kind /\ new.parent = node[q.node].parent
  BY <1>1, <1>2 DEF TablesTyped, NodeRow
<1>4. node' = node \/ node' = [node EXCEPT ![q.node] = new]
  BY DEF UpdateStatus, Where
<1>5. UNCHANGED <<roleRow, granted, member>>
  BY DEF UpdateStatus
<1> HIDE DEF new
<1>6. TablesTyped(node', roleRow', granted', member')
  BY <1>1, <1>2, <1>3, <1>4, <1>5 DEF TablesTyped
<1>7. ASSUME crew.size = 1 PROVE Ordered(node', roleRow', granted', member')
  <2>1. Ordered(node, roleRow, granted, member)
    BY <1>7, TablesNow
  <2>2. \A m \in Nodes : /\ node'[m].state = node[m].state /\ node'[m].kind = node[m].kind
                        /\ node'[m].parent = node[m].parent
    BY <1>1, <1>3, <1>4 DEF TablesTyped
  <2>3. Rooted(node') /\ KindsFit(node') /\ LiveIn(node') = LiveIn(node)
    BY <2>1, <2>2, StatusKeepsOrder DEF Ordered
  <2>4. GrantsLive(node', roleRow, granted)
    BY <2>1, <2>3 DEF Ordered, GrantsLive
  <2> QED
    BY <1>5, <2>1, <2>3, <2>4 DEF Ordered
<1> QED
  BY <1>6, <1>7 DEF TablesKept

LEMMA RemoveKeeps ==
  ASSUME PermissionInv, NEW a \in Admins, RemovePermissions(a)
  PROVE  TablesKept
<1> DEFINE q == desk[a]
<1>1. TablesTyped(node, roleRow, granted, member) /\ DeskTyped(q)
  BY TablesNow
<1>2. q.op = "delete" /\ q.nodes \in SUBSET Nodes
  BY <1>1 DEF RemovePermissions, Done, DeskTyped
<1>3. \A n \in Nodes : node'[n] = IF n \in q.nodes \cap LiveIn(node)
                                 THEN [node[n] EXCEPT !.state = "deleted"] ELSE node[n]
  BY TreeOfNode DEF RemovePermissions
<1>4. node' \in [Nodes -> NodeRow]
  <2>1. \A n \in Nodes : [node[n] EXCEPT !.state = "deleted"] \in NodeRow /\ node[n] \in NodeRow
    BY <1>1 DEF TablesTyped, NodeRow
  <2> QED
    BY <2>1 DEF RemovePermissions
<1>5. granted' = [r \in RoleIds |-> granted[r] \ q.nodes] /\ UNCHANGED <<roleRow, member>>
  BY DEF RemovePermissions
<1>6. TablesTyped(node', roleRow', granted', member')
  BY <1>1, <1>4, <1>5 DEF TablesTyped
<1>7. ASSUME crew.size = 1 PROVE Ordered(node', roleRow', granted', member')
  <2>1. Ordered(node, roleRow, granted, member) /\ StillFits(node, roleRow, granted, member, q)
    BY <1>7, TablesNow
  <2>2. Rooted(node') /\ KindsFit(node') /\ LiveIn(node') = LiveIn(node) \ q.nodes
    <3>1. Downward(node, q.nodes) /\ Rooted(node) /\ KindsFit(node)
      BY <1>2, <2>1 DEF StillFits, Ordered
    <3>2. node \in [Nodes -> NodeRow]
      BY <1>1 DEF TablesTyped
    <3> QED
      BY <1>2, <1>3, <1>4, <3>1, <3>2, RemoveKeepsOrder
  <2>3. GrantsLive(node', roleRow, granted')
    BY <1>5, <2>1, <2>2 DEF Ordered, GrantsLive
  <2> QED
    BY <1>5, <2>1, <2>2, <2>3 DEF Ordered
<1> QED
  BY <1>6, <1>7 DEF TablesKept

LEMMA GrantsKeep ==
  ASSUME PermissionInv, NEW a \in Admins, ReviveRole(a) \/ SyncPermissions(a)
  PROVE  TablesKept
<1> DEFINE q == desk[a]
<1>1. TablesTyped(node, roleRow, granted, member) /\ DeskTyped(q)
  BY TablesNow
<1>2. q.op \in {"revive", "sync"} /\ q.role \in RoleIds /\ q.grants \in SUBSET Nodes
  BY <1>1 DEF ReviveRole, SyncPermissions, Done, DeskTyped
<1>3. UNCHANGED <<node, member>> /\ granted' = [granted EXCEPT ![q.role] = q.grants]
  BY DEF ReviveRole, SyncPermissions
<1>4. \/ roleRow' = roleRow
      \/ roleRow' = [roleRow EXCEPT ![q.role] = [state |-> "live", default |-> FALSE]]
  BY DEF ReviveRole, SyncPermissions
<1>5. TablesTyped(node', roleRow', granted', member')
  <2>1. granted' \in [RoleIds -> SUBSET Nodes]
    BY <1>1, <1>2, <1>3 DEF TablesTyped
  <2>2. [state |-> "live", default |-> FALSE] \in RoleRow
    BY DEF RoleRow
  <2>3. roleRow' \in [RoleIds -> RoleRow]
    BY <1>1, <1>4, <2>2 DEF TablesTyped
  <2> QED
    BY <1>1, <1>3, <2>1, <2>3 DEF TablesTyped
<1>6. ASSUME crew.size = 1 PROVE Ordered(node', roleRow', granted', member')
  <2>1. Ordered(node, roleRow, granted, member) /\ StillFits(node, roleRow, granted, member, q)
    BY <1>6, TablesNow
  <2>2. q.grants \subseteq LiveIn(node)
    BY <1>2, <2>1 DEF StillFits
  <2>3. /\ roleRow'[q.role].state = "live"
        /\ \A x \in RoleIds : x # q.role => roleRow'[x] = roleRow[x]
        /\ Defaults(roleRow') = Defaults(roleRow)
    <3>1. CASE ReviveRole(a)
      <4>1. q.op = "revive"
        BY <3>1 DEF ReviveRole, Done
      <4>2. roleRow[q.role].state # "live"
        <5> HIDE DEF q
        <5> QED
          BY <2>1, <4>1 DEF StillFits
      <4>3. roleRow' = [roleRow EXCEPT ![q.role] = [state |-> "live", default |-> FALSE]]
        BY <3>1, <4>2 DEF ReviveRole, LiveRoles
      <4>4. /\ roleRow'[q.role] = [state |-> "live", default |-> FALSE]
            /\ \A x \in RoleIds : x # q.role => roleRow'[x] = roleRow[x]
        BY <1>1, <1>2, <4>3 DEF TablesTyped
      <4> HIDE DEF q
      <4> QED
        BY <4>2, <4>4 DEF Defaults
    <3>2. CASE SyncPermissions(a)
      <4>1. q.op = "sync" /\ roleRow' = roleRow
        BY <3>2 DEF SyncPermissions, Done
      <4> HIDE DEF q
      <4>2. roleRow[q.role].state = "live"
        BY <2>1, <4>1 DEF StillFits
      <4> QED
        BY <4>1, <4>2
    <3> QED
      BY <3>1, <3>2
  <2>4. /\ granted'[q.role] = q.grants
        /\ \A x \in RoleIds : x # q.role => granted'[x] = granted[x]
    BY <1>1, <1>2, <1>3 DEF TablesTyped
  <2>5. GrantsLive(node, roleRow', granted')
    BY <2>1, <2>2, <2>3, <2>4 DEF Ordered, GrantsLive
  <2>6. MembersLive(roleRow', member)
    BY <1>1, <2>1, <2>3 DEF Ordered, MembersLive, TablesTyped
  <2> QED
    BY <1>3, <2>1, <2>3, <2>5, <2>6 DEF Ordered
<1> QED
  BY <1>5, <1>6 DEF TablesKept

LEMMA DropRoleKeeps ==
  ASSUME PermissionInv, NEW a \in Admins, DropRole(a)
  PROVE  TablesKept
<1> DEFINE q == desk[a]
<1>1. TablesTyped(node, roleRow, granted, member) /\ DeskTyped(q)
  BY TablesNow
<1>2. q.op = "drop" /\ q.role \in RoleIds
  BY <1>1 DEF DropRole, Done, DeskTyped
<1>3. /\ UNCHANGED <<node, member>> /\ granted' = [granted EXCEPT ![q.role] = {}]
      /\ roleRow' = [roleRow EXCEPT ![q.role].state = "deleted"]
  BY DEF DropRole
<1>4. TablesTyped(node', roleRow', granted', member')
  BY <1>1, <1>2, <1>3 DEF TablesTyped, RoleRow
<1>5. ASSUME crew.size = 1 PROVE Ordered(node', roleRow', granted', member')
  <2>1. Ordered(node, roleRow, granted, member) /\ StillFits(node, roleRow, granted, member, q)
    BY <1>5, TablesNow
  <2>2. ~roleRow[q.role].default /\ \A u \in Members : member[u] # q.role
    BY <1>2, <2>1 DEF StillFits
  <2>3. /\ roleRow'[q.role].state = "deleted" /\ granted'[q.role] = {}
        /\ \A x \in RoleIds : x # q.role => roleRow'[x] = roleRow[x] /\ granted'[x] = granted[x]
    BY <1>1, <1>2, <1>3 DEF TablesTyped, RoleRow
  <2>4. Defaults(roleRow') = Defaults(roleRow)
    BY <2>2, <2>3 DEF Defaults
  <2>5. MembersLive(roleRow', member)
    BY <1>1, <2>1, <2>2, <2>3 DEF Ordered, MembersLive, TablesTyped
  <2>6. GrantsLive(node, roleRow', granted')
    BY <2>1, <2>3 DEF Ordered, GrantsLive
  <2> QED
    BY <1>3, <2>1, <2>4, <2>5, <2>6 DEF Ordered
<1> QED
  BY <1>4, <1>5 DEF TablesKept

LEMMA DefaultKeeps ==
  ASSUME PermissionInv, NEW a \in Admins, MoveDefault(a)
  PROVE  TablesKept
<1> DEFINE q == desk[a]
<1>1. TablesTyped(node, roleRow, granted, member) /\ DeskTyped(q)
  BY TablesNow
<1>2. q.op = "default" /\ q.role \in RoleIds
  BY <1>1 DEF MoveDefault, Done, DeskTyped
<1>3. UNCHANGED <<node, granted, member>>
  BY DEF MoveDefault
<1>4. roleRow' = [x \in RoleIds |-> IF roleRow[x].state = "live"
                                  THEN [roleRow[x] EXCEPT !.default = x = q.role]
                                  ELSE roleRow[x]]
  BY DEF MoveDefault, LiveRoles
<1>5. \A x \in RoleIds : roleRow'[x].state = roleRow[x].state /\ roleRow'[x] \in RoleRow
  BY <1>1, <1>4 DEF TablesTyped, RoleRow
<1>6. TablesTyped(node', roleRow', granted', member')
  <2>1. roleRow' \in [RoleIds -> RoleRow]
    BY <1>4, <1>5
  <2> QED
    BY <1>1, <1>3, <2>1 DEF TablesTyped
<1>7. ASSUME crew.size = 1 PROVE Ordered(node', roleRow', granted', member')
  <2>1. Ordered(node, roleRow, granted, member) /\ StillFits(node, roleRow, granted, member, q)
    BY <1>7, TablesNow
  <2>2. roleRow[q.role].state = "live"
    BY <1>2, <2>1 DEF StillFits
  <2>3. Defaults(roleRow') = {q.role}
    <3>1. \A x \in RoleIds : roleRow[x].state = "live" => roleRow'[x].default = (x = q.role)
      BY <1>1, <1>4 DEF TablesTyped, RoleRow
    <3>2. \A x \in RoleIds : x \in Defaults(roleRow') <=> roleRow[x].state = "live" /\ roleRow'[x].default
      BY <1>5 DEF Defaults
    <3>3. \A x \in RoleIds : x \in Defaults(roleRow') <=> x = q.role
      <4> HIDE DEF q
      <4> QED
        BY <2>2, <3>1, <3>2, Zenon
    <3> QED
      BY <1>2, <3>3 DEF Defaults
  <2>4. MembersLive(roleRow', member)
    BY <1>1, <1>5, <2>1 DEF Ordered, MembersLive, TablesTyped
  <2>5. GrantsLive(node, roleRow', granted)
    BY <1>5, <2>1 DEF Ordered, GrantsLive
  <2> QED
    BY <1>2, <1>3, <2>1, <2>3, <2>4, <2>5 DEF Ordered
<1> QED
  BY <1>6, <1>7 DEF TablesKept

LEMMA UserRoleKeeps ==
  ASSUME PermissionInv, NEW a \in Admins, UpdateUserRole(a)
  PROVE  TablesKept
<1> DEFINE q == desk[a]
<1>1. TablesTyped(node, roleRow, granted, member) /\ DeskTyped(q)
  BY TablesNow
<1>2. q.op = "assign" /\ q.user \in Members /\ q.role \in RoleIds
  BY <1>1 DEF UpdateUserRole, Done, DeskTyped
<1>3. UNCHANGED <<node, roleRow, granted>> /\ member' = [member EXCEPT ![q.user] = q.role]
  BY DEF UpdateUserRole
<1>4. TablesTyped(node', roleRow', granted', member')
  BY <1>1, <1>2, <1>3 DEF TablesTyped
<1>5. ASSUME crew.size = 1 PROVE Ordered(node', roleRow', granted', member')
  <2>1. Ordered(node, roleRow, granted, member) /\ StillFits(node, roleRow, granted, member, q)
    BY <1>5, TablesNow
  <2>2. roleRow[q.role].state = "live"
    BY <1>2, <2>1 DEF StillFits
  <2>3. MembersLive(roleRow, member')
    BY <1>1, <1>2, <1>3, <2>1, <2>2 DEF Ordered, MembersLive, TablesTyped
  <2> QED
    BY <1>3, <2>1, <2>3 DEF Ordered
<1> QED
  BY <1>4, <1>5 DEF TablesKept

LEMMA SettleKeepsTables ==
  ASSUME PermissionInv, NEW a \in Admins, Settle(a)
  PROVE  /\ TablesKept
         /\ desk' = [desk EXCEPT ![a] = NoRequest] /\ desk[a] # NoRequest /\ crew' = crew
<1>1. CASE RequestFails(a)
  <2>1. TablesKept
    BY <1>1, TablesNow DEF RequestFails, TablesKept
  <2> QED
    BY <1>1, <2>1 DEF RequestFails
<1>2. CASE ~RequestFails(a)
  <2>1. TablesKept
    BY <1>2, InsertKeeps, UpdateKeeps, StatusKeeps, RemoveKeeps, GrantsKeep, DropRoleKeeps,
       DefaultKeeps, UserRoleKeeps DEF Settle
  <2>2. PICK op \in {"insert", "restore", "update", "status", "delete", "revive", "sync",
                     "drop", "default", "assign"} : Done(a, op)
    BY <1>2, Zenon DEF Settle, InsertPermission, RestorePermission, UpdatePermission,
       UpdateStatus, RemovePermissions, ReviveRole, SyncPermissions, DropRole, MoveDefault,
       UpdateUserRole
  <2> QED
    BY <2>1, <2>2 DEF Done, NoRequest
<1> QED
  BY <1>1, <1>2

LEMMA PermissionInvHoldsAtInit == PermissionInit => PermissionInv
<1> SUFFICES ASSUME PermissionInit PROVE PermissionInv
  OBVIOUS
<1>1. PICK other \in {NoRow, Row("dir", Root)} :
        node = [n \in Nodes |-> CASE n = 1 -> Row("dir", Root)
                                 [] n = 2 -> Row("page", 1)
                                 [] n = 3 -> Row("button", 2)
                                 [] OTHER -> other]
  BY DEF PermissionInit
<1>2. /\ node[1] = Row("dir", Root) /\ node[2] = Row("page", 1) /\ node[3] = Row("button", 2)
      /\ \A n \in Nodes : n \notin {1, 2, 3} => node[n] = other
  BY <1>1
<1>3. 1 \in Nodes /\ 2 \in Nodes /\ 3 \in Nodes
  OBVIOUS
<1>4. node \in [Nodes -> NodeRow]
  <2>1. /\ Row("dir", Root) \in NodeRow /\ Row("page", 1) \in NodeRow
        /\ Row("button", 2) \in NodeRow /\ NoRow \in NodeRow
    BY <1>3 DEF Row, NoRow, NodeRow, Kinds
  <2> QED
    BY <1>1, <2>1
<1>5. {1, 2, 3} \subseteq LiveIn(node)
  BY <1>2, <1>3 DEF LiveIn, Row
<1>6. \A n \in LiveIn(node) : n \notin {1, 2, 3} => node[n] = Row("dir", Root)
  BY <1>2 DEF LiveIn, NoRow
<1>7. Rooted(node)
  <2> SUFFICES ASSUME NEW M \in SUBSET Nodes,
                      \A n \in LiveIn(node) : node[n].parent \in M \cup {Root} => n \in M
               PROVE  LiveIn(node) \subseteq M
    BY DEF Rooted
  <2>1. node[1].parent = Root /\ node[2].parent = 1 /\ node[3].parent = 2
    BY <1>2 DEF Row
  <2>2. 1 \in M /\ 2 \in M /\ 3 \in M
    BY <1>5, <2>1
  <2>3. \A n \in LiveIn(node) : n \notin {1, 2, 3} => node[n].parent = Root
    BY <1>6 DEF Row
  <2> QED
    BY <2>2, <2>3
<1>8. KindsFit(node)
  <2>1. ASSUME NEW n \in LiveIn(node), n \notin {1, 2, 3} PROVE KindFits(node, node[n].kind, node[n].parent)
    BY <1>6, <2>1 DEF KindFits, Row
  <2>2. /\ node[1].kind = "dir" /\ node[2].kind = "page" /\ node[3].kind = "button"
        /\ node[1].parent = Root /\ node[2].parent = 1 /\ node[3].parent = 2
    BY <1>2 DEF Row
  <2>3. \A n \in {1, 2, 3} : KindFits(node, node[n].kind, node[n].parent)
    BY <1>5, <2>2 DEF KindFits
  <2> QED
    BY <2>1, <2>3 DEF KindsFit
<1>9. granted \in [RoleIds -> SUBSET Nodes] /\ \A r \in RoleIds : granted[r] \subseteq LiveIn(node)
  BY <1>3, <1>5 DEF PermissionInit
<1>10. /\ roleRow \in [RoleIds -> RoleRow]
       /\ \A r \in RoleIds : roleRow[r].state = "live"
  BY DEF PermissionInit, RoleRow
<1>11. Defaults(roleRow) = {1}
  <2>1. \A r \in RoleIds : roleRow[r].default = (r = 1)
    BY DEF PermissionInit
  <2>2. \A r \in RoleIds : r \in Defaults(roleRow) <=> roleRow[r].default
    BY <1>10, Zenon DEF Defaults
  <2>3. \A r \in RoleIds : r \in Defaults(roleRow) <=> r = 1
    BY <2>1, <2>2, Zenon
  <2> QED
    BY <2>3 DEF Defaults
<1>12. member \in [Members -> RoleIds] /\ MembersLive(roleRow, member)
  BY <1>10 DEF PermissionInit, MembersLive
<1>13. Ordered(node, roleRow, granted, member)
  <2>1. GrantsLive(node, roleRow, granted)
    BY <1>9, <1>10 DEF GrantsLive
  <2> QED
    BY <1>7, <1>8, <1>11, <1>12, <2>1 DEF Ordered
<1>14. desk = [a \in Admins |-> NoRequest]
  BY DEF PermissionInit
<1>15. desk \in [Admins -> {desk[a] : a \in Admins}] /\ \A a \in Admins : desk[a] = NoRequest
  BY <1>14
<1>16. DeskTyped(NoRequest) /\ StillFits(node, roleRow, granted, member, NoRequest)
  BY DEF DeskTyped, StillFits, NoRequest
<1> QED
  BY <1>4, <1>9, <1>10, <1>12, <1>13, <1>15, <1>16
     DEF PermissionInv, PermissionTypeOK, AloneInv, OneAtATime

LEMMA PermissionInvInductive ==
  PermissionInv /\ [PermissionNext]_permissionVars => PermissionInv'
<1> SUFFICES ASSUME PermissionInv, [PermissionNext]_permissionVars PROVE PermissionInv'
  OBVIOUS
<1>1. ASSUME NEW a \in Admins, MayAsk(a) /\ AskSomething(a) PROVE PermissionInv'
  BY <1>1, AskKeeps
<1>2. ASSUME NEW a \in Admins, Settle(a) PROVE PermissionInv'
  <2>1. TablesKept /\ desk' = [desk EXCEPT ![a] = NoRequest] /\ desk[a] # NoRequest /\ crew' = crew
    BY <1>2, SettleKeepsTables
  <2>2. desk'[a] = NoRequest /\ \A b \in Admins : b # a => desk'[b] = desk[b]
    BY <2>1 DEF PermissionInv, PermissionTypeOK
  <2>3. DeskTyped(NoRequest) /\ \A f, rr, g, m : StillFits(f, rr, g, m, NoRequest)
    BY DEF DeskTyped, StillFits, NoRequest
  <2>4. desk' \in [Admins -> {desk'[b] : b \in Admins}]
    BY <2>1 DEF PermissionInv, PermissionTypeOK
  <2>5. PermissionTypeOK'
    BY <2>1, <2>2, <2>3, <2>4 DEF PermissionInv, PermissionTypeOK, TablesKept, TablesTyped
  <2>6. ASSUME crew.size = 1 PROVE \A b \in Admins : desk'[b] = NoRequest
    BY <2>1, <2>2, <2>6 DEF PermissionInv, AloneInv, OneAtATime
  <2>7. AloneInv'
    BY <2>1, <2>3, <2>6 DEF AloneInv, TablesKept, OneAtATime
  <2> QED
    BY <2>5, <2>7 DEF PermissionInv
<1>3. ASSUME UNCHANGED permissionVars PROVE PermissionInv'
  BY <1>3 DEF permissionVars, PermissionInv, PermissionTypeOK, AloneInv, OneAtATime
<1> QED
  BY <1>1, <1>2, <1>3 DEF PermissionNext

LEMMA PermissionInvAlways == PermissionSpec => []PermissionInv
BY PermissionInvHoldsAtInit, PermissionInvInductive, PTL DEF PermissionSpec

\* Tables and requests keep their types, also when requests overlap.
THEOREM PermissionTypeCorrect == PermissionSpec => []PermissionTypeOK
<1>1. PermissionInv => PermissionTypeOK
  BY DEF PermissionInv
<1> QED
  BY <1>1, PermissionInvAlways, PTL

\* However many requests overlap and whatever gaps and cycles they leave, a
\* role opens exactly the granted nodes that stand and what is above them
\* (resolveEnabledIDs, which stops early at what it has included).
THEOREM AccessAlwaysGrounded == PermissionSpec => []AccessIsGrounded
<1>1. PermissionInv => AccessIsGrounded
  <2> SUFFICES ASSUME PermissionInv PROVE AccessIsGrounded
    OBVIOUS
  <2>1. ParentsInTree /\ granted \in [RoleIds -> SUBSET Nodes]
    BY DEF PermissionInv, PermissionTypeOK, ParentsInTree, NodeRow
  <2> QED
    BY <2>1, GroundedWhenTyped
<1> QED
  BY <1>1, PermissionInvAlways, PTL

LEMMA OrderedInOrder == PermissionInv => AloneInOrder
<1> SUFFICES ASSUME PermissionInv, crew.size = 1 PROVE AloneInOrder
  BY DEF AloneInOrder
<1>1. Ordered(node, roleRow, granted, member) /\ PermissionTypeOK
  BY DEF PermissionInv, AloneInv
<1> DEFINE tops == {n \in LiveNodes : node[n].parent = Root}
<1>2. CascadeIDs(tops) = LiveNodes
  <2>1. CascadeIDs(tops) = BelowIn(node, tops) /\ LiveNodes = LiveIn(node)
    BY TreeOfNode
  <2>2. BelowIn(node, tops) \subseteq LiveIn(node)
    BY <2>1 DEF BelowIn
  <2>3. LiveIn(node) \subseteq BelowIn(node, tops)
    <3> DEFINE M == BelowIn(node, tops)
    <3>1. tops \subseteq M /\ Downward(node, M)
      BY BelowGrows
    <3>2. M \in SUBSET Nodes
      BY <2>2 DEF LiveIn
    <3> HIDE DEF M
    <3>3. \A n \in LiveIn(node) : node[n].parent \in M \cup {Root} => n \in M
      BY <2>1, <3>1 DEF Downward
    <3> QED
      BY <1>1, <3>2, <3>3 DEF Ordered, Rooted, M
  <2> QED
    BY <2>1, <2>2, <2>3
<1>3. \A n \in LiveNodes : IF node[n].parent = Root THEN node[n].kind # "button"
                          ELSE node[node[n].parent].kind =
                                 IF node[n].kind = "button" THEN "page" ELSE "dir"
  <2>1. Root \notin LiveIn(node)
    BY DEF LiveIn
  <2> QED
    BY <1>1, <2>1, TreeOfNode DEF Ordered, KindsFit, KindFits
<1>4. \A r \in RoleIds : granted[r] \subseteq (IF r \in LiveRoles THEN LiveNodes ELSE {})
  BY <1>1, TreeOfNode DEF Ordered, GrantsLive, LiveRoles
<1>5. Cardinality({r \in LiveRoles : roleRow[r].default}) = 1
  <2>1. {r \in LiveRoles : roleRow[r].default} = Defaults(roleRow)
    BY Zenon DEF LiveRoles, Defaults
  <2>2. PICK r \in RoleIds : Defaults(roleRow) = {r}
    BY <1>1 DEF Ordered
  <2> QED
    BY <2>1, <2>2, FS_Singleton
<1>6. \A u \in Members : member[u] \in LiveRoles
  BY <1>1 DEF Ordered, MembersLive, LiveRoles, PermissionTypeOK
<1> QED
  BY <1>2, <1>3, <1>4, <1>5, <1>6, Zenon DEF AloneInOrder

\* One admin at a time keeps the tree, the grants, the one default role and
\* the users' roles in order through any sequence of requests, although the
\* schema keeps none of it (assertValidParentAssignment, HasDefaultIn,
\* CountUsersByRoleIDs).
THEOREM OneAdminKeepsOrder == PermissionSpec => []AloneInOrder
BY OrderedInOrder, PermissionInvAlways, PTL

-----------------------------------------------------------------------------
(* Whom a transaction concerns.                                            *)

OpensWell == \A r \in RoleIds :
  Context(r) = [n \in OpenedIn(node, granted[r]) |-> node[n]]

LEMMA OpensWellAlways == PermissionSpec => []OpensWell
<1>1. PermissionInv => OpensWell
  <2> SUFFICES ASSUME PermissionInv, NEW r \in RoleIds
               PROVE  Context(r) = [n \in OpenedIn(node, granted[r]) |-> node[n]]
    BY DEF OpensWell
  <2>1. ParentsInTree /\ granted[r] \in SUBSET Nodes
    BY DEF PermissionInv, PermissionTypeOK, ParentsInTree, NodeRow
  <2> QED
    BY <2>1, ResolvedOpens DEF Context
<1> QED
  BY <1>1, PermissionInvAlways, PTL

\* What a change of the tables below a set of nodes leaves a user.
LEMMA SameContext ==
  ASSUME OpensWell, OpensWell', PermissionInv, NEW E,
         \A n \in Nodes \ E : node'[n] = node[n],
         Downward(node, E), Downward(node', E), NEW u \in Members,
         member'[u] = member[u], granted'[member[u]] = granted[member[u]],
         granted[member[u]] \cap E = {}
  PROVE  Context(member[u])' = Context(member[u])
<1> DEFINE r == member[u]
           opened == OpenedIn(node, granted[r])
<1>1. r \in RoleIds
  BY DEF PermissionInv, PermissionTypeOK
<1>2. OpenedIn(node', granted[r]) = opened /\ \A n \in opened : node'[n] = node[n]
  BY SameOpen
<1>3. Context(r) = [n \in opened |-> node[n]]
  BY <1>1 DEF OpensWell
<1>4. Context(r)' = [n \in OpenedIn(node', granted'[r']) |-> node'[n]]
  BY <1>1 DEF OpensWell
<1> QED
  BY <1>2, <1>3, <1>4

Reached(u) ==
  \/ UNCHANGED <<node, granted, member>>
  \/ \E a \in Admins : Raises(a, u)
  \/ Context(member[u])' = Context(member[u])

\* What the lemmas below take from the invariant.
LEMMA AloneNow ==
  ASSUME PermissionInv, crew.size = 1, NEW a \in Admins, NEW u \in Members
  PROVE  /\ TablesTyped(node, roleRow, granted, member) /\ DeskTyped(desk[a])
         /\ StillFits(node, roleRow, granted, member, desk[a])
         /\ KindsFit(node) /\ member[u] \in RoleIds
         /\ granted[member[u]] \subseteq LiveIn(node) /\ roleRow[member[u]].state = "live"
<1>1. /\ TablesTyped(node, roleRow, granted, member) /\ DeskTyped(desk[a])
      /\ StillFits(node, roleRow, granted, member, desk[a])
      /\ Ordered(node, roleRow, granted, member)
  BY TablesNow
<1>2. member[u] \in RoleIds
  BY <1>1 DEF TablesTyped
<1> QED
  BY <1>1, <1>2 DEF Ordered, GrantsLive, MembersLive

LEMMA SubjectRaised ==
  ASSUME PermissionInv, NEW a \in Admins, Settle(a), NEW u \in desk[a].subjects
  PROVE  Raises(a, u)
<1>1. desk' = [desk EXCEPT ![a] = NoRequest] /\ desk[a] # NoRequest
  BY SettleKeepsTables
<1>2. desk'[a] = NoRequest
  BY <1>1 DEF PermissionInv, PermissionTypeOK
<1> QED
  BY <1>1, <1>2 DEF Raises

\* A node that comes into use has nothing below it and is granted to nobody.
LEMMA InsertReaches ==
  ASSUME OpensWell, OpensWell', PermissionInv, crew.size = 1, NEW u \in Members,
         NEW a \in Admins, InsertPermission(a) \/ RestorePermission(a)
  PROVE  Reached(u)
<1> DEFINE q == desk[a]
<1>1. /\ TablesTyped(node, roleRow, granted, member) /\ DeskTyped(q)
      /\ StillFits(node, roleRow, granted, member, q) /\ KindsFit(node)
      /\ member[u] \in RoleIds /\ granted[member[u]] \subseteq LiveIn(node)
  BY AloneNow
<1>2. q.op \in {"insert", "restore"} /\ q.node \in Nodes
  BY <1>1 DEF InsertPermission, RestorePermission, Done, DeskTyped
<1> DEFINE n == q.node
           new == q.row
<1>3. node[n].state # "live" /\ KindFits(node, new.kind, new.parent)
  BY <1>1, <1>2 DEF StillFits
<1>4. node' = node \/ node' = [node EXCEPT ![n] = new]
  BY DEF InsertPermission, RestorePermission, Where
<1>5. granted' = granted \/ granted' = [r \in RoleIds |-> granted[r] \ {n}]
  BY DEF InsertPermission, RestorePermission
<1>6. member' = member
  BY DEF InsertPermission, RestorePermission
<1>7. n \in Nodes /\ n # Root /\ n \notin LiveIn(node)
  BY <1>2, <1>3 DEF LiveIn
<1> HIDE DEF q, n, new
<1>8. granted'[member[u]] = granted[member[u]] /\ granted[member[u]] \cap {n} = {}
  BY <1>1, <1>5, <1>7
<1>9. \A m \in Nodes : m # n => node'[m] = node[m]
  BY <1>1, <1>4 DEF TablesTyped
<1>10. \A c \in LiveIn(node) : node[c].parent # n
  BY <1>1, <1>7 DEF KindsFit, KindFits
<1>11. Downward(node, {n})
  BY <1>10 DEF Downward
<1>12. Downward(node', {n})
  <2>1. \A c \in LiveIn(node') : c # n => c \in LiveIn(node) /\ node'[c].parent = node[c].parent
    BY <1>9 DEF LiveIn
  <2> QED
    BY <1>10, <2>1 DEF Downward
<1>13. Context(member[u])' = Context(member[u])
  <2> DEFINE E == {n}
  <2>1. /\ \A m \in Nodes \ E : node'[m] = node[m]
        /\ Downward(node, E) /\ Downward(node', E) /\ granted[member[u]] \cap E = {}
    BY <1>8, <1>9, <1>11, <1>12
  <2> HIDE DEF E
  <2> QED
    BY <1>6, <1>8, <2>1, SameContext
<1> QED
  BY <1>13 DEF Reached

\* A change of a node changes nothing for who was granted nothing below it.
LEMMA ChangeReaches ==
  ASSUME OpensWell, OpensWell', PermissionInv, crew.size = 1, NEW u \in Members,
         NEW a \in Admins, UpdatePermission(a) \/ UpdateStatus(a)
  PROVE  Reached(u)
<1> DEFINE q == desk[a]
           n == q.node
           E == BelowIn(node, {n})
<1>1. /\ TablesTyped(node, roleRow, granted, member) /\ DeskTyped(q)
      /\ StillFits(node, roleRow, granted, member, q) /\ member[u] \in RoleIds
  BY AloneNow
<1>2. q.op \in {"update", "status"} /\ n \in Nodes
  BY <1>1 DEF UpdatePermission, UpdateStatus, Done, DeskTyped
<1>3. q.subjects = Holders(granted, member, E)
  <2> HIDE DEF q
  <2> QED
    BY <1>1, <1>2 DEF StillFits
<1>4. CASE u \in q.subjects
  BY <1>4, SubjectRaised DEF Reached, Settle
<1>5. CASE u \notin q.subjects
  <2>1. granted[member[u]] \cap E = {}
    <3> HIDE DEF E, q
    <3> QED
      BY <1>1, <1>3, <1>5 DEF Holders
  <2>2. n \in E /\ Downward(node, E)
    BY BelowGrows
  <2>3. \A m \in Nodes : m # n => node'[m] = node[m]
    BY <1>1, <1>2 DEF UpdatePermission, UpdateStatus, Where, TablesTyped
  <2>4. UNCHANGED <<granted, member>>
    BY DEF UpdatePermission, UpdateStatus
  <2> HIDE DEF E, n, q
  <2>5. Downward(node', E)
    <3>1. \A c \in LiveIn(node') : c # n => c \in LiveIn(node) /\ node'[c].parent = node[c].parent
      BY <2>3 DEF LiveIn
    <3> QED
      BY <2>2, <3>1 DEF Downward
  <2>6. \A m \in Nodes \ E : node'[m] = node[m]
    BY <2>2, <2>3
  <2>7. Context(member[u])' = Context(member[u])
    BY <2>1, <2>2, <2>4, <2>5, <2>6, SameContext
  <2> QED
    BY <2>7 DEF Reached
<1> QED
  BY <1>4, <1>5

LEMMA RemoveReaches ==
  ASSUME OpensWell, OpensWell', PermissionInv, crew.size = 1, NEW u \in Members,
         NEW a \in Admins, RemovePermissions(a)
  PROVE  Reached(u)
<1> DEFINE q == desk[a]
           E == q.nodes
<1>1. /\ TablesTyped(node, roleRow, granted, member) /\ DeskTyped(q)
      /\ StillFits(node, roleRow, granted, member, q) /\ member[u] \in RoleIds
  BY AloneNow
<1>2. q.op = "delete"
  BY DEF RemovePermissions, Done
<1>3. Downward(node, E) /\ q.subjects = Holders(granted, member, E)
  <2> HIDE DEF q
  <2> QED
    BY <1>1, <1>2 DEF StillFits
<1>4. CASE u \in q.subjects
  BY <1>4, SubjectRaised DEF Reached, Settle
<1>5. CASE u \notin q.subjects
  <2>1. granted[member[u]] \cap E = {}
    <3> HIDE DEF E, q
    <3> QED
      BY <1>1, <1>3, <1>5 DEF Holders
  <2>2. /\ \A m \in Nodes \ E : node'[m] = node[m]
        /\ \A m \in Nodes : node'[m] = node[m] \/ node'[m] = [node[m] EXCEPT !.state = "deleted"]
    BY DEF RemovePermissions
  <2>3. granted' = [r \in RoleIds |-> granted[r] \ E] /\ member' = member
    BY DEF RemovePermissions
  <2> HIDE DEF E, q
  <2>4. granted'[member[u]] = granted[member[u]]
    BY <1>1, <2>1, <2>3
  <2>5. Downward(node', E)
    <3>1. \A c \in LiveIn(node') : c \notin E => c \in LiveIn(node) /\ node'[c].parent = node[c].parent
      BY <2>2 DEF LiveIn
    <3> QED
      BY <1>3, <3>1 DEF Downward
  <2>6. Context(member[u])' = Context(member[u])
    BY <1>3, <2>1, <2>2, <2>3, <2>4, <2>5, SameContext
  <2> QED
    BY <2>6 DEF Reached
<1> QED
  BY <1>4, <1>5

\* Other roles and other users see what they saw.
LEMMA RolesReach ==
  ASSUME OpensWell, OpensWell', PermissionInv, crew.size = 1, NEW u \in Members,
         NEW a \in Admins,
         ReviveRole(a) \/ SyncPermissions(a) \/ DropRole(a) \/ UpdateUserRole(a)
  PROVE  Reached(u)
<1> DEFINE q == desk[a]
<1>1. /\ TablesTyped(node, roleRow, granted, member) /\ DeskTyped(q)
      /\ StillFits(node, roleRow, granted, member, q) /\ member[u] \in RoleIds
      /\ roleRow[member[u]].state = "live"
  BY AloneNow
<1>2. q.op \in {"revive", "sync", "drop", "assign"} /\ node' = node
  BY DEF ReviveRole, SyncPermissions, DropRole, UpdateUserRole, Done
<1>3. CASE u \in q.subjects
  BY <1>3, SubjectRaised DEF Reached, Settle
<1>4. CASE u \notin q.subjects
  <2>1. granted'[member[u]] = granted[member[u]] /\ member'[u] = member[u]
    <3>1. CASE UpdateUserRole(a)
      <4>1. q.op = "assign" /\ granted' = granted /\ member' = [member EXCEPT ![q.user] = q.role]
        BY <3>1 DEF UpdateUserRole, Done
      <4> HIDE DEF q
      <4>2. u # q.user
        BY <1>1, <1>4, <4>1 DEF StillFits
      <4> QED
        BY <1>1, <4>1, <4>2 DEF TablesTyped
    <3>2. CASE ReviveRole(a) \/ SyncPermissions(a) \/ DropRole(a)
      <4>1. /\ q.op \in {"revive", "sync", "drop"} /\ member' = member
            /\ \E G : granted' = [granted EXCEPT ![q.role] = G]
        BY <3>2 DEF ReviveRole, SyncPermissions, DropRole, Done
      <4> HIDE DEF q
      <4>2. member[u] # q.role
        BY <1>1, <1>4, <4>1 DEF StillFits
      <4> QED
        BY <1>1, <4>1, <4>2 DEF TablesTyped
    <3> QED
      BY <3>1, <3>2
  <2> DEFINE E == {}
  <2>2. /\ \A m \in Nodes \ E : node'[m] = node[m]
        /\ Downward(node, E) /\ Downward(node', E) /\ granted[member[u]] \cap E = {}
    BY <1>2 DEF Downward
  <2> HIDE DEF E
  <2>3. Context(member[u])' = Context(member[u])
    BY <2>1, <2>2, SameContext
  <2> QED
    BY <2>3 DEF Reached
<1> QED
  BY <1>3, <1>4

\* With one admin at a time, whoever sees something else after a transaction
\* is among its subjects: the users found from the grants before the change
\* are all that the change concerns (principalUserIDsByRoleIDs, the union that
\* mutatePrincipalUsers raises).
THEOREM ChangesReachEveryone == PermissionSpec => ChangeReachesEveryone
<1> DEFINE Reach == crew.size = 1 => \A u \in Members : Reached(u)
<1>1. PermissionInv /\ OpensWell /\ OpensWell' /\ [PermissionNext]_permissionVars
        => [Reach]_permissionVars
  <2> SUFFICES ASSUME PermissionInv, OpensWell, OpensWell', PermissionNext,
                      crew.size = 1, NEW u \in Members
               PROVE  Reached(u)
    OBVIOUS
  <2>1. ASSUME NEW a \in Admins, AskSomething(a) PROVE UNCHANGED <<node, granted, member>>
    BY <2>1, Zenon DEF AskSomething, Ask, CreatePermission, EditPermission, ChangeStatus,
       DeletePermissions, CreateRole, EditRole, DeleteRole, SetDefault, AssignRole
  <2>2. ASSUME NEW a \in Admins, Settle(a) PROVE Reached(u)
    <3>1. CASE MoveDefault(a) \/ RequestFails(a)
      BY <3>1 DEF MoveDefault, RequestFails, Reached
    <3> QED
      BY <2>2, <3>1, InsertReaches, ChangeReaches, RemoveReaches, RolesReach DEF Settle
  <2> QED
    BY <2>1, <2>2 DEF PermissionNext, Reached
<1> QED
  BY <1>1, PermissionInvAlways, OpensWellAlways, PTL DEF PermissionSpec, ChangeReachesEveryone, Reached
=============================================================================
