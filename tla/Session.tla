------------------------------ MODULE Session ------------------------------
(***************************************************************************)
(* Session lifecycle of internal/module/auth: the sessions of one user on  *)
(* one platform, over three stores that no transaction spans.              *)
(*                                                                         *)
(*   user_sessions (MySQL)    the rows, ids in order of insertion          *)
(*   token:session:<id>       Redis copy of a row, written by Authenticate *)
(*   token:cur_sess:<p>:<u>   Redis pointer to the session that may be used*)
(*                            when the platform allows a single session    *)
(*                                                                         *)
(* A request is a goroutine of some API node.  Each call it makes to MySQL *)
(* or to Redis is a step of its own, except Issue's transaction, which     *)
(* holds the user row's lock and the rows it lists.                        *)
(***************************************************************************)
EXTENDS Integers, FiniteSets, FiniteSetsExt

CONSTANTS MaxId,        \* bound: sessions issued
          MaxGen,       \* bound: rotations of one session
          Requests,     \* requests in flight at a time
          Limits        \* max_sessions of the platform, 0 is no limit

ASSUME SessionAssumption == /\ MaxId \in Nat \ {0}
                            /\ MaxGen \in Nat
                            /\ Limits \subseteq Nat

VARIABLES limit,     \* max_sessions, fixed for a behaviour
          row,       \* user_sessions by id: state, and the number of the
                     \* credential pair its hash and last_seen_at stand for
          cache,     \* the copies in Redis: the pair copied, or Empty
          pointer,   \* the single-session pointer, 0 when absent
          held,      \* <<id, pair>> that reached a client
          req,       \* requests; todo holds the sessions whose copy is
                     \* still to be deleted, or to be written (auth)
          spent,     \* history: <<id, pair>> exchanged for a new pair
          fate       \* history: what the revocation of a session has done to
                     \* its copy: nothing yet, "dropped" it, or "settled" it
                     \* with no authentication past its reads

vars == <<limit, row, cache, pointer, held, req, spent, fate>>

Ids == 1..MaxId
Gens == 0..MaxGen
Empty == -1

Live == {s \in Ids : row[s].state = "live"}
Latest == IF Live = {} THEN 0 ELSE Max(Live)
Single == limit = 1

Idle == [op |-> "none", pc |-> "idle", id |-> 0, gen |-> 0, seen |-> 0,
         todo |-> {}]

Points == {"idle", "fetch", "pointer", "latest", "repair", "evict", "fill",
           "swap", "mark", "drop", "match", "clear", "point"}

TypeOK ==
  /\ limit \in Limits
  /\ row \in [Ids -> [state: {"none", "live", "revoked"}, gen: Gens]]
  /\ cache \in [Ids -> Gens \cup {Empty}]
  /\ pointer \in 0..MaxId
  /\ held \subseteq Ids \X Gens
  /\ req \in [Requests -> [op: {"none", "issue", "auth", "rotate", "revoke"},
                           pc: Points, id: 0..MaxId, gen: Gens,
                           seen: 0..MaxId, todo: SUBSET Ids]]
  /\ spent \subseteq Ids \X Gens
  /\ fate \in [Ids -> {"no", "dropped", "settled"}]

Init ==
  /\ limit \in Limits
  /\ row = [s \in Ids |-> [state |-> "none", gen |-> 0]]
  /\ cache = [s \in Ids |-> Empty]
  /\ pointer = 0
  /\ held = {}
  /\ req = [h \in Requests |-> Idle]
  /\ spent = {}
  /\ fate = [s \in Ids |-> "no"]

---------------------------------------------------------------------------
(* What the requests share.                                                *)

At(h, op, pc) == req[h].op = op /\ req[h].pc = pc
Goto(h, pc) == req' = [req EXCEPT ![h].pc = pc]
Finish(h) == req' = [req EXCEPT ![h] = Idle]
Start(h, op, pc, s, g, D) ==
  /\ req[h] = Idle
  /\ req' = [req EXCEPT ![h] = [op |-> op, pc |-> pc, id |-> s, gen |-> g,
                                seen |-> 0, todo |-> D]]

(* updateSingleSessionPointer: the script that only moves forward.         *)
SetIfGreater(s) == pointer' = IF s > pointer THEN s ELSE pointer

(* An authentication of s that got past its reads.                         *)
MayFill(s) == \E h \in Requests : /\ req[h].op = "auth" /\ req[h].id = s
                                  /\ req[h].pc # "fetch"

DropCopy(s) ==
  /\ cache' = [cache EXCEPT ![s] = Empty]
  /\ fate' = [fate EXCEPT ![s] = IF row[s].state # "revoked" THEN @
                                 ELSE IF MayFill(s) THEN "dropped" ELSE "settled"]

---------------------------------------------------------------------------
(* Issue: a login.                                                         *)

(* Variant: the login that is about to be inserted is not counted.         *)
ToRevokeUncounted ==
  LET over == Cardinality(Live) - limit
  IN  IF limit = 0 \/ over <= 0 THEN {}
      ELSE {s \in Live : Cardinality({t \in Live : t < s}) < over}


ToRevoke ==
  IF Single THEN Live
  ELSE LET over == Cardinality(Live) - limit + 1
       IN  IF limit = 0 \/ over <= 0 THEN {}
           ELSE {s \in Live : Cardinality({t \in Live : t < s}) < over}

Issue(h) ==
  \E s \in Ids :
    /\ s = 1 + Cardinality({t \in Ids : row[t].state # "none"})
    /\ Start(h, "issue", IF ToRevoke = {} THEN "point" ELSE "drop", s, 0, ToRevoke)
    /\ row' = [t \in Ids |->
                 IF t = s THEN [state |-> "live", gen |-> 0]
                 ELSE IF t \in ToRevoke THEN [row[t] EXCEPT !.state = "revoked"]
                 ELSE row[t]]
    /\ UNCHANGED <<limit, cache, pointer, held, spent, fate>>

(* deleteSessionCaches of Issue, deleteCache of Rotate.                    *)
DropCaches(h) ==
  /\ req[h].op \in {"issue", "rotate"} /\ req[h].pc = "drop"
  /\ LET s == Min(req[h].todo) IN
       /\ DropCopy(s)
       /\ req' = [req EXCEPT ![h].todo = @ \ {s},
                             ![h].pc = IF req[h].todo = {s} THEN "point" ELSE "drop"]
  /\ UNCHANGED <<limit, row, pointer, held, spent>>

(* updateSingleSessionPointer, then the response with the credentials.     *)
PointAndReturn(h) ==
  /\ req[h].op \in {"issue", "rotate"} /\ req[h].pc = "point"
  /\ SetIfGreater(req[h].id)
  /\ held' = held \cup {<<req[h].id, req[h].gen>>}
  /\ Finish(h)
  /\ UNCHANGED <<limit, row, cache, spent, fate>>

---------------------------------------------------------------------------
(* Authenticate.  A copy that agrees with the token is all a request needs *)
(* when the platform allows several sessions: nothing changes then.        *)

Authenticate(h, s, g) ==
  /\ <<s, g>> \in held
  /\ cache[s] = g => Single
  /\ Start(h, "auth",
           CASE cache[s] = Empty -> "fetch"
             [] cache[s] = g -> "pointer"
             [] OTHER -> "evict",
           s, g, IF cache[s] = Empty THEN {s} ELSE {})
  /\ UNCHANGED <<limit, row, cache, pointer, held, spent, fate>>

(* Variant: revoked_at is not compared.                                    *)
AuthFetchRevoked(h) ==
  /\ At(h, "auth", "fetch")
  /\ IF row[req[h].id].gen = req[h].gen
       THEN Goto(h, IF Single THEN "pointer" ELSE "fill")
       ELSE Finish(h)
  /\ UNCHANGED <<limit, row, cache, pointer, held, spent, fate>>

(* FindValidByID and matchClaims.                                          *)
AuthFetch(h) ==
  /\ At(h, "auth", "fetch")
  /\ IF row[req[h].id] = [state |-> "live", gen |-> req[h].gen]
       THEN Goto(h, IF Single THEN "pointer" ELSE "fill")
       ELSE Finish(h)
  /\ UNCHANGED <<limit, row, cache, pointer, held, spent, fate>>

(* Served: a row that came from MySQL has yet to be copied to Redis.       *)
Accept(h) ==
  req' = [req EXCEPT ![h] = IF @.todo = {} THEN Idle
                            ELSE [@ EXCEPT !.pc = "fill", !.seen = 0]]

(* Variant: any pointer is trusted, as in a refresh.                       *)
AuthPointerTrusted(h) ==
  /\ At(h, "auth", "pointer")
  /\ IF pointer = req[h].id THEN Accept(h)
     ELSE req' = [req EXCEPT ![h].pc = IF pointer = 0 THEN "latest" ELSE "evict",
                             ![h].seen = pointer]
  /\ UNCHANGED <<limit, row, cache, pointer, held, spent, fate>>

(* enforceSingleSession: the pointer is trusted only when it agrees.       *)
AuthPointer(h) ==
  /\ At(h, "auth", "pointer")
  /\ IF pointer = req[h].id THEN Accept(h)
     ELSE req' = [req EXCEPT ![h].pc = "latest", ![h].seen = pointer]
  /\ UNCHANGED <<limit, row, cache, pointer, held, spent, fate>>

AuthLatest(h) ==
  /\ At(h, "auth", "latest")
  /\ IF Latest = 0 THEN Accept(h)
     ELSE req' = [req EXCEPT
            ![h].seen = Latest,
            ![h].pc = IF Latest = req[h].seen THEN "evict" ELSE "repair"]
  /\ UNCHANGED <<limit, row, cache, pointer, held, spent, fate>>

AuthRepair(h) ==
  /\ At(h, "auth", "repair")
  /\ pointer' = req[h].seen
  /\ IF req[h].seen = req[h].id THEN Accept(h) ELSE Goto(h, "evict")
  /\ UNCHANGED <<limit, row, cache, held, spent, fate>>

(* deleteCache of a refused request: the copy disagrees with the token, or *)
(* another session is the allowed one.                                     *)
AuthEvict(h) ==
  /\ At(h, "auth", "evict")
  /\ cache' = [cache EXCEPT ![req[h].id] = Empty]
  /\ Finish(h)
  /\ UNCHANGED <<limit, row, pointer, held, spent, fate>>

AuthFill(h) ==
  /\ At(h, "auth", "fill")
  /\ cache' = [cache EXCEPT ![req[h].id] = req[h].gen]
  /\ Finish(h)
  /\ UNCHANGED <<limit, row, pointer, held, spent, fate>>

---------------------------------------------------------------------------
(* Rotate: a refresh.                                                      *)

(* FindValidByRefreshHash; a hash it does not find is refused.             *)
Rotate(h, s, g) ==
  /\ <<s, g>> \in held
  /\ g < MaxGen
  /\ row[s] = [state |-> "live", gen |-> g]
  /\ Start(h, "rotate", IF Single THEN "pointer" ELSE "swap", s, g, {s})
  /\ UNCHANGED <<limit, row, cache, pointer, held, spent, fate>>

(* enforceSingleSessionForRefresh: MySQL is asked only without a pointer.  *)
RotatePointer(h) ==
  /\ At(h, "rotate", "pointer")
  /\ CASE pointer = 0 -> Goto(h, "latest")
       [] pointer = req[h].id -> Goto(h, "swap")
       [] OTHER -> Finish(h)
  /\ UNCHANGED <<limit, row, cache, pointer, held, spent, fate>>

RotateLatest(h) ==
  /\ At(h, "rotate", "latest")
  /\ req' = [req EXCEPT ![h].seen = Latest,
                        ![h].pc = IF Latest = 0 THEN "swap" ELSE "repair"]
  /\ UNCHANGED <<limit, row, cache, pointer, held, spent, fate>>

RotateRepair(h) ==
  /\ At(h, "rotate", "repair")
  /\ pointer' = req[h].seen
  /\ IF req[h].seen = req[h].id THEN Goto(h, "swap") ELSE Finish(h)
  /\ UNCHANGED <<limit, row, cache, held, spent, fate>>

(* Variants: one condition of the update is missing.                       *)
SwappableByAnyHash(s, g) == row[s].state = "live"
(* RotateIfRefreshHash: the row must still be live and hold this hash.     *)
Swappable(s, g) == row[s].state = "live" /\ row[s].gen = g

RotateSwap(h) ==
  /\ At(h, "rotate", "swap")
  /\ LET s == req[h].id IN
       IF Swappable(s, req[h].gen)
         THEN /\ row' = [row EXCEPT ![s].gen = @ + 1]
              /\ spent' = spent \cup {<<s, req[h].gen>>}
              /\ req' = [req EXCEPT ![h].pc = "drop", ![h].gen = row[s].gen + 1]
         ELSE /\ Finish(h)
              /\ UNCHANGED <<row, spent>>
  /\ UNCHANGED <<limit, cache, pointer, held, fate>>

---------------------------------------------------------------------------
(* Revoke: a logout, with any token the client still holds, or an          *)
(* administrator's Revoke and BatchRevoke of rows read as live.            *)

Logout(h, s) ==
  /\ \E g \in Gens : <<s, g>> \in held
  /\ Start(h, "revoke", "mark", s, 0, {s})
  /\ UNCHANGED <<limit, row, cache, pointer, held, spent, fate>>

AdminRevoke(h, D) ==
  /\ D # {} /\ D \subseteq Live
  /\ Start(h, "revoke", "mark", Min(D), 0, D)
  /\ UNCHANGED <<limit, row, cache, pointer, held, spent, fate>>

RevokeMark(h) ==
  /\ At(h, "revoke", "mark")
  /\ row' = [s \in Ids |-> IF s \in req[h].todo THEN [row[s] EXCEPT !.state = "revoked"]
                           ELSE row[s]]
  /\ Goto(h, "drop")
  /\ UNCHANGED <<limit, cache, pointer, held, spent, fate>>

RevokeDrop(h) ==
  /\ At(h, "revoke", "drop")
  /\ DropCopy(req[h].id)
  /\ Goto(h, "match")
  /\ UNCHANGED <<limit, row, pointer, held, spent>>

(* The next session of the batch, or the end.                              *)
RevokeNext(h) ==
  LET left == req[h].todo \ {req[h].id} IN
  req' = [req EXCEPT ![h] = IF left = {} THEN Idle
                            ELSE [@ EXCEPT !.todo = left, !.id = Min(left), !.pc = "drop"]]

(* clearPointerIfMatches reads the pointer, then deletes it.               *)
RevokeMatch(h) ==
  /\ At(h, "revoke", "match")
  /\ IF pointer = req[h].id THEN Goto(h, "clear") ELSE RevokeNext(h)
  /\ UNCHANGED <<limit, row, cache, pointer, held, spent, fate>>

RevokeClear(h) ==
  /\ At(h, "revoke", "clear")
  /\ pointer' = 0
  /\ RevokeNext(h)
  /\ UNCHANGED <<limit, row, cache, held, spent, fate>>

---------------------------------------------------------------------------
(* Redis forgets a key whose time is over; a node dies.                    *)

CopyExpires(s) ==
  /\ cache[s] # Empty
  /\ cache' = [cache EXCEPT ![s] = Empty]
  /\ UNCHANGED <<limit, row, pointer, held, req, spent, fate>>

PointerExpires ==
  /\ pointer # 0
  /\ pointer' = 0
  /\ UNCHANGED <<limit, row, cache, held, req, spent, fate>>

Crash(h) ==
  /\ req[h] # Idle
  /\ Finish(h)
  /\ UNCHANGED <<limit, row, cache, pointer, held, spent, fate>>

---------------------------------------------------------------------------

Continue(h) ==
  \/ DropCaches(h) \/ PointAndReturn(h)
  \/ AuthFetch(h) \/ AuthPointer(h) \/ AuthLatest(h) \/ AuthRepair(h)
  \/ AuthEvict(h) \/ AuthFill(h)
  \/ RotatePointer(h) \/ RotateLatest(h) \/ RotateRepair(h) \/ RotateSwap(h)
  \/ RevokeMark(h) \/ RevokeDrop(h) \/ RevokeMatch(h) \/ RevokeClear(h)

Arrive(h) ==
  \/ Issue(h)
  \/ \E s \in Ids, g \in Gens : Authenticate(h, s, g) \/ Rotate(h, s, g)
  \/ \E s \in Ids : Logout(h, s)
  \/ \E D \in SUBSET Ids : AdminRevoke(h, D)

Next ==
  \/ \E h \in Requests : Arrive(h) \/ Continue(h) \/ Crash(h)
  \/ \E s \in Ids : CopyExpires(s)
  \/ PointerExpires

Spec == Init /\ [][Next]_vars

---------------------------------------------------------------------------
(* A platform never has more live sessions than it allows, whatever logins *)
(* overlap: Issue counts and revokes under the user's lock.                *)
SessionLimit == limit > 0 => Cardinality(Live) <= limit

(* Credentials that reached a client stay good until they are exchanged:   *)
(* each pair handed out is the one its row holds or was itself presented   *)
(* to Rotate, so two overlapping refreshes with one token never both get   *)
(* an answer, and neither invalidates what the other was given.            *)
CredentialsStayGood ==
  \A c \in held : row[c[1]].gen = c[2] \/ c \in spent

(* A session whose revocation deleted its copy while no authentication of  *)
(* it was past its reads is refused for good: no copy of it comes back and *)
(* no request gets past its reads.  The race this leaves out is real: an   *)
(* authentication that read the row before writes the copy back after.     *)
SettledRevocation ==
  \A s \in {t \in Ids : fate[t] = "settled"} :
    /\ cache[s] = Empty
    /\ \A h \in Requests : req[h].op = "auth" /\ req[h].id = s => req[h].pc = "fetch"

(* On a single-session platform an authentication is refused for a login   *)
(* elsewhere only when its session is over, however stale the pointer is   *)
(* and whichever requests repair, clear or advance it meanwhile.           *)
NeverLockedOut ==
  \A h \in Requests :
    At(h, "auth", "evict") /\ req[h].seen # 0 => row[req[h].id].state = "revoked"

(* SessionRevocationService: the copy of a session that a revocation has   *)
(* deleted does not come back, whichever authentications are in flight.    *)
RevokedStaysOut == \A s \in Ids : fate[s] # "no" => cache[s] = Empty
=============================================================================
