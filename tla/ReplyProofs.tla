---------------------------- MODULE ReplyProofs ----------------------------
(* Theorems about Reply, for every set of commands and workers, every limit *)
(* of attempts, every choice of events and any number of faults.            *)
EXTENDS Reply, TLAPS

USE ReplyAssumption

-----------------------------------------------------------------------------
(* Type correctness *)

LEMMA RestingTyped == Resting \in WorkerType
BY DEF Resting, WorkerType, Pc, Text

\* The three ways a worker moves: what each leaves in its own row and in the others
LEMMA IdleMoves ==
  ASSUME ReplyTypeOK, NEW w \in Workers, Idle(w)
  PROVE  /\ worker' \in [Workers -> WorkerType] /\ worker'[w].pc = "idle"
         /\ \A v \in Workers \ {w} : worker'[v] = worker[v]
<1>1. Resting.pc = "idle"
  BY DEF Resting
<1> QED
  BY <1>1, RestingTyped DEF Idle, ReplyTypeOK

LEMMA NoteMoves ==
  ASSUME ReplyTypeOK, NEW w \in Workers, NEW p \in Pc, NEW text \in Text, Note(w, p, text)
  PROVE  /\ worker' \in [Workers -> WorkerType]
         /\ worker'[w].pc = p /\ worker'[w].cmd = worker[w].cmd /\ worker'[w].note = text
         /\ p \notin Ended => worker'[w].n = worker[w].n
         /\ \A v \in Workers \ {w} : worker'[v] = worker[v]
<1> DEFINE row == worker[w]
           stop == p \notin {"finish", "defer"} /\ row.stop
           again == p \notin Ended /\ row.again
           n == IF p \in Ended THEN 0 ELSE row.n
           moved == [pc |-> p, cmd |-> row.cmd, n |-> n, last |-> row.last, force |-> FALSE,
                     stop |-> stop, again |-> again, note |-> text]
<1>1. row \in WorkerType
  BY DEF ReplyTypeOK
<1>2. /\ row.cmd \in Commands /\ row.last \in BOOLEAN /\ n \in 0 .. MaxAttempts + 1
  BY <1>1 DEF WorkerType
<1>3. stop \in BOOLEAN /\ again \in BOOLEAN
  OBVIOUS
<1>4. worker' = [worker EXCEPT ![w] = moved]
  BY DEF Note
<1>5. p \notin Ended => n = row.n
  OBVIOUS
<1> HIDE DEF stop, again, n, row
<1>6. moved \in WorkerType
  BY <1>2, <1>3 DEF WorkerType
<1>7. moved.pc = p /\ moved.cmd = row.cmd /\ moved.note = text /\ moved.n = n
  OBVIOUS
<1> HIDE DEF moved
<1> QED
  BY <1>4, <1>5, <1>6, <1>7 DEF ReplyTypeOK, row

LEMMA FencedMoves ==
  ASSUME ReplyTypeOK, NEW w \in Workers, NEW force \in BOOLEAN, Fenced(w, force)
  PROVE  /\ worker' \in [Workers -> WorkerType] /\ worker'[w].pc = "fence"
         /\ \A v \in Workers \ {w} : worker'[v] = worker[v]
<1> DEFINE row == worker[w]
           moved == [pc |-> "fence", cmd |-> row.cmd, n |-> 0, last |-> row.last, force |-> force,
                     stop |-> row.stop, again |-> FALSE, note |-> ""]
<1>1. row.cmd \in Commands /\ row.last \in BOOLEAN /\ row.stop \in BOOLEAN
  BY DEF ReplyTypeOK, WorkerType
<1>2. moved \in WorkerType /\ moved.pc = "fence"
  BY <1>1 DEF WorkerType, Pc, Text
<1>3. worker' = [worker EXCEPT ![w] = moved]
  BY DEF Fenced
<1> HIDE DEF moved
<1> QED
  BY <1>2, <1>3 DEF ReplyTypeOK
-----------------------------------------------------------------------------
(* The inductive invariant *)

\* What a busy worker remembers of the attempts still fits them: the number it
\* prepares is the next one, after an attempt that may be followed, or was taken
\* meanwhile; the one it calls exists.
ExecutionsInStep ==
  \A w \in Workers :
    LET log == attempts[worker[w].cmd]
        n == worker[w].n
    IN  /\ At(w, "prepare") => /\ n \in 1 .. MaxAttempts /\ n <= Len(log) + 1
                               /\ n = Len(log) + 1 => Latest(log) \in {"none", "failed", "unsent", "tools"}
        /\ worker[w].pc \in {"call", "record"} => n \in 1 .. Len(log)
        /\ At(w, "record") => worker[w].note \in Answer
        /\ At(w, "mark") => worker[w].note \in Cause

\* A settlement leaves no attempt that could still be dispatched or recorded.
SettledAttempts == \A c \in Commands : ~Open(c) => ~Has(attempts[c], {"prepared", "dispatched"})

ReplyInv ==
  ReplyTypeOK /\ ExecutionsInStep /\ NoBlindRepeat /\ SettledAttempts /\ StopIsFinal /\ ClosedTogether
-----------------------------------------------------------------------------
(* Steps that leave the rows of the run alone *)

\* The state of a command moves among the unsettled ones, its stop flag stays.
Unsettling(c) ==
  /\ cmd'[c].cancel = cmd[c].cancel
  /\ \/ cmd'[c].state = cmd[c].state
     \/ cmd[c].state \in Live \cup {"absent"} /\ cmd'[c].state \in Live \cup {"failed", "outcome_unknown"}

LEMMA QuietRows ==
  ASSUME ReplyInv, UNCHANGED rows, \A c \in Commands : Unsettling(c)
  PROVE  NoBlindRepeat' /\ SettledAttempts' /\ StopIsFinal' /\ ClosedTogether'
<1>1. NoBlindRepeat' /\ SettledAttempts'
  BY DEF ReplyInv, rows, NoBlindRepeat, SettledAttempts, Open, Has
<1>2. StopIsFinal'
  BY DEF ReplyInv, rows, StopIsFinal, Unsettling, Live
<1>3. ASSUME NEW c \in Commands PROVE HoldFits(c)' /\ PaymentFits(c)'
  BY DEF ReplyInv, rows, ClosedTogether, HoldFits, PaymentFits, Open, Has
<1>4. ASSUME NEW c \in Commands PROVE StateFits(c)'
  BY DEF ReplyInv, rows, ClosedTogether, StateFits, Unsettling, Live, Open
<1> QED
  BY <1>1, <1>2, <1>3, <1>4 DEF ClosedTogether

LEMMA OneMoved ==
  ASSUME ReplyInv, NEW w \in Workers, attempts' = attempts,
         \A v \in Workers \ {w} : worker'[v] = worker[v],
         worker'[w].pc \notin {"prepare", "call", "record", "mark"}
  PROVE  ExecutionsInStep'
BY DEF ReplyInv, ExecutionsInStep, At

LEMMA QuietStep ==
  ASSUME ReplyInv, UNCHANGED <<rows, sweep>>, cmd' \in [Commands -> CommandRow],
         worker' \in [Workers -> WorkerType], env' \in Environment,
         ExecutionsInStep', \A c \in Commands : Unsettling(c)
  PROVE  ReplyInv'
<1>1. ReplyTypeOK'
  BY DEF ReplyInv, ReplyTypeOK, rows
<1> QED
  BY <1>1, QuietRows DEF ReplyInv

LEMMA UnleasedRow ==
  ASSUME NEW row \in CommandRow
  PROVE  /\ Unleased(row) \in CommandRow
         /\ Unleased(row).state = row.state /\ Unleased(row).cancel = row.cancel
BY DEF Unleased, CommandRow

LEMMA FaultTyped ==
  ASSUME ReplyTypeOK, NEW e, Fault(e)
  PROVE  env' \in Environment
<1>1. env.faults \in Nat /\ env.faults > 0 => env.faults - 1 \in Nat
  OBVIOUS
<1> QED
  BY <1>1 DEF ReplyTypeOK, Fault, Environment

\* One row of ai_reply_commands changes, and one worker moves on
LEMMA OneRow ==
  ASSUME ReplyInv, UNCHANGED <<rows, sweep>>, env' \in Environment,
         NEW c \in Commands, NEW row \in CommandRow, cmd' = [cmd EXCEPT ![c] = row],
         row.cancel = cmd[c].cancel,
         \/ row.state = cmd[c].state
         \/ cmd[c].state \in Live \cup {"absent"} /\ row.state \in Live \cup {"failed", "outcome_unknown"},
         worker' \in [Workers -> WorkerType], ExecutionsInStep'
  PROVE  ReplyInv'
<1>1. cmd' \in [Commands -> CommandRow] /\ \A d \in Commands : Unsettling(d)
  BY DEF ReplyInv, ReplyTypeOK, Unsettling
<1> QED
  BY <1>1, QuietStep

LEMMA NoRow ==
  ASSUME ReplyInv, UNCHANGED <<cmd, rows, sweep>>, env' \in Environment,
         worker' \in [Workers -> WorkerType], ExecutionsInStep'
  PROVE  ReplyInv'
BY QuietStep DEF ReplyInv, ReplyTypeOK, Unsettling

LEMMA StillInStep ==
  ASSUME ReplyInv, UNCHANGED <<attempts, worker>>
  PROVE  ExecutionsInStep'
BY DEF ReplyInv, ExecutionsInStep, At

LEMMA ToMark ==
  ASSUME ReplyInv, NEW w \in Workers, NEW text \in Cause, Note(w, "mark", text), attempts' = attempts
  PROVE  worker' \in [Workers -> WorkerType] /\ ExecutionsInStep'
<1>1. "mark" \in Pc /\ text \in Text /\ ReplyTypeOK
  BY DEF Pc, Executing, Text, ReplyInv
<1>2. /\ worker' \in [Workers -> WorkerType] /\ worker'[w].pc = "mark" /\ worker'[w].note = text
      /\ \A v \in Workers \ {w} : worker'[v] = worker[v]
  BY <1>1, NoteMoves
<1>3. ExecutionsInStep'
  BY <1>2 DEF ReplyInv, ExecutionsInStep, At
<1> QED
  BY <1>2, <1>3

Elsewhere == Pc \ {"prepare", "call", "record", "mark"}

LEMMA ToElsewhere ==
  ASSUME ReplyInv, NEW w \in Workers, NEW p \in Elsewhere, NEW text \in Text, Note(w, p, text), attempts' = attempts
  PROVE  worker' \in [Workers -> WorkerType] /\ ExecutionsInStep'
<1>1. p \in Pc /\ ReplyTypeOK
  BY DEF ReplyInv, Elsewhere
<1>2. /\ worker' \in [Workers -> WorkerType] /\ worker'[w].pc = p
      /\ \A v \in Workers \ {w} : worker'[v] = worker[v]
  BY <1>1, NoteMoves
<1> QED
  BY <1>2, OneMoved DEF Elsewhere

LEMMA ToFence ==
  ASSUME ReplyInv, NEW w \in Workers, NEW force \in BOOLEAN, Fenced(w, force), attempts' = attempts
  PROVE  worker' \in [Workers -> WorkerType] /\ ExecutionsInStep'
<1>1. /\ worker' \in [Workers -> WorkerType] /\ worker'[w].pc = "fence"
      /\ \A v \in Workers \ {w} : worker'[v] = worker[v]
  BY FencedMoves DEF ReplyInv
<1> QED
  BY <1>1, OneMoved

LEMMA ToIdle ==
  ASSUME ReplyInv, NEW w \in Workers, Idle(w), attempts' = attempts
  PROVE  worker' \in [Workers -> WorkerType] /\ ExecutionsInStep'
<1>1. /\ worker' \in [Workers -> WorkerType] /\ worker'[w].pc = "idle"
      /\ \A v \in Workers \ {w} : worker'[v] = worker[v]
  BY IdleMoves DEF ReplyInv
<1> QED
  BY <1>1, OneMoved
-----------------------------------------------------------------------------
(* The user and the leases *)

LEMMA CreateReplyKeeps ==
  ASSUME ReplyInv, NEW c \in Commands, CreateReply(c)
  PROVE  ReplyInv'
<1> DEFINE row == [cmd[c] EXCEPT !.state = "pending"]
<1>1. cmd[c] \in CommandRow /\ cmd[c].state = "absent"
  BY DEF ReplyInv, ReplyTypeOK, CreateReply
<1>2. row \in CommandRow /\ row.state = "pending" /\ row.cancel = cmd[c].cancel
  BY <1>1 DEF CommandRow, State, Live
<1>3. cmd' = [cmd EXCEPT ![c] = row] /\ UNCHANGED <<rows, worker, sweep, env>>
  BY DEF CreateReply
<1> HIDE DEF row
<1> QED
  BY <1>1, <1>2, <1>3, OneRow, StillInStep DEF ReplyInv, ReplyTypeOK, rows, Live

LEMMA ClaimAmbiguousKeeps ==
  ASSUME ReplyInv, NEW c \in Commands, ClaimAmbiguous(c)
  PROVE  ReplyInv'
<1> DEFINE row == [cmd[c] EXCEPT !.state = "outcome_unknown", !.marker = "other"]
<1>1. cmd[c] \in CommandRow /\ cmd[c].state \in Live
  BY DEF ReplyInv, ReplyTypeOK, ClaimAmbiguous, Ambiguous, Lapsed, Live
<1>2. row \in CommandRow /\ row.state = "outcome_unknown" /\ row.cancel = cmd[c].cancel
  BY <1>1 DEF CommandRow, State, Marker
<1>3. cmd' = [cmd EXCEPT ![c] = Unleased(row)] /\ UNCHANGED <<rows, worker, sweep, env>>
  BY DEF ClaimAmbiguous
<1> HIDE DEF row
<1>4. Unleased(row) \in CommandRow /\ Unleased(row).state = "outcome_unknown" /\ Unleased(row).cancel = cmd[c].cancel
  BY <1>2, UnleasedRow
<1> QED
  BY <1>1, <1>3, <1>4, OneRow, StillInStep DEF ReplyInv, ReplyTypeOK, rows

LEMMA ClaimKeeps ==
  ASSUME ReplyInv, NEW w \in Workers, NEW c \in Commands, Claim(w, c)
  PROVE  ReplyInv'
<1> DEFINE free == cmd[c].cancel \/ Marked(c) \/ Latest(attempts[c]) \in Succeeded \cup {"prepared"}
           count == IF free THEN cmd[c].count ELSE Counted(cmd[c].count)
           row == [cmd[c] EXCEPT !.state = "claimed", !.count = count, !.lease = "live", !.holder = w]
           mine == [Resting EXCEPT !.pc = "claimed", !.cmd = c, !.last = count >= MaxAttempts,
                                   !.force = cmd[c].marker \in Triggers]
<1>1. cmd[c] \in CommandRow /\ cmd[c].state \in Live
  BY DEF ReplyInv, ReplyTypeOK, Claim, Claimable, Lapsed, Live
<1>2. /\ cmd' = [cmd EXCEPT ![c] = row] /\ worker' = [worker EXCEPT ![w] = mine]
      /\ UNCHANGED <<rows, sweep, env>>
  BY DEF Claim
<1>3. count \in 0 .. MaxAttempts
  BY <1>1 DEF CommandRow, Counted
<1> HIDE DEF count
<1>4. row \in CommandRow /\ row.state = "claimed" /\ row.cancel = cmd[c].cancel
  BY <1>1, <1>3 DEF CommandRow, State, Live
<1>5. (count >= MaxAttempts) \in BOOLEAN /\ (cmd[c].marker \in Triggers) \in BOOLEAN
  OBVIOUS
<1>6. mine \in WorkerType /\ mine.pc = "claimed"
  BY <1>5, RestingTyped DEF WorkerType, Pc
<1> HIDE DEF row, mine
<1>7. /\ worker' \in [Workers -> WorkerType] /\ worker'[w].pc = "claimed"
      /\ \A v \in Workers \ {w} : worker'[v] = worker[v]
  BY <1>2, <1>6 DEF ReplyInv, ReplyTypeOK
<1>8. ExecutionsInStep'
  BY <1>2, <1>7, OneMoved DEF rows
<1> QED
  BY <1>1, <1>2, <1>4, <1>7, <1>8, OneRow DEF ReplyInv, ReplyTypeOK, Live

\* Only the lease of a row changes
LEMMA LeaseOnly ==
  ASSUME ReplyInv, NEW c \in Commands, NEW lease \in {"live", "expired"}
  PROVE  LET row == [cmd[c] EXCEPT !.lease = lease]
         IN  row \in CommandRow /\ row.state = cmd[c].state /\ row.cancel = cmd[c].cancel
<1>1. cmd[c] \in CommandRow
  BY DEF ReplyInv, ReplyTypeOK
<1> QED
  BY <1>1 DEF CommandRow

LEMMA RenewKeeps ==
  ASSUME ReplyInv, NEW w \in Workers, Renew(w)
  PROVE  ReplyInv'
<1> DEFINE c == worker[w].cmd
           row == [cmd[c] EXCEPT !.lease = "live"]
           stop == worker[w].stop \/ cmd[c].cancel
           mine == [worker[w] EXCEPT !.stop = stop]
<1>1. worker[w] \in WorkerType /\ c \in Commands
  BY DEF ReplyInv, ReplyTypeOK, WorkerType
<1>2. row \in CommandRow /\ row.state = cmd[c].state /\ row.cancel = cmd[c].cancel
  BY <1>1, LeaseOnly
<1>3. /\ cmd' = [cmd EXCEPT ![c] = row] /\ worker' = [worker EXCEPT ![w] = mine]
      /\ UNCHANGED <<rows, sweep, env>>
  BY DEF Renew
<1>4. stop \in BOOLEAN
  OBVIOUS
<1> HIDE DEF stop, row
<1>5. /\ mine \in WorkerType /\ mine.pc = worker[w].pc /\ mine.cmd = worker[w].cmd
      /\ mine.n = worker[w].n /\ mine.note = worker[w].note
  BY <1>1, <1>4 DEF WorkerType
<1> HIDE DEF mine
<1>6. worker' \in [Workers -> WorkerType] /\ ExecutionsInStep'
  BY <1>3, <1>5 DEF ReplyInv, ReplyTypeOK, ExecutionsInStep, At, rows
<1> QED
  BY <1>1, <1>2, <1>3, <1>6, OneRow DEF ReplyInv, ReplyTypeOK

LEMMA ExpiredKeeps ==
  ASSUME ReplyInv, NEW c \in Commands, Expire(c) \/ Lapse(c)
  PROVE  ReplyInv'
<1> DEFINE row == [cmd[c] EXCEPT !.lease = "expired"]
<1>1. row \in CommandRow /\ row.state = cmd[c].state /\ row.cancel = cmd[c].cancel
  BY LeaseOnly
<1>2. cmd' = [cmd EXCEPT ![c] = row] /\ UNCHANGED <<rows, worker, sweep>>
  BY DEF Expire, Lapse, Expired
<1>3. env' \in Environment
  BY FaultTyped DEF Expire, Lapse, ReplyInv, ReplyTypeOK
<1> HIDE DEF row
<1> QED
  BY <1>1, <1>2, <1>3, OneRow, StillInStep DEF ReplyInv, ReplyTypeOK, rows

LEMMA CrashKeeps ==
  ASSUME ReplyInv, NEW w \in Workers, Crash(w)
  PROVE  ReplyInv'
<1>1. UNCHANGED <<cmd, rows, sweep>> /\ env' \in Environment
  BY FaultTyped DEF Crash, ReplyInv
<1>2. worker' \in [Workers -> WorkerType] /\ ExecutionsInStep'
  BY <1>1, ToIdle DEF Crash, rows
<1> QED
  BY <1>1, <1>2, NoRow
-----------------------------------------------------------------------------
(* The steps of a claim that leave the rows of the run alone *)

LEMMA RejectedMoves ==
  ASSUME ReplyInv, NEW w \in Workers, Rejected(w), attempts' = attempts
  PROVE  worker' \in [Workers -> WorkerType] /\ ExecutionsInStep'
<1>1. "pre_dispatch_failed" \in Cause /\ "retry" \in Text /\ "fail" \in Elsewhere
  BY DEF Cause, Triggers, Text, Reason, Elsewhere, Pc
<1> QED
  BY <1>1, ToMark, ToElsewhere DEF Rejected

LEMMA StartKeeps ==
  ASSUME ReplyInv, NEW w \in Workers, Start(w)
  PROVE  ReplyInv'
<1> DEFINE c == worker[w].cmd
           holds == cmd[c].state = "claimed" /\ cmd[c].holder = w
           row == [cmd[c] EXCEPT !.state = "running", !.lease = "live"]
           force == worker[w].force \/ cmd[c].cancel
<1>1. c \in Commands /\ cmd[c] \in CommandRow
  BY DEF ReplyInv, ReplyTypeOK, WorkerType
<1>2. UNCHANGED <<rows, sweep, env>> /\ env' \in Environment
  BY DEF Start, ReplyInv, ReplyTypeOK
<1>3. force \in BOOLEAN
  OBVIOUS
<1> HIDE DEF force
<1>4. CASE holds
  <2>1. row \in CommandRow /\ row.state = "running" /\ row.cancel = cmd[c].cancel
    BY <1>1 DEF CommandRow, State, Live
  <2>2. cmd' = [cmd EXCEPT ![c] = row]
    BY <1>1, <1>4 DEF Start, ReplyInv, ReplyTypeOK
  <2>3. Fenced(w, force)
    BY <1>4 DEF Start, force
  <2>4. worker' \in [Workers -> WorkerType] /\ ExecutionsInStep'
    BY <1>2, <1>3, <2>3, ToFence DEF rows
  <2> HIDE DEF row
  <2> QED
    BY <1>1, <1>2, <1>4, <2>1, <2>2, <2>4, OneRow DEF Live
<1>5. CASE ~holds
  <2>1. cmd' = cmd /\ Idle(w)
    BY <1>5 DEF Start
  <2> QED
    BY <1>2, <2>1, ToIdle, NoRow DEF rows
<1> QED
  BY <1>4, <1>5

\* A transition that the runner makes only while it still holds the claim
Released == {"pending", "failed", "outcome_unknown"}

LEMMA ReleasedRow ==
  ASSUME ReplyInv, NEW c \in Commands, NEW state \in Released, NEW marker \in Marker
  PROVE  LET row == Unleased([cmd[c] EXCEPT !.state = state, !.marker = marker])
         IN  row \in CommandRow /\ row.state = state /\ row.cancel = cmd[c].cancel
<1> DEFINE row == [cmd[c] EXCEPT !.state = state, !.marker = marker]
<1>1. cmd[c] \in CommandRow
  BY DEF ReplyInv, ReplyTypeOK
<1>2. row \in CommandRow /\ row.state = state /\ row.cancel = cmd[c].cancel
  BY <1>1 DEF CommandRow, State, Live, Released
<1> HIDE DEF row
<1>3. Unleased(row) \in CommandRow /\ Unleased(row).state = row.state /\ Unleased(row).cancel = row.cancel
  BY <1>2, UnleasedRow
<1> QED
  BY <1>2, <1>3 DEF row

LEMMA DeferKeeps ==
  ASSUME ReplyInv, NEW w \in Workers, Defer(w)
  PROVE  ReplyInv'
<1> DEFINE c == worker[w].cmd
           marker == IF Marked(c) THEN cmd[c].marker ELSE "generic"
           row == Unleased([cmd[c] EXCEPT !.state = "pending", !.marker = marker])
<1>1. c \in Commands /\ cmd[c] \in CommandRow
  BY DEF ReplyInv, ReplyTypeOK, WorkerType
<1>2. UNCHANGED <<rows, sweep, env>> /\ env' \in Environment
  BY DEF Defer, ReplyInv, ReplyTypeOK
<1>3. worker' \in [Workers -> WorkerType] /\ ExecutionsInStep'
  BY <1>2, ToIdle DEF Defer, rows
<1>4. marker \in Marker
  BY <1>1 DEF CommandRow, Marker
<1>5. Current(w, c) => cmd' = [cmd EXCEPT ![c] = row]
  BY DEF Defer
<1> HIDE DEF marker
<1>6. row \in CommandRow /\ row.state = "pending" /\ row.cancel = cmd[c].cancel
  BY <1>1, <1>4, ReleasedRow DEF Released
<1> HIDE DEF row
<1>7. CASE Current(w, c)
  BY <1>1, <1>2, <1>3, <1>5, <1>6, <1>7, OneRow DEF Current, Live
<1>8. CASE ~Current(w, c)
  BY <1>2, <1>3, <1>8, NoRow DEF Defer
<1> QED
  BY <1>7, <1>8

LEMMA FinishKeeps ==
  ASSUME ReplyInv, NEW w \in Workers, Finish(w)
  PROVE  ReplyInv'
<1> DEFINE c == worker[w].cmd
<1>1. c \in Commands /\ cmd[c] \in CommandRow
  BY DEF ReplyInv, ReplyTypeOK, WorkerType
<1>2. UNCHANGED <<rows, sweep, env>> /\ env' \in Environment
  BY DEF Finish, ReplyInv, ReplyTypeOK
<1>3. worker' \in [Workers -> WorkerType] /\ ExecutionsInStep'
  BY <1>2, ToIdle DEF Finish, rows
<1>4. CASE Current(w, c)
  <2>1. PICK to \in Released :
          cmd' = [cmd EXCEPT ![c] = Unleased([cmd[c] EXCEPT !.state = to, !.marker = "other"])]
    BY <1>4 DEF Finish, Released
  <2> DEFINE marker == "other"
           row == Unleased([cmd[c] EXCEPT !.state = to, !.marker = marker])
  <2>2. marker \in Marker
    BY DEF Marker
  <2> HIDE DEF marker
  <2>3. row \in CommandRow /\ row.state = to /\ row.cancel = cmd[c].cancel
    BY <1>1, <2>2, ReleasedRow
  <2> HIDE DEF row
  <2> QED
    BY <1>1, <1>2, <1>3, <1>4, <2>1, <2>3, OneRow DEF Current, Live, Released, row, marker
<1>5. CASE ~Current(w, c)
  BY <1>2, <1>3, <1>5, NoRow DEF Finish
<1> QED
  BY <1>4, <1>5

LEMMA FailKeeps ==
  ASSUME ReplyInv, NEW w \in Workers, Fail(w)
  PROVE  ReplyInv'
<1> DEFINE c == worker[w].cmd
           row == [cmd[c] EXCEPT !.lease = "live"]
<1>1. c \in Commands /\ worker[w] \in WorkerType
  BY DEF ReplyInv, ReplyTypeOK, WorkerType
<1>2. UNCHANGED <<rows, sweep, env>> /\ env' \in Environment
  BY DEF Fail, ReplyInv, ReplyTypeOK
<1>3. "defer" \in Elsewhere /\ "finish" \in Elsewhere /\ "" \in Text /\ worker[w].note \in Text
  BY <1>1 DEF Elsewhere, Pc, Text, WorkerType
<1>4. Fenced(w, TRUE) \/ Idle(w) \/ To(w, "defer") \/ Note(w, "finish", worker[w].note)
  BY DEF Fail
<1>5. worker' \in [Workers -> WorkerType] /\ ExecutionsInStep'
  BY <1>2, <1>3, <1>4, ToFence, ToIdle, ToElsewhere DEF To, rows
<1>6. row \in CommandRow /\ row.state = cmd[c].state /\ row.cancel = cmd[c].cancel
  BY <1>1, LeaseOnly
<1>7. cmd' = cmd \/ cmd' = [cmd EXCEPT ![c] = row]
  BY DEF Fail
<1> HIDE DEF row
<1> QED
  BY <1>1, <1>2, <1>5, <1>6, <1>7, NoRow, OneRow

LEMMA LocalErrorKeeps ==
  ASSUME ReplyInv, NEW w \in Workers, LocalError(w)
  PROVE  ReplyInv'
<1>1. UNCHANGED <<cmd, rows, sweep>> /\ env' \in Environment
  BY FaultTyped DEF LocalError, ReplyInv
<1>2. "local_failure" \in Cause /\ "pre_dispatch_failed" \in Cause
  BY DEF Cause, Triggers
<1>3. worker' \in [Workers -> WorkerType] /\ ExecutionsInStep'
  BY <1>1, <1>2, ToMark, RejectedMoves DEF LocalError, rows
<1> QED
  BY <1>1, <1>3, NoRow

LEMMA ToolsKeeps ==
  ASSUME ReplyInv, NEW w \in Workers, Tools(w)
  PROVE  ReplyInv'
<1>1. UNCHANGED <<cmd, rows, sweep, env>> /\ env' \in Environment
  BY DEF Tools, Unchanged, ReplyInv, ReplyTypeOK
<1>2. "local_failure" \in Cause /\ "context_failure" \in Cause
  BY DEF Cause, Triggers
<1>3. CASE worker' = [worker EXCEPT ![w].pc = "route", ![w].again = TRUE]
  <2> DEFINE mine == [worker[w] EXCEPT !.pc = "route", !.again = TRUE]
  <2>1. worker[w] \in WorkerType
    BY DEF ReplyInv, ReplyTypeOK
  <2>2. mine \in WorkerType /\ mine.pc = "route"
    BY <2>1 DEF WorkerType, Pc, Executing
  <2>3. worker' = [worker EXCEPT ![w] = mine]
    BY <1>3 DEF ReplyInv, ReplyTypeOK
  <2> HIDE DEF mine
  <2>4. /\ worker' \in [Workers -> WorkerType] /\ worker'[w].pc = "route"
        /\ \A v \in Workers \ {w} : worker'[v] = worker[v]
    BY <2>2, <2>3 DEF ReplyInv, ReplyTypeOK
  <2> QED
    BY <1>1, <2>4, OneMoved, NoRow DEF rows
<1>4. CASE Note(w, "mark", "local_failure") \/ Note(w, "mark", "context_failure") \/ Fenced(w, TRUE)
  BY <1>1, <1>2, <1>4, ToMark, ToFence, NoRow DEF rows
<1> QED
  BY <1>3, <1>4 DEF Tools

LEMMA LatestTyped ==
  ASSUME NEW log \in Seq(Attempt)
  PROVE  /\ Len(log) \in Nat /\ Latest(log) \in Attempt \cup {"none"}
         /\ log = <<>> => Latest(log) = "none" /\ Len(log) = 0
         /\ log # <<>> => Len(log) \in 1 .. Len(log) /\ Latest(log) = log[Len(log)] /\ Latest(log) \in Attempt
BY DEF Latest

LEMMA CallKeeps ==
  ASSUME ReplyInv, NEW w \in Workers, Call(w)
  PROVE  ReplyInv'
<1>1. UNCHANGED <<cmd, rows, sweep, env>> /\ env' \in Environment
  BY DEF Call, Unchanged, ReplyInv, ReplyTypeOK
<1>2. PICK answer \in Answer : Note(w, "record", answer)
  BY DEF Call, Answers, Answer, Succeeded
<1>3. "record" \in Pc /\ answer \in Text /\ "record" \notin Ended
  BY DEF Pc, Executing, Text, Ended
<1>4. /\ worker' \in [Workers -> WorkerType] /\ worker'[w].pc = "record" /\ worker'[w].cmd = worker[w].cmd
      /\ worker'[w].note \in Answer /\ worker'[w].n = worker[w].n
      /\ \A v \in Workers \ {w} : worker'[v] = worker[v]
  BY <1>2, <1>3, NoteMoves DEF ReplyInv
<1>5. ExecutionsInStep'
  BY <1>1, <1>4 DEF ReplyInv, ExecutionsInStep, At, Call, rows
<1> QED
  BY <1>1, <1>4, <1>5, NoRow

LEMMA RouteKeeps ==
  ASSUME ReplyInv, NEW w \in Workers, Route(w)
  PROVE  ReplyInv'
<1> DEFINE log == attempts[worker[w].cmd]
           latest == Latest(log)
           n == IF latest = "prepared" THEN Len(log) ELSE Len(log) + 1
           again == worker[w].again \/ latest = "prepared"
           mine == [worker[w] EXCEPT !.pc = "prepare", !.n = n, !.again = again]
<1>1. UNCHANGED <<cmd, rows, sweep, env>> /\ env' \in Environment
  BY DEF Route, Unchanged, ReplyInv, ReplyTypeOK
<1>2. worker[w] \in WorkerType /\ log \in Seq(Attempt)
  BY DEF ReplyInv, ReplyTypeOK, WorkerType
<1>3. CASE \/ Note(w, "fail", "unknown") \/ To(w, "tools") \/ To(w, "settle") \/ Note(w, "mark", "local_failure")
  <2>1. /\ "fail" \in Elsewhere /\ "tools" \in Elsewhere /\ "settle" \in Elsewhere
        /\ "unknown" \in Text /\ "" \in Text /\ "local_failure" \in Cause
    BY DEF Elsewhere, Pc, Executing, Text, Reason, Cause, Triggers
  <2> QED
    BY <1>1, <1>3, <2>1, ToElsewhere, ToMark, NoRow DEF To, rows
<1>4. ASSUME worker' = [worker EXCEPT ![w].pc = "prepare", ![w].n = n, ![w].again = @ \/ latest = "prepared"],
             ~TooMany(n), latest \notin Uncertain, ~(latest = "tools" /\ ~worker[w].again),
             latest \notin {"final", "partial", "unknown", "stopped", "withdrawn"}
      PROVE  ReplyInv'
  <2>1. Len(log) \in Nat /\ n \in 1 .. MaxAttempts /\ n <= Len(log) + 1
    BY <1>2, <1>4, LatestTyped DEF TooMany
  <2>2. n = Len(log) + 1 => latest \in {"none", "failed", "unsent", "tools"}
    BY <1>2, <1>4, <2>1, LatestTyped DEF Attempt, Sent, Succeeded, Uncertain
  <2>3. worker' = [worker EXCEPT ![w] = mine]
    BY <1>4 DEF ReplyInv, ReplyTypeOK
  <2>4. again \in BOOLEAN /\ n \in 0 .. MaxAttempts + 1
    BY <2>1
  <2> HIDE DEF again, n
  <2>5. mine \in WorkerType /\ mine.pc = "prepare" /\ mine.n = n /\ mine.cmd = worker[w].cmd
    BY <1>2, <2>4 DEF WorkerType, Pc, Executing
  <2> HIDE DEF mine
  <2>6. /\ worker' \in [Workers -> WorkerType] /\ worker'[w].pc = "prepare" /\ worker'[w].cmd = worker[w].cmd
        /\ worker'[w].n = n /\ \A v \in Workers \ {w} : worker'[v] = worker[v]
    BY <2>3, <2>5 DEF ReplyInv, ReplyTypeOK
  <2>7. ExecutionsInStep'
    BY <1>1, <2>1, <2>2, <2>6 DEF ReplyInv, ExecutionsInStep, At, rows
  <2> QED
    BY <1>1, <2>6, <2>7, NoRow
<1> QED
  BY <1>3, <1>4 DEF Route

LEMMA MarkKeeps ==
  ASSUME ReplyInv, NEW w \in Workers, Mark(w)
  PROVE  ReplyInv'
<1> DEFINE c == worker[w].cmd
           marker == IF worker[w].note = "context_failure" THEN "other" ELSE worker[w].note
           row == [cmd[c] EXCEPT !.marker = marker]
<1>1. c \in Commands /\ cmd[c] \in CommandRow /\ worker[w].note \in Cause
  BY DEF ReplyInv, ReplyTypeOK, WorkerType, ExecutionsInStep, Mark
<1>2. UNCHANGED <<rows, sweep, env>> /\ env' \in Environment
  BY DEF Mark, ReplyInv, ReplyTypeOK
<1>3. "settle" \in Elsewhere /\ "fail" \in Elsewhere /\ "retry" \in Text /\ worker[w].note \in Text
  BY <1>1 DEF Elsewhere, Pc, Executing, Text, Reason
<1>4. worker' \in [Workers -> WorkerType] /\ ExecutionsInStep'
  BY <1>2, <1>3, ToElsewhere DEF Mark, rows
<1>5. marker \in Marker
  BY <1>1 DEF Cause, Marker
<1>6. Current(w, c) => cmd' = [cmd EXCEPT ![c] = row]
  BY <1>1 DEF Mark, ReplyInv, ReplyTypeOK
<1>7. ~Current(w, c) => cmd' = cmd
  BY DEF Mark
<1> HIDE DEF marker
<1>8. row \in CommandRow /\ row.state = cmd[c].state /\ row.cancel = cmd[c].cancel
  BY <1>1, <1>5 DEF CommandRow
<1> HIDE DEF row
<1> QED
  BY <1>1, <1>2, <1>4, <1>6, <1>7, <1>8, OneRow, NoRow
-----------------------------------------------------------------------------
(* Settlement *)

\* Normalisation closes the last attempt, and only if it was still open.
LEMMA NormalizedLog ==
  ASSUME ReplyInv, NEW c \in Commands
  PROVE  /\ Normalized(c) \in Seq(Attempt) /\ Len(Normalized(c)) = Len(attempts[c])
         /\ \A i \in 1 .. Len(attempts[c]) :
              \/ Normalized(c)[i] = attempts[c][i]
              \/ /\ i = Len(attempts[c]) /\ attempts[c][i] \in {"prepared", "dispatched"}
                 /\ Normalized(c)[i] \in {"withdrawn", "unknown"}
<1> DEFINE log == attempts[c]
           prepared == Latest(log) = "prepared" /\ (cmd[c].cancel \/ cmd[c].marker = "pre_dispatch_failed")
           lost == Latest(log) = "dispatched" /\ cmd[c].state = "outcome_unknown"
           new == Normalized(c)
<1>1. log \in Seq(Attempt) /\ DOMAIN log = 1 .. Len(log) /\ Len(log) \in Nat
  BY DEF ReplyInv, ReplyTypeOK
<1>2. new = [i \in 1 .. Len(log) |-> IF i = Len(log) /\ prepared THEN "withdrawn"
                                     ELSE IF i = Len(log) /\ lost THEN "unknown" ELSE log[i]]
  BY <1>1 DEF Normalized
<1>3. \A i \in 1 .. Len(log) : log[i] \in Attempt
  BY <1>1
<1>4. (prepared \/ lost) /\ Len(log) \in 1 .. Len(log) => log[Len(log)] \in {"prepared", "dispatched"}
  BY <1>1, LatestTyped DEF Latest
<1> HIDE DEF prepared, lost
<1>5. ASSUME NEW i \in 1 .. Len(log)
      PROVE  /\ new[i] \in Attempt
             /\ \/ new[i] = log[i]
                \/ i = Len(log) /\ log[i] \in {"prepared", "dispatched"} /\ new[i] \in {"withdrawn", "unknown"}
  BY <1>1, <1>2, <1>3, <1>4 DEF Attempt
<1>6. new \in [1 .. Len(log) -> Attempt]
  BY <1>2, <1>5
<1>7. new \in Seq(Attempt) /\ Len(new) = Len(log)
  <2> HIDE DEF new, log
  <2> QED
    BY <1>1, <1>6
<1> QED
  BY <1>5, <1>7

LEMMA TriggerSuccess ==
  ASSUME ReplyInv, NEW c \in Commands, NEW log, Trigger(c, log) = "success"
  PROVE  Latest(log) \in {"final", "partial"}
BY DEF Trigger, Triggers

\* What RunFinalizer.decide may decide: nothing while an attempt is open, and a
\* payment only for an answer with complete usage.
LEMMA Decided ==
  ASSUME ReplyInv, NEW c \in Commands, NEW d \in Decide(c)
  PROVE  /\ d.charge \in {"captured", "released"} /\ d.state \in {"succeeded", "failed", "canceled", "outcome_unknown"}
         /\ ~Has(Normalized(c), {"prepared", "dispatched"})
         /\ d.state = "succeeded" => d.charge = "captured"
         /\ d.charge = "captured" => Has(Normalized(c), {"final", "tools", "stopped"})
<1> DEFINE log == Normalized(c)
           t == Trigger(c, log)
<1>1. ~Has(log, {"prepared", "dispatched"})
  BY DEF Decide, Undecided
<1>2. log \in Seq(Attempt) /\ (t = "success" => Latest(log) \in {"final", "partial"})
  BY NormalizedLog, TriggerSuccess
<1>3. t = "success" => Has(log, {"final", "partial"})
  BY <1>2, LatestTyped DEF Has
<1>4. \/ \E to \in {"failed", "canceled", "outcome_unknown"} : d \in Verdict("released", to)
      \/ t = "success" /\ d \in Priced(log, "succeeded", "failed")
      \/ /\ Has(log, Succeeded \cup {"stopped"})
         /\ \E to \in {"failed", "canceled"} : d \in Priced(log, to, to)
  <2>1. Has(log, Succeeded) => Has(log, Succeeded \cup {"stopped"})
    BY DEF Has
  <2> QED
    BY <1>1, <2>1 DEF Decide, Undecided
<1>5. Has(log, {"partial"}) \/ (Has(log, {"final", "partial"}) => Has(log, {"final", "tools", "stopped"}))
  BY DEF Has
<1>6. Has(log, {"partial"}) \/ (Has(log, Succeeded \cup {"stopped"}) => Has(log, {"final", "tools", "stopped"}))
  BY DEF Has, Succeeded
<1>7. CASE \E to \in {"failed", "canceled", "outcome_unknown"} : d \in Verdict("released", to)
  BY <1>1, <1>7 DEF Verdict
<1>8. CASE t = "success" /\ d \in Priced(log, "succeeded", "failed")
  BY <1>1, <1>3, <1>5, <1>8 DEF Verdict, Priced
<1>9. CASE /\ Has(log, Succeeded \cup {"stopped"})
           /\ \E to \in {"failed", "canceled"} : d \in Priced(log, to, to)
  BY <1>1, <1>6, <1>9 DEF Verdict, Priced
<1> QED
  BY <1>4, <1>7, <1>8, <1>9

LEMMA SweptTyped ==
  ASSUME ReplyTypeOK, NEW c \in Commands, Swept(c)
  PROVE  chunks' \in [Commands -> {"none", "kept", "cleaned"}]
<1>1. \/ chunks' = chunks
      \/ chunks' = [chunks EXCEPT ![c] = IF chunks[c] = "kept" THEN "cleaned" ELSE chunks[c]]
  BY DEF Swept
<1>2. chunks \in [Commands -> {"none", "kept", "cleaned"}]
  BY DEF ReplyTypeOK
<1> DEFINE value == IF chunks[c] = "kept" THEN "cleaned" ELSE chunks[c]
<1>3. value \in {"none", "kept", "cleaned"}
  BY <1>2
<1> HIDE DEF value
<1>4. chunks' = chunks \/ chunks' = [chunks EXCEPT ![c] = value]
  BY <1>1 DEF value
<1> QED
  BY <1>2, <1>3, <1>4

\* The rows a settlement writes
LEMMA AppliedRows ==
  ASSUME ReplyInv, NEW c \in Commands, Apply(c)
  PROVE  \E d \in Decide(c) :
           /\ Open(c) /\ Acceptable(c, d.state) /\ UNCHANGED deleted
           /\ attempts' = [attempts EXCEPT ![c] = Normalized(c)]
           /\ charge' = [charge EXCEPT ![c] = d.charge]
           /\ hold' = [hold EXCEPT ![c] = Closed(@, d.charge)]
           /\ cmd' \in [Commands -> CommandRow] /\ \A e \in Commands \ {c} : cmd'[e] = cmd[e]
           /\ cmd'[c].state = d.state /\ cmd'[c].cancel = cmd[c].cancel
           /\ message' \in [Commands -> {"none", "stopped", "completed"}]
           /\ \A e \in Commands \ {c} : message'[e] = message[e]
           /\ message'[c] = IF d.state = "succeeded" THEN "completed"
                            ELSE IF chunks[c] # "none" THEN "stopped" ELSE message[c]
<1>1. PICK d \in Decide(c) :
        /\ Open(c) /\ Acceptable(c, d.state) /\ UNCHANGED deleted
        /\ attempts' = [attempts EXCEPT ![c] = Normalized(c)]
        /\ charge' = [charge EXCEPT ![c] = d.charge]
        /\ hold' = [hold EXCEPT ![c] = Closed(@, d.charge)]
        /\ cmd' = [cmd EXCEPT ![c] = Unleased([@ EXCEPT !.state = d.state, !.marker = IF d.state \in {"succeeded", "canceled"} THEN "none" ELSE "other"])]
        /\ message' = [message EXCEPT ![c] = CASE d.state = "succeeded" -> "completed"
                                               [] d.state # "succeeded" /\ chunks[c] # "none" -> "stopped"
                                               [] OTHER -> @]
  BY DEF Apply
<1> DEFINE marker == IF d.state \in {"succeeded", "canceled"} THEN "none" ELSE "other"
           row == [cmd[c] EXCEPT !.state = d.state, !.marker = marker]
<1>2. cmd[c] \in CommandRow /\ d.state \in State /\ marker \in Marker
  BY Decided DEF ReplyInv, ReplyTypeOK, State, Marker
<1>3. cmd' = [cmd EXCEPT ![c] = Unleased(row)]
  BY <1>1 DEF ReplyInv, ReplyTypeOK
<1> HIDE DEF marker
<1>4. row \in CommandRow /\ row.state = d.state /\ row.cancel = cmd[c].cancel
  BY <1>2 DEF CommandRow
<1> HIDE DEF row
<1>5. /\ Unleased(row) \in CommandRow
      /\ Unleased(row).state = d.state /\ Unleased(row).cancel = cmd[c].cancel
  BY <1>4, UnleasedRow
<1>6. /\ cmd' \in [Commands -> CommandRow] /\ \A e \in Commands \ {c} : cmd'[e] = cmd[e]
      /\ cmd'[c].state = d.state /\ cmd'[c].cancel = cmd[c].cancel
  BY <1>3, <1>5 DEF ReplyInv, ReplyTypeOK
<1>7. /\ message' \in [Commands -> {"none", "stopped", "completed"}]
      /\ \A e \in Commands \ {c} : message'[e] = message[e]
      /\ message'[c] = IF d.state = "succeeded" THEN "completed"
                       ELSE IF chunks[c] # "none" THEN "stopped" ELSE message[c]
  BY <1>1 DEF ReplyInv, ReplyTypeOK
<1> QED
  BY <1>1, <1>6, <1>7

\* A settlement ends the execution that asked for it, if any
LEMMA ApplyKeeps ==
  ASSUME ReplyInv, NEW c \in Commands, Apply(c), env' \in Environment,
         sweep' \in {"unknown", "orphan", "clean"}, worker' \in [Workers -> WorkerType],
         \A w \in Workers : worker'[w] = worker[w] \/ worker'[w].pc = "idle"
  PROVE  ReplyInv'
<1>1. PICK d \in Decide(c) :
        /\ Open(c) /\ Acceptable(c, d.state) /\ UNCHANGED deleted
        /\ attempts' = [attempts EXCEPT ![c] = Normalized(c)]
        /\ charge' = [charge EXCEPT ![c] = d.charge]
        /\ hold' = [hold EXCEPT ![c] = Closed(@, d.charge)]
        /\ cmd' \in [Commands -> CommandRow] /\ \A e \in Commands \ {c} : cmd'[e] = cmd[e]
        /\ cmd'[c].state = d.state /\ cmd'[c].cancel = cmd[c].cancel
        /\ message' \in [Commands -> {"none", "stopped", "completed"}]
        /\ \A e \in Commands \ {c} : message'[e] = message[e]
        /\ message'[c] = IF d.state = "succeeded" THEN "completed"
                         ELSE IF chunks[c] # "none" THEN "stopped" ELSE message[c]
  BY AppliedRows
<1> DEFINE log == attempts[c]
           new == Normalized(c)
<1>2. log \in Seq(Attempt) /\ Len(log) \in Nat /\ Len(log) <= MaxAttempts
  BY DEF ReplyInv, ReplyTypeOK
<1>3. /\ new \in Seq(Attempt) /\ Len(new) = Len(log)
      /\ \A i \in 1 .. Len(log) :
           \/ new[i] = log[i]
           \/ i = Len(log) /\ log[i] \in {"prepared", "dispatched"} /\ new[i] \in {"withdrawn", "unknown"}
  BY NormalizedLog
<1>4. attempts'[c] = new /\ \A e \in Commands \ {c} : attempts'[e] = attempts[e]
  BY <1>1 DEF ReplyInv, ReplyTypeOK
<1>5. /\ charge'[c] = d.charge /\ \A e \in Commands \ {c} : charge'[e] = charge[e]
      /\ hold'[c] = Closed(hold[c], d.charge) /\ \A e \in Commands \ {c} : hold'[e] = hold[e]
  BY <1>1 DEF ReplyInv, ReplyTypeOK
<1>6. /\ d.charge \in {"captured", "released"} /\ d.state \in {"succeeded", "failed", "canceled", "outcome_unknown"}
      /\ ~Has(new, {"prepared", "dispatched"}) /\ (d.state = "succeeded" => d.charge = "captured")
      /\ (d.charge = "captured" => Has(new, {"final", "tools", "stopped"}))
  BY Decided
<1>7. Latest(log) \notin {"prepared", "dispatched"} => Latest(new) = Latest(log)
  BY <1>2, <1>3 DEF Latest
<1>8. (new = <<>>) = (log = <<>>)
  BY <1>2, <1>3
<1> HIDE DEF new
<1>9. ReplyTypeOK'
  <2>1. attempts' \in [Commands -> Seq(Attempt)] /\ \A e \in Commands : Len(attempts'[e]) <= MaxAttempts
    BY <1>1, <1>2, <1>3, <1>4 DEF ReplyInv, ReplyTypeOK, new
  <2>2. charge' \in [Commands -> {"open", "captured", "released"}]
    BY <1>1, <1>6 DEF ReplyInv, ReplyTypeOK
  <2>3. hold' \in [Commands -> {"none", "active", "captured", "released"}]
    BY <1>1, <1>6 DEF ReplyInv, ReplyTypeOK, Closed
  <2>4. chunks' \in [Commands -> {"none", "kept", "cleaned"}]
    BY SweptTyped DEF Apply, ReplyInv
  <2> QED
    BY <1>1, <2>1, <2>2, <2>3, <2>4 DEF ReplyInv, ReplyTypeOK
<1>10. ExecutionsInStep'
  <2> SUFFICES ASSUME NEW w \in Workers, worker'[w] = worker[w]
               PROVE  LET l == attempts'[worker[w].cmd]
                          n == worker[w].n
                      IN  /\ At(w, "prepare") => /\ n \in 1 .. MaxAttempts /\ n <= Len(l) + 1
                                                 /\ n = Len(l) + 1 => Latest(l) \in {"none", "failed", "unsent", "tools"}
                          /\ worker[w].pc \in {"call", "record"} => n \in 1 .. Len(l)
                          /\ At(w, "record") => worker[w].note \in Answer
                          /\ At(w, "mark") => worker[w].note \in Cause
    BY DEF ExecutionsInStep, At
  <2>1. worker[w].cmd \in Commands
    BY DEF ReplyInv, ReplyTypeOK, WorkerType
  <2>2. CASE worker[w].cmd = c
    BY <1>3, <1>4, <1>7, <2>2 DEF ReplyInv, ExecutionsInStep
  <2>3. CASE worker[w].cmd # c
    BY <1>4, <2>1, <2>3 DEF ReplyInv, ExecutionsInStep
  <2> QED
    BY <2>2, <2>3
<1>11. NoBlindRepeat'
  <2>1. ASSUME NEW i \in 1 .. Len(new) - 1 PROVE new[i] \in {"failed", "unsent", "tools"}
    <3>1. i \in 1 .. Len(log) /\ i # Len(log) /\ i \in 1 .. Len(log) - 1
      BY <1>2, <1>3
    <3> QED
      BY <1>3, <3>1 DEF ReplyInv, NoBlindRepeat
  <2> QED
    BY <1>4, <2>1 DEF ReplyInv, NoBlindRepeat
<1>12. SettledAttempts'
  BY <1>4, <1>5, <1>6 DEF ReplyInv, SettledAttempts, Open, Has
<1>13. StopIsFinal'
  <2>1. cmd[c].cancel => message[c] = "stopped"
    BY DEF ReplyInv, StopIsFinal
  <2>2. /\ d.state = "succeeded" => ~cmd[c].cancel
        /\ d.state = "canceled" => message[c] = "stopped"
        /\ d.state \in {"failed", "outcome_unknown"} => message[c] = "none"
    BY <1>1, <1>6 DEF Acceptable
  <2>3. /\ cmd'[c].cancel => message'[c] = "stopped" /\ cmd'[c].state # "succeeded"
        /\ (message'[c] = "completed") = (cmd'[c].state = "succeeded")
    BY <1>1, <1>6, <2>1, <2>2
  <2> QED
    BY <1>1, <2>3 DEF ReplyInv, StopIsFinal
<1>14. ClosedTogether'
  <2>1. HoldFits(c)' /\ StateFits(c)' /\ PaymentFits(c)'
    <3>1. hold[c] = "none" <=> log = <<>>
      BY <1>1 DEF ReplyInv, ClosedTogether, HoldFits
    <3> QED
      BY <1>1, <1>4, <1>5, <1>6, <1>8, <3>1 DEF HoldFits, StateFits, PaymentFits, Open, Closed, Live, Has
  <2>2. ASSUME NEW e \in Commands \ {c} PROVE HoldFits(e)' /\ StateFits(e)' /\ PaymentFits(e)'
    BY <1>1, <1>4, <1>5, <2>2 DEF ReplyInv, ClosedTogether, HoldFits, StateFits, PaymentFits, Open, Has
  <2> QED
    BY <2>1, <2>2 DEF ClosedTogether
<1> QED
  BY <1>9, <1>10, <1>11, <1>12, <1>13, <1>14 DEF ReplyInv

LEMMA FinalizedKeeps ==
  ASSUME ReplyInv, NEW c \in Commands, Finalized(c), env' \in Environment,
         sweep' \in {"unknown", "orphan", "clean"}, worker' \in [Workers -> WorkerType],
         \A w \in Workers : worker'[w] = worker[w] \/ worker'[w].pc = "idle"
  PROVE  ReplyInv'
<1>1. CASE Replay(c)
  <2>1. ReplyTypeOK'
    BY <1>1, SweptTyped DEF Replay, ReplyInv, ReplyTypeOK
  <2>2. ExecutionsInStep'
    BY <1>1 DEF Replay, ReplyInv, ExecutionsInStep, At
  <2>3. NoBlindRepeat' /\ SettledAttempts' /\ StopIsFinal' /\ ClosedTogether'
    BY <1>1 DEF Replay, ReplyInv, NoBlindRepeat, SettledAttempts, StopIsFinal, ClosedTogether,
                HoldFits, StateFits, PaymentFits, Open, Has
  <2> QED
    BY <2>1, <2>2, <2>3 DEF ReplyInv
<1> QED
  BY <1>1, ApplyKeeps DEF Finalized

LEMMA FinalizedByWorker ==
  ASSUME ReplyInv, NEW w \in Workers, Finalized(worker[w].cmd), Idle(w), UNCHANGED <<sweep, env>>
  PROVE  ReplyInv'
<1>1. worker[w].cmd \in Commands
  BY DEF ReplyInv, ReplyTypeOK, WorkerType
<1>2. /\ worker' \in [Workers -> WorkerType]
      /\ \A v \in Workers : worker'[v] = worker[v] \/ worker'[v].pc = "idle"
  BY IdleMoves DEF ReplyInv
<1> QED
  BY <1>1, <1>2, FinalizedKeeps DEF ReplyInv, ReplyTypeOK

LEMMA FenceKeeps ==
  ASSUME ReplyInv, NEW w \in Workers, Fence(w)
  PROVE  ReplyInv'
<1>1. CASE Finalized(worker[w].cmd) /\ Idle(w) /\ UNCHANGED <<sweep, env>>
  BY <1>1, FinalizedByWorker
<1>2. ASSUME UNCHANGED <<cmd, rows, sweep>>, env' \in Environment, To(w, "route") \/ To(w, "defer")
      PROVE  ReplyInv'
  <2>1. "route" \in Elsewhere /\ "defer" \in Elsewhere /\ "" \in Text
    BY DEF Elsewhere, Pc, Executing, Text
  <2> QED
    BY <1>2, <2>1, ToElsewhere, NoRow DEF To, rows
<1>3. Unchanged => UNCHANGED <<cmd, rows, sweep>> /\ env' \in Environment
  BY DEF Unchanged, ReplyInv, ReplyTypeOK
<1>4. Fault("database") => env' \in Environment
  BY FaultTyped DEF ReplyInv
<1> QED
  BY <1>1, <1>2, <1>3, <1>4 DEF Fence

LEMMA SettleKeeps ==
  ASSUME ReplyInv, NEW w \in Workers, Settle(w)
  PROVE  ReplyInv'
<1>1. CASE Finalized(worker[w].cmd) /\ Idle(w) /\ UNCHANGED <<sweep, env>>
  BY <1>1, FinalizedByWorker
<1>2. ASSUME NEW reason \in Reason, UNCHANGED <<cmd, rows, sweep>>, env' \in Environment, Note(w, "fail", reason)
      PROVE  ReplyInv'
  <2>1. "fail" \in Elsewhere /\ reason \in Text
    BY DEF Elsewhere, Pc, Text
  <2> QED
    BY <1>2, <2>1, ToElsewhere, NoRow DEF rows
<1>3. Unchanged => UNCHANGED <<cmd, rows, sweep>> /\ env' \in Environment
  BY DEF Unchanged, ReplyInv, ReplyTypeOK
<1>4. Fault("database") => env' \in Environment
  BY FaultTyped DEF ReplyInv
<1>5. {"retry", "permanent", "settle"} \subseteq Reason
  BY DEF Reason
<1> QED
  BY <1>1, <1>2, <1>3, <1>4, <1>5 DEF Settle

LEMMA ReconcileKeeps ==
  ASSUME ReplyInv, Reconcile
  PROVE  ReplyInv'
<1>1. UNCHANGED <<worker, env>> /\ sweep' \in {"unknown", "orphan", "clean"}
  BY DEF Reconcile, After
<1>2. ASSUME NEW c \in Commands, Finalized(c)
      PROVE  ReplyInv'
  BY <1>1, <1>2, FinalizedKeeps DEF ReplyInv, ReplyTypeOK
<1>3. CASE UNCHANGED <<cmd, rows>>
  <2>1. ReplyTypeOK'
    BY <1>1, <1>3 DEF ReplyInv, ReplyTypeOK, rows
  <2>2. ExecutionsInStep'
    BY <1>1, <1>3, StillInStep DEF rows
  <2>3. \A c \in Commands : Unsettling(c)
    BY <1>3 DEF Unsettling
  <2> QED
    BY <1>3, <2>1, <2>2, <2>3, QuietRows DEF ReplyInv
<1> QED
  BY <1>2, <1>3 DEF Reconcile
-----------------------------------------------------------------------------
(* The other steps that change a row of the run *)

\* The properties of the attempts, the charge and the hold say nothing of chunks
LEMMA ChunksKeep ==
  ASSUME ReplyInv, UNCHANGED <<cmd, attempts, charge, hold, message, deleted, worker, env>>,
         chunks' \in [Commands -> {"none", "kept", "cleaned"}], sweep' \in {"unknown", "orphan", "clean"}
  PROVE  ReplyInv'
<1>1. ReplyTypeOK'
  BY DEF ReplyInv, ReplyTypeOK
<1>2. ExecutionsInStep'
  BY StillInStep
<1>3. NoBlindRepeat' /\ SettledAttempts' /\ StopIsFinal' /\ ClosedTogether'
  BY DEF ReplyInv, NoBlindRepeat, SettledAttempts, StopIsFinal, ClosedTogether,
         HoldFits, StateFits, PaymentFits, Open, Has
<1> QED
  BY <1>1, <1>2, <1>3 DEF ReplyInv

LEMMA CleanChunksKeeps ==
  ASSUME ReplyInv, CleanChunks
  PROVE  ReplyInv'
<1>1. \A c \in Commands : (IF Removable(c) THEN "cleaned" ELSE chunks[c]) \in {"none", "kept", "cleaned"}
  BY DEF ReplyInv, ReplyTypeOK
<1>2. chunks' \in [Commands -> {"none", "kept", "cleaned"}]
  BY <1>1 DEF CleanChunks
<1> QED
  BY <1>2, ChunksKeep DEF CleanChunks

LEMMA StreamKeeps ==
  ASSUME ReplyInv, NEW w \in Workers, Stream(w)
  PROVE  ReplyInv'
<1>1. worker[w].cmd \in Commands
  BY DEF ReplyInv, ReplyTypeOK, WorkerType
<1>2. chunks' \in [Commands -> {"none", "kept", "cleaned"}]
  BY <1>1 DEF Stream, ReplyInv, ReplyTypeOK
<1> QED
  BY <1>2, ChunksKeep DEF Stream, ReplyInv, ReplyTypeOK

\* A live command may be stopped at any time: nothing of it is settled yet.
LEMMA StopKeeps ==
  ASSUME ReplyInv, NEW c \in Commands, cmd[c].state \in Live,
         cmd' = [cmd EXCEPT ![c].cancel = TRUE], message' = [message EXCEPT ![c] = "stopped"],
         deleted' \in [Commands -> BOOLEAN], Swept(c),
         UNCHANGED <<attempts, charge, hold, worker, sweep, env>>
  PROVE  ReplyInv'
<1> DEFINE row == [cmd[c] EXCEPT !.cancel = TRUE]
<1>1. cmd[c] \in CommandRow
  BY DEF ReplyInv, ReplyTypeOK
<1>2. row \in CommandRow /\ row.state = cmd[c].state /\ row.cancel = TRUE
  BY <1>1 DEF CommandRow
<1>3. cmd' = [cmd EXCEPT ![c] = row]
  BY DEF ReplyInv, ReplyTypeOK
<1> HIDE DEF row
<1>4. /\ cmd' \in [Commands -> CommandRow] /\ \A d \in Commands : cmd'[d].state = cmd[d].state
      /\ cmd'[c].cancel = TRUE /\ \A d \in Commands \ {c} : cmd'[d].cancel = cmd[d].cancel
  <2>1. cmd \in [Commands -> CommandRow]
    BY DEF ReplyInv, ReplyTypeOK
  <2>2. cmd'[c] = row /\ \A d \in Commands \ {c} : cmd'[d] = cmd[d]
    BY <1>3, <2>1
  <2>3. cmd' \in [Commands -> CommandRow]
    BY <1>2, <1>3, <2>1
  <2> QED
    BY <1>2, <2>2, <2>3
<1>5. /\ message' \in [Commands -> {"none", "stopped", "completed"}]
      /\ message'[c] = "stopped" /\ \A d \in Commands \ {c} : message'[d] = message[d]
  BY DEF ReplyInv, ReplyTypeOK
<1>6. ReplyTypeOK'
  BY <1>4, <1>5, SweptTyped DEF ReplyInv, ReplyTypeOK
<1>7. ExecutionsInStep'
  BY StillInStep
<1>8. NoBlindRepeat' /\ SettledAttempts'
  BY DEF ReplyInv, NoBlindRepeat, SettledAttempts, Open, Has
<1>9. StopIsFinal'
  BY <1>4, <1>5 DEF ReplyInv, StopIsFinal, Live
<1>10. ClosedTogether'
  BY <1>4 DEF ReplyInv, ClosedTogether, HoldFits, StateFits, PaymentFits, Open, Has
<1> QED
  BY <1>6, <1>7, <1>8, <1>9, <1>10 DEF ReplyInv

LEMMA CancelKeeps ==
  ASSUME ReplyInv, NEW c \in Commands, Cancel(c)
  PROVE  ReplyInv'
BY StopKeeps DEF Cancel, ReplyInv, ReplyTypeOK

LEMMA DeleteConversationKeeps ==
  ASSUME ReplyInv, NEW c \in Commands, DeleteConversation(c)
  PROVE  ReplyInv'
<1> DEFINE stops == cmd[c].state \in Live /\ ~cmd[c].cancel
<1>1. deleted' \in [Commands -> BOOLEAN] /\ Swept(c) /\ UNCHANGED <<attempts, charge, hold, worker, sweep, env>>
  BY DEF DeleteConversation, ReplyInv, ReplyTypeOK
<1>2. CASE stops
  <2>1. cmd' = [cmd EXCEPT ![c].cancel = TRUE] /\ message' = [message EXCEPT ![c] = "stopped"]
    BY <1>2 DEF DeleteConversation
  <2> QED
    BY <1>1, <1>2, <2>1, StopKeeps
<1>3. CASE ~stops
  <2>1. message' = [message EXCEPT ![c] = message[c]]
    BY <1>3 DEF DeleteConversation
  <2>2. cmd[c] \in CommandRow
    BY DEF ReplyInv, ReplyTypeOK
  <2> DEFINE row == [cmd[c] EXCEPT !.cancel = cmd[c].cancel \/ stops]
  <2>3. row = cmd[c]
    BY <1>3, <2>2 DEF CommandRow
  <2>4. cmd' = [cmd EXCEPT ![c] = row]
    BY DEF DeleteConversation, ReplyInv, ReplyTypeOK
  <2> HIDE DEF row
  <2>5. UNCHANGED <<cmd, message>>
    BY <2>1, <2>3, <2>4 DEF ReplyInv, ReplyTypeOK
  <2>6. ReplyTypeOK'
    BY <1>1, <2>5, SweptTyped DEF ReplyInv, ReplyTypeOK
  <2>7. ExecutionsInStep'
    BY <1>1, StillInStep
  <2>8. NoBlindRepeat' /\ SettledAttempts' /\ StopIsFinal' /\ ClosedTogether'
    BY <1>1, <2>5 DEF ReplyInv, NoBlindRepeat, SettledAttempts, StopIsFinal, ClosedTogether,
                      HoldFits, StateFits, PaymentFits, Open, Has
  <2> QED
    BY <2>6, <2>7, <2>8 DEF ReplyInv
<1> QED
  BY <1>2, <1>3

LEMMA PrepareAppends ==
  ASSUME ReplyInv, NEW w \in Workers, NEW c \in Commands, worker[w].cmd = c, At(w, "prepare"), Open(c),
         worker[w].n = Len(attempts[c]) + 1, To(w, "dispatch"),
         attempts' = [attempts EXCEPT ![c] = Append(attempts[c], "prepared")],
         hold' = [hold EXCEPT ![c] = "active"],
         UNCHANGED <<cmd, charge, message, deleted, chunks, sweep, env>>
  PROVE  ReplyInv'
<1> DEFINE log == attempts[c]
           new == Append(log, "prepared")
<1>1. c \in Commands /\ log \in Seq(Attempt) /\ Len(log) \in Nat
  BY DEF ReplyInv, ReplyTypeOK, WorkerType
<1>2. Len(log) + 1 <= MaxAttempts /\ Latest(log) \in {"none", "failed", "unsent", "tools"}
  BY <1>1 DEF ReplyInv, ExecutionsInStep
<1>3. /\ new \in Seq(Attempt) /\ Len(new) = Len(log) + 1 /\ new # <<>>
      /\ \A i \in 1 .. Len(log) : new[i] = log[i]
  BY <1>1 DEF Attempt
<1>4. /\ attempts'[c] = new /\ \A d \in Commands \ {c} : attempts'[d] = attempts[d]
      /\ hold'[c] = "active" /\ \A d \in Commands \ {c} : hold'[d] = hold[d]
  BY <1>1 DEF ReplyInv, ReplyTypeOK
<1>5. /\ worker' \in [Workers -> WorkerType] /\ worker'[w].pc = "dispatch"
      /\ \A v \in Workers \ {w} : worker'[v] = worker[v]
  <2>1. "dispatch" \in Pc /\ "" \in Text
    BY DEF Pc, Executing, Text
  <2> QED
    BY <2>1, NoteMoves DEF To, ReplyInv
<1> HIDE DEF new
<1>6. ReplyTypeOK'
  <2>1. attempts' \in [Commands -> Seq(Attempt)] /\ \A d \in Commands : Len(attempts'[d]) <= MaxAttempts
    BY <1>1, <1>2, <1>3, <1>4 DEF ReplyInv, ReplyTypeOK, new
  <2>2. hold' \in [Commands -> {"none", "active", "captured", "released"}]
    BY DEF ReplyInv, ReplyTypeOK
  <2> QED
    BY <1>5, <2>1, <2>2 DEF ReplyInv, ReplyTypeOK
<1>7. ExecutionsInStep'
  <2> SUFFICES ASSUME NEW v \in Workers \ {w}
               PROVE  LET l == attempts'[worker[v].cmd]
                          n == worker[v].n
                      IN  /\ At(v, "prepare") => /\ n \in 1 .. MaxAttempts /\ n <= Len(l) + 1
                                                 /\ n = Len(l) + 1 => Latest(l) \in {"none", "failed", "unsent", "tools"}
                          /\ worker[v].pc \in {"call", "record"} => n \in 1 .. Len(l)
                          /\ At(v, "record") => worker[v].note \in Answer
                          /\ At(v, "mark") => worker[v].note \in Cause
    BY <1>5 DEF ExecutionsInStep, At
  <2>1. worker[v].cmd \in Commands /\ worker[v].n \in Nat
    BY DEF ReplyInv, ReplyTypeOK, WorkerType
  <2>2. CASE worker[v].cmd = c
    BY <1>1, <1>3, <1>4, <2>1, <2>2 DEF ReplyInv, ExecutionsInStep
  <2>3. CASE worker[v].cmd # c
    BY <1>4, <2>1, <2>3 DEF ReplyInv, ExecutionsInStep
  <2> QED
    BY <2>2, <2>3
<1>8. NoBlindRepeat'
  <2>1. ASSUME NEW i \in 1 .. Len(log) PROVE log[i] \in {"failed", "unsent", "tools"}
    <3>1. CASE i = Len(log)
      <4>1. log # <<>>
        BY <1>1, <3>1
      <4>2. Latest(log) = log[i] /\ Latest(log) \in Attempt
        BY <1>1, <3>1, <4>1, LatestTyped
      <4>3. "none" \notin Attempt
        BY DEF Attempt, Sent, Succeeded
      <4> QED
        BY <1>2, <4>2, <4>3
    <3>2. CASE i # Len(log)
      BY <1>1, <3>2 DEF ReplyInv, NoBlindRepeat
    <3> QED
      BY <3>1, <3>2
  <2>2. \A i \in 1 .. Len(new) - 1 : new[i] \in {"failed", "unsent", "tools"}
    BY <1>1, <1>3, <2>1
  <2> QED
    BY <1>4, <2>2 DEF ReplyInv, NoBlindRepeat
<1>9. SettledAttempts' /\ StopIsFinal'
  BY <1>4 DEF ReplyInv, SettledAttempts, StopIsFinal, Open, Has
<1>10. ClosedTogether'
  <2>1. HoldFits(c)' /\ PaymentFits(c)'
    BY <1>3, <1>4 DEF HoldFits, PaymentFits, Open
  <2>2. \A d \in Commands \ {c} : HoldFits(d)' /\ PaymentFits(d)'
    BY <1>4 DEF ReplyInv, ClosedTogether, HoldFits, PaymentFits, Open, Has
  <2>3. \A d \in Commands : StateFits(d)'
    BY DEF ReplyInv, ClosedTogether, StateFits, Open
  <2> QED
    BY <2>1, <2>2, <2>3 DEF ClosedTogether
<1> QED
  BY <1>6, <1>7, <1>8, <1>9, <1>10 DEF ReplyInv

LEMMA PrepareKeeps ==
  ASSUME ReplyInv, NEW w \in Workers, Prepare(w)
  PROVE  ReplyInv'
<1> DEFINE c == worker[w].cmd
<1>1. c \in Commands /\ cmd[c] \in CommandRow
  BY DEF ReplyInv, ReplyTypeOK, WorkerType
<1>2. At(w, "prepare") /\ UNCHANGED <<charge, message, deleted, chunks, sweep, env>> /\ env' \in Environment
  BY DEF Prepare, ReplyInv, ReplyTypeOK
<1>3. "settle" \in Elsewhere /\ "dispatch" \in Elsewhere /\ "" \in Text /\ "pre_dispatch_failed" \in Cause
  BY DEF Elsewhere, Pc, Executing, Text, Cause, Triggers
<1>4. ASSUME NEW marker \in {"initial_insufficient", "topup_insufficient"}, To(w, "settle"),
             UNCHANGED <<attempts, hold>>, cmd' = [cmd EXCEPT ![c].marker = marker]
      PROVE  ReplyInv'
  <2> DEFINE row == [cmd[c] EXCEPT !.marker = marker]
  <2>1. marker \in Marker
    BY DEF Marker, Triggers
  <2>2. row \in CommandRow /\ row.state = cmd[c].state /\ row.cancel = cmd[c].cancel
    BY <1>1, <2>1 DEF CommandRow
  <2>3. cmd' = [cmd EXCEPT ![c] = row]
    BY <1>4 DEF ReplyInv, ReplyTypeOK
  <2> HIDE DEF row
  <2>4. worker' \in [Workers -> WorkerType] /\ ExecutionsInStep'
    BY <1>3, <1>4, ToElsewhere DEF To
  <2> QED
    BY <1>1, <1>2, <1>4, <2>2, <2>3, <2>4, OneRow DEF rows
<1>5. ASSUME UNCHANGED <<cmd, attempts, hold>>,
             To(w, "dispatch") \/ Rejected(w) \/ Note(w, "mark", "pre_dispatch_failed")
      PROVE  ReplyInv'
  <2>1. worker' \in [Workers -> WorkerType] /\ ExecutionsInStep'
    BY <1>3, <1>5, ToElsewhere, ToMark, RejectedMoves DEF To
  <2> QED
    BY <1>2, <1>5, <2>1, NoRow DEF rows
<1>6. ASSUME Open(c), worker[w].n = Len(attempts[c]) + 1, To(w, "dispatch"), UNCHANGED cmd,
             attempts' = [attempts EXCEPT ![c] = Append(attempts[c], "prepared")],
             hold' = [hold EXCEPT ![c] = "active"]
      PROVE  ReplyInv'
  BY <1>1, <1>2, <1>6, PrepareAppends
<1> QED
  BY <1>4, <1>5, <1>6 DEF Prepare

\* The last attempt of an open charge takes its next state, and the worker that
\* wrote it moves on.
LEMMA AttemptKeeps ==
  ASSUME ReplyInv, NEW c \in Commands, NEW n \in 1 .. Len(attempts[c]), NEW s \in Attempt,
         n = Len(attempts[c]), attempts[c][n] \in {"prepared", "dispatched"},
         attempts' = [attempts EXCEPT ![c][n] = s],
         UNCHANGED <<cmd, charge, hold, message, deleted, chunks, sweep>>,
         env' \in Environment, worker' \in [Workers -> WorkerType],
         \A v \in Workers : \/ worker'[v] = worker[v]
                            \/ worker'[v].pc \in Elsewhere
                            \/ worker'[v].pc = "mark" /\ worker'[v].note \in Cause
                            \/ worker'[v].pc = "call" /\ worker'[v].cmd = c /\ worker'[v].n = n
  PROVE  ReplyInv'
<1> DEFINE log == attempts[c]
           new == [log EXCEPT ![n] = s]
<1>1. log \in Seq(Attempt) /\ Len(log) \in Nat /\ Len(log) <= MaxAttempts
  BY DEF ReplyInv, ReplyTypeOK
<1>2. /\ new \in Seq(Attempt) /\ Len(new) = Len(log) /\ new # <<>> /\ log # <<>>
      /\ \A i \in 1 .. Len(log) - 1 : new[i] = log[i]
  BY <1>1
<1>3. attempts'[c] = new /\ \A d \in Commands \ {c} : attempts'[d] = attempts[d]
  BY DEF ReplyInv, ReplyTypeOK
<1>4. Open(c)
  BY DEF ReplyInv, SettledAttempts, Has
<1>5. Latest(log) \notin {"none", "failed", "unsent", "tools"}
  BY <1>2 DEF Latest
<1> HIDE DEF new
<1>6. ReplyTypeOK'
  <2>1. attempts' \in [Commands -> Seq(Attempt)] /\ \A d \in Commands : Len(attempts'[d]) <= MaxAttempts
    BY <1>1, <1>2, <1>3 DEF ReplyInv, ReplyTypeOK, new
  <2> QED
    BY <2>1 DEF ReplyInv, ReplyTypeOK
<1>7. ExecutionsInStep'
  <2> SUFFICES ASSUME NEW v \in Workers, worker'[v] = worker[v]
               PROVE  LET l == attempts'[worker[v].cmd]
                          m == worker[v].n
                      IN  /\ At(v, "prepare") => /\ m \in 1 .. MaxAttempts /\ m <= Len(l) + 1
                                                 /\ m = Len(l) + 1 => Latest(l) \in {"none", "failed", "unsent", "tools"}
                          /\ worker[v].pc \in {"call", "record"} => m \in 1 .. Len(l)
                          /\ At(v, "record") => worker[v].note \in Answer
                          /\ At(v, "mark") => worker[v].note \in Cause
    BY <1>2, <1>3 DEF ExecutionsInStep, At, Elsewhere
  <2>1. worker[v].cmd \in Commands
    BY DEF ReplyInv, ReplyTypeOK, WorkerType
  <2>2. CASE worker[v].cmd = c
    <3>1. Len(new) = Len(log) /\ attempts'[worker[v].cmd] = new /\ attempts[worker[v].cmd] = log
      BY <1>2, <1>3, <2>2
    <3>2. At(v, "prepare") => worker[v].n # Len(log) + 1
      BY <1>5, <3>1 DEF ReplyInv, ExecutionsInStep
    <3> QED
      BY <3>1, <3>2 DEF ReplyInv, ExecutionsInStep
  <2>3. CASE worker[v].cmd # c
    BY <1>3, <2>1, <2>3 DEF ReplyInv, ExecutionsInStep
  <2> QED
    BY <2>2, <2>3
<1>8. NoBlindRepeat'
  <2>1. \A i \in 1 .. Len(new) - 1 : new[i] \in {"failed", "unsent", "tools"}
    BY <1>1, <1>2 DEF ReplyInv, NoBlindRepeat
  <2> QED
    BY <1>3, <2>1 DEF ReplyInv, NoBlindRepeat
<1>9. SettledAttempts' /\ StopIsFinal'
  BY <1>3, <1>4 DEF ReplyInv, SettledAttempts, StopIsFinal, Open, Has
<1>10. ClosedTogether'
  <2>1. HoldFits(c)' /\ PaymentFits(c)'
    BY <1>2, <1>3, <1>4 DEF ReplyInv, ClosedTogether, HoldFits, PaymentFits, Open
  <2>2. \A d \in Commands \ {c} : HoldFits(d)' /\ PaymentFits(d)'
    BY <1>3 DEF ReplyInv, ClosedTogether, HoldFits, PaymentFits, Open, Has
  <2>3. \A d \in Commands : StateFits(d)'
    BY DEF ReplyInv, ClosedTogether, StateFits, Open
  <2> QED
    BY <2>1, <2>2, <2>3 DEF ClosedTogether
<1> QED
  BY <1>6, <1>7, <1>8, <1>9, <1>10 DEF ReplyInv

LEMMA MarkDispatchedKeeps ==
  ASSUME ReplyInv, NEW w \in Workers, MarkDispatched(w)
  PROVE  ReplyInv'
<1> DEFINE c == worker[w].cmd
           n == worker[w].n
<1>1. c \in Commands /\ attempts[c] \in Seq(Attempt)
  BY DEF ReplyInv, ReplyTypeOK, WorkerType
<1>2. ASSUME Unchanged, To(w, "settle") \/ Note(w, "mark", "pre_dispatch_failed") \/ Rejected(w)
      PROVE  ReplyInv'
  <2>1. "settle" \in Elsewhere /\ "" \in Text /\ "pre_dispatch_failed" \in Cause
    BY DEF Elsewhere, Pc, Executing, Text, Cause, Triggers
  <2>2. UNCHANGED <<cmd, rows, sweep, env>> /\ env' \in Environment
    BY <1>2 DEF Unchanged, ReplyInv, ReplyTypeOK
  <2>3. worker' \in [Workers -> WorkerType] /\ ExecutionsInStep'
    BY <1>2, <2>1, <2>2, ToElsewhere, ToMark, RejectedMoves DEF To, rows
  <2> QED
    BY <2>2, <2>3, NoRow
<1>3. ASSUME Latest(attempts[c]) = "prepared", Len(attempts[c]) = n, To(w, "call"),
             attempts' = [attempts EXCEPT ![c][n] = "dispatched"],
             UNCHANGED <<cmd, charge, hold, message, deleted, chunks, sweep, env>>
      PROVE  ReplyInv'
  <2>1. n \in 1 .. Len(attempts[c]) /\ attempts[c][n] = "prepared"
    BY <1>1, <1>3, LatestTyped
  <2>2. "call" \in Pc /\ "" \in Text /\ "call" \notin Ended /\ "dispatched" \in Attempt
    BY DEF Pc, Executing, Text, Ended, Attempt, Sent
  <2>3. /\ worker' \in [Workers -> WorkerType] /\ worker'[w].pc = "call" /\ worker'[w].cmd = c /\ worker'[w].n = n
        /\ \A v \in Workers \ {w} : worker'[v] = worker[v]
    BY <1>3, <2>2, NoteMoves DEF To, ReplyInv
  <2>4. env' \in Environment
    BY <1>3 DEF ReplyInv, ReplyTypeOK
  <2> DEFINE sent == "dispatched"
  <2>5. sent \in Attempt /\ attempts' = [attempts EXCEPT ![c][n] = sent]
    BY <1>3, <2>2
  <2> HIDE DEF sent, c, n
  <2>6. \A v \in Workers : worker'[v] = worker[v] \/ (worker'[v].pc = "call" /\ worker'[v].cmd = c /\ worker'[v].n = n)
    BY <2>3
  <2>7. n = Len(attempts[c]) /\ worker' \in [Workers -> WorkerType] /\ attempts[c][n] \in {"prepared", "dispatched"}
    BY <1>3, <2>1, <2>3
  <2>8. UNCHANGED <<cmd, charge, hold, message, deleted, chunks, sweep>> /\ c \in Commands /\ n \in 1 .. Len(attempts[c])
    BY <1>1, <1>3, <2>1
  <2> QED
    BY ONLY ReplyInv, <2>4, <2>5, <2>6, <2>7, <2>8, AttemptKeeps, Zenon
<1> QED
  BY <1>2, <1>3 DEF MarkDispatched

\* Where a worker goes with an answer
LEMMA OutcomeMoves ==
  ASSUME ReplyInv, NEW w \in Workers, NEW answer, Outcome(w, answer)
  PROVE  \/ \E p \in Elsewhere, text \in Text : Note(w, p, text)
         \/ \E text \in Cause : Note(w, "mark", text)
<1>1. /\ "fail" \in Elsewhere /\ "tools" \in Elsewhere /\ "settle" \in Elsewhere
      /\ "retry" \in Text /\ "" \in Text /\ "provider_failed" \in Cause
  BY DEF Elsewhere, Pc, Executing, Text, Reason, Cause, Triggers
<1> QED
  BY <1>1 DEF Outcome, To

LEMMA RecordKeeps ==
  ASSUME ReplyInv, NEW w \in Workers, Record(w)
  PROVE  ReplyInv'
<1> DEFINE c == worker[w].cmd
           n == worker[w].n
           answer == worker[w].note
           s == IF answer = "denied" THEN "failed" ELSE answer
<1>1. c \in Commands /\ attempts[c] \in Seq(Attempt) /\ n \in 1 .. Len(attempts[c]) /\ answer \in Answer
  BY DEF ReplyInv, ReplyTypeOK, WorkerType, ExecutionsInStep, Record, At
<1>2. ASSUME UNCHANGED <<cmd, rows, sweep>>, env' \in Environment,
             Outcome(w, answer) \/ Note(w, "mark", "pre_dispatch_failed") \/ Rejected(w)
      PROVE  ReplyInv'
  <2>1. "pre_dispatch_failed" \in Cause
    BY DEF Cause, Triggers
  <2>2. worker' \in [Workers -> WorkerType] /\ ExecutionsInStep'
    BY <1>2, <2>1, OutcomeMoves, ToElsewhere, ToMark, RejectedMoves DEF rows
  <2> QED
    BY <1>2, <2>2, NoRow
<1>3. ASSUME Recordable(attempts[c], n), Outcome(w, answer), attempts' = [attempts EXCEPT ![c][n] = s],
             UNCHANGED <<cmd, charge, hold, message, deleted, chunks, sweep, env>>
      PROVE  ReplyInv'
  <2>1. attempts[c][n] = "dispatched" /\ n = Len(attempts[c])
    BY <1>1, <1>3 DEF Recordable, ReplyInv, NoBlindRepeat
  <2>2. s \in Attempt
    BY <1>1 DEF Answer, Attempt, Sent
  <2>3. /\ worker' \in [Workers -> WorkerType] /\ \A v \in Workers \ {w} : worker'[v] = worker[v]
        /\ worker'[w].pc \in Elsewhere \/ (worker'[w].pc = "mark" /\ worker'[w].note \in Cause)
    <3>1. CASE \E p \in Elsewhere, text \in Text : Note(w, p, text)
      BY <3>1, NoteMoves DEF ReplyInv, Elsewhere
    <3>2. CASE \E text \in Cause : Note(w, "mark", text)
      <4>1. "mark" \in Pc /\ Cause \subseteq Text
        BY DEF Pc, Executing, Text
      <4> QED
        BY <3>2, <4>1, NoteMoves DEF ReplyInv
    <3> QED
      BY <1>3, <3>1, <3>2, OutcomeMoves
  <2>4. env' \in Environment
    BY <1>3 DEF ReplyInv, ReplyTypeOK
  <2> HIDE DEF s, c, n
  <2> QED
    BY <1>1, <1>3, <2>1, <2>2, <2>3, <2>4, AttemptKeeps
<1>4. Fault("database") => env' \in Environment
  BY FaultTyped DEF ReplyInv
<1> QED
  BY <1>2, <1>3, <1>4 DEF Record, ReplyInv, ReplyTypeOK, rows
-----------------------------------------------------------------------------
(* Theorems *)

LEMMA InitKeeps ==
  ASSUME Init
  PROVE  ReplyInv
<1>1. \A w \in Workers : worker[w].pc = "idle"
  BY DEF Init, Resting
<1>2. ReplyTypeOK
  <2>1. cmd \in [Commands -> CommandRow]
    BY DEF Init, CommandRow, State, Live, Marker
  <2>2. attempts \in [Commands -> Seq(Attempt)] /\ \A c \in Commands : Len(attempts[c]) <= MaxAttempts
    BY DEF Init
  <2>3. worker \in [Workers -> WorkerType]
    BY RestingTyped DEF Init
  <2>4. /\ charge \in [Commands -> {"open", "captured", "released"}]
        /\ hold \in [Commands -> {"none", "active", "captured", "released"}]
        /\ message \in [Commands -> {"none", "stopped", "completed"}]
        /\ deleted \in [Commands -> BOOLEAN] /\ chunks \in [Commands -> {"none", "kept", "cleaned"}]
    BY DEF Init
  <2>5. sweep \in {"unknown", "orphan", "clean"} /\ env \in Environment
    BY DEF Init
  <2> QED
    BY <2>1, <2>2, <2>3, <2>4, <2>5 DEF ReplyTypeOK
<1>3. ExecutionsInStep
  BY <1>1 DEF ExecutionsInStep, At
<1>4. NoBlindRepeat /\ SettledAttempts /\ StopIsFinal
  BY DEF Init, NoBlindRepeat, SettledAttempts, StopIsFinal, Open
<1>5. ClosedTogether
  BY DEF Init, ClosedTogether, HoldFits, StateFits, PaymentFits, Open, Live
<1> QED
  BY <1>2, <1>3, <1>4, <1>5 DEF ReplyInv

LEMMA NextKeeps ==
  ASSUME ReplyInv, [Next]_vars
  PROVE  ReplyInv'
<1>1. CASE UNCHANGED vars
  BY <1>1, NoRow, StillInStep DEF vars, rows, ReplyInv, ReplyTypeOK
<1>2. ASSUME NEW c \in Commands, User(c) \/ ClaimAmbiguous(c) \/ Expire(c) \/ Lapse(c) \/ \E w \in Workers : Claim(w, c)
      PROVE  ReplyInv'
  BY <1>2, CreateReplyKeeps, CancelKeeps, DeleteConversationKeeps, ClaimAmbiguousKeeps, ExpiredKeeps, ClaimKeeps DEF User
<1>3. ASSUME NEW w \in Workers, Execute(w)
      PROVE  ReplyInv'
  BY <1>3, StartKeeps, FenceKeeps, DeferKeeps, FailKeeps, FinishKeeps, RouteKeeps, PrepareKeeps, MarkDispatchedKeeps,
     CallKeeps, RecordKeeps, MarkKeeps, SettleKeeps, ToolsKeeps DEF Execute
<1>4. ASSUME NEW w \in Workers, Renew(w) \/ LocalError(w) \/ Stream(w) \/ Crash(w)
      PROVE  ReplyInv'
  BY <1>4, RenewKeeps, LocalErrorKeeps, StreamKeeps, CrashKeeps
<1>5. CASE Reconcile \/ CleanChunks
  BY <1>5, ReconcileKeeps, CleanChunksKeeps
<1> QED
  BY <1>1, <1>2, <1>3, <1>4, <1>5 DEF Next, Work

\* The rows keep their values in every reachable state, and the invariant that
\* makes it so holds.
THEOREM ReplyInvariant == Spec => []ReplyInv
BY InitKeeps, NextKeeps, PTL DEF Spec

\* No number of claims, crashes and retries makes more provider attempts than the
\* limit, and every row keeps to its values (providerAttemptLimitExceeded).
THEOREM ReplyTypeCorrect == Spec => []ReplyTypeOK
<1>1. ReplyInv => ReplyTypeOK
  BY DEF ReplyInv
<1> QED
  BY <1>1, ReplyInvariant, PTL

\* The charge, the hold and the command are closed in one commit, and only an
\* answer or a stopped one is paid for (FinalizePaidCommandInTransaction).
THEOREM PaidOnce == Spec => []ClosedTogether
<1>1. ReplyInv => ClosedTogether
  BY DEF ReplyInv
<1> QED
  BY <1>1, ReplyInvariant, PTL

\* A reply that was stopped is never published as answered (RequestCancel).
THEOREM StoppedForGood == Spec => []StopIsFinal
<1>1. ReplyInv => StopIsFinal
  BY DEF ReplyInv
<1> QED
  BY <1>1, ReplyInvariant, PTL

\* A request that may have reached the provider is never repeated (nextAttempt).
THEOREM NeverRepeatedBlindly == Spec => []NoBlindRepeat
<1>1. ReplyInv => NoBlindRepeat
  BY DEF ReplyInv
<1> QED
  BY <1>1, ReplyInvariant, PTL
-----------------------------------------------------------------------------
(* A settled reply stays as it is *)

Settled(c) == UNCHANGED <<charge[c], hold[c], message[c], attempts[c]>> /\ cmd'[c].state = cmd[c].state

LEMMA SettledRow ==
  ASSUME ReplyInv, NEW c \in Commands, ~Open(c)
  PROVE  /\ cmd[c].state \notin {"absent", "pending", "claimed", "running"}
         /\ \A i \in 1 .. Len(attempts[c]) : attempts[c][i] \notin {"prepared", "dispatched"}
BY DEF ReplyInv, ReplyTypeOK, ClosedTogether, StateFits, SettledAttempts, Has, Live

\* A step that leaves the rows alone, and the state of a command that is not live
LEMMA SettledQuiet ==
  ASSUME ReplyInv, NEW c \in Commands, ~Open(c), UNCHANGED rows,
         NEW d \in Commands, NEW row \in CommandRow, cmd' = [cmd EXCEPT ![d] = row],
         row.state = cmd[d].state \/ cmd[d].state \in Live \cup {"absent"}
  PROVE  Settled(c)
<1>1. cmd[c].state \notin Live \cup {"absent"}
  BY SettledRow DEF Live
<1>2. cmd \in [Commands -> CommandRow]
  BY DEF ReplyInv, ReplyTypeOK
<1> QED
  BY <1>1, <1>2 DEF Settled, rows

LEMMA SettledFinalized ==
  ASSUME ReplyInv, NEW c \in Commands, ~Open(c), NEW d \in Commands, Finalized(d)
  PROVE  Settled(c)
<1>1. CASE Replay(d)
  BY <1>1 DEF Replay, Settled
<1>2. CASE Apply(d)
  BY <1>2 DEF Apply, Settled, ReplyInv, ReplyTypeOK
<1> QED
  BY <1>1, <1>2 DEF Finalized

LEMMA SettledByUser ==
  ASSUME ReplyInv, NEW c \in Commands, ~Open(c), NEW d \in Commands,
         User(d) \/ ClaimAmbiguous(d) \/ Expire(d) \/ Lapse(d) \/ \E w \in Workers : Claim(w, d)
  PROVE  Settled(c)
<1>1. cmd[c].state \notin {"absent", "pending", "claimed", "running"}
  BY SettledRow
<1>2. cmd \in [Commands -> CommandRow] /\ message \in [Commands -> {"none", "stopped", "completed"}]
  BY DEF ReplyInv, ReplyTypeOK
<1>3. CASE CreateReply(d)
  BY <1>1, <1>2, <1>3 DEF CreateReply, Settled, rows
<1>4. CASE Cancel(d)
  BY <1>1, <1>2, <1>4 DEF Cancel, Settled, Live
<1>5. CASE DeleteConversation(d)
  BY <1>1, <1>2, <1>5 DEF DeleteConversation, Settled, Live
<1>6. CASE ClaimAmbiguous(d)
  BY <1>1, <1>2, <1>6 DEF ClaimAmbiguous, Ambiguous, Lapsed, Settled, rows
<1>7. CASE Expire(d) \/ Lapse(d)
  <2> DEFINE row == [cmd[d] EXCEPT !.lease = "expired"]
  <2>1. row \in CommandRow /\ row.state = cmd[d].state
    BY LeaseOnly
  <2>2. cmd' = [cmd EXCEPT ![d] = row] /\ UNCHANGED rows
    BY <1>7 DEF Expire, Lapse, Expired
  <2> HIDE DEF row
  <2> QED
    BY <2>1, <2>2, SettledQuiet
<1>8. CASE \E w \in Workers : Claim(w, d)
  BY <1>1, <1>2, <1>8 DEF Claim, Claimable, Lapsed, Settled, rows
<1> QED
  BY <1>3, <1>4, <1>5, <1>6, <1>7, <1>8 DEF User

LEMMA SettledByWorker ==
  ASSUME ReplyInv, NEW c \in Commands, ~Open(c), NEW w \in Workers, Work(w)
  PROVE  Settled(c)
<1> DEFINE d == worker[w].cmd
<1>1. /\ cmd[c].state \notin {"absent", "pending", "claimed", "running"}
      /\ \A i \in 1 .. Len(attempts[c]) : attempts[c][i] \notin {"prepared", "dispatched"}
  BY SettledRow
<1>2. /\ cmd \in [Commands -> CommandRow] /\ d \in Commands /\ attempts \in [Commands -> Seq(Attempt)]
      /\ hold \in [Commands -> {"none", "active", "captured", "released"}]
  BY DEF ReplyInv, ReplyTypeOK, WorkerType
<1>3. CASE UNCHANGED <<cmd, rows>>
  BY <1>3 DEF Settled, rows
<1>4. CASE Finalized(d)
  BY <1>2, <1>4, SettledFinalized
<1>5. CASE Start(w) \/ Defer(w) \/ Fail(w) \/ Finish(w) \/ Mark(w) \/ Renew(w)
  <2>1. UNCHANGED rows
    BY <1>5 DEF Start, Defer, Fail, Finish, Mark, Renew
  <2>2. cmd'[c].state = cmd[c].state
    <3>1. CASE Start(w)
      BY <1>1, <1>2, <3>1 DEF Start
    <3>2. CASE Defer(w)
      BY <1>1, <1>2, <3>2 DEF Defer, Current
    <3>3. CASE Fail(w)
      <4> DEFINE row == [cmd[d] EXCEPT !.lease = "live"]
      <4>1. row \in CommandRow /\ row.state = cmd[d].state
        BY <1>2, LeaseOnly
      <4>2. cmd' = cmd \/ cmd' = [cmd EXCEPT ![d] = row]
        BY <3>3 DEF Fail
      <4> HIDE DEF row
      <4> QED
        BY <1>2, <4>1, <4>2
    <3>4. CASE Finish(w)
      BY <1>1, <1>2, <3>4 DEF Finish, Current
    <3>5. CASE Mark(w)
      <4> DEFINE marker == IF worker[w].note = "context_failure" THEN "other" ELSE worker[w].note
                 row == [cmd[d] EXCEPT !.marker = marker]
      <4>1. cmd' = cmd \/ cmd' = [cmd EXCEPT ![d] = row]
        BY <1>2, <3>5 DEF Mark
      <4> HIDE DEF marker
      <4>2. row.state = cmd[d].state
        BY <1>2 DEF CommandRow
      <4> HIDE DEF row
      <4> QED
        BY <1>2, <4>1, <4>2
    <3>6. CASE Renew(w)
      BY <1>2, <3>6 DEF Renew
    <3> QED
      BY <1>5, <3>1, <3>2, <3>3, <3>4, <3>5, <3>6
  <2> QED
    BY <2>1, <2>2 DEF Settled, rows
<1>6. CASE Prepare(w)
  BY <1>2, <1>6 DEF Prepare, Settled
<1>7. CASE MarkDispatched(w)
  <2>1. \/ UNCHANGED <<cmd, rows>>
        \/ /\ Open(d) /\ attempts' = [attempts EXCEPT ![d][worker[w].n] = "dispatched"]
           /\ UNCHANGED <<cmd, charge, hold, message>>
    BY <1>7 DEF MarkDispatched, Unchanged
  <2> QED
    BY <1>2, <1>3, <2>1 DEF Settled
<1>8. CASE Record(w)
  <2>1. UNCHANGED <<cmd, charge, hold, message>>
    BY <1>8 DEF Record
  <2>2. \/ UNCHANGED attempts
        \/ /\ Recordable(attempts[d], worker[w].n)
           /\ \E s \in Attempt : attempts' = [attempts EXCEPT ![d][worker[w].n] = s]
    <3>1. worker[w].note \in Answer
      BY <1>8 DEF Record, ReplyInv, ExecutionsInStep
    <3>2. (IF worker[w].note = "denied" THEN "failed" ELSE worker[w].note) \in Attempt
      BY <3>1 DEF Answer, Attempt, Sent
    <3> QED
      BY <1>8, <3>2 DEF Record
  <2>3. worker[w].n \in 1 .. Len(attempts[d])
    BY <1>8 DEF Record, At, ReplyInv, ExecutionsInStep
  <2>4. Recordable(attempts[d], worker[w].n) => c # d
    BY <1>1, <2>3 DEF Recordable
  <2> QED
    BY <1>2, <2>1, <2>2, <2>4 DEF Settled
<1>9. CASE LocalError(w) \/ Crash(w) \/ Route(w) \/ Call(w) \/ Tools(w)
  BY <1>3, <1>9 DEF LocalError, Crash, Route, Call, Tools, Unchanged
<1>10. CASE Stream(w)
  BY <1>10 DEF Stream, Settled
<1>11. CASE Fence(w) \/ Settle(w)
  BY <1>3, <1>4, <1>11 DEF Fence, Settle, Unchanged
<1> QED
  BY <1>5, <1>6, <1>7, <1>8, <1>9, <1>10, <1>11 DEF Work, Execute

LEMMA SettledStays ==
  ASSUME ReplyInv, NEW c \in Commands, ~Open(c), [Next]_vars
  PROVE  Settled(c)
<1>1. CASE UNCHANGED vars
  BY <1>1 DEF vars, rows, Settled
<1>2. CASE Reconcile
  BY <1>2, SettledFinalized DEF Reconcile, Settled, rows
<1>3. CASE CleanChunks
  BY <1>3 DEF CleanChunks, Settled
<1> QED
  BY <1>1, <1>2, <1>3, SettledByUser, SettledByWorker DEF Next

\* However late a worker, a crash or the reconciler is, a settled reply keeps its
\* outcome, its message and its attempts (FinalizePaidCommandInTransaction).
THEOREM SettlementIsFinal == Spec => SettledForGood
<1>1. ReplyInv /\ [Next]_vars =>
        [\A c \in Commands : ~Open(c) => /\ UNCHANGED <<charge[c], hold[c], message[c], attempts[c]>>
                                         /\ cmd'[c].state = cmd[c].state]_vars
  BY SettledStays DEF Settled
<1> QED
  BY <1>1, ReplyInvariant, PTL DEF Spec, SettledForGood
=============================================================================
