------------------------------ MODULE Realtime ------------------------------
(***************************************************************************)
(* Durable events of one user: they are appended in the transaction of the *)
(* change they report, under an autoincrement sequence that is taken       *)
(* before the commit, published after it if Redis allows, and replayed to  *)
(* a client that asks for what follows its cursor.  The user's connections *)
(* share one key: a new one replaces the old.  Each has a bounded queue    *)
(* that fan-out never waits for and replay does.                           *)
(***************************************************************************)
EXTENDS Integers, FiniteSets, Sequences

CONSTANTS MaxSequence,   \* bound: events appended
          Connections,   \* connections the client opens, each once
          SendBuffer,    \* capacity of a connection's queue
          ResumeLimit,   \* MaxResumeLimit
          RealtimeScenes \* the sets of circumstances the initial state picks from

ASSUME RealtimeAssumption ==
  MaxSequence \in Nat /\ SendBuffer \in Nat \ {0} /\ ResumeLimit \in Nat \ {0}

Sequences == 1..MaxSequence

VARIABLES rtScene,
          events,      \* realtime_events: "none", "open" (uncommitted), "kept", "deleted", "undone"
          watermark,   \* deleted_through_sequence of the user
          unpublished, \* committed events whose PublishBestEffort is still to come
          deferred,    \* committed events whose publication failed
          current,     \* Manager.sessions: the connection registered under the key
          session,     \* the connections
          resume,      \* the resume the read pump of a connection is working on
          client       \* the client: its cursor, and the events it has or has reloaded

realtimeVars == <<rtScene, events, watermark, unpublished, deferred, current, session, resume,
                  client>>

NewSession == [at |-> "new", subscribed |-> FALSE, queue |-> <<>>, owed |-> {}]
NoResume == [at |-> "none", by |-> "none", after |-> 0, latest |-> 0, asked |-> {}, todo |-> <<>>]

RealtimeInit ==
  /\ rtScene \in RealtimeScenes
  /\ events = [q \in Sequences |-> "none"]
  /\ watermark = 0 /\ unpublished = {} /\ deferred = {} /\ current = "none"
  /\ session = [s \in Connections |-> NewSession]
  /\ resume = NoResume
  /\ client = [cursor |-> 0, seen |-> {}]

Having(status) == {q \in Sequences : events[q] = status}
Committed == Having("kept") \cup Having("deleted")
Newest(S) == CHOOSE q \in S \cup {0} : \A r \in S : r <= q
Connected(s) == session[s].at = "open"

(***************************************************************************)
(* The event store.                                                        *)
(***************************************************************************)
\* AppendTx takes the next sequence inside the caller's transaction.
AppendTx ==
  /\ "overlap" \notin rtScene => Having("open") = {}
  /\ \E q \in Having("none") :
       /\ \A r \in Sequences : r < q => events[r] # "none"
       /\ events' = [events EXCEPT ![q] = "open"]
  /\ UNCHANGED <<rtScene, watermark, unpublished, deferred, current, session, resume, client>>

CommitEvent(q) ==
  /\ events[q] = "open"
  /\ \/ events' = [events EXCEPT ![q] = "kept"] /\ unpublished' = unpublished \cup {q}
     \/ events' = [events EXCEPT ![q] = "undone"] /\ UNCHANGED unpublished
  /\ UNCHANGED <<rtScene, watermark, deferred, current, session, resume, client>>

\* One transaction deletes expired events, of any sequences, and moves the watermark.
CleanupExpired ==
  /\ "race" \notin rtScene => resume.at = "none"
  /\ \E old \in SUBSET Having("kept") \ {{}} :
       /\ events' = [q \in Sequences |-> IF q \in old THEN "deleted" ELSE events[q]]
       /\ watermark' = Newest(old \cup {watermark})
  /\ UNCHANGED <<rtScene, unpublished, deferred, current, session, resume, client>>

(***************************************************************************)
(* Fan-out.                                                                *)
(***************************************************************************)
Message(kind, q) == [kind |-> kind, seq |-> q]

\* What Send leaves of a session: a full queue closes it.
Enqueued(s, m) ==
  IF Len(session[s].queue) < SendBuffer
  THEN [session[s] EXCEPT !.queue = Append(@, m), !.owed = @ \cup {m.seq}]
  ELSE [session[s] EXCEPT !.at = "closed"]

\* The publication finds the connections the client considers open: those are
\* owed the event, whatever the manager knows of them.
Publish(q) ==
  /\ q \in unpublished /\ unpublished' = unpublished \ {q}
  /\ session' = [s \in Connections |->
       IF ~Connected(s) \/ ~session[s].subscribed THEN session[s]
       ELSE IF s = current THEN Enqueued(s, Message("event", q))
                           ELSE [session[s] EXCEPT !.owed = @ \cup {q}]]
  /\ UNCHANGED <<rtScene, events, watermark, deferred, current, resume, client>>

\* Redis is not there, or the process ends between the commit and the publication.
PublishFails(q) ==
  /\ "outage" \in rtScene
  /\ q \in unpublished /\ unpublished' = unpublished \ {q}
  /\ deferred' = deferred \cup {q}
  /\ UNCHANGED <<rtScene, events, watermark, current, session, resume, client>>

(***************************************************************************)
(* A connection.                                                           *)
(***************************************************************************)
\* Register closes the connection it replaces.
Register(s) ==
  /\ session[s] = NewSession
  /\ \A other \in Connections : Connected(other) => other = current  \* a client opens them in turn
  /\ current' = s
  /\ session' = [k \in Connections |-> IF k = s THEN [NewSession EXCEPT !.at = "open"]
                                       ELSE IF k = current THEN [session[k] EXCEPT !.at = "closed"]
                                       ELSE session[k]]
  /\ UNCHANGED <<rtScene, events, watermark, unpublished, deferred, resume, client>>

\* The client goes away, or a pump ends.
Disconnect(s) ==
  /\ Connected(s)
  /\ session' = [session EXCEPT ![s].at = "closed"]
  /\ UNCHANGED <<rtScene, events, watermark, unpublished, deferred, current, resume, client>>

\* The deferred unregister removes this very session, not its replacement.
AfterUnregister(s) == IF current = s THEN "none" ELSE current

Unregister(s) ==
  /\ session[s].at = "closed"
  /\ session' = [session EXCEPT ![s].at = "gone"]
  /\ current' = AfterUnregister(s)
  /\ resume' = IF resume.by = s THEN NoResume ELSE resume
  /\ UNCHANGED <<rtScene, events, watermark, unpublished, deferred, client>>

Subscribe(s) ==
  /\ "live" \in rtScene /\ Connected(s) /\ ~session[s].subscribed
  /\ session' = [session EXCEPT ![s].subscribed = TRUE]
  /\ UNCHANGED <<rtScene, events, watermark, unpublished, deferred, current, resume, client>>

(***************************************************************************)
(* Resume: three reads outside a transaction, then the replay.             *)
(***************************************************************************)
ReadLatest(s) ==
  /\ Connected(s) /\ resume.at = "none"
  /\ resume' = [NoResume EXCEPT !.at = "latest", !.by = s, !.after = client.cursor,
                                !.latest = Newest(Having("kept")), !.asked = Committed]
  /\ UNCHANGED <<rtScene, events, watermark, unpublished, deferred, current, session, client>>

\* Fault: the watermark is not compared with the cursor.
NeverBehind(after) == FALSE

\* Behind the watermark nothing is replayed: the client is told to reload.
Behind(after) == after < watermark

ReadWatermark(s) ==
  /\ resume.by = s /\ resume.at = "latest"
  /\ LET latest == Newest({resume.latest, watermark})
     IN resume' = [resume EXCEPT !.latest = latest,
                     !.at = IF Behind(resume.after) THEN "replay" ELSE "watermark",
                     !.todo = IF Behind(resume.after) THEN <<Message("resync", latest)>> ELSE <<>>]
  /\ UNCHANGED <<rtScene, events, watermark, unpublished, deferred, current, session, client>>

\* The events after the cursor in order; one more than the limit asks for a reload.
ReadEvents(s) ==
  /\ resume.by = s /\ resume.at = "watermark"
  /\ LET found == {q \in Having("kept") : q > resume.after}
         nth(i) == CHOOSE q \in found : Cardinality({r \in found : r <= q}) = i
     IN resume' = [resume EXCEPT !.at = "replay",
                     !.todo = IF Cardinality(found) > ResumeLimit THEN <<Message("resync", resume.latest)>>
                              ELSE [i \in 1..Cardinality(found) |-> Message("event", nth(i))]]
  /\ UNCHANGED <<rtScene, events, watermark, unpublished, deferred, current, session, client>>

ReadFails(s) ==
  /\ "outage" \in rtScene /\ resume.by = s /\ resume.at \in {"latest", "watermark"}
  /\ resume' = NoResume
  /\ UNCHANGED <<rtScene, events, watermark, unpublished, deferred, current, session, client>>

\* SendReplay waits for room; live events may take their place in between.
SendReplay(s) ==
  /\ resume.by = s /\ resume.at = "replay" /\ Connected(s)
  /\ IF resume.todo = <<>> THEN resume' = NoResume /\ UNCHANGED session
     ELSE /\ Len(session[s].queue) < SendBuffer
          /\ session' = [session EXCEPT ![s].queue = Append(@, Head(resume.todo))]
          /\ resume' = [resume EXCEPT !.todo = Tail(@)]
  /\ UNCHANGED <<rtScene, events, watermark, unpublished, deferred, current, client>>

\* The write pump delivers; the client keeps the sequence as its cursor.  Told
\* to reload, it reads its domain and starts again from the latest sequence.
WritePump(s) ==
  /\ Connected(s) /\ session[s].queue # <<>>
  /\ LET m == Head(session[s].queue)
     IN client' = IF m.kind = "event" THEN [cursor |-> m.seq, seen |-> client.seen \cup {m.seq}]
                  ELSE [cursor |-> m.seq, seen |-> client.seen \cup Committed]
  /\ session' = [session EXCEPT ![s].queue = Tail(@)]
  /\ UNCHANGED <<rtScene, events, watermark, unpublished, deferred, current, resume>>

RealtimeNext ==
  \/ AppendTx \/ CleanupExpired
  \/ \E q \in Sequences : CommitEvent(q) \/ Publish(q) \/ PublishFails(q)
  \/ \E s \in Connections : \/ Register(s) \/ Disconnect(s) \/ Unregister(s) \/ Subscribe(s)
                            \/ ReadLatest(s) \/ ReadWatermark(s) \/ ReadEvents(s) \/ ReadFails(s)
                            \/ SendReplay(s) \/ WritePump(s)

RealtimeSpec == RealtimeInit /\ [][RealtimeNext]_realtimeVars

(***************************************************************************)
(* Correctness.                                                            *)
(***************************************************************************)
Queued(s) == {session[s].queue[i].seq : i \in DOMAIN session[s].queue}

\* A connection never loses a live event and stays open: the slow one, and the
\* one that was replaced, are closed, and a reconnect that crosses the end of
\* the connection before it stays registered (Session.Send, Manager.Register).
NoSilentDrop ==
  \A s \in Connections :
    Connected(s) => session[s].owed \subseteq client.seen \cup Queued(s)

\* A replay that does not ask for a reload holds every event that was committed
\* when it was asked for and that the cursor did not cover: no retention step
\* and no limit leaves a gap (ResumeUser, CleanupExpired).
ReplayIsWhole ==
  resume.at = "replay" /\ (\A i \in DOMAIN resume.todo : resume.todo[i].kind = "event")
    /\ Connected(resume.by)
    /\ (\A i \in DOMAIN session[resume.by].queue : session[resume.by].queue[i].kind = "event")
    => {q \in resume.asked : q > resume.after}
         \subseteq {resume.todo[i].seq : i \in DOMAIN resume.todo} \cup Queued(resume.by) \cup client.seen

\* What is delivered is delivered whole: a connection that stays open lost none
\* of its live events, and a replay that asks for no reload lacks none of the
\* events after the cursor it was asked for.  Nothing is said of an event that
\* was never published and lies before that cursor (Session.Send, ResumeUser).
DeliveryIsWhole == NoSilentDrop /\ ReplayIsWhole

\* An event that could not be published is left to the next resume, so no
\* cursor passes it before the client has it (PublishBestEffort: "durable
\* realtime publish deferred to cursor resume").
DeferredIsResumed ==
  \A q \in deferred \cap Having("kept"): q <= client.cursor => q \in client.seen
=============================================================================
