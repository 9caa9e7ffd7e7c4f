------------------------------ MODULE MCReply ------------------------------
(* Finite instances of Reply and of Realtime, which tells the client.  They  *)
(* share no state: the initial state picks the part that moves, and the      *)
(* other stays in one initial state of its own.  A client may rest for good, *)
(* once its connections and events are used up; a reply may not.             *)
EXTENDS Reply, Realtime, TLC

CONSTANTS Parts, r1, w1, w2, noWorker

VARIABLE part

MCCommands == {r1}
MCWorkers == {w1, w2}
\* The connections have the names of the workers, which keeps the group small.
MCSymmetry == Permutations({w1, w2})

\* No cleanup between the reads of a resume.
CalmRealtime == {{}, {"live", "overlap", "outage"}}

\* Two faults of any kind, or one and the deletion of the conversation
Hostile == {[events |-> AllEvents \ {"delete"}, faults |-> 2],
            [events |-> AllEvents, faults |-> 1]}

\* Any user and provider but for a tool overflow; crashes and a silent provider
Settling == {[events |-> {"cancel", "delete", "tools", "reject", "silence", "poor", "partial", "stream"}, faults |-> 0],
             [events |-> {"cancel", "delete", "tools", "crash", "silence", "partial"}, faults |-> 2]}

Refusing == {[events |-> {"reject", "local"}, faults |-> 1]}

MCInit ==
  /\ Init /\ RealtimeInit
  /\ part \in Parts
  /\ part # "reply" => env = CHOOSE e \in Environments: TRUE
  /\ part # "realtime" => \A other \in RealtimeScenes: Cardinality(rtScene) <= Cardinality(other)

MCNext ==
  /\ UNCHANGED part
  /\ \/ part = "reply" /\ Next /\ UNCHANGED realtimeVars
     \/ part = "realtime" /\ [RealtimeNext]_realtimeVars /\ UNCHANGED vars

MCSpec == MCInit /\ [][MCNext]_<<part, vars, realtimeVars>>
=============================================================================
