---- MODULE MCAgentTurn ----
(* The instance for the turns of an agent, with the operators on transcripts that
   its requests are made by.  What these do changes with no step: it is enough to
   evaluate it before any run has started. *)
EXTENDS MCAgentLoop, MCTranscript

NothingStarted == \A r \in Runs : At(r, "idle")

\* The repair makes a transcript well formed at the cost of nothing but results
\* that nobody asked for; neither the limit on turns nor the compaction in the loop
\* separates a call from its results, and compaction keeps the last KeepLast
\* messages (loop_history.go, loop_compact.go).
TranscriptsSound == NothingStarted => EveryRepair /\ EveryCut
====
