---------------------------- MODULE LeadAnnounce ----------------------------
(* How the results of a team's members reach the session of their lead        *)
(* (cmd/gateway_announce_queue.go and the end of handleTeammateMessage in     *)
(* cmd/gateway_consumer_handlers.go): each member's goroutine puts its result *)
(* into the session's queue, and the one that finds the queue idle becomes    *)
(* its processor, which announces batch after batch until the queue is empty. *)
(*                                                                            *)
(* One lead session: sessions share nothing but the map.  A queue bears the   *)
(* name of the result whose goroutine made it (getOrCreateAnnounceQueue).     *)
EXTENDS Naturals

CONSTANTS
    Results,     \* the results, each brought by a goroutine of its own
    NoQueue      \* no queue

ASSUME QueueAssumption == NoQueue \notin Results

VARIABLES
    at,          \* where each goroutine is
    holds,       \* the queue it has looked up
    batch,       \* the entries it has drained and is announcing
    mapped,      \* the queue announceQueues holds for the session
    entries,     \* announceQueueState.entries, as a set
    running,     \* the queues whose running flag is set
    told         \* history: how often each result was announced

leadVars == <<at, holds, batch, mapped, entries, running, told>>

LeadInit ==
    /\ at = [r \in Results |-> "working"]
    /\ holds = [r \in Results |-> NoQueue]
    /\ batch = [r \in Results |-> {}]
    /\ mapped = NoQueue
    /\ entries = [q \in Results |-> {}]
    /\ running = {}
    /\ told = [r \in Results |-> 0]

\* getOrCreateAnnounceQueue: LoadOrStore.
GetQueue(r) ==
    /\ at[r] = "working"
    /\ at' = [at EXCEPT ![r] = "got"]
    /\ mapped' = IF mapped = NoQueue THEN r ELSE mapped
    /\ holds' = [holds EXCEPT ![r] = mapped']
    /\ UNCHANGED <<batch, entries, running, told>>

\* The rest of enqueueAnnounce, under the mutex of a queue that may have left
\* the map since.
EnqueueResult(r) ==
    LET q == holds[r] IN
    /\ at[r] = "got"
    /\ entries' = [entries EXCEPT ![q] = @ \cup {r}]
    /\ at' = [at EXCEPT ![r] = IF q \in running THEN "merged" ELSE "drain"]
    /\ running' = running \cup {q}
    /\ UNCHANGED <<holds, batch, mapped, told>>

Drain(r) ==
    LET q == holds[r] IN
    /\ at[r] = "drain"
    /\ batch' = [batch EXCEPT ![r] = entries[q]]
    /\ entries' = [entries EXCEPT ![q] = {}]
    /\ at' = [at EXCEPT ![r] = IF entries[q] = {} THEN "finish" ELSE "announce"]
    /\ UNCHANGED <<holds, mapped, running, told>>

\* The lead's run over the batch has ended, well or not.
Announce(r) ==
    /\ at[r] = "announce"
    /\ told' = [x \in Results |-> IF x \in batch[r] THEN told[x] + 1 ELSE told[x]]
    /\ batch' = [batch EXCEPT ![r] = {}]
    /\ at' = [at EXCEPT ![r] = "drain"]
    /\ UNCHANGED <<holds, mapped, entries, running>>

\* Mutated: the queue was seen empty, and is not looked at again.
TryFinish_Unchecked(r) ==
    /\ at[r] = "finish"
    /\ at' = [at EXCEPT ![r] = "done"]
    /\ running' = running \ {holds[r]}
    /\ mapped' = NoQueue
    /\ UNCHANGED <<holds, batch, entries, told>>

\* tryFinish: the session's entry leaves the map, whichever queue it is.
TryFinish(r) ==
    LET q == holds[r] IN
    /\ at[r] = "finish"
    /\ IF entries[q] # {}
       THEN /\ at' = [at EXCEPT ![r] = "drain"]
            /\ UNCHANGED <<running, mapped>>
       ELSE /\ at' = [at EXCEPT ![r] = "done"]
            /\ running' = running \ {q}
            /\ mapped' = NoQueue
    /\ UNCHANGED <<holds, batch, entries, told>>

LeadStep(r) ==
    GetQueue(r) \/ EnqueueResult(r) \/ Drain(r) \/ Announce(r) \/ TryFinish(r)

Processing(r, q) == holds[r] = q /\ at[r] \in {"drain", "announce", "finish"}

LeadTypeOK ==
    /\ at \in [Results -> {"working", "got", "merged", "drain", "announce", "finish", "done"}]
    /\ holds \in [Results -> Results \cup {NoQueue}]
    /\ mapped \in Results \cup {NoQueue}
    /\ batch \in [Results -> SUBSET Results]
    /\ entries \in [Results -> SUBSET Results]
    /\ running \subseteq Results
    /\ told \in [Results -> Nat]

\* A queue is processed by one goroutine while its flag is set and by none
\* otherwise, and entries wait only where somebody will drain them.
EntryHasProcessor ==
    \A q \in Results :
      /\ q \in running <=> \E r \in Results : Processing(r, q)
      /\ \A r, x \in Results : Processing(r, q) /\ Processing(x, q) => r = x
      /\ entries[q] # {} => q \in running

\* The queues and the batches a result is in.
WaitsIn(r) == {q \in Results : r \in entries[q]}
HeldBy(r) == {x \in Results : r \in batch[x]}

\* No result is lost or announced twice: one that was enqueued waits in one
\* queue, or is in one batch, or was announced once.
ToldOnce ==
    \A r \in Results :
      IF at[r] \in {"working", "got"}
      THEN told[r] = 0 /\ WaitsIn(r) = {} /\ HeldBy(r) = {}
      ELSE \/ told[r] = 1 /\ WaitsIn(r) = {} /\ HeldBy(r) = {}
           \/ told[r] = 0 /\ (\E q \in Results : WaitsIn(r) = {q}) /\ HeldBy(r) = {}
           \/ told[r] = 0 /\ WaitsIn(r) = {} /\ (\E x \in Results : HeldBy(r) = {x})

\* The lead hears of every result once, also when the session's queue left
\* the map while a producer held it and several queues of the session live at
\* once: the state is well typed, no entry is stranded, none is doubled.
LeadHearsOnce == LeadTypeOK /\ EntryHasProcessor /\ ToldOnce

LeadNext == \E r \in Results : LeadStep(r)
LeadSpec == LeadInit /\ [][LeadNext]_leadVars
=============================================================================
