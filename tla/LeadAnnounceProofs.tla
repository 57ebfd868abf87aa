------------------------- MODULE LeadAnnounceProofs -------------------------
(* Theorems about LeadAnnounce, for every set of results.                     *)
EXTENDS LeadAnnounce, TLAPS

\* A queue is made by its namesake's first step; a batch is held only while it
\* is announced.
QueuesMade ==
    \A r \in Results :
      /\ at[r] = "working" <=> holds[r] = NoQueue
      /\ at[r] = "working" => mapped # r /\ \A x \in Results : holds[x] # r

BatchAnnounced == \A r \in Results : batch[r] # {} => at[r] = "announce"

LeadInv == LeadHearsOnce /\ QueuesMade /\ BatchAnnounced

LEMMA LeadInit_Inv == LeadInit => LeadInv
<1> SUFFICES ASSUME LeadInit PROVE LeadInv OBVIOUS
<1>1. LeadTypeOK BY DEF LeadInit, LeadTypeOK
<1>2. EntryHasProcessor BY DEF LeadInit, EntryHasProcessor, Processing
<1>3. ToldOnce BY DEF LeadInit, ToldOnce, WaitsIn, HeldBy
<1>4. QueuesMade BY QueueAssumption DEF LeadInit, QueuesMade
<1>5. BatchAnnounced BY DEF LeadInit, BatchAnnounced
<1> QED BY <1>1, <1>2, <1>3, <1>4, <1>5 DEF LeadInv, LeadHearsOnce

\* What a step leaves alone of the places a result may be in.
LEMMA Untouched ==
    ASSUME NEW r \in Results, UNCHANGED <<entries, batch, told>>
    PROVE  WaitsIn(r)' = WaitsIn(r) /\ HeldBy(r)' = HeldBy(r) /\ told'[r] = told[r]
BY DEF WaitsIn, HeldBy

LEMMA GetQueue_Inv ==
    ASSUME LeadInv, NEW r \in Results, GetQueue(r) PROVE LeadInv'
<1> USE DEF LeadInv, LeadHearsOnce
<1>1. LeadTypeOK' BY DEF LeadTypeOK, GetQueue
<1>2. QueuesMade'
  BY QueueAssumption DEF LeadTypeOK, GetQueue, QueuesMade
<1>3. BatchAnnounced' BY DEF LeadTypeOK, GetQueue, BatchAnnounced
<1>4. EntryHasProcessor'
  <2>1. \A x, q \in Results : Processing(x, q)' <=> Processing(x, q)
    BY DEF LeadTypeOK, GetQueue, Processing
  <2> QED BY <2>1 DEF EntryHasProcessor, GetQueue
<1>5. ToldOnce'
  <2>1. \A x \in Results : at'[x] \in {"working", "got"} <=> at[x] \in {"working", "got"}
    BY DEF LeadTypeOK, GetQueue
  <2> QED BY <2>1, Untouched DEF ToldOnce, GetQueue
<1> QED BY <1>1, <1>2, <1>3, <1>4, <1>5

LEMMA EnqueueResult_Inv ==
    ASSUME LeadInv, NEW r \in Results, EnqueueResult(r) PROVE LeadInv'
<1> USE DEF LeadInv, LeadHearsOnce
<1> DEFINE q == holds[r]
<1>0. q \in Results /\ at[r] = "got"
  BY QueueAssumption DEF LeadTypeOK, EnqueueResult, QueuesMade
<1>1. LeadTypeOK' BY <1>0 DEF LeadTypeOK, EnqueueResult
<1>2. QueuesMade' BY <1>0 DEF LeadTypeOK, EnqueueResult, QueuesMade
<1>3. BatchAnnounced' BY <1>0 DEF LeadTypeOK, EnqueueResult, BatchAnnounced
<1>4. EntryHasProcessor'
  <2>1. \A x, p \in Results : Processing(x, p)' <=>
           Processing(x, p) \/ (x = r /\ p = q /\ q \notin running)
    BY <1>0 DEF LeadTypeOK, EnqueueResult, Processing
  <2>2. \A p \in Results : p # q => entries'[p] = entries[p]
    BY <1>0 DEF LeadTypeOK, EnqueueResult
  <2>3. running' = running \cup {q} BY DEF EnqueueResult
  <2> QED BY <1>0, <2>1, <2>2, <2>3 DEF EntryHasProcessor
<1>5. ToldOnce'
  <2>1. ASSUME NEW x \in Results, x # r
        PROVE  /\ WaitsIn(x)' = WaitsIn(x) /\ HeldBy(x)' = HeldBy(x) /\ told'[x] = told[x]
               /\ at'[x] = at[x]
    BY <1>0, <2>1 DEF LeadTypeOK, EnqueueResult, WaitsIn, HeldBy
  <2>2. told'[r] = 0 /\ WaitsIn(r)' = {q} /\ HeldBy(r)' = {}
    BY <1>0 DEF LeadTypeOK, EnqueueResult, WaitsIn, HeldBy, ToldOnce
  <2>3. at'[r] \in {"merged", "drain"} BY <1>0 DEF LeadTypeOK, EnqueueResult
  <2> QED BY <1>0, <2>1, <2>2, <2>3 DEF ToldOnce
<1> QED BY <1>1, <1>2, <1>3, <1>4, <1>5

LEMMA Drain_Inv ==
    ASSUME LeadInv, NEW r \in Results, Drain(r) PROVE LeadInv'
<1> USE DEF LeadInv, LeadHearsOnce
<1> DEFINE q == holds[r]
<1>0. q \in Results /\ at[r] = "drain" /\ batch[r] = {}
  BY QueueAssumption DEF LeadTypeOK, Drain, QueuesMade, BatchAnnounced
<1>1. LeadTypeOK' BY <1>0 DEF LeadTypeOK, Drain
<1>2. QueuesMade' BY <1>0 DEF LeadTypeOK, Drain, QueuesMade
<1>3. BatchAnnounced' BY <1>0 DEF LeadTypeOK, Drain, BatchAnnounced
<1>4. EntryHasProcessor'
  <2>1. \A x, p \in Results : Processing(x, p)' <=> Processing(x, p)
    BY <1>0 DEF LeadTypeOK, Drain, Processing
  <2>2. \A p \in Results : entries'[p] = IF p = q THEN {} ELSE entries[p]
    BY <1>0 DEF LeadTypeOK, Drain
  <2> QED BY <2>1, <2>2 DEF EntryHasProcessor, Drain
<1>5. ToldOnce'
  <2>1. \A x \in Results : at'[x] \in {"working", "got"} <=> at[x] \in {"working", "got"}
    BY <1>0 DEF LeadTypeOK, Drain
  <2>2. told' = told BY DEF Drain
  <2>3. ASSUME NEW x \in Results, x \in entries[q]
        PROVE  WaitsIn(x)' = {} /\ HeldBy(x)' = {r}
    <3>1. WaitsIn(x) = {q} /\ HeldBy(x) = {}
      BY <1>0, <2>3 DEF ToldOnce, WaitsIn
    <3>2. WaitsIn(x)' = WaitsIn(x) \ {q}
      BY <1>0 DEF LeadTypeOK, Drain, WaitsIn
    <3>3. HeldBy(x)' = HeldBy(x) \cup {r}
      BY <1>0, <2>3 DEF LeadTypeOK, Drain, HeldBy
    <3> QED BY <3>1, <3>2, <3>3
  <2>4. ASSUME NEW x \in Results, x \notin entries[q]
        PROVE  WaitsIn(x)' = WaitsIn(x) /\ HeldBy(x)' = HeldBy(x)
    BY <1>0, <2>4 DEF LeadTypeOK, Drain, WaitsIn, HeldBy
  <2>5. ASSUME NEW x \in Results, x \in entries[q]
        PROVE  told[x] = 0 /\ at[x] \notin {"working", "got"}
    BY <1>0, <2>5 DEF ToldOnce, WaitsIn
  <2> QED BY <2>1, <2>2, <2>3, <2>4, <2>5 DEF ToldOnce
<1> QED BY <1>1, <1>2, <1>3, <1>4, <1>5

LEMMA Announce_Inv ==
    ASSUME LeadInv, NEW r \in Results, Announce(r) PROVE LeadInv'
<1> USE DEF LeadInv, LeadHearsOnce
<1>0. at[r] = "announce" /\ holds[r] \in Results
  BY QueueAssumption DEF LeadTypeOK, Announce, QueuesMade
<1>1. LeadTypeOK' BY DEF LeadTypeOK, Announce
<1>2. QueuesMade' BY <1>0 DEF LeadTypeOK, Announce, QueuesMade
<1>3. BatchAnnounced' BY <1>0 DEF LeadTypeOK, Announce, BatchAnnounced
<1>4. EntryHasProcessor'
  <2>1. \A x, p \in Results : Processing(x, p)' <=> Processing(x, p)
    BY <1>0 DEF LeadTypeOK, Announce, Processing
  <2> QED BY <2>1 DEF EntryHasProcessor, Announce
<1>5. ToldOnce'
  <2>1. \A x \in Results : at'[x] \in {"working", "got"} <=> at[x] \in {"working", "got"}
    BY <1>0 DEF LeadTypeOK, Announce
  <2>2. \A x \in Results : WaitsIn(x)' = WaitsIn(x) /\ HeldBy(x)' = HeldBy(x) \ {r}
    BY DEF LeadTypeOK, Announce, WaitsIn, HeldBy
  <2>3. ASSUME NEW x \in Results, x \in batch[r]
        PROVE  /\ told'[x] = 1 /\ WaitsIn(x)' = {} /\ HeldBy(x)' = {}
               /\ at[x] \notin {"working", "got"}
    <3>1. told[x] = 0 /\ WaitsIn(x) = {} /\ HeldBy(x) = {r} /\ at[x] \notin {"working", "got"}
      BY <2>3 DEF ToldOnce, HeldBy
    <3>2. told'[x] = told[x] + 1 BY <2>3 DEF Announce
    <3> QED BY <2>2, <3>1, <3>2
  <2>4. ASSUME NEW x \in Results, x \notin batch[r]
        PROVE  told'[x] = told[x] /\ HeldBy(x)' = HeldBy(x)
    BY <2>2, <2>4 DEF Announce, HeldBy
  <2> QED BY <2>1, <2>2, <2>3, <2>4 DEF ToldOnce
<1> QED BY <1>1, <1>2, <1>3, <1>4, <1>5

LEMMA TryFinish_Inv ==
    ASSUME LeadInv, NEW r \in Results, TryFinish(r) PROVE LeadInv'
<1> USE DEF LeadInv, LeadHearsOnce
<1> DEFINE q == holds[r]
<1>0. q \in Results /\ at[r] = "finish"
  BY QueueAssumption DEF LeadTypeOK, TryFinish, QueuesMade
<1>1. LeadTypeOK' BY DEF LeadTypeOK, TryFinish
<1>2. QueuesMade' BY <1>0, QueueAssumption DEF LeadTypeOK, TryFinish, QueuesMade
<1>3. BatchAnnounced' BY <1>0 DEF LeadTypeOK, TryFinish, BatchAnnounced
<1>4. EntryHasProcessor'
  <2>1. CASE entries[q] # {}
    <3>1. \A x, p \in Results : Processing(x, p)' <=> Processing(x, p)
      BY <1>0, <2>1 DEF LeadTypeOK, TryFinish, Processing
    <3> QED BY <2>1, <3>1 DEF EntryHasProcessor, TryFinish
  <2>2. CASE entries[q] = {}
    <3>1. \A x, p \in Results : Processing(x, p)' <=> Processing(x, p) /\ x # r
      BY <1>0, <2>2 DEF LeadTypeOK, TryFinish, Processing
    <3>2. running' = running \ {q} /\ entries' = entries
      BY <2>2 DEF TryFinish
    <3>3. Processing(r, q) BY <1>0 DEF Processing
    <3>4. \A p \in Results : Processing(r, p) => p = q BY DEF Processing
    <3> QED BY <1>0, <2>2, <3>1, <3>2, <3>3, <3>4 DEF EntryHasProcessor
  <2> QED BY <2>1, <2>2
<1>5. ToldOnce'
  <2>1. \A x \in Results : at'[x] \in {"working", "got"} <=> at[x] \in {"working", "got"}
    BY <1>0 DEF LeadTypeOK, TryFinish
  <2> QED BY <2>1, Untouched DEF ToldOnce, TryFinish
<1> QED BY <1>1, <1>2, <1>3, <1>4, <1>5

LEMMA Step_Inv == LeadInv /\ [LeadNext]_leadVars => LeadInv'
<1> SUFFICES ASSUME LeadInv, [LeadNext]_leadVars PROVE LeadInv' OBVIOUS
<1>1. CASE LeadNext
  BY <1>1, GetQueue_Inv, EnqueueResult_Inv, Drain_Inv, Announce_Inv, TryFinish_Inv
  DEF LeadNext, LeadStep
<1>2. CASE UNCHANGED leadVars
  BY <1>2 DEF leadVars, LeadInv, LeadHearsOnce, LeadTypeOK, EntryHasProcessor, Processing,
              ToldOnce, WaitsIn, HeldBy, QueuesMade, BatchAnnounced
<1> QED BY <1>1, <1>2

\* The lead hears of every result exactly once, for every set of results: no
\* entry is stranded in a queue without a processor and none is announced
\* twice, although tryFinish deletes the session's queue from the map while
\* producers hold it and several queues of one session live at once.
THEOREM EveryLeadHearsOnce == LeadSpec => []LeadHearsOnce
<1>1. LeadInv => LeadHearsOnce BY DEF LeadInv
<1> QED BY LeadInit_Inv, Step_Inv, <1>1, PTL DEF LeadSpec
=============================================================================
