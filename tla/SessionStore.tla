--------------------------- MODULE SessionStore ---------------------------
(***************************************************************************)
(* One session of the session store (internal/store/pg/sessions*.go): the  *)
(* cached copy that every method works on, under the store's mutex, and    *)
(* its row, which only Save writes.  The summary is the set of the         *)
(* messages it tells of.                                                   *)
(***************************************************************************)
EXTENDS Transcript

CONSTANTS
    Savers,     \* the threads that call Save
    Stored      \* SUBSET Session: what earlier runs of the gateway have left

ASSUME StoredAssumption ==
    \A s \in Stored :
        DOMAIN s = {"history", "summary", "compactions", "flushedAt"} /\ IsTranscript(s.history)

VARIABLES
    cache,      \* Session: SessionData in the cache of the store
    row,        \* Session: the row of table sessions
    saving      \* [Savers -> Session or NoSnapshot]: taken by Save, not written

storeVars == <<cache, row, saving>>

NoSnapshot == [history |-> <<>>, summary |-> {}, compactions |-> -1, flushedAt |-> -1]
NewSession == [history |-> <<>>, summary |-> {}, compactions |-> 0, flushedAt |-> 0]

TagsOf(msgs) == {msgs[i].tag : i \in DOMAIN msgs} \ {<<>>}

\* What a reader of the session can still learn of.
Covered(s) == TagsOf(s.history) \cup s.summary

StoreInit ==
    /\ cache \in Stored /\ row = cache
    /\ saving = [a \in Savers |-> NoSnapshot]

Change(s) == cache' = s /\ UNCHANGED <<row, saving>>

AddMessage(m) == Change([cache EXCEPT !.history = Append(@, m)])
SetHistory(h) == Change([cache EXCEPT !.history = h])
SetSummary(s) == Change([cache EXCEPT !.summary = s])
TruncateHistory(keep) == Change([cache EXCEPT !.history = Truncate(@, keep)])
IncrementCompaction == Change([cache EXCEPT !.compactions = @ + 1])
SetMemoryFlushDone == Change([cache EXCEPT !.flushedAt = cache.compactions])
Reset == Change([cache EXCEPT !.history = <<>>, !.summary = {}])

\* Save copies the session under the lock and writes the row without it: of
\* two saves, the one with the older copy may write last.
SaveReads(a) ==
    /\ saving[a] = NoSnapshot
    /\ saving' = [saving EXCEPT ![a] = cache]
    /\ UNCHANGED <<cache, row>>

\* Mutated: the UPDATE leaves the column messages out.
SaveWrites_Skips(a, ok) ==
    /\ saving[a] # NoSnapshot
    /\ row' = IF ok THEN [saving[a] EXCEPT !.history = row.history] ELSE row
    /\ saving' = [saving EXCEPT ![a] = NoSnapshot]
    /\ UNCHANGED cache

\* Under a cancelled context the UPDATE fails; callers ignore the error.
SaveWrites(a, ok) ==
    /\ saving[a] # NoSnapshot
    /\ row' = IF ok THEN saving[a] ELSE row
    /\ saving' = [saving EXCEPT ![a] = NoSnapshot]
    /\ UNCHANGED cache

\* The process dies; the next one loads the row.
StoreRestart ==
    /\ cache' = row /\ saving' = [a \in Savers |-> NoSnapshot]
    /\ UNCHANGED row
=============================================================================
