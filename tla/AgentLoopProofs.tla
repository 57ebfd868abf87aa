-------------------------- MODULE AgentLoopProofs --------------------------
(* Theorems about AgentLoop: follow-ups that were accepted are kept, a run    *)
(* alone in its session is found, a request is built from the whole session,  *)
(* every call of a tool in a request has its result and an id of its own,     *)
(* nothing a session had is forgotten without one of the known reasons, what  *)
(* a run has saved survives a restart, and one summariser has the lock.  And  *)
(* about Transcript: what a repair and a cut of the history keep.             *)
EXTENDS AgentLoop, SequenceTheorems, FiniteSetTheorems, WellFoundedInduction, TLAPS

Fields == {"pc", "loop", "iter", "calls", "snap", "knew", "msgs", "pending", "flushed",
           "compacted", "over", "split", "stuck"}
SessionFields == {"history", "summary", "compactions", "flushedAt"}

\* Runs, sessions and copies of sessions have their fields.
ShapeInv ==
    /\ DOMAIN run = Runs /\ \A r \in Runs : DOMAIN run[r] = Fields
    /\ DOMAIN cache = SessionFields /\ DOMAIN row = SessionFields
    /\ DOMAIN saving = Savers /\ \A a \in Savers : DOMAIN saving[a] = SessionFields
    /\ DOMAIN sum = Runs
    /\ \A r \in Runs : DOMAIN sum[r] = {"pc", "hist", "summary"}
-----------------------------------------------------------------------------
(* Sequences and tags. *)

LEMMA ListedIs == ASSUME NEW S, NEW q \in Seq(S) PROVE Listed(q)
<1>1. /\ DOMAIN q = 1 .. Len(q) /\ Len(q) \in Nat
      /\ \A i \in 1 .. Len(q) : q[i] \in ToSet(q)
  BY DEF ToSet
<1>2. q = [i \in 1 .. Len(q) |-> q[i]]
  BY <1>1
<1> QED BY <1>1, <1>2 DEF Listed

LEMMA EmptyTags == Listed(<<>>) /\ TagsOf(<<>>) = {}
<1>1. <<>> \in Seq({})
  OBVIOUS
<1>2. Listed(<<>>)
  BY <1>1, ListedIs
<1>3. TagsOf(<<>>) = {}
  BY DEF TagsOf
<1> QED BY <1>2, <1>3

\* Joining two sequences joins their tags.
LEMMA ConcatTags ==
    ASSUME NEW q, NEW p, Listed(q), Listed(p)
    PROVE  Listed(q \o p) /\ TagsOf(q \o p) = TagsOf(q) \cup TagsOf(p)
<1> DEFINE S == ToSet(q) \cup ToSet(p)
<1>1. q \in Seq(S) /\ p \in Seq(S)
  BY DEF Listed
<1> HIDE DEF S
<1>2. PICK c \in Seq(S) : c = q \o p
  <2>1. q \o p \in Seq(S)
    BY <1>1, ConcatProperties
  <2> QED BY <2>1
<1>3. /\ DOMAIN q = 1 .. Len(q) /\ DOMAIN p = 1 .. Len(p) /\ Len(q) \in Nat /\ Len(p) \in Nat
      /\ DOMAIN c = 1 .. Len(q) + Len(p)
      /\ \A i \in 1 .. Len(q) : c[i] = q[i]
      /\ \A i \in 1 .. Len(p) : c[i + Len(q)] = p[i]
  BY <1>1, <1>2, ConcatProperties
<1>4. \A i \in DOMAIN c : i \in DOMAIN q \/ (i - Len(q) \in DOMAIN p /\ i = (i - Len(q)) + Len(q))
  BY <1>3
<1>5. \A i \in DOMAIN p : i + Len(q) \in DOMAIN c
  BY <1>3
<1>6. \A i \in DOMAIN q : i \in DOMAIN c
  BY <1>3
<1>7. {c[i].tag : i \in DOMAIN c} = {q[i].tag : i \in DOMAIN q} \cup {p[i].tag : i \in DOMAIN p}
  <2>1. \A i \in DOMAIN c : c[i].tag \in {q[j].tag : j \in DOMAIN q} \cup {p[j].tag : j \in DOMAIN p}
    BY <1>3, <1>4
  <2>2. \A i \in DOMAIN q : q[i].tag \in {c[j].tag : j \in DOMAIN c}
    BY <1>3, <1>6
  <2>3. \A i \in DOMAIN p : p[i].tag \in {c[j].tag : j \in DOMAIN c}
    BY <1>3, <1>5
  <2> QED BY <2>1, <2>2, <2>3
<1>8. Listed(c)
  BY ListedIs
<1>9. TagsOf(c) = TagsOf(q) \cup TagsOf(p)
  BY <1>7 DEF TagsOf
<1> QED BY <1>2, <1>8, <1>9

LEMMA AppendTags ==
    ASSUME NEW q, NEW m, Listed(q)
    PROVE  /\ Listed(Append(q, m)) /\ TagsOf(q) \subseteq TagsOf(Append(q, m))
           /\ Append(q, m) # <<>> /\ Last(Append(q, m)) = m
<1> DEFINE S == ToSet(q) \cup {m}
<1>1. q \in Seq(S) /\ m \in S
  BY DEF Listed
<1> HIDE DEF S
<1>2. PICK c \in Seq(S) : c = Append(q, m)
  <2>1. Append(q, m) \in Seq(S)
    BY <1>1, AppendProperties
  <2> QED BY <2>1
<1>3. /\ DOMAIN q = 1 .. Len(q) /\ Len(q) \in Nat /\ Len(c) = Len(q) + 1
      /\ DOMAIN c = 1 .. Len(q) + 1 /\ c[Len(q) + 1] = m
      /\ \A i \in 1 .. Len(q) : c[i] = q[i]
  BY <1>1, <1>2, AppendProperties
<1>4. \A i \in DOMAIN q : i \in DOMAIN c /\ c[i] = q[i]
  BY <1>3
<1>5. TagsOf(q) \subseteq TagsOf(c)
  BY <1>4 DEF TagsOf
<1>6. c # <<>> /\ Last(c) = m
  BY <1>2, <1>3 DEF Last
<1> QED BY <1>2, <1>5, <1>6, ListedIs

\* A function on 1 .. n is a sequence.
LEMMA MadeListed ==
    ASSUME NEW n \in Nat, NEW q, DOMAIN q = 1 .. n, q = [i \in 1 .. n |-> q[i]]
    PROVE  Listed(q)
BY DEF Listed, ToSet
-----------------------------------------------------------------------------
(* The local variables of a run. *)

LoopPcs == {"history", "summary", "clean", "cleanSave", "ask", "tools"}

\* The buffered messages are a sequence, empty before the loop, not empty when
\* they are flushed; where the tools are to run, the last of them has the calls.
PendingOK(x) ==
    /\ Listed(x.pending)
    /\ x.pc \in {"history", "summary"} => x.pending = <<>>
    /\ x.pc \in {"tools", "flush"} => x.pending # <<>>
    /\ x.pc = "tools" => Len(Last(x.pending).calls) \in Nat

\* Where the follow-up i of a run is, box being its channel.
KeptIn(x, box, i) ==
    /\ x.pc \in LoopPcs => i \in ToSet(box) \/ <<i>> \in TagsOf(x.pending)
    /\ x.pc \notin LoopPcs /\ x.pc # "failed" /\ ~x.stuck => <<i>> \in TagsOf(x.pending)

KeptInv ==
    /\ active \subseteq Runs /\ index \in active \cup {NoRun}
    /\ DOMAIN inbox = Runs /\ \A r \in Runs : inbox[r] \in Seq(Injections)
    /\ DOMAIN accepted = Injections
    /\ \A r \in Runs : PendingOK(run[r])
    /\ \A r \in active : ~At(r, "idle")
    /\ \A i \in Injections : \A r \in Runs : accepted[i] = r =>
         ~At(r, "idle") /\ (i \notin late => KeptIn(run[r], inbox[r], i))

LEMMA IdleIs ==
    /\ DOMAIN Idle = Fields /\ Idle.pc = "idle" /\ Idle.pending = <<>> /\ Idle.knew = {}
    /\ Idle.stuck = FALSE /\ Idle.iter = 0 /\ Idle.flushed = 0
    /\ DOMAIN Failed = Fields /\ Failed.pc = "failed" /\ Failed.pending = <<>> /\ Failed.knew = {}
    /\ Failed.iter = 0 /\ Failed.flushed = 0
BY DEF Idle, Failed, Fields

\* The loop is over: what was buffered is followed by the answer.
LEMMA EndedIs ==
    ASSUME NEW r, NEW x
    PROVE  /\ DOMAIN Ended(r, x) = Fields /\ Ended(r, x).pc = "flush"
           /\ Ended(r, x).pending = Append(x.pending, Reply(r, MaxIter[r] + 1))
           /\ Ended(r, x).stuck = x.stuck /\ Ended(r, x).knew = {}
           /\ Ended(r, x).iter = 0 /\ Ended(r, x).flushed = 0 /\ Ended(r, x).loop = x.loop
BY DEF Ended, Idle, Fields

\* The loop goes on, or was in its last iteration.
LEMMA ContinuedIs ==
    ASSUME NEW r, NEW x, DOMAIN x = Fields
    PROVE  \/ x.iter = MaxIter[r] /\ Continued(r, x) = Ended(r, x)
           \/ /\ x.iter # MaxIter[r] /\ DOMAIN Continued(r, x) = Fields
              /\ Continued(r, x).pc = "ask" /\ Continued(r, x).pending = x.pending
              /\ Continued(r, x).stuck = x.stuck /\ Continued(r, x).knew = x.knew
              /\ Continued(r, x).iter = x.iter + 1 /\ Continued(r, x).flushed = x.flushed
              /\ Continued(r, x).loop = x.loop
BY DEF Continued, Fields

\* An answer changes nothing that counts here.
LEMMA AnsweredIs ==
    ASSUME ShapeInv, NEW r \in Runs, NEW x \in Answered(r)
    PROVE  /\ DOMAIN x = Fields /\ x.pc = run[r].pc /\ x.iter = run[r].iter
           /\ x.pending = run[r].pending /\ x.stuck = run[r].stuck /\ x.knew = run[r].knew
           /\ x.flushed = run[r].flushed /\ x.loop = run[r].loop
BY DEF Answered, Fields, ShapeInv

\* Follow-ups become messages.
LEMMA DrainedIs ==
    ASSUME KeptInv, NEW r \in Runs, NEW x, DOMAIN x = Fields, Listed(x.pending)
    PROVE  /\ DOMAIN Drained(r, x) = Fields /\ Drained(r, x).pc = x.pc
           /\ Drained(r, x).iter = x.iter
           /\ Drained(r, x).stuck = x.stuck /\ Drained(r, x).knew = x.knew
           /\ Listed(Drained(r, x).pending)
           /\ TagsOf(x.pending) \subseteq TagsOf(Drained(r, x).pending)
           /\ \A i \in ToSet(inbox[r]) : <<i>> \in TagsOf(Drained(r, x).pending)
<1> DEFINE more == [k \in DOMAIN inbox[r] |-> FollowUp(inbox[r][k])]
<1>1. inbox[r] \in Seq(Injections) /\ DOMAIN inbox[r] = 1 .. Len(inbox[r]) /\ Len(inbox[r]) \in Nat
  BY DEF KeptInv
<1>2. DOMAIN more = DOMAIN inbox[r] /\ more = [k \in DOMAIN inbox[r] |-> more[k]]
  OBVIOUS
<1>3. Listed(more)
  BY <1>1, <1>2, MadeListed
<1>4. \A k \in DOMAIN inbox[r] : more[k].tag = <<inbox[r][k]>>
  BY DEF FollowUp, TextMsg
<1>5. \A i \in ToSet(inbox[r]) : <<i>> \in TagsOf(more)
  BY <1>2, <1>4 DEF ToSet, TagsOf
<1>6. /\ DOMAIN Drained(r, x) = Fields /\ Drained(r, x).pc = x.pc
      /\ Drained(r, x).iter = x.iter
      /\ Drained(r, x).stuck = x.stuck /\ Drained(r, x).knew = x.knew
      /\ Drained(r, x).pending = x.pending \o more
  BY DEF Drained, Fields
<1> HIDE DEF more
<1> QED BY <1>3, <1>5, <1>6, ConcatTags
-----------------------------------------------------------------------------
(* Steps, as far as accepted follow-ups are concerned. *)

\* x is y but for what plays no part here.
Like(x, y) == x.pc = y.pc /\ x.pending = y.pending /\ x.stuck = y.stuck

LEMMA SetIs ==
    ASSUME ShapeInv, NEW r \in Runs, NEW new, run' = [run EXCEPT ![r] = new]
    PROVE  DOMAIN run' = Runs /\ \A q \in Runs : run'[q] = IF q = r THEN new ELSE run[q]
BY DEF ShapeInv

LEMMA StillKnownIs ==
    ASSUME NEW rs, \A q \in Runs : DOMAIN rs[q] = Fields, StillKnown(rs)
    PROVE  /\ DOMAIN run' = Runs
           /\ \A q \in Runs :
                /\ DOMAIN run'[q] = Fields /\ Like(run'[q], rs[q])
                /\ run'[q].loop = rs[q].loop /\ run'[q].snap = rs[q].snap
                /\ run'[q].iter = rs[q].iter /\ run'[q].flushed = rs[q].flushed
                /\ run'[q].msgs = rs[q].msgs /\ run'[q].over = rs[q].over
                /\ run'[q].split = rs[q].split
                /\ run'[q].knew = (rs[q].knew \cap Covered(cache'))
                                     \ (cache.summary \ cache'.summary)
BY DEF StillKnown, Fields, Like

\* A step of one run; box is what its channel holds afterwards.
LEMMA RunMoves ==
    ASSUME ShapeInv, KeptInv, NEW r \in Runs, NEW new, NEW box \in Seq(Injections),
           \A q \in Runs : Like(run'[q], IF q = r THEN new ELSE run[q]),
           PendingOK(new), new.pc # "idle",
           active' \subseteq active \cup {r}, index' \in active' \cup {NoRun},
           DOMAIN inbox' = Runs,
           \A q \in Runs : inbox'[q] = IF q = r THEN box ELSE inbox[q],
           UNCHANGED <<accepted, late>>,
           \A i \in Injections : accepted[i] = r /\ i \notin late => KeptIn(new, box, i)
    PROVE  KeptInv'
<1>1. active' \subseteq Runs /\ \A q \in Runs : inbox'[q] \in Seq(Injections)
  BY DEF KeptInv
<1>2. \A q \in Runs : PendingOK(run'[q])
  BY DEF KeptInv, PendingOK, Like
<1>3. \A q \in active' : run'[q].pc # "idle"
  BY <1>1 DEF KeptInv, Like, At
<1>4. \A i \in Injections : \A q \in Runs : accepted'[i] = q =>
         run'[q].pc # "idle" /\ (i \notin late' => KeptIn(run'[q], inbox'[q], i))
  BY DEF KeptInv, Like, At, KeptIn
<1> QED BY <1>1, <1>2, <1>3, <1>4 DEF KeptInv, At

\* A step that leaves the runs and their channels as they are.
LEMMA NobodyMoves ==
    ASSUME KeptInv, \A q \in Runs : Like(run'[q], run[q]),
           active' \subseteq active, index' \in active' \cup {NoRun},
           UNCHANGED <<inbox, accepted, late>>
    PROVE  KeptInv'
<1>1. \A q \in Runs : PendingOK(run'[q])
  BY DEF KeptInv, PendingOK, Like
<1>2. \A q \in active' : run'[q].pc # "idle"
  BY DEF KeptInv, Like, At
<1>3. \A i \in Injections : \A q \in Runs : accepted'[i] = q =>
         run'[q].pc # "idle" /\ (i \notin late' => KeptIn(run'[q], inbox'[q], i))
  BY DEF KeptInv, Like, At, KeptIn
<1> QED BY <1>1, <1>2, <1>3 DEF KeptInv, At

\* A run that keeps what it has buffered, and leaves the channel alone.
LEMMA GrowsKept ==
    ASSUME KeptInv, ShapeInv, NEW r \in Runs, NEW new,
           \A q \in Runs : Like(run'[q], IF q = r THEN new ELSE run[q]),
           PendingOK(new), new.pc # "idle", ~At(r, "idle"),
           TagsOf(run[r].pending) \subseteq TagsOf(new.pending),
           \/ run[r].pc \in LoopPcs /\ new.pc \in LoopPcs
           \/ /\ run[r].pc \notin LoopPcs \cup {"failed"} /\ new.pc \notin LoopPcs
              /\ run[r].stuck = new.stuck
           \/ new.stuck /\ new.pc \notin LoopPcs
           \/ new.pc = "failed",
           active' \subseteq active, index' \in active' \cup {NoRun},
           UNCHANGED <<inbox, accepted, late>>
    PROVE  KeptInv'
<1>1. \A i \in Injections : accepted[i] = r /\ i \notin late => KeptIn(new, inbox[r], i)
  BY DEF KeptInv, KeptIn, At, LoopPcs
<1>2. inbox[r] \in Seq(Injections) /\ DOMAIN inbox' = Runs
  BY DEF KeptInv
<1> QED BY <1>1, <1>2, RunMoves

\* A run leaves the router.
LEMMA UnregisterIs ==
    ASSUME KeptInv, NEW r, UnregisterRun(r)
    PROVE  active' \subseteq active /\ index' \in active' \cup {NoRun} /\ UNCHANGED inbox
BY DEF KeptInv, UnregisterRun

\* Before the loop.
LEMMA Before_Kept ==
    ASSUME KeptInv, ShapeInv, ShapeInv', NEW r \in Runs,
           Start(r) \/ ReadHistory(r) \/ ReadSummary(r) \/ Clean(r)
    PROVE  KeptInv'
<1> USE DEF Like
<1>0. PendingOK(run[r]) /\ Listed(<<>>) /\ TagsOf(<<>>) = {} /\ inbox[r] \in Seq(Injections)
  BY EmptyTags DEF KeptInv
<1>1. CASE Start(r)
  <2> DEFINE new == [Idle EXCEPT !.pc = "history", !.loop = cached, !.knew = Covered(cache)]
  <2>1. run' = [run EXCEPT ![r] = new] /\ UNCHANGED <<inbox, accepted, late>>
    BY <1>1 DEF Start, Set, RegisterRun
  <2>2. new.pc = "history" /\ new.pending = <<>>
    BY DEF Idle
  <2> HIDE DEF new
  <2>3. PendingOK(new)
    BY <1>0, <2>2 DEF PendingOK
  <2>4. \A i \in Injections : accepted[i] # r
    BY <1>1 DEF KeptInv, Start
  <2>5. active' \subseteq active \cup {r} /\ index' \in active' \cup {NoRun}
    BY <1>1 DEF Start, RegisterRun
  <2>6. DOMAIN inbox' = Runs
    BY <2>1 DEF KeptInv
  <2>7. \A q \in Runs : Like(run'[q], IF q = r THEN new ELSE run[q])
    BY <2>1, SetIs
  <2>8. /\ \A q \in Runs : inbox'[q] = IF q = r THEN inbox[r] ELSE inbox[q]
        /\ \A i \in Injections : accepted[i] = r /\ i \notin late => KeptIn(new, inbox[r], i)
        /\ new.pc # "idle" /\ UNCHANGED <<accepted, late>>
    BY <2>1, <2>2, <2>4
  <2> QED BY <1>0, <2>3, <2>5, <2>6, <2>7, <2>8, RunMoves
<1>2. CASE ReadHistory(r)
  <2> DEFINE new == [run[r] EXCEPT !.pc = "summary", !.snap = cache.history]
  <2>1. run' = [run EXCEPT ![r] = new] /\ UNCHANGED <<active, index, inbox, accepted, late>>
    BY <1>2 DEF ReadHistory, Set, routerVars, historyVars
  <2>2. new.pc = "summary" /\ new.pending = run[r].pending /\ new.stuck = run[r].stuck
    BY DEF ShapeInv, Fields
  <2>3. run[r].pc = "history"
    BY <1>2 DEF ReadHistory, At
  <2> HIDE DEF new
  <2>4. PendingOK(new)
    BY <1>0, <2>2, <2>3 DEF PendingOK
  <2>5. index' \in active' \cup {NoRun} /\ new.pc \in LoopPcs /\ run[r].pc \in LoopPcs /\ ~At(r, "idle")
    BY <2>1, <2>2, <2>3 DEF KeptInv, LoopPcs, At
  <2> QED BY <2>1, <2>2, <2>4, <2>5, SetIs, GrowsKept
<1>3. CASE ReadSummary(r)
  <2>1. PICK new : /\ run' = [run EXCEPT ![r] = new]
                   /\ new.pc \in {"clean", "ask"} /\ new.pending = <<Question(r)>>
    <3> DEFINE dirty == Dropped(LimitTurns(run[r].snap, HistoryLimit)) > 0
               msgs == LastCall(r, 1, Messages(r, run[r].snap, cache.summary))
               new == [run[r] EXCEPT !.pc = IF dirty THEN "clean" ELSE "ask",
                                     !.iter = 1, !.knew = {},
                                     !.snap = IF dirty THEN run[r].snap ELSE <<>>,
                                     !.msgs = msgs, !.pending = <<Question(r)>>]
    <3>1. run' = [run EXCEPT ![r] = new]
      BY <1>3 DEF ReadSummary, Set
    <3> HIDE DEF dirty, msgs
    <3>2. new.pc \in {"clean", "ask"} /\ new.pending = <<Question(r)>>
      BY DEF ShapeInv, Fields
    <3> HIDE DEF new
    <3> QED BY <3>1, <3>2
  <2>2. run[r].pc = "summary" /\ UNCHANGED <<active, index, inbox, accepted, late>>
    BY <1>3 DEF ReadSummary, At, routerVars, historyVars
  <2>3. Listed(new.pending)
    <3>1. <<Question(r)>> \in Seq({Question(r)})
      OBVIOUS
    <3> QED BY <2>1, <3>1, ListedIs
  <2>4. PendingOK(new)
    BY <2>1, <2>3 DEF PendingOK
  <2>5. index' \in active' \cup {NoRun} /\ new.pc \in LoopPcs /\ run[r].pc \in LoopPcs /\ ~At(r, "idle")
    BY <2>1, <2>2 DEF KeptInv, LoopPcs, At
  <2>6. TagsOf(run[r].pending) \subseteq TagsOf(new.pending) /\ new.pc # "idle"
    BY <1>0, <2>1, <2>2 DEF PendingOK
  <2>7. \A q \in Runs : Like(run'[q], IF q = r THEN new ELSE run[q])
    BY <2>1, SetIs
  <2> QED BY <2>1, <2>2, <2>4, <2>5, <2>6, <2>7, GrowsKept
<1>4. CASE Clean(r)
  <2> DEFINE new == [run[r] EXCEPT !.pc = "cleanSave", !.snap = <<>>]
             rs == [run EXCEPT ![r].pc = "cleanSave", ![r].snap = <<>>]
  <2>1. StillKnown(rs) /\ UNCHANGED <<active, index, inbox, accepted, late>>
    BY <1>4 DEF Clean, routerVars, historyVars
  <2>2. /\ new.pc = "cleanSave" /\ new.pending = run[r].pending /\ new.stuck = run[r].stuck
        /\ DOMAIN new = Fields
    BY DEF ShapeInv, Fields
  <2>3. run[r].pc = "clean"
    BY <1>4 DEF Clean, At
  <2>4. \A q \in Runs : rs[q] = IF q = r THEN new ELSE run[q]
    BY DEF ShapeInv
  <2> HIDE DEF new, rs
  <2>5. \A q \in Runs : Like(run'[q], IF q = r THEN new ELSE run[q])
    BY <2>1, <2>2, <2>4, StillKnownIs DEF ShapeInv
  <2>6. PendingOK(new)
    BY <1>0, <2>2, <2>3 DEF PendingOK
  <2>7. index' \in active' \cup {NoRun} /\ new.pc \in LoopPcs /\ run[r].pc \in LoopPcs /\ ~At(r, "idle")
    BY <2>1, <2>2, <2>3 DEF KeptInv, LoopPcs, At
  <2> QED BY <2>1, <2>2, <2>5, <2>6, <2>7, GrowsKept
<1> QED BY <1>1, <1>2, <1>3, <1>4

\* A step that ends a look at the channel: everything in it has been taken.
LEMMA DrainKept ==
    ASSUME KeptInv, ShapeInv, NEW r \in Runs, NEW new,
           run' = [run EXCEPT ![r] = new], PendingOK(new), new.pc # "idle",
           run[r].pc \in LoopPcs,
           TagsOf(run[r].pending) \subseteq TagsOf(new.pending),
           \A i \in ToSet(inbox[r]) : <<i>> \in TagsOf(new.pending),
           Drain(r), UNCHANGED <<accepted, late>>
    PROVE  KeptInv'
<1>1. \A q \in Runs : Like(run'[q], IF q = r THEN new ELSE run[q])
  BY SetIs DEF Like
<1>2. /\ active' \subseteq active \cup {r} /\ index' \in active' \cup {NoRun}
      /\ DOMAIN inbox' = Runs /\ \A q \in Runs : inbox'[q] = IF q = r THEN <<>> ELSE inbox[q]
  BY DEF Drain, KeptInv
<1>3. \A i \in Injections : accepted[i] = r /\ i \notin late => KeptIn(new, <<>>, i)
  BY DEF KeptInv, KeptIn
<1>4. <<>> \in Seq(Injections)
  OBVIOUS
<1> QED BY <1>1, <1>2, <1>3, <1>4, RunMoves

\* Where the loop goes on or ends, what was buffered stays buffered.
LEMMA ContinuedKeeps ==
    ASSUME NEW r, NEW x, DOMAIN x = Fields, Listed(x.pending)
    PROVE  /\ DOMAIN Continued(r, x) = Fields
           /\ Continued(r, x).pc \in {"ask", "flush"} /\ PendingOK(Continued(r, x))
           /\ TagsOf(x.pending) \subseteq TagsOf(Continued(r, x).pending)
           /\ x.iter # MaxIter[r] => Continued(r, x).pc = "ask"
           /\ Continued(r, x).knew \in {x.knew, {}}
<1>1. /\ DOMAIN Ended(r, x) = Fields /\ Ended(r, x).pc = "flush"
      /\ Ended(r, x).pending = Append(x.pending, Reply(r, MaxIter[r] + 1))
      /\ Ended(r, x).knew = {}
  BY EndedIs
<1>2. /\ Listed(Ended(r, x).pending) /\ TagsOf(x.pending) \subseteq TagsOf(Ended(r, x).pending)
      /\ Ended(r, x).pending # <<>>
  BY <1>1, AppendTags
<1>3. CASE x.iter = MaxIter[r] /\ Continued(r, x) = Ended(r, x)
  BY <1>1, <1>2, <1>3 DEF PendingOK
<1>4. CASE /\ x.iter # MaxIter[r] /\ DOMAIN Continued(r, x) = Fields
           /\ Continued(r, x).pc = "ask" /\ Continued(r, x).pending = x.pending
           /\ Continued(r, x).stuck = x.stuck /\ Continued(r, x).knew = x.knew
  BY <1>4 DEF PendingOK
<1> QED BY <1>3, <1>4, ContinuedIs

\* The provider's answers, the tools and the loop detector.
LEMMA Loop_Kept ==
    ASSUME KeptInv, ShapeInv, NEW r \in Runs,
           \/ AnswerText(r) \/ AnswerCutOff(r) \/ (\E n \in CallSizes : AnswerCalls(r, n))
           \/ (\E w \in 0 .. Max(CallSizes) : Tools(r, w))
           \/ (\E n \in 1 .. Max(CallSizes) : Stuck(r, n))
    PROVE  KeptInv'
<1>0. PendingOK(run[r]) /\ Listed(run[r].pending)
  BY DEF KeptInv, PendingOK
\* A step that leaves the channel alone.
<1>1. ASSUME NEW new, run' = [run EXCEPT ![r] = new], PendingOK(new),
             run[r].pc \in LoopPcs, new.pc \in LoopPcs \/ (new.stuck /\ new.pc = "flush"),
             TagsOf(run[r].pending) \subseteq TagsOf(new.pending),
             UNCHANGED <<routerVars, accepted, late>>
      PROVE  KeptInv'
  <2>1. \A q \in Runs : Like(run'[q], IF q = r THEN new ELSE run[q])
    BY <1>1, SetIs DEF Like
  <2>2. new.pc # "idle" /\ ~At(r, "idle") /\ (new.pc = "flush" => new.pc \notin LoopPcs)
    BY <1>1 DEF LoopPcs, At
  <2>3. active' \subseteq active /\ index' \in active' \cup {NoRun} /\ UNCHANGED <<inbox, accepted, late>>
    BY <1>1 DEF routerVars, KeptInv
  <2> QED BY <1>1, <2>1, <2>2, <2>3, GrowsKept
<1>2. CASE AnswerText(r)
  <2>1. PICK x \in Answered(r) :
          run' = [run EXCEPT ![r] =
             IF inbox[r] = <<>> THEN Ended(r, x)
             ELSE Continued(r, Drained(r, [x EXCEPT !.msgs = Append(@, Reply(r, x.iter)),
                                                    !.pending = Append(@, Reply(r, x.iter))]))]
    BY <1>2 DEF AnswerText, Set
  <2>2. /\ At(r, "ask") /\ run[r].pc \in LoopPcs /\ Drain(r) /\ UNCHANGED <<accepted, late>>
    BY <1>2 DEF AnswerText, Ask, At, LoopPcs, historyVars
  <2>3. DOMAIN x = Fields /\ x.pending = run[r].pending /\ Listed(x.pending)
    BY <1>0, AnsweredIs
  <2>4. CASE inbox[r] = <<>>
    <3>1. /\ Ended(r, x).pc = "flush" /\ Listed(Ended(r, x).pending)
          /\ Ended(r, x).pending # <<>>
          /\ TagsOf(run[r].pending) \subseteq TagsOf(Ended(r, x).pending)
      <4>1. Ended(r, x).pending = Append(run[r].pending, Reply(r, MaxIter[r] + 1))
        BY <2>3, EndedIs
      <4>2. Ended(r, x).pc = "flush"
        BY EndedIs
      <4> QED BY <1>0, <4>1, <4>2, AppendTags
    <3>2. PendingOK(Ended(r, x)) /\ Ended(r, x).pc # "idle"
      BY <3>1 DEF PendingOK
    <3>3. ToSet(inbox[r]) = {}
      BY <2>4 DEF ToSet
    <3> QED BY <2>1, <2>2, <2>4, <3>1, <3>2, <3>3, DrainKept
  <2>5. CASE inbox[r] # <<>>
    <3> DEFINE y == [x EXCEPT !.msgs = Append(@, Reply(r, x.iter)),
                              !.pending = Append(@, Reply(r, x.iter))]
               z == Continued(r, Drained(r, y))
    <3>1. DOMAIN y = Fields /\ y.pending = Append(x.pending, Reply(r, x.iter))
      BY <2>3 DEF Fields
    <3> HIDE DEF y
    <3>2. Listed(y.pending) /\ TagsOf(run[r].pending) \subseteq TagsOf(y.pending)
      BY <2>3, <3>1, AppendTags
    <3>3. /\ DOMAIN Drained(r, y) = Fields /\ Listed(Drained(r, y).pending)
          /\ TagsOf(y.pending) \subseteq TagsOf(Drained(r, y).pending)
          /\ \A i \in ToSet(inbox[r]) : <<i>> \in TagsOf(Drained(r, y).pending)
      BY <3>1, <3>2, DrainedIs
    <3>4. /\ z.pc \in {"ask", "flush"} /\ PendingOK(z)
          /\ TagsOf(Drained(r, y).pending) \subseteq TagsOf(z.pending)
      BY <3>3, ContinuedKeeps
    <3>5. run' = [run EXCEPT ![r] = z]
      BY <2>1, <2>5 DEF y
    <3> HIDE DEF z
    <3>6. z.pc # "idle" /\ TagsOf(run[r].pending) \subseteq TagsOf(z.pending)
          /\ \A i \in ToSet(inbox[r]) : <<i>> \in TagsOf(z.pending)
      BY <3>2, <3>3, <3>4
    <3> QED BY <2>2, <3>4, <3>5, <3>6, DrainKept
  <2> QED BY <2>4, <2>5
\* An answer with calls is not the one of the last iteration.
<1>4. OffersTools(r) => run[r].iter # MaxIter[r]
  <2>1. SUFFICES ASSUME run[r].iter < MaxIter[r], run[r].iter = MaxIter[r] PROVE FALSE
    BY DEF OffersTools
  <2>2. MaxIter[r] < MaxIter[r]
    BY <2>1
  <2>3. MaxIter[r] \in Nat
    BY LoopAssumption
  <2> QED BY <2>2, <2>3
<1>3. CASE AnswerCutOff(r)
  <2>1. PICK x \in Answered(r) :
          run' = [run EXCEPT ![r] = Continued(r, [x EXCEPT !.msgs = @ \o <<Reply(r, x.iter), Reminder>>])]
    BY <1>3 DEF AnswerCutOff, Set
  <2>2. /\ run[r].pc \in LoopPcs /\ OffersTools(r)
        /\ UNCHANGED <<routerVars, accepted, late>>
    BY <1>3 DEF AnswerCutOff, Ask, At, LoopPcs, historyVars
  <2>3. DOMAIN x = Fields /\ x.pending = run[r].pending /\ Listed(x.pending) /\ x.iter = run[r].iter
    BY <1>0, AnsweredIs
  <2> DEFINE y == [x EXCEPT !.msgs = @ \o <<Reply(r, x.iter), Reminder>>]
  <2>4. DOMAIN y = Fields /\ y.pending = x.pending /\ y.iter = x.iter
    BY <2>3 DEF Fields
  <2>5. run' = [run EXCEPT ![r] = Continued(r, y)]
    BY <2>1
  <2> HIDE DEF y
  <2>6. y.iter # MaxIter[r]
    BY <1>4, <2>2, <2>3, <2>4
  <2>7. /\ Continued(r, y).pc = "ask" /\ PendingOK(Continued(r, y))
        /\ TagsOf(y.pending) \subseteq TagsOf(Continued(r, y).pending)
    BY <2>3, <2>4, <2>6, ContinuedKeeps
  <2> QED BY <1>1, <2>2, <2>3, <2>4, <2>5, <2>7 DEF LoopPcs
<1>5. ASSUME NEW n \in CallSizes, AnswerCalls(r, n) PROVE KeptInv'
  <2> DEFINE msg(x) == CallMsg(<<r, x.iter>>, Uniquify(r, x.iter, n))
             asked(x) == [x EXCEPT !.msgs = Append(@, msg(x)), !.pending = Append(@, msg(x)),
                                   !.calls = @ + n]
             over(x) == [asked(x) EXCEPT !.over = TRUE, !.msgs = Append(@, Reminder)]
             tools(x) == [asked(x) EXCEPT !.pc = "tools"]
  <2>1. PICK x \in Answered(r) :
          run' = [run EXCEPT ![r] = IF asked(x).calls > MaxToolCalls
                                    THEN Continued(r, over(x)) ELSE tools(x)]
    BY <1>5 DEF AnswerCalls, Set
  <2>2. /\ run[r].pc \in LoopPcs /\ OffersTools(r)
        /\ UNCHANGED <<routerVars, accepted, late>>
    BY <1>5 DEF AnswerCalls, Ask, At, LoopPcs, historyVars
  <2>3. DOMAIN x = Fields /\ x.pending = run[r].pending /\ Listed(x.pending) /\ x.iter = run[r].iter
    BY <1>0, AnsweredIs
  <2>4. DOMAIN asked(x) = Fields /\ asked(x).pending = Append(x.pending, msg(x)) /\ asked(x).iter = x.iter
    BY <2>3 DEF Fields
  <2>5. Len(msg(x).calls) \in Nat
    <3>1. n \in Nat
      BY LoopAssumption
    <3>2. msg(x).calls = [k \in 1 .. n |-> RunPrefix[r] \o <<x.iter, k - 1>>]
      BY DEF CallMsg, Uniquify
    <3> HIDE DEF msg
    <3>3. Listed(msg(x).calls)
      BY <3>1, <3>2, MadeListed
    <3> QED BY <3>3 DEF Listed
  <2> HIDE DEF msg, asked
  <2>6. /\ Listed(asked(x).pending) /\ TagsOf(run[r].pending) \subseteq TagsOf(asked(x).pending)
        /\ asked(x).pending # <<>> /\ Last(asked(x).pending) = msg(x)
    BY <2>3, <2>4, AppendTags
  <2>7. CASE run' = [run EXCEPT ![r] = tools(x)]
    <3>1. tools(x).pc = "tools" /\ tools(x).pending = asked(x).pending
      BY <2>4 DEF Fields
    <3> HIDE DEF tools
    <3>2. PendingOK(tools(x)) /\ tools(x).pc \in LoopPcs
      BY <2>5, <2>6, <3>1 DEF PendingOK, LoopPcs
    <3> QED BY <1>1, <2>2, <2>6, <2>7, <3>1, <3>2
  <2>8. CASE run' = [run EXCEPT ![r] = Continued(r, over(x))]
    <3>1. DOMAIN over(x) = Fields /\ over(x).pending = asked(x).pending /\ over(x).iter = asked(x).iter
      BY <2>4 DEF Fields
    <3> HIDE DEF over
    <3>2. /\ Continued(r, over(x)).pc = "ask" /\ PendingOK(Continued(r, over(x)))
          /\ TagsOf(over(x).pending) \subseteq TagsOf(Continued(r, over(x)).pending)
      BY <1>4, <2>2, <2>3, <2>4, <2>6, <3>1, ContinuedKeeps
    <3> QED BY <1>1, <2>2, <2>6, <2>8, <3>1, <3>2 DEF LoopPcs
  <2> QED BY <2>1, <2>7, <2>8
\* The results of the first n calls.
<1>6. ASSUME NEW n \in Nat PROVE Listed(Results(r, n))
  <2>1. /\ DOMAIN Results(r, n) = 1 .. n
        /\ Results(r, n) = [k \in 1 .. n |-> Results(r, n)[k]]
    BY DEF Results
  <2> QED BY <2>1, MadeListed
<1>7. At(r, "tools") => Calls(r) \in Nat
  BY <1>0 DEF PendingOK, At, Calls
<1>8. ASSUME NEW w, Tools(r, w) PROVE KeptInv'
  <2> DEFINE results == Results(r, Calls(r))
             warned == IF w = 0 THEN results ELSE InsertAt(results, w + 1, Reminder)
             y == [run[r] EXCEPT !.msgs = @ \o warned, !.pending = @ \o results,
                                 !.split = @ \/ w \in 1 .. Calls(r) - 1]
             z == Continued(r, Drained(r, y))
  <2>1. run' = [run EXCEPT ![r] = z]
    BY <1>8 DEF Tools, Set
  <2>2. /\ At(r, "tools") /\ run[r].pc \in LoopPcs /\ Drain(r) /\ UNCHANGED <<accepted, late>>
    BY <1>8 DEF Tools, At, LoopPcs, historyVars
  <2>3. Listed(results)
    BY <1>6, <1>7, <2>2
  <2> HIDE DEF results, warned
  <2>4. DOMAIN y = Fields /\ y.pending = run[r].pending \o results
    BY DEF ShapeInv, Fields
  <2> HIDE DEF y
  <2>5. Listed(y.pending) /\ TagsOf(run[r].pending) \subseteq TagsOf(y.pending)
    BY <1>0, <2>3, <2>4, ConcatTags
  <2>6. /\ DOMAIN Drained(r, y) = Fields /\ Listed(Drained(r, y).pending)
        /\ TagsOf(y.pending) \subseteq TagsOf(Drained(r, y).pending)
        /\ \A i \in ToSet(inbox[r]) : <<i>> \in TagsOf(Drained(r, y).pending)
    BY <2>4, <2>5, DrainedIs
  <2>7. /\ z.pc \in {"ask", "flush"} /\ PendingOK(z)
        /\ TagsOf(Drained(r, y).pending) \subseteq TagsOf(z.pending)
    BY <2>6, ContinuedKeeps
  <2> HIDE DEF z
  <2>8. z.pc # "idle" /\ TagsOf(run[r].pending) \subseteq TagsOf(z.pending)
        /\ \A i \in ToSet(inbox[r]) : <<i>> \in TagsOf(z.pending)
    BY <2>5, <2>6, <2>7
  <2> QED BY <2>1, <2>2, <2>7, <2>8, DrainKept
<1>9. ASSUME NEW n, Stuck(r, n) PROVE KeptInv'
  <2> DEFINE y == [run[r] EXCEPT !.pending = @ \o Results(r, n), !.stuck = TRUE]
             z == Ended(r, y)
  <2>1. run' = [run EXCEPT ![r] = z]
    BY <1>9 DEF Stuck, Set
  <2>2. /\ At(r, "tools") /\ run[r].pc \in LoopPcs /\ n \in 1 .. Calls(r)
        /\ UNCHANGED <<routerVars, accepted, late>>
    BY <1>9 DEF Stuck, At, LoopPcs, historyVars
  <2>3. Listed(Results(r, n))
    BY <1>6, <1>7, <2>2
  <2>4. y.pending = run[r].pending \o Results(r, n) /\ y.stuck = TRUE
    BY DEF ShapeInv, Fields
  <2> HIDE DEF y
  <2>5. Listed(y.pending) /\ TagsOf(run[r].pending) \subseteq TagsOf(y.pending)
    BY <1>0, <2>3, <2>4, ConcatTags
  <2>6. /\ z.pc = "flush" /\ z.stuck /\ Listed(z.pending) /\ z.pending # <<>>
        /\ TagsOf(y.pending) \subseteq TagsOf(z.pending)
    <3>1. z.pending = Append(y.pending, Reply(r, MaxIter[r] + 1)) /\ z.pc = "flush" /\ z.stuck
      BY <2>4, EndedIs
    <3> HIDE DEF z
    <3> QED BY <2>5, <3>1, AppendTags
  <2> HIDE DEF z
  <2>7. PendingOK(z)
    BY <2>6 DEF PendingOK
  <2> QED BY <1>1, <2>1, <2>2, <2>5, <2>6, <2>7
<1> QED BY <1>2, <1>3, <1>5, <1>8, <1>9
-----------------------------------------------------------------------------
(* Every step keeps the shapes. *)

StoreShape ==
    /\ DOMAIN cache = SessionFields /\ DOMAIN row = SessionFields
    /\ DOMAIN saving = Savers /\ \A a \in Savers : DOMAIN saving[a] = SessionFields
RunShape == DOMAIN run = Runs /\ \A r \in Runs : DOMAIN run[r] = Fields
SumShape == DOMAIN sum = Runs /\ \A r \in Runs : DOMAIN sum[r] = {"pc", "hist", "summary"}

LEMMA ShapeParts == ShapeInv <=> RunShape /\ StoreShape /\ SumShape
BY DEF ShapeInv, RunShape, StoreShape, SumShape

LEMMA StoreStep_Shape ==
    ASSUME StoreShape,
           \/ UNCHANGED storeVars \/ (\E m : AddMessage(m)) \/ (\E h : SetHistory(h))
           \/ (\E s : SetSummary(s)) \/ (\E k : TruncateHistory(k)) \/ IncrementCompaction
           \/ SetMemoryFlushDone \/ Reset \/ StoreRestart
           \/ (\E a \in Savers : SaveReads(a) \/ \E ok : SaveWrites(a, ok))
    PROVE  StoreShape'
<1> USE DEF StoreShape, SessionFields
<1>1. CASE UNCHANGED storeVars
  BY <1>1 DEF storeVars
<1>2. ASSUME NEW s, DOMAIN s = SessionFields, Change(s) PROVE StoreShape'
  BY <1>2 DEF Change
<1>3. CASE \/ (\E m : AddMessage(m)) \/ (\E h : SetHistory(h))
           \/ (\E s : SetSummary(s)) \/ (\E k : TruncateHistory(k)) \/ IncrementCompaction
           \/ SetMemoryFlushDone \/ Reset
  BY <1>2, <1>3 DEF AddMessage, SetHistory, SetSummary, TruncateHistory, IncrementCompaction,
                    SetMemoryFlushDone, Reset
<1>4. DOMAIN NoSnapshot = SessionFields
  BY DEF NoSnapshot
<1>5. CASE \E a \in Savers : SaveReads(a) \/ \E ok : SaveWrites(a, ok)
  BY <1>4, <1>5 DEF SaveReads, SaveWrites
<1>6. CASE StoreRestart
  BY <1>4, <1>6 DEF StoreRestart
<1> QED BY <1>1, <1>3, <1>5, <1>6

\* What the loop makes of the local variables of run r.
FromLoop(r, new) ==
    /\ DOMAIN new = Fields /\ new.knew \subseteq run[r].knew
    /\ new.pc \in {"ask", "tools", "flush", "failed"}
    /\ run[r].iter \in 0 .. MaxIter[r] => new.iter \in 0 .. MaxIter[r]
    /\ run[r].flushed = 0 => new.flushed = 0
    /\ new.pc # "failed" => new.loop = run[r].loop

\* Where the provider answers, the tools run or the run fails, the run gets new
\* local variables; it knows no more of the session than before, and counts its
\* iterations up to the limit.
LEMMA LoopMoves ==
    ASSUME ShapeInv, NEW r \in Runs,
           \/ AnswerText(r) \/ AnswerCutOff(r) \/ (\E n \in CallSizes : AnswerCalls(r, n)) \/ Fail(r)
           \/ (\E w \in 0 .. Max(CallSizes) : Tools(r, w))
           \/ (\E n \in 1 .. Max(CallSizes) : Stuck(r, n))
    PROVE  \E new : run' = [run EXCEPT ![r] = new] /\ FromLoop(r, new)
<1> DEFINE Good(new) == FromLoop(r, new)
           Same(x) == /\ DOMAIN x = Fields /\ x.knew = run[r].knew /\ x.iter = run[r].iter
                      /\ x.flushed = run[r].flushed /\ x.loop = run[r].loop
<1> USE DEF FromLoop
<1>0. DOMAIN run[r] = Fields
  BY DEF ShapeInv
<1>1. ASSUME NEW new, run' = [run EXCEPT ![r] = new], Good(new)
      PROVE  \E x : run' = [run EXCEPT ![r] = x] /\ Good(x)
  BY <1>1
<1>2. ASSUME NEW x, x.loop = run[r].loop PROVE Good(Ended(r, x))
  <2>1. MaxIter[r] \in Nat
    BY LoopAssumption
  <2> QED BY <1>2, <2>1, EndedIs
<1>3. ASSUME NEW x, Same(x) PROVE Good(Continued(r, x))
  <2>1. MaxIter[r] \in Nat
    BY LoopAssumption
  <2>2. CASE x.iter = MaxIter[r] /\ Continued(r, x) = Ended(r, x)
    BY <1>2, <1>3, <2>2
  <2>3. CASE x.iter # MaxIter[r] /\ Continued(r, x).iter = x.iter + 1
    <3>1. run[r].iter \in 0 .. MaxIter[r] => run[r].iter + 1 \in 0 .. MaxIter[r]
      BY <1>3, <2>1, <2>3
    <3> QED BY <1>3, <2>3, <3>1, ContinuedIs
  <2> QED BY <1>3, <2>2, <2>3, ContinuedIs
<1>4. ASSUME NEW x, Same(x) PROVE Same(Drained(r, x))
  BY <1>4 DEF Drained, Fields
<1>5. ASSUME NEW x \in Answered(r) PROVE Same(x)
  BY AnsweredIs
<1>6. CASE AnswerText(r)
  <2> DEFINE y(x) == [x EXCEPT !.msgs = Append(@, Reply(r, x.iter)),
                               !.pending = Append(@, Reply(r, x.iter))]
             new(x) == IF inbox[r] = <<>> THEN Ended(r, x) ELSE Continued(r, Drained(r, y(x)))
  <2>1. PICK x \in Answered(r) : run' = [run EXCEPT ![r] = new(x)]
    BY <1>6 DEF AnswerText, Set
  <2>2. Same(y(x))
    BY <1>5 DEF Fields
  <2> HIDE DEF y
  <2>3. Good(Continued(r, Drained(r, y(x))))
    BY <1>3, <1>4, <2>2
  <2>4. Good(Ended(r, x))
    BY <1>2, <1>5
  <2>5. Good(new(x))
    BY <2>3, <2>4
  <2> HIDE DEF new, Good
  <2>6. \E z : run' = [run EXCEPT ![r] = z] /\ Good(z)
    BY <1>1, <2>1, <2>5
  <2> QED BY <2>6 DEF Good
<1>7. CASE AnswerCutOff(r)
  <2> DEFINE y(x) == [x EXCEPT !.msgs = @ \o <<Reply(r, x.iter), Reminder>>]
  <2>1. PICK x \in Answered(r) : run' = [run EXCEPT ![r] = Continued(r, y(x))]
    BY <1>7 DEF AnswerCutOff, Set
  <2>2. Same(y(x))
    BY <1>5 DEF Fields
  <2> HIDE DEF y
  <2>3. Good(Continued(r, y(x)))
    BY <1>3, <2>2
  <2> HIDE DEF Good
  <2>4. \E z : run' = [run EXCEPT ![r] = z] /\ Good(z)
    BY <1>1, <2>1, <2>3
  <2> QED BY <2>4 DEF Good
<1>8. ASSUME NEW n, AnswerCalls(r, n)
      PROVE  \E z : run' = [run EXCEPT ![r] = z] /\ Good(z)
  <2> DEFINE msg(x) == CallMsg(<<r, x.iter>>, Uniquify(r, x.iter, n))
             asked(x) == [x EXCEPT !.msgs = Append(@, msg(x)), !.pending = Append(@, msg(x)),
                                   !.calls = @ + n]
             over(x) == [asked(x) EXCEPT !.over = TRUE, !.msgs = Append(@, Reminder)]
             tools(x) == [asked(x) EXCEPT !.pc = "tools"]
             new(x) == IF asked(x).calls > MaxToolCalls THEN Continued(r, over(x)) ELSE tools(x)
  <2>1. PICK x \in Answered(r) : run' = [run EXCEPT ![r] = new(x)]
    BY <1>8 DEF AnswerCalls, Set
  <2> HIDE DEF msg
  <2>2. Same(asked(x))
    BY <1>5 DEF Fields
  <2> HIDE DEF asked
  <2>3. Same(over(x)) /\ Same(tools(x)) /\ tools(x).pc = "tools"
    BY <2>2 DEF Fields
  <2> HIDE DEF over, tools
  <2>4. Good(Continued(r, over(x))) /\ Good(tools(x))
    BY <1>3, <2>3
  <2>5. Good(new(x))
    BY <2>4
  <2> HIDE DEF new, Good
  <2> QED BY <1>1, <2>1, <2>5
<1>9. ASSUME NEW w, Tools(r, w)
      PROVE  \E z : run' = [run EXCEPT ![r] = z] /\ Good(z)
  <2> DEFINE results == Results(r, Calls(r))
             warned == IF w = 0 THEN results ELSE InsertAt(results, w + 1, Reminder)
             y == [run[r] EXCEPT !.msgs = @ \o warned, !.pending = @ \o results,
                                 !.split = @ \/ w \in 1 .. Calls(r) - 1]
  <2>1. run' = [run EXCEPT ![r] = Continued(r, Drained(r, y))]
    BY <1>9 DEF Tools, Set
  <2> HIDE DEF results, warned
  <2>2. Same(y)
    BY <1>0 DEF Fields
  <2> HIDE DEF y
  <2>3. Good(Continued(r, Drained(r, y)))
    BY <1>3, <1>4, <2>2
  <2> HIDE DEF Good
  <2> QED BY <1>1, <2>1, <2>3
<1>10. ASSUME NEW n, Stuck(r, n)
       PROVE  \E z : run' = [run EXCEPT ![r] = z] /\ Good(z)
  <2> DEFINE y == [run[r] EXCEPT !.pending = @ \o Results(r, n), !.stuck = TRUE]
  <2>1. run' = [run EXCEPT ![r] = Ended(r, y)]
    BY <1>10 DEF Stuck, Set
  <2>2. y.loop = run[r].loop
    BY <1>0 DEF Fields
  <2> HIDE DEF y
  <2>3. Good(Ended(r, y))
    BY <1>2, <2>2
  <2> HIDE DEF Good
  <2> QED BY <1>1, <2>1, <2>3
<1>11. CASE Fail(r)
  <2>1. run' = [run EXCEPT ![r] = Failed] /\ Good(Failed)
    BY <1>11, IdleIs, LoopAssumption DEF Fail, Set
  <2> QED BY <2>1
<1> HIDE DEF Good
<1>12. \/ \E z : run' = [run EXCEPT ![r] = z] /\ Good(z)
       \/ AnswerText(r) \/ AnswerCutOff(r) \/ Fail(r)
  BY <1>8, <1>9, <1>10
<1> QED BY <1>6, <1>7, <1>11, <1>12 DEF Good
-----------------------------------------------------------------------------
(* What a run knows of the session, and where it is kept. *)

\* The session tells of all that x knows; between the two reads, what has been
\* read of the history and the summary as it is now tell of it.
KnownOK(x, c) ==
    /\ x.knew \subseteq Covered(c)
    /\ x.pc = "summary" => x.knew \subseteq TagsOf(x.snap) \cup c.summary

KnewInv == \A r \in Runs : KnownOK(run[r], cache)

AfterSaved == {"summarize", "memFlush", "memSave", "return", "done"}

\* Once the run has saved, the row tells of all it knows, and so does every copy
\* that a save is about to write.
Safe(r) ==
    /\ At(r, "save") /\ saving[<<r, "run">>] # NoSnapshot =>
         run[r].knew \subseteq Covered(saving[<<r, "run">>])
    /\ run[r].pc \in AfterSaved =>
         /\ run[r].knew \subseteq Covered(row)
         /\ \A a \in Savers : saving[a] # NoSnapshot => run[r].knew \subseteq Covered(saving[a])

\* Threads hold a copy only where they save; a goroutine that summarises was
\* started by a run that is returning or has returned.
ThreadsOK ==
    \A r \in Runs :
        /\ saving[<<r, "run">>] # NoSnapshot => run[r].pc \in DOMAIN AfterSave
        /\ saving[<<r, "sum">>] # NoSnapshot => SumAt(r, "write")
        /\ ~SumAt(r, "off") => run[r].pc \in {"return", "done"}

SavedInv == ThreadsOK /\ \A r \in Runs \ crossed : Safe(r)

LEMMA AfterSaveIs == DOMAIN AfterSave = {"cleanSave", "save", "memSave"}
BY DEF AfterSave

\* Where nothing of the run is being saved yet, and where it may go from there.
Unsaved == {"idle", "history", "summary", "clean", "ask", "tools", "flush", "failed"}

\* Steps that write neither the row nor a copy.
LEMMA SafeMoves ==
    ASSUME SavedInv, UNCHANGED <<row, saving>>, crossed \subseteq crossed',
           \A q \in Runs :
               \/ run'[q].pc = run[q].pc /\ run'[q].knew \subseteq run[q].knew
               \/ run[q].pc \in Unsaved /\ run'[q].pc \in Unsaved \cup {"cleanSave", "save"}
               \/ /\ run[q].pc \in AfterSaved \ {"memSave"} /\ run'[q].pc \in AfterSaved
                  /\ run'[q].knew \subseteq run[q].knew,
           \A q \in Runs : sum[q].pc = "write" => sum'[q].pc = "write",
           \A q \in Runs : sum'[q].pc # "off" => run'[q].pc \in {"return", "done"}
    PROVE  SavedInv'
<1>1. \A q \in Runs : run[q].pc \in Unsaved \cup (AfterSaved \ {"memSave"}) => saving[<<q, "run">>] = NoSnapshot
  BY AfterSaveIs DEF SavedInv, ThreadsOK, Unsaved, AfterSaved
<1>2. ThreadsOK'
  BY <1>1 DEF SavedInv, ThreadsOK, SumAt, At
<1>3. ASSUME NEW q \in Runs \ crossed' PROVE Safe(q)'
  <2>1. q \in Runs \ crossed /\ Safe(q) /\ q \in Runs
    BY <1>3 DEF SavedInv
  <2>2. CASE run'[q].pc = run[q].pc /\ run'[q].knew \subseteq run[q].knew
    BY <2>1, <2>2 DEF Safe, At
  <2>3. CASE run[q].pc \in Unsaved /\ run'[q].pc \in Unsaved \cup {"cleanSave", "save"}
    BY <1>1, <2>1, <2>3 DEF Safe, At, Unsaved, AfterSaved
  <2>4. CASE /\ run[q].pc \in AfterSaved \ {"memSave"} /\ run'[q].pc \in AfterSaved
             /\ run'[q].knew \subseteq run[q].knew
    BY <2>1, <2>4 DEF Safe, At, AfterSaved
  <2> QED BY <2>1, <2>2, <2>3, <2>4
<1> QED BY <1>2, <1>3 DEF SavedInv

\* The history and the summary stay as they are.
LEMMA KnewMoves ==
    ASSUME KnewInv, Covered(cache') = Covered(cache), cache'.summary = cache.summary,
           \A q \in Runs : \/ KnownOK(run'[q], cache)
                           \/ /\ run'[q].pc = run[q].pc /\ run'[q].snap = run[q].snap
                              /\ run'[q].knew \subseteq run[q].knew
    PROVE  KnewInv'
BY DEF KnewInv, KnownOK

\* They change, and what the session has lost nobody knows any more.
LEMMA KnewLoses ==
    ASSUME KnewInv, NEW rs, \A q \in Runs : DOMAIN rs[q] = Fields, StillKnown(rs),
           \A q \in Runs : rs[q] = run[q] \/ rs[q].pc # "summary"
    PROVE  KnewInv'
<1>1. ASSUME NEW q \in Runs PROVE KnownOK(run'[q], cache')
  <2>1. /\ run'[q].pc = rs[q].pc /\ run'[q].snap = rs[q].snap
        /\ run'[q].knew = (rs[q].knew \cap Covered(cache')) \ (cache.summary \ cache'.summary)
    BY StillKnownIs DEF Like
  <2>2. rs[q].pc = "summary" => rs[q].knew \subseteq TagsOf(rs[q].snap) \cup cache.summary
    BY DEF KnewInv, KnownOK
  <2> QED BY <2>1, <2>2 DEF KnownOK
<1> QED BY <1>1 DEF KnewInv
-----------------------------------------------------------------------------
(* What every step does to what the runs know. *)

MemInv == ShapeInv /\ KnewInv /\ SavedInv

LEMMA CountersIs ==
    ASSUME StoreShape, IncrementCompaction \/ SetMemoryFlushDone
    PROVE  /\ Covered(cache') = Covered(cache) /\ cache'.summary = cache.summary
           /\ UNCHANGED <<row, saving>>
<1>1. ASSUME NEW n PROVE
        /\ [cache EXCEPT !.compactions = n].history = cache.history
        /\ [cache EXCEPT !.compactions = n].summary = cache.summary
        /\ [cache EXCEPT !.flushedAt = n].history = cache.history
        /\ [cache EXCEPT !.flushedAt = n].summary = cache.summary
  BY DEF StoreShape, SessionFields
<1>2. \/ cache' = [cache EXCEPT !.compactions = cache.compactions + 1]
      \/ cache' = [cache EXCEPT !.flushedAt = cache.compactions]
  BY DEF IncrementCompaction, SetMemoryFlushDone, Change
<1>3. cache'.history = cache.history /\ cache'.summary = cache.summary
  BY <1>1, <1>2
<1>4. UNCHANGED <<row, saving>>
  BY DEF IncrementCompaction, SetMemoryFlushDone, Change
<1> QED BY <1>3, <1>4 DEF Covered

\* A run gets new local variables before it saves.
LEMMA SetMem ==
    ASSUME MemInv, NEW r \in Runs, NEW new, run' = [run EXCEPT ![r] = new],
           DOMAIN new = Fields, KnownOK(new, cache),
           run[r].pc \in Unsaved, new.pc \in Unsaved,
           UNCHANGED <<storeVars, sum, crossed>>
    PROVE  MemInv'
<1>1. DOMAIN run' = Runs /\ \A q \in Runs : run'[q] = IF q = r THEN new ELSE run[q]
  BY SetIs DEF MemInv
<1>2. ShapeInv'
  BY <1>1 DEF MemInv, ShapeInv, storeVars
<1>3. KnewInv'
  BY <1>1 DEF MemInv, KnewInv, storeVars
<1>4. \A q \in Runs : sum[q].pc # "off" => run[q].pc \in {"return", "done"}
  BY DEF MemInv, SavedInv, ThreadsOK, SumAt
<1>5. \A q \in Runs : sum'[q].pc # "off" => run'[q].pc \in {"return", "done"}
  BY <1>1, <1>4 DEF Unsaved
<1>6. \A q \in Runs : \/ run'[q].pc = run[q].pc /\ run'[q].knew \subseteq run[q].knew
                      \/ run[q].pc \in Unsaved /\ run'[q].pc \in Unsaved \cup {"cleanSave", "save"}
  BY <1>1
<1>7. SavedInv'
  BY <1>5, <1>6, SafeMoves DEF MemInv, storeVars
<1> QED BY <1>2, <1>3, <1>7 DEF MemInv

LEMMA Before_Mem ==
    ASSUME MemInv, NEW r \in Runs, Start(r) \/ ReadHistory(r) \/ ReadSummary(r)
    PROVE  MemInv'
<1>0. DOMAIN run[r] = Fields /\ KnownOK(run[r], cache)
  BY DEF MemInv, ShapeInv, KnewInv
<1>1. CASE Start(r)
  <2> DEFINE new == [Idle EXCEPT !.pc = "history", !.loop = cached, !.knew = Covered(cache)]
  <2>1. run' = [run EXCEPT ![r] = new] /\ UNCHANGED <<storeVars, sum, crossed>>
        /\ run[r].pc = "idle"
    BY <1>1 DEF Start, Set, At
  <2>2. DOMAIN new = Fields /\ new.pc = "history" /\ new.knew = Covered(cache)
    BY DEF Idle, Fields
  <2> HIDE DEF new
  <2>3. KnownOK(new, cache) /\ run[r].pc \in Unsaved /\ new.pc \in Unsaved
    BY <2>1, <2>2 DEF KnownOK, Unsaved
  <2> QED BY <2>1, <2>2, <2>3, SetMem
<1>2. CASE ReadHistory(r)
  <2> DEFINE new == [run[r] EXCEPT !.pc = "summary", !.snap = cache.history]
  <2>1. run' = [run EXCEPT ![r] = new] /\ UNCHANGED <<storeVars, sum, crossed>>
        /\ run[r].pc = "history"
    BY <1>2 DEF ReadHistory, Set, At, historyVars
  <2>2. /\ DOMAIN new = Fields /\ new.pc = "summary" /\ new.knew = run[r].knew
        /\ new.snap = cache.history
    BY <1>0 DEF Fields
  <2> HIDE DEF new
  <2>3. KnownOK(new, cache) /\ run[r].pc \in Unsaved /\ new.pc \in Unsaved
    BY <1>0, <2>1, <2>2 DEF KnownOK, Unsaved, Covered
  <2> QED BY <2>1, <2>2, <2>3, SetMem
<1>3. CASE ReadSummary(r)
  <2> DEFINE dirty == Dropped(LimitTurns(run[r].snap, HistoryLimit)) > 0
             msgs == LastCall(r, 1, Messages(r, run[r].snap, cache.summary))
             new == [run[r] EXCEPT !.pc = IF dirty THEN "clean" ELSE "ask",
                                   !.iter = 1, !.knew = {},
                                   !.snap = IF dirty THEN run[r].snap ELSE <<>>,
                                   !.msgs = msgs, !.pending = <<Question(r)>>]
  <2>1. run' = [run EXCEPT ![r] = new] /\ UNCHANGED <<storeVars, sum, crossed>>
        /\ run[r].pc = "summary"
    BY <1>3 DEF ReadSummary, Set, At, historyVars
  <2> HIDE DEF dirty, msgs
  <2>2. DOMAIN new = Fields /\ new.pc \in {"clean", "ask"} /\ new.knew = {}
    BY <1>0 DEF Fields
  <2> HIDE DEF new
  <2>3. KnownOK(new, cache) /\ run[r].pc \in Unsaved /\ new.pc \in Unsaved
    BY <2>1, <2>2 DEF KnownOK, Unsaved
  <2> QED BY <2>1, <2>2, <2>3, SetMem
<1> QED BY <1>1, <1>2, <1>3

LEMMA Loop_Mem ==
    ASSUME MemInv, NEW r \in Runs,
           \/ AnswerText(r) \/ AnswerCutOff(r) \/ (\E n \in CallSizes : AnswerCalls(r, n)) \/ Fail(r)
           \/ (\E w \in 0 .. Max(CallSizes) : Tools(r, w))
           \/ (\E n \in 1 .. Max(CallSizes) : Stuck(r, n))
    PROVE  MemInv'
<1>1. PICK new : /\ run' = [run EXCEPT ![r] = new]
                 /\ DOMAIN new = Fields /\ new.knew \subseteq run[r].knew
                 /\ new.pc \in {"ask", "tools", "flush", "failed"}
  BY LoopMoves DEF MemInv, FromLoop
<1>2. run[r].pc \in {"ask", "tools"} /\ UNCHANGED <<storeVars, sum, crossed>>
  BY DEF AnswerText, AnswerCutOff, AnswerCalls, Fail, Tools, Stuck, Ask, At, historyVars
<1>3. KnownOK(run[r], cache)
  BY DEF MemInv, KnewInv
<1>4. KnownOK(new, cache) /\ run[r].pc \in Unsaved /\ new.pc \in Unsaved
  BY <1>1, <1>2, <1>3 DEF KnownOK, Unsaved
<1> QED BY <1>1, <1>2, <1>4, SetMem

\* A run goes to pc.
LEMMA GotoIs ==
    ASSUME ShapeInv, NEW r \in Runs, NEW pc, Goto(r, pc)
    PROVE  /\ RunShape'
           /\ \A q \in Runs :
                /\ run'[q].pc = IF q = r THEN pc ELSE run[q].pc
                /\ run'[q].knew = run[q].knew /\ run'[q].snap = run[q].snap
                /\ run'[q].pending = run[q].pending /\ run'[q].stuck = run[q].stuck
                /\ run'[q].loop = run[q].loop /\ run'[q].iter = run[q].iter
                /\ run'[q].flushed = run[q].flushed /\ run'[q].msgs = run[q].msgs
                /\ run'[q].over = run[q].over /\ run'[q].split = run[q].split
<1> DEFINE new == [run[r] EXCEPT !.pc = pc]
<1>1. DOMAIN run[r] = Fields /\ DOMAIN run = Runs /\ \A q \in Runs : DOMAIN run[q] = Fields
  BY DEF ShapeInv
<1>2. /\ DOMAIN new = Fields /\ new.pc = pc /\ new.knew = run[r].knew /\ new.snap = run[r].snap
      /\ new.pending = run[r].pending /\ new.stuck = run[r].stuck /\ new.loop = run[r].loop
      /\ new.iter = run[r].iter /\ new.flushed = run[r].flushed
      /\ new.msgs = run[r].msgs /\ new.over = run[r].over /\ new.split = run[r].split
  BY <1>1 DEF Fields
<1>3. run' = [run EXCEPT ![r] = new]
  BY DEF Goto
<1> HIDE DEF new
<1>4. DOMAIN run' = Runs /\ \A q \in Runs : run'[q] = IF q = r THEN new ELSE run[q]
  BY <1>1, <1>3
<1> QED BY <1>1, <1>2, <1>4 DEF RunShape

\* The repaired history is written, or a message is flushed.
LEMMA Writes_Mem ==
    ASSUME MemInv, NEW r \in Runs, Clean(r) \/ Flush(r)
    PROVE  MemInv'
<1>0. DOMAIN run[r] = Fields /\ DOMAIN run = Runs /\ \A q \in Runs : DOMAIN run[q] = Fields
  BY DEF MemInv, ShapeInv
<1>1. PICK rs : /\ StillKnown(rs) /\ \A q \in Runs : DOMAIN rs[q] = Fields
                /\ \A q \in Runs \ {r} : rs[q] = run[q]
                /\ run[r].pc \in {"clean", "flush"} /\ rs[r].pc \in {"cleanSave", "flush", "save"}
  <2>1. CASE Clean(r)
    <3> DEFINE rs == [run EXCEPT ![r].pc = "cleanSave", ![r].snap = <<>>]
    <3>1. StillKnown(rs) /\ run[r].pc = "clean"
      BY <2>1 DEF Clean, At
    <3>2. /\ \A q \in Runs : DOMAIN rs[q] = Fields
          /\ \A q \in Runs \ {r} : rs[q] = run[q]
          /\ rs[r].pc = "cleanSave"
      BY <1>0 DEF Fields
    <3> HIDE DEF rs
    <3> QED BY <3>1, <3>2
  <2>2. CASE Flush(r)
    <3> DEFINE n == run[r].flushed + 1
               tags == TagsOf(<<run[r].pending[n]>>)
               pc == IF n = Len(run[r].pending) THEN "save" ELSE "flush"
               rs == [run EXCEPT ![r].flushed = n, ![r].knew = @ \cup tags, ![r].pc = pc]
    <3>1. StillKnown(rs) /\ run[r].pc = "flush"
      BY <2>2 DEF Flush, At
    <3>2. pc \in {"save", "flush"}
      OBVIOUS
    <3> HIDE DEF pc, tags, n
    <3>3. /\ \A q \in Runs : DOMAIN rs[q] = Fields
          /\ \A q \in Runs \ {r} : rs[q] = run[q]
          /\ rs[r].pc = pc
      BY <1>0 DEF Fields
    <3> HIDE DEF rs
    <3> QED BY <3>1, <3>2, <3>3
  <2> QED BY <2>1, <2>2
<1>2. /\ DOMAIN run' = Runs
      /\ \A q \in Runs : DOMAIN run'[q] = Fields /\ run'[q].pc = rs[q].pc
                         /\ run'[q].knew \subseteq rs[q].knew
  BY <1>1, StillKnownIs DEF Like
<1>3. UNCHANGED <<row, saving, sum, crossed>>
  BY DEF Clean, Flush, SetHistory, AddMessage, Change, historyVars
<1>4. KnewInv'
  BY <1>1, KnewLoses DEF MemInv
<1>5. \A q \in Runs : sum[q].pc # "off" => run[q].pc \in {"return", "done"}
  BY DEF MemInv, SavedInv, ThreadsOK, SumAt
<1>6. SavedInv'
  <2>1. \A q \in Runs :
          \/ run'[q].pc = run[q].pc /\ run'[q].knew \subseteq run[q].knew
          \/ run[q].pc \in Unsaved /\ run'[q].pc \in Unsaved \cup {"cleanSave", "save"}
    BY <1>1, <1>2 DEF Unsaved
  <2>2. \A q \in Runs : sum'[q].pc # "off" => run'[q].pc \in {"return", "done"}
    BY <1>1, <1>2, <1>3, <1>5
  <2>3. \A q \in Runs : sum[q].pc = "write" => sum'[q].pc = "write"
    BY <1>3
  <2> QED BY <1>3, <2>1, <2>2, <2>3, SafeMoves DEF MemInv
<1>7. StoreShape'
  <2>1. StoreShape /\ ((\E h : SetHistory(h)) \/ (\E m : AddMessage(m)))
    BY ShapeParts DEF MemInv, Clean, Flush
  <2> QED BY <2>1, StoreStep_Shape
<1>8. ShapeInv'
  BY <1>2, <1>3, <1>7 DEF MemInv, ShapeInv, StoreShape
<1> QED BY <1>4, <1>6, <1>8 DEF MemInv

\* The run takes its copy of the session.
LEMMA Saves_Mem ==
    ASSUME MemInv, NEW r \in Runs, Saves(r)
    PROVE  MemInv'
<1>1. /\ run[r].pc \in DOMAIN AfterSave /\ UNCHANGED <<run, sum, crossed, cache, row>>
      /\ saving' = [saving EXCEPT ![<<r, "run">>] = cache] /\ SaveReads(<<r, "run">>)
  BY DEF Saves, SaveReads, loopVars, historyVars
<1>2. <<r, "run">> \in Savers /\ \A q \in Runs : <<q, "run">> \in Savers /\ <<q, "sum">> \in Savers
  BY LoopAssumption
<1>3. StoreShape'
  BY <1>1, <1>2, ShapeParts, StoreStep_Shape DEF MemInv
<1>4. ShapeInv'
  BY <1>1, <1>3 DEF MemInv, ShapeInv, StoreShape
<1>5. \A a \in Savers : saving'[a] = IF a = <<r, "run">> THEN cache ELSE saving[a]
  BY <1>1 DEF MemInv, ShapeInv
<1>6. KnewInv' /\ \A q \in Runs : run[q].knew \subseteq Covered(cache)
  BY <1>1 DEF MemInv, KnewInv, KnownOK
<1>7. ThreadsOK'
  BY <1>1, <1>2, <1>5 DEF MemInv, SavedInv, ThreadsOK, SumAt
<1>8. ASSUME NEW q \in Runs \ crossed' PROVE Safe(q)'
  <2>1. Safe(q) /\ q \in Runs
    BY <1>1, <1>8 DEF MemInv, SavedInv
  <2> QED BY <1>1, <1>2, <1>5, <1>6, <2>1 DEF Safe, At
<1> QED BY <1>4, <1>6, <1>7, <1>8 DEF MemInv, SavedInv

\* It writes the row: unless another save was under way, all that it knows.
LEMMA Saved_Mem ==
    ASSUME MemInv, NEW r \in Runs, Saved(r)
    PROVE  MemInv'
<1> DEFINE a0 == <<r, "run">>
<1>1. /\ run[r].pc \in DOMAIN AfterSave /\ Goto(r, AfterSave[run[r].pc])
      /\ saving[a0] # NoSnapshot
      /\ row' = IF r \notin cancelled THEN saving[a0] ELSE row
      /\ saving' = [saving EXCEPT ![a0] = NoSnapshot] /\ UNCHANGED cache
      /\ crossed' = IF r \in cancelled \/ \E a \in Savers : a[1] # r /\ saving[a] # NoSnapshot
                    THEN crossed \cup {r} ELSE crossed
      /\ SaveWrites(a0, r \notin cancelled)
      /\ IF At(r, "memSave") THEN Spawn(r) ELSE UNCHANGED sum
  BY DEF Saved, SaveWrites
<1>2. a0 \in Savers /\ \A q \in Runs : <<q, "run">> \in Savers /\ <<q, "sum">> \in Savers
  BY LoopAssumption
<1>3. StoreShape'
  BY <1>1, <1>2, ShapeParts, StoreStep_Shape DEF MemInv
<1>4. /\ RunShape'
      /\ \A q \in Runs :
           /\ run'[q].pc = IF q = r THEN AfterSave[run[r].pc] ELSE run[q].pc
           /\ run'[q].knew = run[q].knew /\ run'[q].snap = run[q].snap
  BY <1>1, GotoIs DEF MemInv
<1>5. DOMAIN sum' = Runs /\ \A q \in Runs :
        /\ DOMAIN sum'[q] = {"pc", "hist", "summary"}
        /\ sum'[q].pc = IF q = r /\ At(r, "memSave") THEN "history" ELSE sum[q].pc
  BY <1>1 DEF MemInv, ShapeInv, Spawn
<1>6. ShapeInv'
  BY <1>3, <1>4, <1>5 DEF ShapeInv, StoreShape, RunShape
<1>7. run[r].pc \in {"cleanSave", "save", "memSave"}
      /\ (run[r].pc = "cleanSave" => run'[r].pc = "ask")
      /\ (run[r].pc = "save" => run'[r].pc = "summarize")
      /\ (run[r].pc = "memSave" => run'[r].pc = "return")
  BY <1>1, <1>4 DEF AfterSave
<1>8. KnewInv'
  <2>1. cache' = cache /\ Covered(cache') = Covered(cache)
    BY <1>1
  <2>2. KnownOK(run'[r], cache)
    BY <1>4, <1>7 DEF MemInv, KnewInv, KnownOK
  <2>3. \A q \in Runs \ {r} : /\ run'[q].pc = run[q].pc /\ run'[q].snap = run[q].snap
                              /\ run'[q].knew \subseteq run[q].knew
    BY <1>4
  <2> QED BY <2>1, <2>2, <2>3, KnewMoves DEF MemInv
<1>9. \A a \in Savers : saving'[a] = IF a = a0 THEN NoSnapshot ELSE saving[a]
  BY <1>1 DEF MemInv, ShapeInv
<1>10. SumAt(r, "off") /\ saving[<<r, "sum">>] = NoSnapshot
  BY <1>7 DEF MemInv, SavedInv, ThreadsOK, SumAt
<1>11. ThreadsOK'
  <2>1. ASSUME NEW q \in Runs
        PROVE  /\ saving'[<<q, "run">>] # NoSnapshot => run'[q].pc \in DOMAIN AfterSave
               /\ saving'[<<q, "sum">>] # NoSnapshot => sum'[q].pc = "write"
               /\ sum'[q].pc # "off" => run'[q].pc \in {"return", "done"}
    <3>1. CASE q = r
      <4>1. saving'[<<q, "run">>] = NoSnapshot /\ saving'[<<q, "sum">>] = NoSnapshot
        BY <1>2, <1>9, <1>10, <3>1
      <4>2. sum'[q].pc # "off" => run[r].pc = "memSave"
        BY <1>5, <1>10, <3>1 DEF SumAt, At
      <4> QED BY <1>7, <3>1, <4>1, <4>2
    <3>2. CASE q # r
      BY <1>2, <1>4, <1>5, <1>9, <3>2 DEF MemInv, SavedInv, ThreadsOK, SumAt
    <3> QED BY <3>1, <3>2
  <2> QED BY <2>1 DEF ThreadsOK, SumAt
<1>12. ASSUME NEW q \in Runs \ crossed' PROVE Safe(q)'
  <2>1. Safe(q) /\ q \in Runs /\ q \notin crossed
    BY <1>1, <1>12 DEF MemInv, SavedInv
  <2>2. CASE q # r
    <3>1. run'[q].pc = run[q].pc /\ run'[q].knew = run[q].knew
      BY <1>4, <2>1, <2>2
    <3>2. saving'[<<q, "run">>] = saving[<<q, "run">>]
      BY <1>2, <1>9, <2>1, <2>2
    <3>3. run[q].pc \in AfterSaved =>
            /\ run[q].knew \subseteq Covered(row')
            /\ \A a \in Savers : saving'[a] # NoSnapshot => run[q].knew \subseteq Covered(saving'[a])
      BY <1>1, <1>2, <1>9, <2>1 DEF Safe
    <3> QED BY <2>1, <3>1, <3>2, <3>3 DEF Safe, At
  <2>3. CASE q = r
    <3>1. r \notin cancelled /\ (\A a \in Savers : a[1] # r => saving[a] = NoSnapshot)
      BY <1>1, <1>12, <2>3
    <3>2. row' = saving[a0]
      BY <1>1, <3>1
    <3>3. \A a \in Savers : saving'[a] = NoSnapshot
      <4>1. ASSUME NEW a \in Savers, a[1] = r, a # a0 PROVE saving[a] = NoSnapshot
        <5>1. a = <<r, "sum">>
          BY <4>1, LoopAssumption
        <5> QED BY <1>10, <5>1
      <4> QED BY <1>9, <3>1, <4>1
    <3>4. run[r].pc # "cleanSave" => run[r].knew \subseteq Covered(saving[a0])
      BY <1>1, <1>2, <1>7, <2>1, <2>3 DEF Safe, AfterSaved, At
    <3>5. /\ ~(run'[r].pc = "save")
          /\ run'[r].pc \in AfterSaved => run[r].pc # "cleanSave"
      BY <1>7 DEF AfterSaved
    <3> QED BY <1>4, <2>3, <3>2, <3>3, <3>4, <3>5 DEF Safe, At
  <2> QED BY <2>2, <2>3
<1> QED BY <1>6, <1>8, <1>11, <1>12 DEF MemInv, SavedInv

\* The run, after its save, goes on without looking at the session.
LEMMA After_Mem ==
    ASSUME MemInv, NEW r \in Runs, SkipSummary(r) \/ TryLock(r) \/ Return(r) \/ MemoryFlush(r)
    PROVE  MemInv'
<1>1. PICK pc : /\ Goto(r, pc) /\ pc \in AfterSaved
                /\ run[r].pc \in AfterSaved \ {"memSave"}
                /\ sum' # sum => pc = "return"
                /\ run[r].pc \in {"return", "done"} => pc = "done"
  BY DEF SkipSummary, TryLock, Return, MemoryFlush, At, AfterSaved, storeVars, historyVars
<1>2. /\ RunShape'
      /\ \A q \in Runs :
           /\ run'[q].pc = IF q = r THEN pc ELSE run[q].pc
           /\ run'[q].knew = run[q].knew /\ run'[q].snap = run[q].snap
  BY <1>1, GotoIs DEF MemInv
<1>3. UNCHANGED crossed /\ (sum' = sum \/ Spawn(r))
  BY DEF SkipSummary, TryLock, Return, MemoryFlush, historyVars
<1>4. DOMAIN sum' = Runs /\ \A q \in Runs :
        /\ DOMAIN sum'[q] = {"pc", "hist", "summary"}
        /\ sum'[q].pc = sum[q].pc \/ (q = r /\ sum'[q].pc = "history" /\ sum' # sum)
  BY <1>3 DEF MemInv, ShapeInv, Spawn
<1>5. /\ StoreShape' /\ Covered(cache') = Covered(cache) /\ cache'.summary = cache.summary
      /\ UNCHANGED <<row, saving>>
  <2>1. StoreShape
    BY ShapeParts DEF MemInv
  <2>2. UNCHANGED storeVars \/ SetMemoryFlushDone
    BY DEF SkipSummary, TryLock, Return, MemoryFlush
  <2>3. StoreShape'
    BY <2>1, <2>2, StoreStep_Shape
  <2>4. CASE UNCHANGED storeVars
    BY <2>3, <2>4 DEF storeVars
  <2>5. CASE SetMemoryFlushDone
    BY <2>1, <2>3, <2>5, CountersIs
  <2> QED BY <2>2, <2>4, <2>5
<1>6. ShapeInv'
  BY <1>2, <1>4, <1>5 DEF ShapeInv, StoreShape, RunShape
<1>7. KnewInv'
  <2>1. KnownOK(run'[r], cache)
    BY <1>1, <1>2 DEF MemInv, KnewInv, KnownOK, AfterSaved
  <2>2. \A q \in Runs \ {r} : /\ run'[q].pc = run[q].pc /\ run'[q].snap = run[q].snap
                              /\ run'[q].knew \subseteq run[q].knew
    BY <1>2
  <2> QED BY <1>5, <2>1, <2>2, KnewMoves DEF MemInv
<1>8. \A q \in Runs : sum[q].pc # "off" => run[q].pc \in {"return", "done"}
  BY DEF MemInv, SavedInv, ThreadsOK, SumAt
<1>9. SavedInv'
  <2>1. \A q \in Runs :
          \/ run'[q].pc = run[q].pc /\ run'[q].knew \subseteq run[q].knew
          \/ /\ run[q].pc \in AfterSaved \ {"memSave"} /\ run'[q].pc \in AfterSaved
             /\ run'[q].knew \subseteq run[q].knew
    BY <1>1, <1>2
  <2>2. \A q \in Runs : sum'[q].pc # "off" => run'[q].pc \in {"return", "done"}
    BY <1>1, <1>2, <1>4, <1>8
  <2>3. ASSUME NEW q \in Runs, sum[q].pc = "write" PROVE sum'[q].pc = "write"
    <3>1. CASE q = r /\ sum' # sum
      <4>1. run[r].pc \in {"return", "done"} /\ pc = "return"
        BY <1>1, <1>8, <2>3, <3>1
      <4> QED BY <1>1, <4>1
    <3> QED BY <1>4, <2>3, <3>1
  <2> QED BY <1>3, <1>5, <2>1, <2>2, <2>3, SafeMoves DEF MemInv
<1> QED BY <1>6, <1>7, <1>9 DEF MemInv

\* The goroutine that summarises takes a step at pc.
LEMMA SumIs ==
    ASSUME ShapeInv, NEW r \in Runs, SumStep(r)
    PROVE  /\ SumShape' /\ ~SumAt(r, "off")
           /\ \A q \in Runs : q # r => sum'[q] = sum[q]
           /\ SumAt(r, "write") => SumSaved(r)
           /\ SumSaves(r) => sum'[r].pc = "write"
<1> USE DEF ShapeInv, SumShape, SumAt, SumGoto
<1>1. DOMAIN Off = {"pc", "hist", "summary"}
  BY DEF Off
<1>2. CASE SumReadHistory(r) \/ SumFails(r) \/ SumSaved(r)
  BY <1>1, <1>2 DEF SumReadHistory, SumFails, SumSaved, SumSaves, SumEnds
<1>3. CASE SumReadSummary(r)
  BY <1>3 DEF SumReadSummary, SumSaves
<1>4. CASE SumStore(r) \/ SumTruncate(r) \/ SumCount(r) \/ SumSaves(r)
  BY <1>4 DEF SumStore, SumTruncate, SumCount, SumSaves
<1> QED BY <1>2, <1>3, <1>4 DEF SumStep

\* It reads, fails, or counts its compaction.
LEMMA SumQuiet_Mem ==
    ASSUME MemInv, NEW r \in Runs,
           SumReadHistory(r) \/ SumReadSummary(r) \/ SumFails(r) \/ SumCount(r)
    PROVE  MemInv'
<1>1. SumStep(r)
  BY DEF SumStep
<1>2. /\ SumShape' /\ ~SumAt(r, "off") /\ \A q \in Runs : q # r => sum'[q] = sum[q]
  BY <1>1, SumIs DEF MemInv
<1>3. UNCHANGED <<run, crossed>> /\ ~SumAt(r, "write")
  BY DEF SumReadHistory, SumReadSummary, SumFails, SumCount, SumAt, historyVars
<1>4. /\ StoreShape' /\ Covered(cache') = Covered(cache) /\ cache'.summary = cache.summary
      /\ UNCHANGED <<row, saving>>
  <2>1. StoreShape
    BY ShapeParts DEF MemInv
  <2>2. UNCHANGED storeVars \/ IncrementCompaction
    BY DEF SumReadHistory, SumReadSummary, SumFails, SumCount
  <2>3. StoreShape'
    BY <2>1, <2>2, StoreStep_Shape
  <2>4. CASE UNCHANGED storeVars
    BY <2>3, <2>4 DEF storeVars
  <2>5. CASE IncrementCompaction
    BY <2>1, <2>3, <2>5, CountersIs
  <2> QED BY <2>2, <2>4, <2>5
<1>5. ShapeInv'
  BY <1>2, <1>3, <1>4 DEF MemInv, ShapeInv, StoreShape, SumShape
<1>6. KnewInv'
  BY <1>3, <1>4, KnewMoves DEF MemInv
<1>7. \A q \in Runs : sum[q].pc # "off" => run[q].pc \in {"return", "done"}
  BY DEF MemInv, SavedInv, ThreadsOK, SumAt
<1>8. SavedInv'
  <2>1. \A q \in Runs : sum'[q].pc # "off" => run'[q].pc \in {"return", "done"}
    BY <1>2, <1>3, <1>7 DEF SumAt
  <2>2. \A q \in Runs : sum[q].pc = "write" => sum'[q].pc = "write"
    BY <1>2, <1>3 DEF SumAt
  <2> QED BY <1>3, <1>4, <2>1, <2>2, SafeMoves DEF MemInv
<1> QED BY <1>5, <1>6, <1>8 DEF MemInv

\* It replaces the summary or cuts the history.
LEMMA SumWrites_Mem ==
    ASSUME MemInv, NEW r \in Runs, SumStore(r) \/ SumTruncate(r)
    PROVE  MemInv'
<1>1. SumStep(r)
  BY DEF SumStep
<1>2. /\ SumShape' /\ ~SumAt(r, "off") /\ \A q \in Runs : q # r => sum'[q] = sum[q]
  BY <1>1, SumIs DEF MemInv
<1>3. /\ StillKnown(run) /\ UNCHANGED <<crossed, row, saving>> /\ ~SumAt(r, "write")
  BY DEF SumStore, SumTruncate, SetSummary, TruncateHistory, Change, SumAt, historyVars
<1>4. StoreShape'
  <2>1. StoreShape /\ ((\E s : SetSummary(s)) \/ (\E k : TruncateHistory(k)))
    BY ShapeParts DEF MemInv, SumStore, SumTruncate
  <2> QED BY <2>1, StoreStep_Shape
<1>5. DOMAIN run = Runs /\ \A q \in Runs : DOMAIN run[q] = Fields
  BY DEF MemInv, ShapeInv
<1>6. /\ DOMAIN run' = Runs
      /\ \A q \in Runs : DOMAIN run'[q] = Fields /\ run'[q].pc = run[q].pc
                         /\ run'[q].knew \subseteq run[q].knew
  BY <1>3, <1>5, StillKnownIs DEF Like
<1>7. ShapeInv'
  BY <1>2, <1>4, <1>6 DEF ShapeInv, StoreShape, SumShape
<1>8. KnewInv'
  BY <1>3, <1>5, KnewLoses DEF MemInv
<1>9. \A q \in Runs : sum[q].pc # "off" => run[q].pc \in {"return", "done"}
  BY DEF MemInv, SavedInv, ThreadsOK, SumAt
<1>10. SavedInv'
  <2>1. \A q \in Runs : sum'[q].pc # "off" => run'[q].pc \in {"return", "done"}
    BY <1>2, <1>6, <1>9 DEF SumAt
  <2>2. \A q \in Runs : sum[q].pc = "write" => sum'[q].pc = "write"
    BY <1>2, <1>3 DEF SumAt
  <2> QED BY <1>3, <1>6, <2>1, <2>2, SafeMoves DEF MemInv
<1> QED BY <1>7, <1>8, <1>10 DEF MemInv

\* It takes its copy of the session, and writes it.
LEMMA SumSave_Mem ==
    ASSUME MemInv, NEW r \in Runs, SumSaves(r) \/ SumSaved(r)
    PROVE  MemInv'
<1> DEFINE a0 == <<r, "sum">>
<1>1. SumStep(r)
  BY DEF SumStep
<1>2. /\ SumShape' /\ ~SumAt(r, "off") /\ \A q \in Runs : q # r => sum'[q] = sum[q]
      /\ SumSaves(r) => sum'[r].pc = "write"
  BY <1>1, SumIs DEF MemInv
<1>3. a0 \in Savers /\ \A q \in Runs : <<q, "run">> \in Savers /\ <<q, "sum">> \in Savers
  BY LoopAssumption
<1>4. /\ UNCHANGED <<run, crossed, cache>>
      /\ \/ /\ SumSaves(r) /\ saving' = [saving EXCEPT ![a0] = cache] /\ row' = row
         \/ /\ SumSaved(r) /\ saving' = [saving EXCEPT ![a0] = NoSnapshot]
            /\ saving[a0] # NoSnapshot /\ row' \in {row, saving[a0]}
  BY DEF SumSaves, SumSaved, SaveReads, SaveWrites, historyVars
<1>5. StoreShape'
  <2>1. StoreShape /\ (SaveReads(a0) \/ \E ok : SaveWrites(a0, ok))
    BY ShapeParts DEF MemInv, SumSaves, SumSaved
  <2> QED BY <1>3, <2>1, StoreStep_Shape
<1>6. ShapeInv'
  BY <1>2, <1>4, <1>5 DEF MemInv, ShapeInv, StoreShape, SumShape
<1>7. \A a \in Savers : saving'[a] = saving[a] \/ (a = a0 /\ saving'[a] \in {cache, NoSnapshot})
  BY <1>4 DEF MemInv, ShapeInv
<1>8. saving'[a0] # NoSnapshot => sum'[r].pc = "write"
  BY <1>2, <1>3, <1>4 DEF MemInv, ShapeInv
<1>9. KnewInv' /\ \A q \in Runs : run[q].knew \subseteq Covered(cache)
  BY <1>4 DEF MemInv, KnewInv, KnownOK
<1>10. ThreadsOK'
  <2>1. ASSUME NEW q \in Runs
        PROVE  /\ saving'[<<q, "run">>] # NoSnapshot => run'[q].pc \in DOMAIN AfterSave
               /\ saving'[<<q, "sum">>] # NoSnapshot => sum'[q].pc = "write"
               /\ sum'[q].pc # "off" => run'[q].pc \in {"return", "done"}
    <3>1. saving'[<<q, "run">>] = saving[<<q, "run">>] /\ run'[q] = run[q]
      BY <1>3, <1>4, <1>7
    <3>2. q # r => saving'[<<q, "sum">>] = saving[<<q, "sum">>] /\ sum'[q] = sum[q]
      BY <1>2, <1>3, <1>7
    <3> QED BY <1>2, <1>8, <3>1, <3>2 DEF MemInv, SavedInv, ThreadsOK, SumAt
  <2> QED BY <2>1 DEF ThreadsOK, SumAt
<1>11. ASSUME NEW q \in Runs \ crossed' PROVE Safe(q)'
  <2>1. Safe(q) /\ q \in Runs /\ run'[q] = run[q]
    BY <1>4, <1>11 DEF MemInv, SavedInv
  <2>2. saving'[<<q, "run">>] = saving[<<q, "run">>]
    BY <1>3, <1>7, <2>1
  <2>3. run[q].pc \in AfterSaved => run[q].knew \subseteq Covered(row')
    BY <1>3, <1>4, <2>1 DEF Safe
  <2>4. ASSUME run[q].pc \in AfterSaved, NEW a \in Savers, saving'[a] # NoSnapshot
        PROVE  run[q].knew \subseteq Covered(saving'[a])
    BY <1>7, <1>9, <2>1, <2>4 DEF Safe
  <2> QED BY <2>1, <2>2, <2>3, <2>4 DEF Safe, At
<1> QED BY <1>6, <1>9, <1>10, <1>11 DEF MemInv, SavedInv

\* Users, and what happens to the gateway.
LEMMA Outside_Mem ==
    ASSUME MemInv, \/ (\E i \in Injections : Inject(i)) \/ (\E r \in Runs : Abort(r))
                   \/ ExpireLoop \/ UNCHANGED vars
    PROVE  MemInv'
<1>1. UNCHANGED <<run, sum, crossed, cache, row, saving>>
  BY DEF Inject, Abort, ExpireLoop, vars, storeVars, loopVars, historyVars
<1>2. ShapeInv' /\ KnewInv'
  BY <1>1 DEF MemInv, ShapeInv, KnewInv
<1>3. ThreadsOK'
  BY <1>1 DEF MemInv, SavedInv, ThreadsOK, SumAt
<1>4. \A r \in Runs \ crossed' : Safe(r)'
  BY <1>1 DEF MemInv, SavedInv, Safe, At
<1> QED BY <1>2, <1>3, <1>4 DEF MemInv, SavedInv

LEMMA ResetSession_Mem ==
    ASSUME MemInv, ResetSession
    PROVE  MemInv'
<1>1. StillKnown(run) /\ UNCHANGED <<sum, crossed, row, saving>> /\ Reset
  BY DEF ResetSession, Reset, Change
<1>2. StoreShape'
  BY <1>1, ShapeParts, StoreStep_Shape DEF MemInv
<1>3. DOMAIN run = Runs /\ \A q \in Runs : DOMAIN run[q] = Fields
  BY DEF MemInv, ShapeInv
<1>4. /\ DOMAIN run' = Runs
      /\ \A q \in Runs : DOMAIN run'[q] = Fields /\ run'[q].pc = run[q].pc
                         /\ run'[q].knew \subseteq run[q].knew
  BY <1>1, <1>3, StillKnownIs DEF Like
<1>5. ShapeInv'
  BY <1>1, <1>2, <1>4 DEF MemInv, ShapeInv, StoreShape
<1>6. KnewInv'
  BY <1>1, <1>3, KnewLoses DEF MemInv
<1>7. \A q \in Runs : sum[q].pc # "off" => run[q].pc \in {"return", "done"}
  BY DEF MemInv, SavedInv, ThreadsOK, SumAt
<1>8. SavedInv'
  BY <1>1, <1>4, <1>7, SafeMoves DEF MemInv
<1> QED BY <1>5, <1>6, <1>8 DEF MemInv

\* The process dies: runs and copies are gone, the session is what the row says.
LEMMA Restart_Mem ==
    ASSUME MemInv, Restart
    PROVE  MemInv'
<1> DEFINE rs == [r \in Runs |-> IF Running(r) THEN Failed ELSE run[r]]
<1>1. /\ StillKnown(rs) /\ UNCHANGED <<crossed, row>> /\ StoreRestart
      /\ sum' = [r \in Runs |-> Off] /\ saving' = [a \in Savers |-> NoSnapshot]
      /\ cache' = row
  BY DEF Restart, StoreRestart
<1>2. StoreShape'
  BY <1>1, ShapeParts, StoreStep_Shape DEF MemInv
<1>3. \A q \in Runs : /\ DOMAIN rs[q] = Fields
                      /\ rs[q] = run[q] \/ (rs[q].pc = "failed" /\ Running(q))
  BY IdleIs DEF MemInv, ShapeInv
<1>4. \A q \in Runs : rs[q] = run[q] \/ rs[q].pc # "summary"
  BY <1>3
<1> HIDE DEF rs
<1>5. /\ DOMAIN run' = Runs
      /\ \A q \in Runs : DOMAIN run'[q] = Fields /\ run'[q].pc = rs[q].pc
                         /\ run'[q].knew \subseteq rs[q].knew
  BY <1>1, <1>3, StillKnownIs DEF Like
<1>6. SumShape' /\ \A q \in Runs : sum'[q].pc = "off"
  BY <1>1 DEF SumShape, Off
<1>7. ShapeInv'
  BY <1>2, <1>5, <1>6 DEF ShapeInv, StoreShape, SumShape
<1>8. KnewInv'
  BY <1>1, <1>3, <1>4, KnewLoses DEF MemInv
<1>9. \A q \in Runs : <<q, "run">> \in Savers /\ <<q, "sum">> \in Savers
  BY LoopAssumption
<1>10. ThreadsOK'
  BY <1>1, <1>6, <1>9 DEF ThreadsOK, SumAt
<1>11. ASSUME NEW q \in Runs \ crossed' PROVE Safe(q)'
  <2>1. Safe(q) /\ q \in Runs
    BY <1>1, <1>11 DEF MemInv, SavedInv
  <2>2. \A a \in Savers : saving'[a] = NoSnapshot
    BY <1>1
  <2>3. run'[q].pc \in AfterSaved => run'[q].pc = run[q].pc /\ run'[q].knew \subseteq run[q].knew
    BY <1>3, <1>5, <2>1 DEF AfterSaved
  <2>4. <<q, "run">> \in Savers
    BY <1>9, <2>1
  <2> QED BY <1>1, <2>1, <2>2, <2>3, <2>4 DEF Safe, At
<1> QED BY <1>7, <1>8, <1>10, <1>11 DEF MemInv, SavedInv

LEMMA Init_Mem ==
    ASSUME Init
    PROVE  MemInv
<1>1. /\ DOMAIN cache = SessionFields /\ row = cache
      /\ saving = [a \in Savers |-> NoSnapshot] /\ DOMAIN NoSnapshot = SessionFields
  BY StoredAssumption DEF Init, StoreInit, SessionFields, NoSnapshot
<1>2. run = [r \in Runs |-> Idle] /\ sum = [r \in Runs |-> Off] /\ DOMAIN Off = {"pc", "hist", "summary"}
      /\ Off.pc = "off"
  BY DEF Init, Off
<1>3. ShapeInv
  BY <1>1, <1>2, IdleIs DEF ShapeInv
<1>4. \A r \in Runs : run[r].pc = "idle" /\ run[r].knew = {} /\ sum[r].pc = "off"
  BY <1>2, IdleIs
<1>5. \A q \in Runs : <<q, "run">> \in Savers /\ <<q, "sum">> \in Savers
  BY LoopAssumption
<1>6. KnewInv
  BY <1>4 DEF KnewInv, KnownOK
<1>7. SavedInv
  BY <1>1, <1>4, <1>5 DEF SavedInv, ThreadsOK, Safe, SumAt, At, AfterSaved
<1> QED BY <1>3, <1>6, <1>7 DEF MemInv

LEMMA Next_Mem ==
    ASSUME MemInv, [Next]_vars
    PROVE  MemInv'
<1>1. ASSUME NEW r \in Runs, RunStep(r) PROVE MemInv'
  BY <1>1, Before_Mem, Loop_Mem, Writes_Mem, Saves_Mem, Saved_Mem, After_Mem DEF RunStep
<1>2. ASSUME NEW r \in Runs, SumStep(r) PROVE MemInv'
  BY <1>2, SumQuiet_Mem, SumWrites_Mem, SumSave_Mem DEF SumStep
<1> QED BY <1>1, <1>2, Outside_Mem, ResetSession_Mem, Restart_Mem DEF Next

LEMMA SpecMem == Spec => []MemInv
<1>1. MemInv /\ [Next]_vars => MemInv'
  BY Next_Mem
<1> QED BY <1>1, Init_Mem, PTL DEF Spec
-----------------------------------------------------------------------------
(* What the other steps do to accepted follow-ups. *)

\* A run goes on where its loop is over, or back into the loop after the repair
\* of the history.
LEMMA Goto_Kept ==
    ASSUME KeptInv, ShapeInv, NEW r \in Runs, NEW pc, Goto(r, pc),
           \/ run[r].pc \notin LoopPcs \cup {"idle", "failed"}
              /\ pc \notin LoopPcs \cup {"idle", "failed", "flush"}
           \/ run[r].pc \in LoopPcs /\ pc = "ask",
           active' \subseteq active, index' \in active' \cup {NoRun},
           UNCHANGED <<inbox, accepted, late>>
    PROVE  KeptInv'
<1> DEFINE new == [run[r] EXCEPT !.pc = pc]
<1>1. DOMAIN run[r] = Fields /\ PendingOK(run[r])
  BY DEF ShapeInv, KeptInv
<1>2. new.pc = pc /\ new.pending = run[r].pending /\ new.stuck = run[r].stuck
  BY <1>1 DEF Fields
<1>3. run' = [run EXCEPT ![r] = new]
  BY DEF Goto
<1> HIDE DEF new
<1>4. PendingOK(new)
  BY <1>1, <1>2 DEF PendingOK, LoopPcs
<1>5. \A q \in Runs : Like(run'[q], IF q = r THEN new ELSE run[q])
  BY <1>3, SetIs DEF Like
<1>6. new.pc # "idle" /\ ~At(r, "idle") /\ "ask" \in LoopPcs
  BY <1>2 DEF At, LoopPcs
<1> QED BY <1>2, <1>4, <1>5, <1>6, GrowsKept

LEMMA After_Kept ==
    ASSUME KeptInv, ShapeInv, NEW r \in Runs,
           \/ Flush(r) \/ Saves(r) \/ Saved(r) \/ SkipSummary(r) \/ TryLock(r)
           \/ MemoryFlush(r) \/ Return(r) \/ Fail(r)
    PROVE  KeptInv'
<1>0. index \in active \cup {NoRun} /\ DOMAIN run[r] = Fields
  BY DEF KeptInv, ShapeInv
<1>1. CASE Flush(r)
  <2> DEFINE n == run[r].flushed + 1
             tags == TagsOf(<<run[r].pending[n]>>)
             pc == IF n = Len(run[r].pending) THEN "save" ELSE "flush"
             new == [run[r] EXCEPT !.flushed = n, !.knew = @ \cup tags, !.pc = pc]
             rs == [run EXCEPT ![r].flushed = n, ![r].knew = @ \cup tags, ![r].pc = pc]
  <2>1. StillKnown(rs) /\ run[r].pc = "flush" /\ UNCHANGED <<active, index, inbox, accepted, late>>
    BY <1>1 DEF Flush, At, routerVars, historyVars
  <2>2. pc \in {"save", "flush"}
    OBVIOUS
  <2> HIDE DEF pc, tags, n
  <2>3. /\ DOMAIN new = Fields /\ new.pc = pc /\ new.pending = run[r].pending
        /\ new.stuck = run[r].stuck
    BY <1>0 DEF Fields
  <2>4. \A q \in Runs : rs[q] = IF q = r THEN new ELSE run[q]
    BY DEF ShapeInv
  <2> HIDE DEF new, rs
  <2>5. \A q \in Runs : Like(run'[q], IF q = r THEN new ELSE run[q])
    BY <2>1, <2>3, <2>4, StillKnownIs DEF ShapeInv, Like
  <2>6. PendingOK(new) /\ new.pc # "idle" /\ ~At(r, "idle")
        /\ run[r].pc \notin LoopPcs \cup {"failed"} /\ new.pc \notin LoopPcs
    BY <2>1, <2>2, <2>3 DEF KeptInv, PendingOK, At, LoopPcs
  <2> QED BY <1>0, <2>1, <2>3, <2>5, <2>6, GrowsKept
<1>2. CASE Saves(r)
  BY <1>0, <1>2, NobodyMoves DEF Saves, loopVars, historyVars, routerVars, Like
<1>3. CASE Saved(r)
  <2>1. /\ run[r].pc \in DOMAIN AfterSave /\ Goto(r, AfterSave[run[r].pc])
        /\ UNCHANGED <<active, index, inbox, accepted, late>>
    BY <1>3 DEF Saved, routerVars
  <2>2. \/ run[r].pc = "cleanSave" /\ AfterSave[run[r].pc] = "ask"
        \/ run[r].pc \in {"save", "memSave"} /\ AfterSave[run[r].pc] \in {"summarize", "return"}
    BY <2>1 DEF AfterSave
  <2> QED BY <1>0, <2>1, <2>2, Goto_Kept DEF LoopPcs
<1>4. CASE SkipSummary(r) \/ TryLock(r) \/ MemoryFlush(r)
  <2>1. PICK pc \in {"return", "memFlush", "memSave"} :
          /\ Goto(r, pc) /\ run[r].pc \in {"summarize", "memFlush"}
          /\ UNCHANGED <<active, index, inbox, accepted, late>>
    BY <1>4 DEF SkipSummary, TryLock, MemoryFlush, At, routerVars, historyVars
  <2> QED BY <1>0, <2>1, Goto_Kept DEF LoopPcs
<1>5. CASE Return(r)
  <2>1. /\ Goto(r, "done") /\ run[r].pc = "return" /\ UnregisterRun(r)
        /\ UNCHANGED <<accepted, late>>
    BY <1>5 DEF Return, At, historyVars
  <2> QED BY <2>1, UnregisterIs, Goto_Kept DEF LoopPcs
<1>6. CASE Fail(r)
  <2>1. /\ run' = [run EXCEPT ![r] = Failed] /\ UnregisterRun(r) /\ run[r].pc = "ask"
        /\ UNCHANGED <<accepted, late>>
    BY <1>6 DEF Fail, Ask, Set, At, historyVars
  <2>2. \A q \in Runs : Like(run'[q], IF q = r THEN Failed ELSE run[q])
    BY <2>1, SetIs DEF Like
  <2>3. PendingOK(Failed) /\ Failed.pc # "idle" /\ \A i \in Injections : KeptIn(Failed, inbox[r], i)
    BY IdleIs, EmptyTags DEF PendingOK, KeptIn, LoopPcs
  <2>4. /\ active' \subseteq active \cup {r} /\ index' \in active' \cup {NoRun} /\ inbox' = inbox
        /\ inbox[r] \in Seq(Injections) /\ DOMAIN inbox = Runs
    BY <2>1, UnregisterIs DEF KeptInv
  <2> QED BY <2>1, <2>2, <2>3, <2>4, RunMoves
<1> QED BY <1>1, <1>2, <1>3, <1>4, <1>5, <1>6

LEMMA Sum_Kept ==
    ASSUME KeptInv, ShapeInv, NEW r \in Runs, SumStep(r)
    PROVE  KeptInv'
<1>1. /\ index \in active \cup {NoRun} /\ \A q \in Runs : DOMAIN run[q] = Fields
  BY DEF KeptInv, ShapeInv
<1>2. UNCHANGED <<active, index, inbox, accepted, late>> /\ (run' = run \/ StillKnown(run))
  BY DEF SumStep, SumReadHistory, SumReadSummary, SumFails, SumStore, SumTruncate, SumCount,
         SumSaves, SumSaved, routerVars, historyVars
<1>3. \A q \in Runs : Like(run'[q], run[q])
  BY <1>1, <1>2, StillKnownIs DEF Like
<1> QED BY <1>1, <1>2, <1>3, NobodyMoves

\* A message is accepted while a run is registered: it is in the run's channel,
\* or comes too late.
LEMMA Inject_Kept ==
    ASSUME KeptInv, NEW i \in Injections, Inject(i)
    PROVE  KeptInv'
<1>1. /\ index # NoRun /\ accepted[i] = NoRun
      /\ inbox' = [inbox EXCEPT ![index] = Append(@, i)]
      /\ accepted' = [accepted EXCEPT ![i] = index]
      /\ late' = IF InLoop(index) THEN late ELSE late \cup {i}
      /\ UNCHANGED <<active, index, run>>
  BY DEF Inject, InjectMessage
<1>2. index \in active /\ index \in Runs /\ ~At(index, "idle") /\ NoRun \notin Runs
  BY <1>1, RouterAssumption DEF KeptInv
<1>3. inbox[index] \in Seq(Injections)
  BY <1>2 DEF KeptInv
<1>4. PICK box \in Seq(Injections) :
        /\ box = Append(inbox[index], i)
        /\ i \in ToSet(box) /\ ToSet(inbox[index]) \subseteq ToSet(box)
  <2>1. PICK box \in Seq(Injections) : box = Append(inbox[index], i)
    <3>1. Append(inbox[index], i) \in Seq(Injections)
      BY <1>3, AppendProperties
    <3> QED BY <3>1
  <2>2. /\ DOMAIN inbox[index] = 1 .. Len(inbox[index]) /\ Len(inbox[index]) \in Nat
        /\ DOMAIN box = 1 .. Len(inbox[index]) + 1 /\ box[Len(inbox[index]) + 1] = i
        /\ \A k \in 1 .. Len(inbox[index]) : box[k] = inbox[index][k]
    BY <1>3, <2>1, AppendProperties
  <2>3. /\ \A k \in DOMAIN inbox[index] : k \in DOMAIN box /\ box[k] = inbox[index][k]
        /\ Len(inbox[index]) + 1 \in DOMAIN box
    BY <2>2
  <2>4. i \in ToSet(box) /\ ToSet(inbox[index]) \subseteq ToSet(box)
    BY <2>2, <2>3 DEF ToSet
  <2> QED BY <2>1, <2>4
<1>5. /\ DOMAIN inbox' = Runs /\ DOMAIN accepted' = Injections
      /\ \A q \in Runs : inbox'[q] = IF q = index THEN box ELSE inbox[q]
      /\ \A j \in Injections : accepted'[j] = IF j = i THEN index ELSE accepted[j]
  BY <1>1, <1>2, <1>4 DEF KeptInv
<1>6. ASSUME NEW j \in Injections, NEW q \in Runs, accepted'[j] = q
      PROVE  run[q].pc # "idle" /\ (j \notin late' => KeptIn(run[q], inbox'[q], j))
  <2>1. CASE j = i
    <3>1. q = index /\ inbox'[q] = box
      BY <1>5, <1>6, <2>1
    <3>2. InLoop(index) <=> run[index].pc \in LoopPcs
      BY DEF InLoop, LoopPcs
    <3>3. i \notin late' => InLoop(index)
      BY <1>1
    <3> QED BY <1>2, <1>4, <2>1, <3>1, <3>2, <3>3 DEF KeptIn, At
  <2>2. CASE j # i
    <3>1. accepted[j] = q /\ (j \notin late' => j \notin late)
      BY <1>1, <1>5, <1>6, <2>2
    <3>2. run[q].pc # "idle" /\ (j \notin late' => KeptIn(run[q], inbox[q], j))
      BY <3>1 DEF KeptInv, At
    <3> QED BY <1>4, <1>5, <3>2 DEF KeptIn
  <2> QED BY <2>1, <2>2
<1>7. \A q \in Runs : inbox'[q] \in Seq(Injections)
  BY <1>5 DEF KeptInv
<1> QED BY <1>1, <1>5, <1>6, <1>7 DEF KeptInv, At

LEMMA Outside_Kept ==
    ASSUME KeptInv, ShapeInv,
           (\E r \in Runs : Abort(r)) \/ ResetSession \/ ExpireLoop \/ UNCHANGED vars
    PROVE  KeptInv'
<1>1. \A q \in Runs : DOMAIN run[q] = Fields
  BY DEF ShapeInv
<1>2. UNCHANGED <<inbox, accepted, late>> /\ (run' = run \/ StillKnown(run))
  BY DEF Abort, AbortRun, UnregisterRun, ResetSession, ExpireLoop, Expire, vars, loopVars,
         routerVars, historyVars
<1>3. active' \subseteq active /\ index' \in active' \cup {NoRun}
  <2>1. UNCHANGED <<active, index>> \/ \E r \in Runs : UnregisterRun(r)
    BY DEF Abort, AbortRun, ResetSession, ExpireLoop, Expire, vars, routerVars
  <2>2. CASE UNCHANGED <<active, index>>
    BY <2>2 DEF KeptInv
  <2> QED BY <2>1, <2>2, UnregisterIs
<1>4. \A q \in Runs : Like(run'[q], run[q])
  BY <1>1, <1>2, StillKnownIs DEF Like
<1> QED BY <1>2, <1>3, <1>4, NobodyMoves

\* Runs that were running fail; the others have nothing in their channels.
LEMMA Restart_Kept ==
    ASSUME KeptInv, ShapeInv, Restart
    PROVE  KeptInv'
<1> DEFINE rs == [r \in Runs |-> IF Running(r) THEN Failed ELSE run[r]]
<1>1. /\ StillKnown(rs) /\ UNCHANGED <<accepted, late>>
      /\ active' = {} /\ index' = NoRun /\ inbox' = [r \in Runs |-> <<>>]
  BY DEF Restart, RouterRestart
<1>2. \A q \in Runs : DOMAIN rs[q] = Fields /\ rs[q] = IF Running(q) THEN Failed ELSE run[q]
  BY IdleIs DEF ShapeInv
<1> HIDE DEF rs
<1>3. \A q \in Runs : Like(run'[q], IF Running(q) THEN Failed ELSE run[q])
  BY <1>1, <1>2, StillKnownIs DEF Like
<1>4. \A q \in Runs : PendingOK(run'[q])
  BY <1>3, IdleIs, EmptyTags DEF PendingOK, Like, KeptInv
<1>5. ASSUME NEW i \in Injections, NEW q \in Runs, accepted'[i] = q
      PROVE  run'[q].pc # "idle" /\ (i \notin late' => KeptIn(run'[q], inbox'[q], i))
  <2>1. run[q].pc # "idle" /\ (i \notin late => KeptIn(run[q], inbox[q], i))
    BY <1>1, <1>5 DEF KeptInv, At
  <2>2. CASE Running(q)
    BY <1>3, <2>2, IdleIs DEF KeptIn, Like, LoopPcs
  <2>3. CASE ~Running(q)
    BY <1>1, <1>3, <2>1, <2>3 DEF KeptIn, Like, Running, LoopPcs
  <2> QED BY <2>2, <2>3
<1>6. DOMAIN inbox' = Runs /\ \A q \in Runs : inbox'[q] \in Seq(Injections)
  BY <1>1
<1> QED BY <1>1, <1>4, <1>5, <1>6 DEF KeptInv, At

LEMMA Init_Kept ==
    ASSUME Init
    PROVE  KeptInv
<1>1. /\ active = {} /\ index = NoRun /\ inbox = [r \in Runs |-> <<>>]
      /\ run = [r \in Runs |-> Idle] /\ accepted = [i \in Injections |-> NoRun]
  BY DEF Init, RouterInit
<1>2. \A r \in Runs : PendingOK(run[r])
  BY <1>1, IdleIs, EmptyTags DEF PendingOK
<1>3. \A i \in Injections : accepted[i] \notin Runs
  BY <1>1, RouterAssumption
<1>4. DOMAIN inbox = Runs /\ \A r \in Runs : inbox[r] \in Seq(Injections)
  BY <1>1
<1> QED BY <1>1, <1>2, <1>3, <1>4 DEF KeptInv

LEMMA Next_Kept ==
    ASSUME MemInv, KeptInv, [Next]_vars
    PROVE  KeptInv'
<1>1. ShapeInv /\ ShapeInv'
  BY Next_Mem DEF MemInv
<1>2. ASSUME NEW r \in Runs, RunStep(r) PROVE KeptInv'
  BY <1>1, <1>2, Before_Kept, Loop_Kept, After_Kept DEF RunStep
<1> QED BY <1>1, <1>2, Sum_Kept, Inject_Kept, Outside_Kept, Restart_Kept DEF Next

LEMMA SpecKept == Spec => []KeptInv
<1>1. MemInv /\ KeptInv /\ [Next]_vars => KeptInv'
  BY Next_Kept
<1> QED BY <1>1, SpecMem, Init_Kept, PTL DEF Spec
-----------------------------------------------------------------------------
(* The router finds a run that is alone. *)

\* It is the only one registered.
LoneInv == \A r \in active \ met : index = r /\ active = {r}

LEMMA Next_Lone ==
    ASSUME LoneInv, [Next]_vars
    PROVE  LoneInv'
<1>1. ASSUME NEW r \in Runs, Start(r) PROVE LoneInv'
  <2>1. /\ active' = active \cup {r} /\ index' = r
        /\ met' = IF active = {} THEN met ELSE met \cup active \cup {r}
    BY <1>1 DEF Start, RegisterRun
  <2> QED BY <2>1 DEF LoneInv
<1>2. ASSUME NEW r \in Runs, UnregisterRun(r), UNCHANGED met PROVE LoneInv'
  BY <1>2 DEF UnregisterRun, LoneInv
<1>3. ASSUME UNCHANGED <<active, index, met>> PROVE LoneInv'
  BY <1>3 DEF LoneInv
<1>4. ASSUME NEW r \in Runs, RunStep(r) PROVE LoneInv'
  <2>1. CASE Return(r) \/ Fail(r)
    <3>1. UnregisterRun(r) /\ UNCHANGED met
      BY <2>1 DEF Return, Fail, Ask, historyVars
    <3> QED BY <1>2, <3>1
  <2>2. CASE \/ ReadHistory(r) \/ ReadSummary(r) \/ Clean(r) \/ AnswerText(r) \/ AnswerCutOff(r)
             \/ (\E n \in CallSizes : AnswerCalls(r, n))
    <3>1. UNCHANGED <<active, index, met>>
      BY <2>2 DEF ReadHistory, ReadSummary, Clean, AnswerText, AnswerCutOff, AnswerCalls, Ask, Drain,
                  routerVars, historyVars
    <3> QED BY <1>3, <3>1
  <2>3. CASE \/ (\E w \in 0 .. Max(CallSizes) : Tools(r, w))
             \/ (\E n \in 1 .. Max(CallSizes) : Stuck(r, n))
    <3>1. UNCHANGED <<active, index, met>>
      BY <2>3 DEF Tools, Stuck, Drain, routerVars, historyVars
    <3> QED BY <1>3, <3>1
  <2>4. CASE Flush(r) \/ Saves(r) \/ Saved(r) \/ SkipSummary(r) \/ TryLock(r) \/ MemoryFlush(r)
    <3>1. UNCHANGED <<active, index, met>>
      BY <2>4 DEF Flush, Saves, Saved, SkipSummary, TryLock, MemoryFlush, routerVars, historyVars
    <3> QED BY <1>3, <3>1
  <2> QED BY <1>1, <1>4, <2>1, <2>2, <2>3, <2>4 DEF RunStep
<1>5. ASSUME NEW r \in Runs, SumStep(r) PROVE LoneInv'
  <2>1. UNCHANGED <<active, index, met>>
    BY <1>5 DEF SumStep, SumReadHistory, SumReadSummary, SumFails, SumStore, SumTruncate, SumCount,
                SumSaves, SumSaved, routerVars, historyVars
  <2> QED BY <1>3, <2>1
<1>6. ASSUME NEW r \in Runs, Abort(r) PROVE LoneInv'
  BY <1>2, <1>6 DEF Abort, AbortRun
<1>7. CASE (\E i \in Injections : Inject(i)) \/ ResetSession \/ ExpireLoop \/ UNCHANGED vars
  <2>1. UNCHANGED <<active, index, met>>
    BY <1>7 DEF Inject, InjectMessage, ResetSession, ExpireLoop, Expire, vars, routerVars, historyVars
  <2> QED BY <1>3, <2>1
<1>8. CASE Restart
  BY <1>8 DEF Restart, RouterRestart, LoneInv
<1> QED BY <1>4, <1>5, <1>6, <1>7, <1>8 DEF Next
-----------------------------------------------------------------------------
(* Types, counters, and the locks of the summarisers. *)

\* Run r holds the lock, in person or through its goroutine.
Summarising(r) == At(r, "memFlush") \/ At(r, "memSave") \/ ~SumAt(r, "off")

\* x is r's: nothing is flushed in the loop, and something is left to flush where
\* it flushes.
CountsOK(x, r) ==
    /\ x.pc \in Pcs /\ x.iter \in 0 .. MaxIter[r]
    /\ x.flushed \in 0 .. Len(x.pending)
    /\ x.pc \in LoopPcs \cup {"idle", "failed"} => x.flushed = 0
    /\ x.pc = "flush" => x.flushed < Len(x.pending)

\* A lock is held by the one run that summarises with this instance of the loop.
LocksOK ==
    /\ \A r \in Runs : ~At(r, "idle") /\ ~At(r, "failed") => run[r].loop \in Loops
    /\ \A r \in Runs : Summarising(r) => holder[run[r].loop] = r
    /\ \A l \in Loops : holder[l] # NoRun =>
         holder[l] \in Runs /\ run[holder[l]].loop = l /\ Summarising(holder[l])

\* What the steps of runs and summarisers keep, besides the router's types.
LocalsOK == LocksOK /\ DOMAIN holder = Loops /\ \A r \in Runs : CountsOK(run[r], r)

LEMMA ListedLen ==
    ASSUME NEW q, Listed(q)
    PROVE  Len(q) \in Nat /\ (q # <<>> => Len(q) > 0) /\ 0 \in 0 .. Len(q)
<1>1. q \in Seq(ToSet(q)) /\ Len(q) \in Nat
  BY DEF Listed
<1>2. q # <<>> => Len(q) # 0
  BY <1>1, EmptySeq
<1> QED BY <1>1, <1>2

\* Steps that hand over no lock.
LEMMA LocksMoves ==
    ASSUME LocksOK, UNCHANGED holder,
           \A q \in Runs : run'[q].pc \notin {"idle", "failed"} => run'[q].loop \in Loops,
           \A q \in Runs : \/ run'[q].loop = run[q].loop /\ (Summarising(q)' <=> Summarising(q))
                           \/ ~Summarising(q) /\ ~Summarising(q)'
    PROVE  LocksOK'
<1>1. \A q \in Runs : Summarising(q)' => holder'[run'[q].loop] = q
  BY DEF LocksOK
<1>2. \A l \in Loops, q \in Runs : holder[l] = q => run'[q].loop = l /\ Summarising(q)'
  <2>1. \A l \in Loops, q \in Runs : holder[l] = q => run[q].loop = l /\ Summarising(q)
    BY RouterAssumption DEF LocksOK
  <2> QED BY <2>1
<1>3. \A l \in Loops : holder'[l] # NoRun => holder'[l] \in Runs
  BY DEF LocksOK
<1> QED BY <1>1, <1>2, <1>3 DEF LocksOK, Summarising, At, SumAt

\* The router's own types.
LEMMA RouterStep_Type ==
    ASSUME RouterTypeOK,
           \/ UNCHANGED routerVars \/ Expire \/ RouterRestart
           \/ (\E r \in Runs : RegisterRun(r) \/ UnregisterRun(r) \/ Drain(r))
           \/ (\E i \in Injections : InjectMessage(i))
    PROVE  RouterTypeOK'
<1> DEFINE Box == BoundedSeq(Injections, InboxSize)
<1>1. \A q \in Box : q \in Seq(Injections) /\ Len(q) \in 0 .. InboxSize
  <2>1. SUFFICES ASSUME NEW q \in Box PROVE q \in Seq(Injections) /\ Len(q) \in 0 .. InboxSize
    OBVIOUS
  <2>2. PICK m \in 0 .. InboxSize : q \in [1 .. m -> Injections]
    BY <2>1 DEF BoundedSeq, SeqOf
  <2> QED BY <2>2, RouterAssumption
<1>2. \A q \in Seq(Injections) : Len(q) <= InboxSize => q \in Box
  <2>1. SUFFICES ASSUME NEW q \in Seq(Injections), Len(q) <= InboxSize PROVE q \in Box
    OBVIOUS
  <2>2. Len(q) \in 0 .. InboxSize
    BY <2>1, RouterAssumption
  <2>3. q \in [1 .. Len(q) -> Injections]
    OBVIOUS
  <2> QED BY <2>2, <2>3 DEF BoundedSeq, SeqOf
<1>3. <<>> \in Box
  <2>1. <<>> \in Seq(Injections) /\ Len(<<>>) = 0 /\ 0 <= InboxSize
    BY RouterAssumption
  <2> QED BY <1>2, <2>1
<1>4. inbox \in [Runs -> Box]
  BY DEF RouterTypeOK
<1> HIDE DEF Box
<1>5. CASE UNCHANGED routerVars
  BY <1>5 DEF RouterTypeOK, routerVars
<1>6. CASE Expire
  BY <1>6 DEF RouterTypeOK, Expire
<1>7. CASE RouterRestart
  <2>1. inbox' \in [Runs -> Box]
    BY <1>3, <1>7 DEF RouterRestart
  <2> QED BY <1>7, <2>1 DEF RouterTypeOK, RouterRestart, Box
<1>8. CASE \E r \in Runs : RegisterRun(r) \/ UnregisterRun(r)
  BY <1>8 DEF RouterTypeOK, RegisterRun, UnregisterRun
<1>9. CASE \E r \in Runs : Drain(r)
  <2>1. inbox' \in [Runs -> Box]
    BY <1>3, <1>4, <1>9 DEF Drain
  <2> QED BY <1>9, <2>1 DEF RouterTypeOK, Drain, Box
<1>10. ASSUME NEW i \in Injections, InjectMessage(i) PROVE RouterTypeOK'
  <2>1. /\ index # NoRun /\ Len(inbox[index]) < InboxSize
        /\ inbox' = [inbox EXCEPT ![index] = Append(@, i)]
        /\ UNCHANGED <<cached, active, index>>
    BY <1>10 DEF InjectMessage
  <2>2. index \in Runs
    BY <2>1 DEF RouterTypeOK
  <2>3. inbox[index] \in Seq(Injections)
    BY <1>1, <1>4, <2>2
  <2>4. PICK box \in Seq(Injections) : box = Append(inbox[index], i) /\ Len(box) = Len(inbox[index]) + 1
    <3>1. Append(inbox[index], i) \in Seq(Injections) /\ Len(Append(inbox[index], i)) = Len(inbox[index]) + 1
      BY <2>3, AppendProperties
    <3> QED BY <3>1
  <2>5. Len(inbox[index]) \in Nat
    BY <2>3
  <2>6. box \in Box
    <3>1. InboxSize \in Nat /\ Len(box) <= InboxSize
      BY <2>1, <2>4, <2>5, RouterAssumption
    <3> QED BY <1>2, <2>4, <3>1
  <2>7. inbox' \in [Runs -> Box]
    BY <1>4, <2>1, <2>4, <2>6
  <2> QED BY <2>1, <2>7 DEF RouterTypeOK, Box
<1> QED BY <1>5, <1>6, <1>7, <1>8, <1>9, <1>10

LEMMA Unlocked ==
    ASSUME MemInv, NEW r \in Runs, run[r].pc \in Unsaved \cup {"cleanSave", "save", "summarize"}
    PROVE  ~Summarising(r) /\ SumAt(r, "off")
BY DEF MemInv, SavedInv, ThreadsOK, Summarising, At, Unsaved

\* A run gets new local variables before it saves.
LEMMA SetLocals ==
    ASSUME LocalsOK, MemInv, NEW r \in Runs, NEW new, run' = [run EXCEPT ![r] = new],
           CountsOK(new, r), new.pc \notin {"idle", "failed"} => new.loop \in Loops,
           run[r].pc \in Unsaved, new.pc \in Unsaved, UNCHANGED <<sum, holder>>
    PROVE  LocalsOK'
<1>1. \A q \in Runs : run'[q] = IF q = r THEN new ELSE run[q]
  BY SetIs DEF MemInv
<1>2. \A q \in Runs : CountsOK(run'[q], q)
  BY <1>1 DEF LocalsOK
<1>3. ~Summarising(r) /\ SumAt(r, "off")
  BY Unlocked
<1>4. \A q \in Runs : \/ run'[q].loop = run[q].loop /\ (Summarising(q)' <=> Summarising(q))
                      \/ ~Summarising(q) /\ ~Summarising(q)'
  BY <1>1, <1>3 DEF Summarising, At, SumAt, Unsaved
<1>5. \A q \in Runs : run'[q].pc \notin {"idle", "failed"} => run'[q].loop \in Loops
  BY <1>1 DEF LocalsOK, LocksOK, At
<1>6. LocksOK'
  BY <1>4, <1>5, LocksMoves DEF LocalsOK
<1> QED BY <1>2, <1>6 DEF LocalsOK

LEMMA Before_Locals ==
    ASSUME LocalsOK, RouterTypeOK, MemInv, NEW r \in Runs,
           Start(r) \/ ReadHistory(r) \/ ReadSummary(r)
    PROVE  LocalsOK'
<1>0. DOMAIN run[r] = Fields /\ CountsOK(run[r], r) /\ MaxIter[r] \in Nat \ {0}
  BY LoopAssumption DEF MemInv, ShapeInv, LocalsOK
<1>1. CASE Start(r)
  <2> DEFINE new == [Idle EXCEPT !.pc = "history", !.loop = cached, !.knew = Covered(cache)]
  <2>1. run' = [run EXCEPT ![r] = new] /\ UNCHANGED <<sum, holder>> /\ run[r].pc = "idle"
    BY <1>1 DEF Start, Set, At
  <2>2. /\ new.pc = "history" /\ new.loop \in Loops /\ new.iter = 0 /\ new.flushed = 0
        /\ new.pending = <<>>
    BY DEF Idle, RouterTypeOK
  <2> HIDE DEF new
  <2>3. CountsOK(new, r)
    BY <1>0, <2>2, EmptyTags, ListedLen DEF CountsOK, Pcs
  <2> QED BY <2>1, <2>2, <2>3, SetLocals DEF Unsaved
<1>2. CASE ReadHistory(r)
  <2> DEFINE new == [run[r] EXCEPT !.pc = "summary", !.snap = cache.history]
  <2>1. run' = [run EXCEPT ![r] = new] /\ UNCHANGED <<sum, holder>> /\ run[r].pc = "history"
    BY <1>2 DEF ReadHistory, Set, At
  <2>2. /\ new.pc = "summary" /\ new.loop = run[r].loop /\ new.iter = run[r].iter
        /\ new.flushed = run[r].flushed /\ new.pending = run[r].pending
    BY <1>0 DEF Fields
  <2> HIDE DEF new
  <2>3. CountsOK(new, r) /\ new.loop \in Loops
    BY <1>0, <2>1, <2>2 DEF CountsOK, Pcs, LoopPcs, LocalsOK, LocksOK, At
  <2> QED BY <2>1, <2>2, <2>3, SetLocals DEF Unsaved
<1>3. CASE ReadSummary(r)
  <2> DEFINE dirty == Dropped(LimitTurns(run[r].snap, HistoryLimit)) > 0
             msgs == LastCall(r, 1, Messages(r, run[r].snap, cache.summary))
             new == [run[r] EXCEPT !.pc = IF dirty THEN "clean" ELSE "ask",
                                   !.iter = 1, !.knew = {},
                                   !.snap = IF dirty THEN run[r].snap ELSE <<>>,
                                   !.msgs = msgs, !.pending = <<Question(r)>>]
  <2>1. run' = [run EXCEPT ![r] = new] /\ UNCHANGED <<sum, holder>> /\ run[r].pc = "summary"
    BY <1>3 DEF ReadSummary, Set, At
  <2> HIDE DEF dirty, msgs
  <2>2. /\ new.pc \in {"clean", "ask"} /\ new.loop = run[r].loop /\ new.iter = 1
        /\ new.flushed = run[r].flushed /\ new.pending = <<Question(r)>>
    BY <1>0 DEF Fields
  <2> HIDE DEF new
  <2>3. run[r].flushed = 0 /\ new.loop \in Loops
    BY <1>0, <2>1, <2>2 DEF CountsOK, LoopPcs, LocalsOK, LocksOK, At
  <2>4. 0 \in 0 .. Len(new.pending)
    <3>1. <<Question(r)>> \in Seq({Question(r)})
      OBVIOUS
    <3> QED BY <2>2, <3>1, ListedIs, ListedLen
  <2>5. 1 \in 0 .. MaxIter[r]
    BY <1>0
  <2>6. CountsOK(new, r)
    BY <2>2, <2>3, <2>4, <2>5 DEF CountsOK, Pcs
  <2> QED BY <2>1, <2>2, <2>3, <2>6, SetLocals DEF Unsaved
<1> QED BY <1>1, <1>2, <1>3

LEMMA Loop_Locals ==
    ASSUME LocalsOK, MemInv, KeptInv', NEW r \in Runs,
           \/ AnswerText(r) \/ AnswerCutOff(r) \/ (\E n \in CallSizes : AnswerCalls(r, n)) \/ Fail(r)
           \/ (\E w \in 0 .. Max(CallSizes) : Tools(r, w))
           \/ (\E n \in 1 .. Max(CallSizes) : Stuck(r, n))
    PROVE  LocalsOK'
<1>1. PICK new : run' = [run EXCEPT ![r] = new] /\ FromLoop(r, new)
  BY LoopMoves DEF MemInv
<1>2. run[r].pc \in {"ask", "tools"} /\ UNCHANGED <<sum, holder>>
  BY DEF AnswerText, AnswerCutOff, AnswerCalls, Fail, Tools, Stuck, Ask, At
<1>3. CountsOK(run[r], r) /\ run[r].loop \in Loops
  BY <1>2 DEF LocalsOK, LocksOK, At
<1>4. run'[r] = new
  BY <1>1, SetIs DEF MemInv
<1>5. Listed(new.pending) /\ (new.pc = "flush" => new.pending # <<>>)
  BY <1>4 DEF KeptInv, PendingOK
<1>6. CountsOK(new, r)
  <2>1. new.flushed = 0 /\ new.iter \in 0 .. MaxIter[r]
    BY <1>1, <1>2, <1>3 DEF FromLoop, CountsOK, LoopPcs
  <2>2. new.pc \in Pcs
    BY <1>1 DEF FromLoop, Pcs
  <2> QED BY <1>5, <2>1, <2>2, ListedLen DEF CountsOK
<1>7. run[r].pc \in Unsaved /\ new.pc \in Unsaved /\ (new.pc # "failed" => new.loop \in Loops)
  BY <1>1, <1>2, <1>3 DEF FromLoop, Unsaved
<1> QED BY <1>1, <1>2, <1>6, <1>7, SetLocals

LEMMA Writes_Locals ==
    ASSUME LocalsOK, MemInv, KeptInv, NEW r \in Runs, Clean(r) \/ Flush(r)
    PROVE  LocalsOK'
<1>0. DOMAIN run[r] = Fields /\ DOMAIN run = Runs /\ \A q \in Runs : DOMAIN run[q] = Fields
  BY DEF MemInv, ShapeInv
<1>1. CountsOK(run[r], r) /\ Len(run[r].pending) \in Nat
  BY ListedLen DEF LocalsOK, KeptInv, PendingOK
<1>2. PICK rs : /\ StillKnown(rs) /\ \A q \in Runs : DOMAIN rs[q] = Fields
                /\ \A q \in Runs \ {r} : rs[q] = run[q]
                /\ run[r].pc \in {"clean", "flush"} /\ rs[r].pc \in {"cleanSave", "flush", "save"}
                /\ rs[r].loop = run[r].loop /\ CountsOK(rs[r], r)
  <2>1. CASE Clean(r)
    <3> DEFINE rs == [run EXCEPT ![r].pc = "cleanSave", ![r].snap = <<>>]
    <3>1. StillKnown(rs) /\ run[r].pc = "clean"
      BY <2>1 DEF Clean, At
    <3>2. /\ \A q \in Runs : DOMAIN rs[q] = Fields
          /\ \A q \in Runs \ {r} : rs[q] = run[q]
          /\ rs[r].pc = "cleanSave" /\ rs[r].loop = run[r].loop /\ rs[r].iter = run[r].iter
          /\ rs[r].flushed = run[r].flushed /\ rs[r].pending = run[r].pending
      BY <1>0 DEF Fields
    <3> HIDE DEF rs
    <3>3. CountsOK(rs[r], r)
      BY <1>1, <3>1, <3>2 DEF CountsOK, LoopPcs, Pcs, AfterSave
    <3> QED BY <3>1, <3>2, <3>3
  <2>2. CASE Flush(r)
    <3> DEFINE n == run[r].flushed + 1
               tags == TagsOf(<<run[r].pending[n]>>)
               pc == IF n = Len(run[r].pending) THEN "save" ELSE "flush"
               rs == [run EXCEPT ![r].flushed = n, ![r].knew = @ \cup tags, ![r].pc = pc]
    <3>1. StillKnown(rs) /\ run[r].pc = "flush"
      BY <2>2 DEF Flush, At
    <3>2. /\ pc \in {"save", "flush"} /\ n \in 0 .. Len(run[r].pending)
          /\ pc = "flush" => n < Len(run[r].pending)
      BY <1>1, <3>1 DEF CountsOK
    <3> HIDE DEF pc, tags, n
    <3>3. /\ \A q \in Runs : DOMAIN rs[q] = Fields
          /\ \A q \in Runs \ {r} : rs[q] = run[q]
          /\ rs[r].pc = pc /\ rs[r].loop = run[r].loop /\ rs[r].iter = run[r].iter
          /\ rs[r].flushed = n /\ rs[r].pending = run[r].pending
      BY <1>0 DEF Fields
    <3> HIDE DEF rs
    <3>4. CountsOK(rs[r], r)
      BY <1>1, <3>2, <3>3 DEF CountsOK, LoopPcs, Pcs, AfterSave
    <3> QED BY <3>1, <3>2, <3>3, <3>4
  <2> QED BY <2>1, <2>2
<1>3. /\ UNCHANGED <<sum, holder>>
      /\ \A q \in Runs : /\ run'[q].pc = rs[q].pc /\ run'[q].pending = rs[q].pending
                         /\ run'[q].loop = rs[q].loop /\ run'[q].iter = rs[q].iter
                         /\ run'[q].flushed = rs[q].flushed
  BY <1>2, StillKnownIs DEF Clean, Flush, Like
<1>4. \A q \in Runs : CountsOK(run'[q], q)
  BY <1>2, <1>3 DEF LocalsOK, CountsOK
<1>5. ~Summarising(r) /\ SumAt(r, "off")
  BY <1>2, Unlocked DEF Unsaved
<1>6. \A q \in Runs : \/ run'[q].loop = run[q].loop /\ (Summarising(q)' <=> Summarising(q))
                      \/ ~Summarising(q) /\ ~Summarising(q)'
  BY <1>2, <1>3, <1>5 DEF Summarising, At, SumAt
<1>7. \A q \in Runs : run'[q].pc \notin {"idle", "failed"} => run'[q].loop \in Loops
  BY <1>2, <1>3 DEF LocalsOK, LocksOK, At
<1>8. LocksOK'
  BY <1>3, <1>6, <1>7, LocksMoves DEF LocalsOK
<1> QED BY <1>3, <1>4, <1>8 DEF LocalsOK

\* A run goes from pc to pc after its loop.
LEMMA GotoCounts ==
    ASSUME LocalsOK, MemInv, NEW r \in Runs, NEW pc, Goto(r, pc),
           pc \in Pcs \ {"idle", "failed", "flush"},
           pc \in LoopPcs => run[r].pc \in LoopPcs, run[r].pc \notin {"idle", "failed"}
    PROVE  /\ \A q \in Runs : CountsOK(run'[q], q)
           /\ \A q \in Runs : run'[q].pc \notin {"idle", "failed"} => run'[q].loop \in Loops
<1>1. \A q \in Runs :
        /\ run'[q].pc = IF q = r THEN pc ELSE run[q].pc
        /\ run'[q].pending = run[q].pending /\ run'[q].loop = run[q].loop
        /\ run'[q].iter = run[q].iter /\ run'[q].flushed = run[q].flushed
  BY GotoIs DEF MemInv
<1>2. ASSUME NEW q \in Runs PROVE CountsOK(run'[q], q)
  <2>1. CountsOK(run[q], q)
    BY DEF LocalsOK
  <2> QED BY <1>1, <2>1 DEF CountsOK
<1>3. \A q \in Runs : run'[q].pc \notin {"idle", "failed"} => run'[q].loop \in Loops
  BY <1>1 DEF LocalsOK, LocksOK, At
<1> QED BY <1>2, <1>3

LEMMA After_Locals ==
    ASSUME LocalsOK, MemInv, NEW r \in Runs,
           Saves(r) \/ Saved(r) \/ SkipSummary(r) \/ TryLock(r) \/ MemoryFlush(r) \/ Return(r)
    PROVE  LocalsOK'
<1>0. r # NoRun /\ NoRun \notin Runs /\ DOMAIN sum = Runs
      /\ \A q \in Runs : DOMAIN sum[q] = {"pc", "hist", "summary"}
  BY RouterAssumption DEF MemInv, ShapeInv
\* A step that leaves the locks as they are.
<1>1. ASSUME NEW pc, Goto(r, pc), pc \in Pcs \ {"idle", "failed", "flush"},
             pc \in LoopPcs => run[r].pc \in LoopPcs, run[r].pc \notin {"idle", "failed"},
             UNCHANGED holder, Summarising(r)' <=> Summarising(r),
             \A q \in Runs \ {r} : sum'[q] = sum[q]
      PROVE  LocalsOK'
  <2>1. /\ \A q \in Runs : CountsOK(run'[q], q)
        /\ \A q \in Runs : run'[q].pc \notin {"idle", "failed"} => run'[q].loop \in Loops
    BY <1>1, GotoCounts
  <2>2. \A q \in Runs : run'[q].pc = (IF q = r THEN pc ELSE run[q].pc) /\ run'[q].loop = run[q].loop
    BY <1>1, GotoIs DEF MemInv
  <2>3. \A q \in Runs : run'[q].loop = run[q].loop /\ (Summarising(q)' <=> Summarising(q))
    BY <1>1, <2>2 DEF Summarising, At, SumAt
  <2>4. LocksOK'
    BY <1>1, <2>1, <2>3, LocksMoves DEF LocalsOK
  <2> QED BY <1>1, <2>1, <2>4 DEF LocalsOK
<1>2. CASE Saves(r)
  <2>1. UNCHANGED <<run, sum, holder>>
    BY <1>2 DEF Saves, loopVars
  <2> QED BY <2>1 DEF LocalsOK, LocksOK, Summarising, At, SumAt
<1>3. CASE Saved(r)
  <2>1. /\ run[r].pc \in DOMAIN AfterSave /\ Goto(r, AfterSave[run[r].pc]) /\ UNCHANGED holder
        /\ IF At(r, "memSave") THEN Spawn(r) ELSE UNCHANGED sum
    BY <1>3 DEF Saved
  <2>2. \/ run[r].pc \in {"cleanSave", "save"} /\ AfterSave[run[r].pc] \in {"ask", "summarize"}
        \/ run[r].pc = "memSave" /\ AfterSave[run[r].pc] = "return"
    BY <2>1 DEF AfterSave
  <2>3. run'[r].pc = AfterSave[run[r].pc]
    BY <2>1, GotoIs DEF MemInv
  <2>4. CASE run[r].pc = "memSave"
    <3>1. sum'[r].pc = "history" /\ \A q \in Runs \ {r} : sum'[q] = sum[q]
      BY <1>0, <2>1, <2>4 DEF At, Spawn
    <3>2. Summarising(r)' /\ Summarising(r)
      BY <2>4, <3>1 DEF Summarising, At, SumAt
    <3> QED BY <1>1, <2>1, <2>2, <2>4, <3>1, <3>2 DEF Pcs, LoopPcs
  <2>5. CASE run[r].pc \in {"cleanSave", "save"}
    <3>1. ~Summarising(r) /\ UNCHANGED sum
      BY <2>1, <2>5, Unlocked DEF At
    <3>2. ~Summarising(r)'
      BY <2>2, <2>3, <2>5, <3>1 DEF Summarising, At, SumAt
    <3>3. /\ AfterSave[run[r].pc] \in Pcs \ {"idle", "failed", "flush"}
          /\ AfterSave[run[r].pc] \in LoopPcs => run[r].pc \in LoopPcs
      BY <2>5 DEF AfterSave, Pcs, LoopPcs
    <3> QED BY <1>1, <2>1, <2>5, <3>1, <3>2, <3>3
  <2> QED BY <2>2, <2>4, <2>5
<1>4. CASE SkipSummary(r)
  <2>1. Goto(r, "return") /\ UNCHANGED <<sum, holder>> /\ run[r].pc = "summarize"
    BY <1>4 DEF SkipSummary, At
  <2>2. run'[r].pc = "return" /\ ~Summarising(r)
    BY <2>1, GotoIs, Unlocked DEF MemInv
  <2>3. ~Summarising(r)'
    BY <2>1, <2>2 DEF Summarising, At, SumAt
  <2> QED BY <1>1, <2>1, <2>2, <2>3 DEF Pcs, LoopPcs
<1>5. CASE TryLock(r)
  <2>1. PICK pc \in {"memFlush", "return"} :
          /\ Goto(r, pc) /\ run[r].pc = "summarize" /\ holder[run[r].loop] = NoRun
          /\ holder' = [holder EXCEPT ![run[r].loop] = r]
          /\ (pc = "memFlush" /\ UNCHANGED sum) \/ (pc = "return" /\ Spawn(r))
    BY <1>5 DEF TryLock, Summarizes, At
  <2>2. /\ \A q \in Runs : CountsOK(run'[q], q)
        /\ \A q \in Runs : run'[q].pc \notin {"idle", "failed"} => run'[q].loop \in Loops
    BY <2>1, GotoCounts DEF Pcs, LoopPcs
  <2>3. \A q \in Runs : run'[q].pc = (IF q = r THEN pc ELSE run[q].pc) /\ run'[q].loop = run[q].loop
    BY <2>1, GotoIs DEF MemInv
  <2>4. /\ \A q \in Runs \ {r} : sum'[q] = sum[q]
        /\ pc = "return" => sum'[r].pc = "history"
    BY <1>0, <2>1 DEF Spawn
  <2>5. run[r].loop \in Loops /\ DOMAIN holder = Loops
    BY <2>1 DEF LocalsOK, LocksOK, At
  <2>6. DOMAIN holder' = Loops
        /\ \A l \in Loops : holder'[l] = IF l = run[r].loop THEN r ELSE holder[l]
    BY <2>1, <2>5
  <2>7. Summarising(r)' /\ \A q \in Runs \ {r} : Summarising(q)' <=> Summarising(q)
    BY <2>1, <2>3, <2>4 DEF Summarising, At, SumAt
  <2>8. \A q \in Runs : Summarising(q)' => holder'[run'[q].loop] = q
    <3>1. SUFFICES ASSUME NEW q \in Runs \ {r}, Summarising(q)' PROVE holder'[run[q].loop] = q
      BY <2>3, <2>5, <2>6
    <3>2. holder[run[q].loop] = q /\ q # NoRun /\ run[q].loop \in Loops
      <4>1. Summarising(q)
        BY <2>7, <3>1
      <4>2. ~At(q, "idle") /\ ~At(q, "failed")
        BY <4>1 DEF Summarising, At, MemInv, SavedInv, ThreadsOK
      <4> QED BY <1>0, <4>1, <4>2 DEF LocalsOK, LocksOK
    <3> QED BY <2>1, <2>6, <3>2
  <2>9. ASSUME NEW l \in Loops, holder'[l] # NoRun
        PROVE  \E q \in Runs : holder'[l] = q /\ run'[q].loop = l /\ Summarising(q)'
    <3>1. CASE l = run[r].loop
      BY <2>3, <2>6, <2>7, <3>1
    <3>2. CASE l # run[r].loop
      <4>1. holder'[l] = holder[l] /\ holder[l] \in Runs /\ run[holder[l]].loop = l
            /\ Summarising(holder[l])
        BY <2>6, <2>9, <3>2 DEF LocalsOK, LocksOK
      <4>2. PICK q \in Runs : q = holder[l]
        BY <4>1
      <4>3. q # r /\ run'[q].loop = l /\ Summarising(q)'
        BY <2>3, <2>7, <3>2, <4>1, <4>2
      <4> QED BY <4>1, <4>2, <4>3
    <3> QED BY <3>1, <3>2
  <2>10. LocksOK'
    <3>1. \A l \in Loops : holder'[l] # NoRun =>
            \E q \in Runs : holder'[l] = q /\ run'[q].loop = l
               /\ (run'[q].pc = "memFlush" \/ run'[q].pc = "memSave" \/ ~(sum'[q].pc = "off"))
      BY <2>9 DEF Summarising, At, SumAt
    <3> QED BY <2>2, <2>8, <3>1 DEF LocksOK, Summarising, At, SumAt
  <2> QED BY <2>2, <2>6, <2>10 DEF LocalsOK
<1>6. CASE MemoryFlush(r)
  <2>1. Goto(r, "memSave") /\ UNCHANGED <<sum, holder>> /\ run[r].pc = "memFlush"
    BY <1>6 DEF MemoryFlush, At
  <2>2. run'[r].pc = "memSave"
    BY <2>1, GotoIs DEF MemInv
  <2>3. Summarising(r)' /\ Summarising(r)
    BY <2>1, <2>2 DEF Summarising, At
  <2> QED BY <1>1, <2>1, <2>3 DEF Pcs, LoopPcs, AfterSave
<1>7. CASE Return(r)
  <2>1. Goto(r, "done") /\ UNCHANGED <<sum, holder>> /\ run[r].pc = "return"
    BY <1>7 DEF Return, At
  <2>2. run'[r].pc = "done"
    BY <2>1, GotoIs DEF MemInv
  <2>3. Summarising(r)' <=> Summarising(r)
    BY <2>1, <2>2 DEF Summarising, At, SumAt
  <2> QED BY <1>1, <2>1, <2>3 DEF Pcs, LoopPcs
<1> QED BY <1>2, <1>3, <1>4, <1>5, <1>6, <1>7

LEMMA Sum_Locals ==
    ASSUME LocalsOK, MemInv, NEW r \in Runs, SumStep(r)
    PROVE  LocalsOK'
<1>0. /\ NoRun \notin Runs /\ DOMAIN holder = Loops
      /\ \A q \in Runs : DOMAIN run[q] = Fields
  BY RouterAssumption DEF MemInv, ShapeInv, LocalsOK
<1>1. /\ ~SumAt(r, "off") /\ \A q \in Runs : q # r => sum'[q] = sum[q]
  BY SumIs DEF MemInv
<1>2. run' = run \/ StillKnown(run)
  BY DEF SumStep, SumReadHistory, SumReadSummary, SumFails, SumStore, SumTruncate, SumCount,
         SumSaves, SumSaved
<1>3. \A q \in Runs : /\ run'[q].pc = run[q].pc /\ run'[q].pending = run[q].pending
                      /\ run'[q].loop = run[q].loop /\ run'[q].iter = run[q].iter
                      /\ run'[q].flushed = run[q].flushed
  BY <1>0, <1>2, StillKnownIs DEF Like
<1>4. \A q \in Runs : CountsOK(run'[q], q)
  BY <1>3 DEF LocalsOK, CountsOK
<1>5. \A q \in Runs : run'[q].pc \notin {"idle", "failed"} => run'[q].loop \in Loops
  BY <1>3 DEF LocalsOK, LocksOK, At
<1>6. run[r].pc \in {"return", "done"} /\ Summarising(r) /\ holder[run[r].loop] = r
      /\ run[r].loop \in Loops
  BY <1>1 DEF LocalsOK, LocksOK, MemInv, SavedInv, ThreadsOK, Summarising, At
<1>7. \/ UNCHANGED holder /\ sum'[r].pc # "off"
      \/ sum'[r].pc = "off" /\ holder' = [holder EXCEPT ![run[r].loop] = NoRun]
  <2> USE DEF MemInv, ShapeInv, SumEnds, SumGoto, Off
  <2>1. CASE SumReadHistory(r) \/ SumFails(r) \/ SumSaved(r)
    BY <2>1 DEF SumReadHistory, SumFails, SumSaved
  <2>2. CASE SumReadSummary(r) \/ SumStore(r) \/ SumTruncate(r) \/ SumCount(r) \/ SumSaves(r)
    BY <2>2 DEF SumReadSummary, SumStore, SumTruncate, SumCount, SumSaves
  <2> QED BY <2>1, <2>2 DEF SumStep
<1>8. CASE UNCHANGED holder /\ sum'[r].pc # "off"
  <2>1. \A q \in Runs : run'[q].loop = run[q].loop /\ (Summarising(q)' <=> Summarising(q))
    BY <1>1, <1>3, <1>8 DEF Summarising, At, SumAt
  <2>2. LocksOK'
    BY <1>5, <1>8, <2>1, LocksMoves DEF LocalsOK
  <2> QED BY <1>0, <1>4, <1>8, <2>2 DEF LocalsOK
<1>9. CASE sum'[r].pc = "off" /\ holder' = [holder EXCEPT ![run[r].loop] = NoRun]
  <2>1. /\ DOMAIN holder' = Loops
        /\ \A l \in Loops : holder'[l] = IF l = run[r].loop THEN NoRun ELSE holder[l]
    BY <1>0, <1>9
  <2>2. ~Summarising(r)' /\ \A q \in Runs \ {r} : Summarising(q)' <=> Summarising(q)
    BY <1>1, <1>3, <1>6, <1>9 DEF Summarising, At, SumAt
  <2>3. ASSUME NEW q \in Runs, Summarising(q)' PROVE holder'[run'[q].loop] = q
    <3>1. q # r /\ Summarising(q)
      BY <2>2, <2>3
    <3>2. ~At(q, "idle") /\ ~At(q, "failed")
      BY <3>1 DEF Summarising, At, MemInv, SavedInv, ThreadsOK
    <3>3. holder[run[q].loop] = q /\ run[q].loop \in Loops /\ run[q].loop # run[r].loop
      BY <1>6, <3>1, <3>2 DEF LocalsOK, LocksOK
    <3> QED BY <1>3, <2>1, <3>3
  <2>4. ASSUME NEW l \in Loops, holder'[l] # NoRun
        PROVE  \E q \in Runs : /\ holder'[l] = q /\ run'[q].loop = l
                               /\ \/ run'[q].pc = "memFlush" \/ run'[q].pc = "memSave"
                                  \/ ~(sum'[q].pc = "off")
    <3>1. l # run[r].loop /\ holder'[l] = holder[l]
      BY <2>1, <2>4
    <3>2. PICK q \in Runs : q = holder[l] /\ run[q].loop = l /\ Summarising(q)
      BY <2>4, <3>1 DEF LocalsOK, LocksOK
    <3>3. q # r /\ Summarising(q)'
      BY <2>2, <3>1, <3>2
    <3> QED BY <1>3, <3>1, <3>2, <3>3 DEF Summarising, At, SumAt
  <2>5. LocksOK'
    BY <1>5, <2>3, <2>4 DEF LocksOK, Summarising, At, SumAt
  <2> QED BY <1>4, <2>1, <2>5 DEF LocalsOK
<1> QED BY <1>7, <1>8, <1>9

LEMMA Outside_Locals ==
    ASSUME LocalsOK, MemInv, \/ (\E i \in Injections : Inject(i)) \/ (\E r \in Runs : Abort(r))
                             \/ ResetSession \/ ExpireLoop \/ UNCHANGED vars
    PROVE  LocalsOK'
<1>1. (run' = run \/ StillKnown(run)) /\ UNCHANGED <<sum, holder>>
  BY DEF Inject, Abort, ResetSession, ExpireLoop, vars, loopVars
<1>2. \A q \in Runs : DOMAIN run[q] = Fields
  BY DEF MemInv, ShapeInv
<1>3. \A q \in Runs : /\ run'[q].pc = run[q].pc /\ run'[q].pending = run[q].pending
                      /\ run'[q].loop = run[q].loop /\ run'[q].iter = run[q].iter
                      /\ run'[q].flushed = run[q].flushed
  BY <1>1, <1>2, StillKnownIs DEF Like
<1>4. \A q \in Runs : CountsOK(run'[q], q)
  BY <1>3 DEF LocalsOK, CountsOK
<1>5. \A q \in Runs : run'[q].pc \notin {"idle", "failed"} => run'[q].loop \in Loops
  BY <1>3 DEF LocalsOK, LocksOK, At
<1>6. \A q \in Runs : run'[q].loop = run[q].loop /\ (Summarising(q)' <=> Summarising(q))
  BY <1>1, <1>3 DEF Summarising, At, SumAt
<1>7. LocksOK'
  BY <1>1, <1>5, <1>6, LocksMoves DEF LocalsOK
<1> QED BY <1>1, <1>4, <1>7 DEF LocalsOK

LEMMA Restart_Locals ==
    ASSUME LocalsOK, MemInv, Restart
    PROVE  LocalsOK'
<1> DEFINE rs == [r \in Runs |-> IF Running(r) THEN Failed ELSE run[r]]
<1>1. /\ StillKnown(rs) /\ sum' = [r \in Runs |-> Off] /\ holder' = [l \in Loops |-> NoRun]
  BY DEF Restart
<1>2. \A q \in Runs : DOMAIN rs[q] = Fields /\ rs[q] = IF Running(q) THEN Failed ELSE run[q]
  BY IdleIs DEF MemInv, ShapeInv
<1> HIDE DEF rs
<1>3. \A q \in Runs : /\ run'[q].pc = rs[q].pc /\ run'[q].pending = rs[q].pending
                      /\ run'[q].loop = rs[q].loop /\ run'[q].iter = rs[q].iter
                      /\ run'[q].flushed = rs[q].flushed
  BY <1>1, <1>2, StillKnownIs DEF Like
<1>4. ASSUME NEW q \in Runs PROVE CountsOK(Failed, q)
  BY IdleIs, EmptyTags, ListedLen, LoopAssumption DEF CountsOK, Pcs
<1>5. ASSUME NEW q \in Runs PROVE CountsOK(run'[q], q)
  <2>1. CountsOK(rs[q], q)
    BY <1>2, <1>4 DEF LocalsOK
  <2> QED BY <1>3, <2>1 DEF CountsOK
<1>6. \A q \in Runs : run'[q].pc \in {"idle", "done", "failed"} /\ sum'[q].pc = "off"
  BY <1>1, <1>2, <1>3, IdleIs DEF Running, Off
<1>7. \A q \in Runs : run'[q].pc \notin {"idle", "failed"} => run'[q].loop \in Loops
  BY <1>2, <1>3, IdleIs DEF LocalsOK, LocksOK, At
<1>8. LocksOK'
  BY <1>1, <1>6, <1>7 DEF LocksOK, Summarising, At, SumAt
<1> QED BY <1>1, <1>5, <1>8 DEF LocalsOK

LEMMA Next_Router ==
    ASSUME RouterTypeOK, [Next]_vars
    PROVE  RouterTypeOK'
<1>1. ASSUME NEW r \in Runs, RunStep(r) PROVE RouterTypeOK'
  <2>1. CASE Start(r) \/ Return(r) \/ Fail(r)
    BY <2>1, RouterStep_Type DEF Start, Return, Fail
  <2>2. CASE \/ ReadHistory(r) \/ ReadSummary(r) \/ Clean(r) \/ AnswerText(r) \/ AnswerCutOff(r)
             \/ (\E n \in CallSizes : AnswerCalls(r, n))
    BY <2>2, RouterStep_Type
       DEF ReadHistory, ReadSummary, Clean, AnswerText, AnswerCutOff, AnswerCalls
  <2>3. CASE \/ (\E w \in 0 .. Max(CallSizes) : Tools(r, w))
             \/ (\E n \in 1 .. Max(CallSizes) : Stuck(r, n))
    BY <2>3, RouterStep_Type DEF Tools, Stuck
  <2>4. CASE Flush(r) \/ Saves(r) \/ Saved(r) \/ SkipSummary(r) \/ TryLock(r) \/ MemoryFlush(r)
    BY <2>4, RouterStep_Type DEF Flush, Saves, Saved, SkipSummary, TryLock, MemoryFlush
  <2> QED BY <1>1, <2>1, <2>2, <2>3, <2>4 DEF RunStep
<1>2. ASSUME NEW r \in Runs, SumStep(r) PROVE RouterTypeOK'
  <2>1. UNCHANGED routerVars
    BY <1>2 DEF SumStep, SumReadHistory, SumReadSummary, SumFails, SumStore, SumTruncate, SumCount,
                SumSaves, SumSaved
  <2> QED BY <2>1, RouterStep_Type
<1>3. ASSUME NEW r \in Runs, Abort(r) PROVE RouterTypeOK'
  BY <1>3, RouterStep_Type DEF Abort, AbortRun
<1>4. CASE (\E i \in Injections : Inject(i)) \/ ResetSession \/ ExpireLoop \/ Restart \/ UNCHANGED vars
  BY <1>4, RouterStep_Type DEF Inject, ResetSession, ExpireLoop, Restart, vars
<1> QED BY <1>1, <1>2, <1>3, <1>4 DEF Next

LEMMA Next_Locals ==
    ASSUME LocalsOK, RouterTypeOK, MemInv, KeptInv, KeptInv', [Next]_vars
    PROVE  LocalsOK'
<1>1. ASSUME NEW r \in Runs, RunStep(r) PROVE LocalsOK'
  BY <1>1, Before_Locals, Loop_Locals, Writes_Locals, After_Locals DEF RunStep
<1> QED BY <1>1, Sum_Locals, Outside_Locals, Restart_Locals DEF Next

LEMMA Init_Type ==
    ASSUME Init
    PROVE  RouterTypeOK /\ LocalsOK
<1>1. /\ run = [r \in Runs |-> Idle] /\ sum = [r \in Runs |-> Off]
      /\ holder = [l \in Loops |-> NoRun] /\ Off.pc = "off"
      /\ cached \in Loops /\ active = {} /\ index = NoRun /\ inbox = [r \in Runs |-> <<>>]
  BY DEF Init, RouterInit, Off
<1>2. <<>> \in BoundedSeq(Injections, InboxSize)
  <2>1. 0 \in 0 .. InboxSize /\ <<>> \in [1 .. 0 -> Injections]
    BY RouterAssumption
  <2> QED BY <2>1 DEF BoundedSeq, SeqOf
<1>3. RouterTypeOK
  BY <1>1, <1>2 DEF RouterTypeOK
<1>4. ASSUME NEW r \in Runs PROVE CountsOK(Idle, r)
  BY IdleIs, EmptyTags, ListedLen, LoopAssumption DEF CountsOK, Pcs
<1>5. LocksOK
  BY <1>1, IdleIs DEF LocksOK, Summarising, At, SumAt
<1> QED BY <1>1, <1>3, <1>4, <1>5 DEF LocalsOK

LEMMA SpecType == Spec => [](RouterTypeOK /\ LocalsOK)
<1>1. RouterTypeOK /\ LocalsOK /\ MemInv /\ KeptInv /\ KeptInv' /\ [Next]_vars =>
        RouterTypeOK' /\ LocalsOK'
  BY Next_Router, Next_Locals
<1> QED BY <1>1, SpecMem, SpecKept, Init_Type, PTL DEF Spec
-----------------------------------------------------------------------------
(* The pass of the repair. *)

\* A set of numbers that is not empty has a least one.
Below == {p \in Nat \X Nat : p[1] < p[2]}

LEMMA LeastNumber ==
    ASSUME NEW T \in SUBSET Nat, T # {}
    PROVE  \E x \in T : \A y \in T : x <= y
<1>1. IsWellFoundedOn(Below, Nat)
  BY NatLessThanWellFounded DEF OpToRel, Below
<1>2. PICK x \in T : \A y \in T : ~(<<y, x>> \in Below)
  BY <1>1, WFMin
<1>3. ASSUME NEW y \in T PROVE x <= y
  <2>1. y < x => <<y, x>> \in Below
    BY DEF Below
  <2> QED BY <1>2, <2>1
<1> QED BY <1>3

\* The ids of the calls of a message, renamed.
LEMMA RenamedIs ==
    ASSUME NEW seen, NEW ids, Listed(ids)
    PROVE  /\ DOMAIN Renamed(seen, ids) = DOMAIN ids
           /\ Renamed(seen, ids) = [k \in DOMAIN ids |-> Renamed(seen, ids)[k]]
           /\ \A k \in DOMAIN ids : Renamed(seen, ids)[k] =
                IF ids[k] \in seen \cup {Renamed(seen, ids)[l] : l \in 1 .. k - 1}
                THEN Append(ids[k], k - 1) ELSE ids[k]
<1> DEFINE D == DOMAIN ids
           Made(f, n) == f = [k \in 1 .. n |->
                          IF ids[k] \in seen \cup {f[l] : l \in 1 .. k - 1}
                          THEN Append(ids[k], k - 1) ELSE ids[k]]
           Bad == {n \in Nat : ~ \E f : Made(f, n)}
<1>1. PICK N \in Nat : D = 1 .. N
  BY DEF Listed
<1>2. \E f : Made(f, N)
  <2>1. SUFFICES ASSUME Bad # {} PROVE FALSE
    OBVIOUS
  <2>2. PICK n \in Bad : \A m \in Bad : n <= m
    BY <2>1, LeastNumber
  <2>3. n # 0
    <3> DEFINE e == [k \in 1 .. 0 |-> 0]
    <3>1. Made(e, 0)
      OBVIOUS
    <3>2. 0 \notin Bad
      BY <3>1
    <3> QED BY <3>2, <2>2
  <2>4. PICK f : Made(f, n - 1)
    <3>1. n \in Nat /\ n - 1 \in Nat /\ ~(n <= n - 1)
      BY <2>2, <2>3
    <3>2. n - 1 \notin Bad
      BY <2>2, <3>1
    <3> QED BY <3>1, <3>2
  <2> DEFINE g == [k \in 1 .. n |-> IF k # n THEN f[k]
                     ELSE IF ids[k] \in seen \cup {f[l] : l \in 1 .. k - 1}
                          THEN Append(ids[k], k - 1) ELSE ids[k]]
  <2>5. \A k \in 1 .. n : \A l \in 1 .. k - 1 : g[l] = f[l]
    OBVIOUS
  <2>6. \A k \in 1 .. n - 1 : f[k] = IF ids[k] \in seen \cup {f[l] : l \in 1 .. k - 1}
                                     THEN Append(ids[k], k - 1) ELSE ids[k]
    BY <2>4
  <2>7. \A k \in 1 .. n : g[k] = IF ids[k] \in seen \cup {f[l] : l \in 1 .. k - 1}
                                 THEN Append(ids[k], k - 1) ELSE ids[k]
    BY <2>6
  <2>8. DOMAIN g = 1 .. n /\ g = [k \in 1 .. n |-> g[k]]
    OBVIOUS
  <2> HIDE DEF g
  <2>9. \A k \in 1 .. n : g[k] = IF ids[k] \in seen \cup {g[l] : l \in 1 .. k - 1}
                                 THEN Append(ids[k], k - 1) ELSE ids[k]
    <3>1. ASSUME NEW k \in 1 .. n
          PROVE  {g[l] : l \in 1 .. k - 1} = {f[l] : l \in 1 .. k - 1}
      BY <2>5
    <3> QED BY <2>7, <3>1
  <2>10. Made(g, n)
    BY <2>8, <2>9
  <2>11. n \notin Bad
    BY <2>10
  <2> QED BY <2>2, <2>11
<1> DEFINE new == Renamed(seen, ids)
<1>3. \E f : f = [k \in DOMAIN ids |->
                  IF ids[k] \in seen \cup {f[l] : l \in 1 .. k - 1}
                  THEN Append(ids[k], k - 1) ELSE ids[k]]
  BY <1>1, <1>2
<1>4. new = [k \in DOMAIN ids |->
                  IF ids[k] \in seen \cup {new[l] : l \in 1 .. k - 1}
                  THEN Append(ids[k], k - 1) ELSE ids[k]]
  BY <1>3, Zenon DEF Renamed
<1> HIDE DEF new
<1>5. /\ DOMAIN new = D /\ new = [k \in D |-> new[k]]
      /\ \A k \in D : new[k] = IF ids[k] \in seen \cup {new[l] : l \in 1 .. k - 1}
                              THEN Append(ids[k], k - 1) ELSE ids[k]
  BY <1>1, <1>4
<1> QED BY <1>5 DEF new

\* The states of the repair of a transcript, pass[i] after its first i messages.
Passes(msgs) == CHOOSE pass : pass = [i \in 0 .. Len(msgs) |->
                                IF i = 0 THEN Fresh ELSE Take(pass[i - 1], msgs[i])]

LEMMA PassesAre ==
    ASSUME NEW msgs, Listed(msgs)
    PROVE  /\ Sanitized(msgs) = Close(Passes(msgs)[Len(msgs)])
           /\ Passes(msgs)[0] = Fresh
           /\ \A i \in DOMAIN msgs : Passes(msgs)[i] = Take(Passes(msgs)[i - 1], msgs[i])
<1> DEFINE N == Len(msgs)
           Made(f, n) == f = [i \in 0 .. n |->
                                IF i = 0 THEN Fresh ELSE Take(f[i - 1], msgs[i])]
           Bad == {n \in Nat : ~ \E f : Made(f, n)}
<1>1. N \in Nat /\ DOMAIN msgs = 1 .. N
  BY DEF Listed
<1>2. \E f : Made(f, N)
  <2>1. SUFFICES ASSUME Bad # {} PROVE FALSE
    BY <1>1
  <2>2. PICK n \in Bad : \A m \in Bad : n <= m
    BY <2>1, LeastNumber
  <2>3. n # 0
    <3> DEFINE e == [i \in 0 .. 0 |-> Fresh]
    <3>1. Made(e, 0)
      OBVIOUS
    <3>2. 0 \notin Bad
      BY <3>1
    <3> QED BY <3>2, <2>2
  <2>4. PICK f : Made(f, n - 1)
    <3>1. n \in Nat /\ n - 1 \in Nat /\ ~(n <= n - 1)
      BY <2>2, <2>3
    <3>2. n - 1 \notin Bad
      BY <2>2, <3>1
    <3> QED BY <3>1, <3>2
  <2> DEFINE g == [i \in 0 .. n |-> IF i # n THEN f[i] ELSE Take(f[n - 1], msgs[n])]
  <2>5. \A i \in 0 .. n - 1 : f[i] = IF i = 0 THEN Fresh ELSE Take(f[i - 1], msgs[i])
    BY <2>4
  <2>6. \A i \in 1 .. n : g[i - 1] = f[i - 1]
    BY <2>2
  <2>7. \A i \in 0 .. n : g[i] = IF i = 0 THEN Fresh ELSE Take(f[i - 1], msgs[i])
    BY <2>2, <2>3, <2>5
  <2>8. g = [i \in 0 .. n |-> g[i]]
    OBVIOUS
  <2> HIDE DEF g
  <2>9. \A i \in 0 .. n : g[i] = IF i = 0 THEN Fresh ELSE Take(g[i - 1], msgs[i])
    BY <2>6, <2>7
  <2>10. Made(g, n)
    BY <2>8, <2>9
  <2>11. n \notin Bad
    BY <2>10
  <2> QED BY <2>2, <2>11
<1>3. \E f : f = [i \in 0 .. Len(msgs) |->
                    IF i = 0 THEN Fresh ELSE Take(f[i - 1], msgs[i])]
  BY <1>2
<1> DEFINE pass == Passes(msgs)
<1>4. pass = [i \in 0 .. Len(msgs) |->
                    IF i = 0 THEN Fresh ELSE Take(pass[i - 1], msgs[i])]
  BY <1>3, Zenon DEF Passes
<1>5. Sanitized(msgs) = Close(pass[Len(msgs)])
  BY Zenon DEF Sanitized, Passes
<1> HIDE DEF pass
<1>6. pass[0] = Fresh /\ \A i \in DOMAIN msgs : pass[i] = Take(pass[i - 1], msgs[i])
  BY <1>1, <1>4
<1> QED BY <1>5, <1>6 DEF pass
-----------------------------------------------------------------------------
(* Calls and results. *)

Callers(q) == {i \in DOMAIN q : HasCalls(q[i])}
EndOf(q, i) == i + Len(q[i].calls)
Given(q, i, j) == {q[l].call : l \in i + 1 .. j}
Missing(open) == {open[l][2] : l \in DOMAIN open}

\* Paired, but for the results of the last calls that are still open.
PairedBut(q, open) ==
    /\ \A i \in Callers(q) :
         /\ EndOf(q, i) <= Len(q) + Len(open)
         /\ \A j \in i + 1 .. EndOf(q, i) : j <= Len(q) => IsTool(q[j])
         /\ EndOf(q, i) <= Len(q) => Given(q, i, EndOf(q, i)) = ToSet(q[i].calls)
         /\ EndOf(q, i) > Len(q) =>
              /\ EndOf(q, i) = Len(q) + Len(open)
              /\ Given(q, i, Len(q)) \cup Missing(open) = ToSet(q[i].calls)
    /\ \A j \in DOMAIN q : IsTool(q[j]) => \E i \in Callers(q) : i < j /\ j <= EndOf(q, i)
    /\ open # <<>> => \E i \in Callers(q) : EndOf(q, i) = Len(q) + Len(open)

LEMMA TranscriptIs ==
    ASSUME NEW q, IsTranscript(q)
    PROVE  /\ Listed(q) /\ Len(q) \in Nat /\ DOMAIN q = 1 .. Len(q)
           /\ \A i \in DOMAIN q : Len(q[i].calls) \in Nat /\ EndOf(q, i) \in Nat
BY DEF IsTranscript, IsMessage, Listed, EndOf

LEMMA PairedIs ==
    ASSUME NEW q, IsTranscript(q)
    PROVE  PairedBut(q, <<>>) <=> Paired(q)
<1> DEFINE block(i) == {j \in i + 1 .. i + Len(q[i].calls) : j <= Len(q)}
<1>1. /\ Len(q) \in Nat /\ DOMAIN q = 1 .. Len(q)
      /\ \A i \in DOMAIN q : Len(q[i].calls) \in Nat /\ EndOf(q, i) \in Nat
  BY TranscriptIs
<1>2. Paired(q) <=>
      /\ \A i \in Callers(q) :
           /\ \A j \in block(i) : IsTool(q[j])
           /\ {q[j].call : j \in block(i)} = ToSet(q[i].calls)
           /\ i + Len(q[i].calls) <= Len(q)
      /\ \A j \in DOMAIN q : IsTool(q[j]) => \E i \in Callers(q) : j \in block(i)
  BY DEF Paired, Callers
<1>3. ASSUME NEW i \in Callers(q), EndOf(q, i) <= Len(q)
      PROVE  block(i) = i + 1 .. EndOf(q, i)
  BY <1>1, <1>3 DEF EndOf, Callers
<1>4. \A i \in Callers(q) : \A j \in DOMAIN q : j \in block(i) <=> i < j /\ j <= EndOf(q, i)
  BY <1>1 DEF EndOf, Callers
<1>5. Callers(q) \subseteq DOMAIN q /\ Len(<<>>) = 0 /\ \A i \in Callers(q) : EndOf(q, i) = i + Len(q[i].calls)
  BY DEF Callers, EndOf
<1> HIDE DEF block
<1>6. ASSUME PairedBut(q, <<>>) PROVE Paired(q)
  <2>1. \A i \in Callers(q) :
          /\ EndOf(q, i) <= Len(q)
          /\ \A j \in i + 1 .. EndOf(q, i) : j <= Len(q) => IsTool(q[j])
          /\ Given(q, i, EndOf(q, i)) = ToSet(q[i].calls)
    BY <1>1, <1>5, <1>6 DEF PairedBut
  <2>2. \A i \in Callers(q) : {q[j].call : j \in block(i)} = ToSet(q[i].calls)
    BY <1>3, <2>1 DEF Given
  <2>3. \A i \in Callers(q) : \A j \in block(i) : IsTool(q[j])
    BY <1>1, <1>3, <1>5, <2>1
  <2>4. \A j \in DOMAIN q : IsTool(q[j]) => \E i \in Callers(q) : j \in block(i)
    BY <1>4, <1>6 DEF PairedBut
  <2> QED BY <1>2, <1>5, <2>1, <2>2, <2>3, <2>4
<1>7. ASSUME Paired(q) PROVE PairedBut(q, <<>>)
  <2>1. \A i \in Callers(q) :
          /\ EndOf(q, i) <= Len(q) /\ ~(EndOf(q, i) > Len(q))
          /\ \A j \in i + 1 .. EndOf(q, i) : IsTool(q[j])
    <3> TAKE i \in Callers(q)
    <3>1. EndOf(q, i) <= Len(q) /\ \A j \in block(i) : IsTool(q[j])
      BY <1>2, <1>5, <1>7
    <3>2. ~(EndOf(q, i) > Len(q))
      BY <1>1, <1>5, <3>1
    <3> QED BY <1>3, <3>1, <3>2
  <2>2. \A i \in Callers(q) : Given(q, i, EndOf(q, i)) = ToSet(q[i].calls)
    BY <1>2, <1>3, <1>7, <2>1 DEF Given
  <2>3. \A j \in DOMAIN q : IsTool(q[j]) => \E i \in Callers(q) : i < j /\ j <= EndOf(q, i)
    BY <1>2, <1>4, <1>7
  <2>4. \A i \in Callers(q) : EndOf(q, i) <= Len(q) + Len(<<>>)
    BY <1>1, <1>5, <2>1
  <2> QED BY <2>1, <2>2, <2>3, <2>4 DEF PairedBut
<1> QED BY <1>6, <1>7

\* What a sequence of messages is when another one is put behind it.
LEMMA JoinedIs ==
    ASSUME NEW p, NEW q, NEW c, IsTranscript(p), IsTranscript(q), c = p \o q
    PROVE  /\ IsTranscript(c) /\ Len(c) = Len(p) + Len(q)
           /\ \A i \in DOMAIN p : c[i] = p[i]
           /\ \A i \in DOMAIN q : c[i + Len(p)] = q[i]
<1> DEFINE S == ToSet(p) \cup ToSet(q)
<1>1. p \in Seq(S) /\ q \in Seq(S)
  BY DEF Listed, IsTranscript
<1>2. \A m \in S : IsMessage(m)
  BY DEF ToSet, IsTranscript
<1> HIDE DEF S
<1>3. c \in Seq(S)
  BY <1>1, ConcatProperties
<1>4. /\ Len(c) = Len(p) + Len(q)
      /\ \A i \in 1 .. Len(p) + Len(q) : c[i] = IF i <= Len(p) THEN p[i] ELSE q[i - Len(p)]
  BY <1>1, <1>3, ConcatProperties
<1>5. \A i \in DOMAIN c : c[i] \in S
  BY <1>3
<1>6. IsTranscript(c)
  BY <1>2, <1>3, <1>5, ListedIs DEF IsTranscript
<1>7. /\ Len(p) \in Nat /\ DOMAIN p = 1 .. Len(p) /\ Len(q) \in Nat /\ DOMAIN q = 1 .. Len(q)
  BY <1>1
<1>8. /\ \A i \in DOMAIN p : c[i] = p[i]
      /\ \A i \in DOMAIN q : c[i + Len(p)] = q[i]
  BY <1>4, <1>7
<1> QED BY <1>4, <1>6, <1>8

\* A sequence of one message.
LEMMA OneMessage ==
    ASSUME NEW m, IsMessage(m)
    PROVE  IsTranscript(<<m>>) /\ Len(<<m>>) = 1 /\ <<m>>[1] = m /\ DOMAIN <<m>> = {1}
<1>1. <<m>> \in Seq({m})
  OBVIOUS
<1>2. Listed(<<m>>)
  BY <1>1, ListedIs
<1> QED BY <1>2 DEF IsTranscript

\* Two paired transcripts make a paired one.
LEMMA JoinedPaired ==
    ASSUME NEW p, NEW q, NEW c, IsTranscript(p), IsTranscript(q), c = p \o q,
           Paired(p), PairedBut(q, <<>>)
    PROVE  IsTranscript(c) /\ Paired(c)
<1> DEFINE n == Len(p)
<1>1. /\ IsTranscript(c) /\ Len(c) = Len(p) + Len(q)
      /\ \A i \in DOMAIN p : c[i] = p[i]
      /\ \A i \in DOMAIN q : c[i + n] = q[i]
  <2>1. IsTranscript(c) /\ Len(c) = Len(p) + Len(q)
    BY JoinedIs
  <2>2. \A i \in DOMAIN p : c[i] = p[i]
    BY JoinedIs
  <2>3. \A i \in DOMAIN q : c[i + Len(p)] = q[i]
    BY JoinedIs
  <2> QED BY <2>1, <2>2, <2>3
<1>2. /\ n \in Nat /\ DOMAIN p = 1 .. n /\ Len(q) \in Nat /\ DOMAIN q = 1 .. Len(q)
      /\ DOMAIN c = 1 .. n + Len(q)
      /\ \A i \in DOMAIN p : EndOf(p, i) \in Nat
      /\ \A i \in DOMAIN q : EndOf(q, i) \in Nat
      /\ \A i \in DOMAIN c : EndOf(c, i) \in Nat
  BY <1>1, TranscriptIs
<1>3. PairedBut(p, <<>>)
  BY PairedIs
\* Callers keep their results, wherever they are.
<1>4. ASSUME NEW i \in Callers(p)
      PROVE  /\ i \in Callers(c) /\ EndOf(c, i) = EndOf(p, i) /\ EndOf(c, i) <= n
             /\ \A j \in i + 1 .. EndOf(c, i) : IsTool(c[j])
             /\ Given(c, i, EndOf(c, i)) = ToSet(c[i].calls)
  <2>1. i \in DOMAIN p /\ i \in DOMAIN c /\ c[i] = p[i]
    BY <1>1, <1>2 DEF Callers
  <2>2. EndOf(p, i) <= n
    BY <1>2, <1>3 DEF PairedBut
  <2>3. \A j \in i + 1 .. EndOf(p, i) : j \in DOMAIN p /\ c[j] = p[j]
    BY <1>1, <1>2, <2>1, <2>2
  <2>4. Given(c, i, EndOf(p, i)) = Given(p, i, EndOf(p, i))
    BY <2>3 DEF Given
  <2>5. \A j \in i + 1 .. EndOf(p, i) : IsTool(p[j])
    BY <1>2, <1>3, <2>3 DEF PairedBut
  <2>6. Given(p, i, EndOf(p, i)) = ToSet(p[i].calls)
    BY <1>3, <2>2 DEF PairedBut
  <2>7. i \in Callers(c) /\ EndOf(c, i) = EndOf(p, i)
    BY <2>1 DEF Callers, EndOf
  <2> QED BY <2>1, <2>2, <2>3, <2>4, <2>5, <2>6, <2>7
<1>5. ASSUME NEW k \in Callers(q), NEW i, i = k + n
      PROVE  /\ i \in Callers(c) /\ EndOf(c, i) = EndOf(q, k) + n /\ EndOf(c, i) <= n + Len(q)
             /\ \A j \in i + 1 .. EndOf(c, i) : IsTool(c[j])
             /\ Given(c, i, EndOf(c, i)) = ToSet(c[i].calls)
  <2>1. k \in DOMAIN q /\ i \in DOMAIN c /\ c[i] = q[k]
    BY <1>1, <1>2, <1>5 DEF Callers
  <2>2. EndOf(q, k) <= Len(q)
    BY <1>2 DEF PairedBut
  <2>3. EndOf(c, i) = EndOf(q, k) + n /\ i \in Callers(c)
    <3>1. Len(q[k].calls) \in Nat
      BY <2>1, TranscriptIs
    <3> QED BY <1>2, <1>5, <2>1, <3>1 DEF Callers, EndOf
  <2>4. \A j \in k + 1 .. EndOf(q, k) : j \in DOMAIN q /\ c[j + n] = q[j]
    <3>1. k \in 1 .. Len(q) /\ EndOf(q, k) \in Nat
      BY <1>2, <2>1
    <3>2. \A j \in k + 1 .. EndOf(q, k) : j \in DOMAIN q
      BY <1>2, <2>2, <3>1
    <3> QED BY <1>1, <3>2
  <2>5. \A j \in i + 1 .. EndOf(c, i) : j - n \in k + 1 .. EndOf(q, k) /\ j = (j - n) + n
    BY <1>2, <1>5, <2>1, <2>3
  <2>6. \A j \in k + 1 .. EndOf(q, k) : j + n \in i + 1 .. EndOf(c, i)
    BY <1>2, <1>5, <2>1, <2>3
  <2>7. Given(c, i, EndOf(c, i)) = Given(q, k, EndOf(q, k))
    <3>1. \A x : x \in Given(c, i, EndOf(c, i)) => x \in Given(q, k, EndOf(q, k))
      BY <2>4, <2>5 DEF Given
    <3>2. \A x : x \in Given(q, k, EndOf(q, k)) => x \in Given(c, i, EndOf(c, i))
      BY <2>4, <2>6 DEF Given
    <3> QED BY <3>1, <3>2
  <2>8. \A j \in k + 1 .. EndOf(q, k) : IsTool(q[j])
    BY <1>2, <2>4 DEF PairedBut
  <2>9. Given(q, k, EndOf(q, k)) = ToSet(q[k].calls)
    BY <2>2 DEF PairedBut
  <2>10. \A j \in i + 1 .. EndOf(c, i) : IsTool(c[j])
    BY <2>4, <2>5, <2>8
  <2>11. EndOf(c, i) <= n + Len(q)
    BY <1>2, <1>5, <2>1, <2>2, <2>3
  <2> QED BY <2>1, <2>3, <2>7, <2>9, <2>10, <2>11
<1>6. ASSUME NEW i \in Callers(c)
      PROVE  i \in Callers(p) \/ (i - n \in Callers(q) /\ i = (i - n) + n)
  <2>1. i \in DOMAIN p \/ (i - n \in DOMAIN q /\ i = (i - n) + n)
    BY <1>2 DEF Callers
  <2> QED BY <1>1, <2>1 DEF Callers
<1>7. ASSUME NEW i \in Callers(c)
      PROVE  /\ EndOf(c, i) <= Len(c) /\ ~(EndOf(c, i) > Len(c))
             /\ EndOf(c, i) <= Len(c) + Len(<<>>)
             /\ \A j \in i + 1 .. EndOf(c, i) : IsTool(c[j])
             /\ Given(c, i, EndOf(c, i)) = ToSet(c[i].calls)
  <2>1. i \in DOMAIN c /\ EndOf(c, i) \in Nat /\ Len(<<>>) = 0
    BY <1>2 DEF Callers
  <2>2. /\ EndOf(c, i) <= n + Len(q)
        /\ \A j \in i + 1 .. EndOf(c, i) : IsTool(c[j])
        /\ Given(c, i, EndOf(c, i)) = ToSet(c[i].calls)
    <3>1. CASE i \in Callers(p)
      BY <1>2, <1>4, <2>1, <3>1
    <3>2. CASE i - n \in Callers(q) /\ i = (i - n) + n
      BY <1>5, <3>2
    <3> QED BY <1>6, <3>1, <3>2
  <2> QED BY <1>1, <1>2, <2>1, <2>2
<1>8. ASSUME NEW j \in DOMAIN c, IsTool(c[j])
      PROVE  \E i \in Callers(c) : i < j /\ j <= EndOf(c, i)
  <2>1. CASE j \in DOMAIN p
    <3>1. PICK i \in Callers(p) : i < j /\ j <= EndOf(p, i)
      BY <1>1, <1>3, <1>8, <2>1 DEF PairedBut
    <3> QED BY <1>4, <3>1
  <2>2. CASE j - n \in DOMAIN q /\ j = (j - n) + n
    <3>1. c[j] = q[j - n]
      BY <1>1, <2>2
    <3>2. PICK k \in Callers(q) : k < j - n /\ j - n <= EndOf(q, k)
      BY <1>8, <2>2, <3>1 DEF PairedBut
    <3>3. k \in DOMAIN q
      BY DEF Callers
    <3>4. k + n < j /\ j <= EndOf(q, k) + n
      BY <1>2, <2>2, <3>2, <3>3
    <3>5. k + n \in Callers(c) /\ EndOf(c, k + n) = EndOf(q, k) + n
      BY <1>5
    <3> QED BY <3>4, <3>5
  <2>3. j \in DOMAIN p \/ (j - n \in DOMAIN q /\ j = (j - n) + n)
    BY <1>2
  <2> QED BY <2>1, <2>2, <2>3
<1>9. PairedBut(c, <<>>)
  BY <1>7, <1>8 DEF PairedBut
<1>10. Paired(c)
  BY <1>1, <1>9, PairedIs
<1> QED BY <1>1, <1>10

LEMMA AppendJoins ==
    ASSUME NEW q, NEW m, Listed(q)
    PROVE  Append(q, m) = q \o <<m>>
<1> DEFINE S == ToSet(q) \cup {m}
<1>1. q \in Seq(S) /\ <<m>> \in Seq(S) /\ m \in S
  BY DEF Listed
<1> HIDE DEF S
<1>2. /\ Append(q, m) \in Seq(S) /\ Len(Append(q, m)) = Len(q) + 1
      /\ \A i \in 1 .. Len(q) + 1 : Append(q, m)[i] = IF i <= Len(q) THEN q[i] ELSE m
  BY <1>1, AppendProperties
<1>3. /\ q \o <<m>> \in Seq(S) /\ Len(q \o <<m>>) = Len(q) + 1
      /\ \A i \in 1 .. Len(q) + 1 : (q \o <<m>>)[i] = IF i <= Len(q) THEN q[i] ELSE m
  BY <1>1, ConcatProperties
<1> QED BY <1>2, <1>3, SeqEqual

\* What a transcript is when a message is put behind it.
LEMMA AppendedIs ==
    ASSUME NEW q, NEW m, NEW c, IsTranscript(q), IsMessage(m), c = Append(q, m)
    PROVE  /\ IsTranscript(c) /\ Len(c) = Len(q) + 1
           /\ \A i \in DOMAIN q : c[i] = q[i]
           /\ c[Len(q) + 1] = m
<1>1. c = q \o <<m>>
  BY AppendJoins DEF IsTranscript
<1> DEFINE p == <<m>>
<1>2. IsTranscript(p) /\ Len(p) = 1 /\ p[1] = m /\ DOMAIN p = {1}
  BY OneMessage
<1>7. c = q \o p
  BY <1>1
<1> HIDE DEF p
<1>3. IsTranscript(c) /\ Len(c) = Len(q) + Len(p)
  BY <1>7, <1>2, JoinedIs
<1>4. \A i \in DOMAIN q : c[i] = q[i]
  BY <1>7, <1>2, JoinedIs
<1>5. \A i \in DOMAIN p : c[i + Len(q)] = p[i]
  BY <1>7, <1>2, JoinedIs
<1>6. Len(q) \in Nat
  BY TranscriptIs
<1> QED BY <1>2, <1>3, <1>4, <1>5, <1>6

\* A message that calls nothing and is no result.
Plain(m) == IsMessage(m) /\ ~IsTool(m) /\ ~HasCalls(m)

LEMMA PlainPaired ==
    ASSUME NEW m, Plain(m)
    PROVE  IsTranscript(<<m>>) /\ PairedBut(<<m>>, <<>>)
<1> DEFINE p == <<m>>
<1>1. IsTranscript(p) /\ p[1] = m /\ DOMAIN p = {1}
  BY OneMessage DEF Plain
<1> HIDE DEF p
<1>2. Callers(p) = {} /\ \A j \in DOMAIN p : ~IsTool(p[j])
  BY <1>1 DEF Callers, Plain
<1>3. PairedBut(p, <<>>)
  BY <1>2 DEF PairedBut
<1> QED BY <1>1, <1>3 DEF p

\* Plain messages behind a paired transcript.
LEMMA AppendPaired ==
    ASSUME NEW q, NEW m, NEW c, IsTranscript(q), Paired(q), Plain(m), c = Append(q, m)
    PROVE  IsTranscript(c) /\ Paired(c)
<1>1. IsTranscript(<<m>>) /\ PairedBut(<<m>>, <<>>) /\ c = q \o <<m>>
  BY PlainPaired, AppendJoins DEF IsTranscript
<1> QED BY <1>1, JoinedPaired

\* A message with calls: all of them are open.
LEMMA CallsOpen ==
    ASSUME NEW q, NEW m, NEW c, NEW open, IsTranscript(q), Paired(q), IsMessage(m),
           m.role = "assistant", c = Append(q, m),
           DOMAIN open = DOMAIN m.calls, Listed(open), Missing(open) = ToSet(m.calls)
    PROVE  IsTranscript(c) /\ PairedBut(c, open)
<1> DEFINE n == Len(q)
           k == Len(m.calls)
<1>1. /\ IsTranscript(c) /\ Len(c) = n + 1 /\ c[n + 1] = m
      /\ \A i \in DOMAIN q : c[i] = q[i]
  <2>1. IsTranscript(c) /\ Len(c) = Len(q) + 1
    BY AppendedIs
  <2>2. \A i \in DOMAIN q : c[i] = q[i]
    BY AppendedIs
  <2>3. c[Len(q) + 1] = m
    BY AppendedIs
  <2> QED BY <2>1, <2>2, <2>3
<1>2. /\ n \in Nat /\ DOMAIN q = 1 .. n /\ DOMAIN c = 1 .. n + 1 /\ k \in Nat
      /\ DOMAIN m.calls = 1 .. k /\ Len(open) = k /\ (open # <<>> => m.calls # <<>>)
      /\ \A i \in DOMAIN q : EndOf(q, i) \in Nat /\ EndOf(q, i) = EndOf(c, i)
      /\ EndOf(c, n + 1) = n + 1 + k /\ ~IsTool(m)
  <2>1. n \in Nat /\ DOMAIN q = 1 .. n /\ \A i \in DOMAIN q : EndOf(q, i) \in Nat
    BY TranscriptIs
  <2>2. DOMAIN c = 1 .. n + 1
    BY <1>1, TranscriptIs
  <2>3. k \in Nat /\ DOMAIN m.calls = 1 .. k
    BY DEF IsMessage, Listed
  <2>4. Len(open) = k
    <3>1. Len(open) \in Nat /\ DOMAIN open = 1 .. Len(open)
      BY DEF Listed
    <3>2. (1 .. Len(open)) = (1 .. k)
      BY <2>3, <3>1
    <3> QED BY <2>3, <3>1, <3>2
  <2>5. open # <<>> => m.calls # <<>>
    <3>1. ASSUME m.calls = <<>> PROVE open = <<>>
      <4>1. DOMAIN m.calls = {}
        BY <3>1
      <4> QED BY <4>1 DEF Listed
    <3> QED BY <3>1
  <2>6. \A i \in DOMAIN q : EndOf(q, i) = EndOf(c, i)
    BY <1>1 DEF EndOf
  <2>7. EndOf(c, n + 1) = n + 1 + k /\ ~IsTool(m)
    BY <1>1 DEF EndOf, IsTool
  <2> QED BY <2>1, <2>2, <2>3, <2>4, <2>5, <2>6, <2>7
<1>3. PairedBut(q, <<>>) /\ Len(<<>>) = 0
  BY PairedIs
<1>4. ASSUME NEW i \in Callers(q)
      PROVE  /\ i \in Callers(c) /\ EndOf(c, i) = EndOf(q, i) /\ EndOf(c, i) <= n
             /\ \A j \in i + 1 .. EndOf(c, i) : IsTool(c[j])
             /\ Given(c, i, EndOf(c, i)) = ToSet(c[i].calls)
  <2>1. i \in DOMAIN q /\ i \in DOMAIN c /\ c[i] = q[i]
    BY <1>1, <1>2 DEF Callers
  <2>2. EndOf(q, i) <= n
    BY <1>2, <1>3, <2>1 DEF PairedBut
  <2>3. \A j \in i + 1 .. EndOf(q, i) : j \in DOMAIN q /\ c[j] = q[j]
    BY <1>1, <1>2, <2>1, <2>2
  <2>4. Given(c, i, EndOf(q, i)) = Given(q, i, EndOf(q, i))
    BY <2>3 DEF Given
  <2>5. \A j \in i + 1 .. EndOf(q, i) : IsTool(q[j])
    BY <1>2, <1>3, <2>3 DEF PairedBut
  <2>6. Given(q, i, EndOf(q, i)) = ToSet(q[i].calls)
    BY <1>3, <2>2 DEF PairedBut
  <2>7. i \in Callers(c) /\ EndOf(c, i) = EndOf(q, i)
    BY <2>1 DEF Callers, EndOf
  <2> QED BY <2>1, <2>2, <2>3, <2>4, <2>5, <2>6, <2>7
<1>5. Callers(c) \subseteq Callers(q) \cup {n + 1}
  BY <1>1, <1>2 DEF Callers
<1>6. Given(c, n + 1, n + 1) = {}
  BY <1>2 DEF Given
<1>7. m.calls = <<>> => ToSet(m.calls) = {} /\ k = 0
  BY DEF ToSet
<1>11. n \in Nat /\ k \in Nat /\ Len(c) = n + 1 /\ Len(open) = k /\ EndOf(c, n + 1) = n + 1 + k
  BY <1>1, <1>2
<1> HIDE DEF n, k
<1>8. ASSUME NEW i \in Callers(c)
      PROVE  /\ EndOf(c, i) <= Len(c) + Len(open)
             /\ \A j \in i + 1 .. EndOf(c, i) : j <= Len(c) => IsTool(c[j])
             /\ EndOf(c, i) <= Len(c) => Given(c, i, EndOf(c, i)) = ToSet(c[i].calls)
             /\ EndOf(c, i) > Len(c) =>
                  /\ EndOf(c, i) = Len(c) + Len(open)
                  /\ Given(c, i, Len(c)) \cup Missing(open) = ToSet(c[i].calls)
  <2>1. CASE i \in Callers(q)
    <3>1. EndOf(c, i) \in Nat
      BY <1>2, <2>1 DEF Callers
    <3>2. EndOf(c, i) <= n
      BY <1>4, <2>1
    <3>3. EndOf(c, i) <= Len(c) + Len(open) /\ ~(EndOf(c, i) > Len(c))
      BY <1>11, <3>1, <3>2
    <3> QED BY <1>4, <2>1, <3>3
  <2>2. CASE i = n + 1
    <3>1. EndOf(c, i) = Len(c) + Len(open)
      BY <1>1, <1>2, <2>2
    <3>2. \A j \in i + 1 .. EndOf(c, i) : ~(j <= Len(c))
      BY <1>1, <1>2, <2>2
    <3>3. Given(c, i, Len(c)) \cup Missing(open) = ToSet(c[i].calls)
      BY <1>1, <1>6, <2>2
    <3>4. EndOf(c, i) <= Len(c) => Given(c, i, EndOf(c, i)) = ToSet(c[i].calls)
      <4>1. HasCalls(m)
        BY <1>1, <2>2 DEF Callers
      <4>2. ASSUME k = 0 PROVE m.calls = <<>>
        BY <1>2, <4>2, EmptySeq DEF IsMessage, Listed, k
      <4>3. k # 0
        BY <4>1, <4>2 DEF HasCalls
      <4>4. ~(EndOf(c, i) <= Len(c))
        BY <1>11, <2>2, <4>3
      <4> QED BY <4>4
    <3>5. EndOf(c, i) <= Len(c) + Len(open)
      BY <1>11, <3>1
    <3> QED BY <3>1, <3>2, <3>3, <3>4, <3>5
  <2> QED BY <1>5, <2>1, <2>2
<1>9. ASSUME NEW j \in DOMAIN c, IsTool(c[j])
      PROVE  \E i \in Callers(c) : i < j /\ j <= EndOf(c, i)
  <2>1. j \in DOMAIN q /\ c[j] = q[j]
    BY <1>1, <1>2, <1>9
  <2>2. PICK i \in Callers(q) : i < j /\ j <= EndOf(q, i)
    BY <1>3, <1>9, <2>1 DEF PairedBut
  <2> QED BY <1>4, <2>2
<1>10. ASSUME open # <<>> PROVE \E i \in Callers(c) : EndOf(c, i) = Len(c) + Len(open)
  <2>1. n + 1 \in Callers(c)
    BY <1>1, <1>2, <1>10 DEF Callers, HasCalls
  <2>2. EndOf(c, n + 1) = Len(c) + Len(open)
    BY <1>1, <1>2
  <2> QED BY <2>1, <2>2
<1> QED BY <1>1, <1>8, <1>9, <1>10 DEF PairedBut

LEMMA RemovedIs ==
    ASSUME NEW open, NEW rest, NEW i \in DOMAIN open, Listed(open), rest = RemoveAt(open, i)
    PROVE  /\ Listed(rest) /\ Len(open) \in Nat /\ Len(rest) \in Nat /\ Len(open) = Len(rest) + 1
           /\ Missing(open) = Missing(rest) \cup {open[i][2]}
<1> DEFINE S == ToSet(open)
           N == Len(open)
           a == SubSeq(open, 1, i - 1)
           b == SubSeq(open, i + 1, N)
<1>1. open \in Seq(S) /\ N \in Nat /\ i \in 1 .. N /\ DOMAIN open = 1 .. N
  BY DEF Listed
<1> HIDE DEF S
<1>2. \A j \in 1 .. N : open[j] \in S
  BY <1>1, ElementOfSeq
<1>3. /\ a \in Seq(S) /\ Len(a) = i - 1 /\ \A j \in 1 .. i - 1 : a[j] = open[j]
  <2>1. \A j \in 1 .. i - 1 : open[j] \in S
    BY <1>1, <1>2
  <2>2. /\ SubSeq(open, 1, i - 1) \in Seq(S)
        /\ Len(SubSeq(open, 1, i - 1)) = IF 1 <= i - 1 THEN (i - 1) - 1 + 1 ELSE 0
        /\ \A j \in 1 .. (i - 1) - 1 + 1 : SubSeq(open, 1, i - 1)[j] = open[1 + j - 1]
    BY <1>1, <2>1, SubSeqProperties
  <2> QED BY <1>1, <2>2
<1>4. /\ b \in Seq(S) /\ Len(b) = N - i /\ \A j \in 1 .. N - i : b[j] = open[i + j]
  <2>1. \A j \in i + 1 .. N : open[j] \in S
    BY <1>1, <1>2
  <2>2. /\ SubSeq(open, i + 1, N) \in Seq(S)
        /\ Len(SubSeq(open, i + 1, N)) = IF i + 1 <= N THEN N - (i + 1) + 1 ELSE 0
        /\ \A j \in 1 .. N - (i + 1) + 1 : SubSeq(open, i + 1, N)[j] = open[(i + 1) + j - 1]
    BY <1>1, <2>1, SubSeqProperties
  <2>3. N - (i + 1) + 1 = N - i /\ \A j \in 1 .. N - i : (i + 1) + j - 1 = i + j
    BY <1>1
  <2> QED BY <1>1, <2>2, <2>3
<1>5. rest = a \o b
  BY DEF RemoveAt
<1> HIDE DEF a, b
<1>6. /\ rest \in Seq(S) /\ Len(rest) = Len(a) + Len(b)
      /\ \A j \in 1 .. Len(a) + Len(b) : rest[j] = IF j <= Len(a) THEN a[j] ELSE b[j - Len(a)]
  BY <1>3, <1>4, <1>5, ConcatProperties
<1>7. Len(rest) = N - 1 /\ DOMAIN rest = 1 .. N - 1
  BY <1>1, <1>3, <1>4, <1>6
<1>8. \A j \in 1 .. N - 1 : rest[j] = IF j < i THEN open[j] ELSE open[j + 1]
  <2> TAKE j \in 1 .. N - 1
  <2>1. CASE j < i
    BY <1>1, <1>3, <1>4, <1>6, <2>1
  <2>2. CASE ~(j < i)
    <3>1. rest[j] = b[j - (i - 1)] /\ j - (i - 1) \in 1 .. N - i /\ i + (j - (i - 1)) = j + 1
      BY <1>1, <1>3, <1>4, <1>6, <2>2
    <3> QED BY <1>4, <2>2, <3>1
  <2> QED BY <2>1, <2>2
<1>9. Missing(open) = Missing(rest) \cup {open[i][2]}
  <2>1. ASSUME NEW j \in 1 .. N, j # i PROVE \E l \in 1 .. N - 1 : rest[l] = open[j]
    <3>1. CASE j < i
      BY <1>1, <1>8, <3>1
    <3>2. CASE ~(j < i)
      <4>1. j - 1 \in 1 .. N - 1 /\ ~(j - 1 < i) /\ (j - 1) + 1 = j
        BY <1>1, <2>1, <3>2
      <4>2. rest[j - 1] = open[(j - 1) + 1]
        BY <1>8, <4>1
      <4> QED BY <4>1, <4>2
    <3> QED BY <3>1, <3>2
  <2>2. ASSUME NEW l \in 1 .. N - 1 PROVE \E j \in 1 .. N : open[j] = rest[l]
    <3>1. l \in 1 .. N /\ l + 1 \in 1 .. N
      BY <1>1
    <3> QED BY <1>8, <3>1
  <2>3. ASSUME NEW x \in Missing(open) PROVE x \in Missing(rest) \cup {open[i][2]}
    <3>1. PICK j \in 1 .. N : x = open[j][2]
      BY <1>1 DEF Missing
    <3>2. CASE j = i
      BY <3>1, <3>2
    <3>3. CASE j # i
      <4>1. PICK l \in 1 .. N - 1 : rest[l] = open[j]
        BY <2>1, <3>3
      <4>2. x = rest[l][2] /\ l \in DOMAIN rest
        BY <1>7, <3>1, <4>1
      <4> QED BY <4>2 DEF Missing
    <3> QED BY <3>2, <3>3
  <2>4. \A x \in Missing(rest) : x \in Missing(open)
    BY <1>1, <1>7, <2>2 DEF Missing
  <2>5. open[i][2] \in Missing(open)
    BY DEF Missing
  <2> QED BY <2>3, <2>4, <2>5
<1>10. Listed(rest)
  BY <1>6, ListedIs
<1> QED BY <1>1, <1>7, <1>9, <1>10

\* A result for one of the open calls.
LEMMA ResultTaken ==
    ASSUME NEW q, NEW open, NEW l \in DOMAIN open, NEW m, NEW c, NEW rest,
           IsTranscript(q), PairedBut(q, open), Listed(open), IsMessage(m), IsTool(m),
           m.call = open[l][2], c = Append(q, m), rest = RemoveAt(open, l)
    PROVE  IsTranscript(c) /\ Listed(rest) /\ PairedBut(c, rest)
<1> DEFINE n == Len(q)
           k == Len(rest)
<1>1. /\ IsTranscript(c) /\ Len(c) = n + 1 /\ c[n + 1] = m
      /\ \A i \in DOMAIN q : c[i] = q[i]
  <2>1. IsTranscript(c) /\ Len(c) = Len(q) + 1
    BY AppendedIs
  <2>2. \A i \in DOMAIN q : c[i] = q[i]
    BY AppendedIs
  <2>3. c[Len(q) + 1] = m
    BY AppendedIs
  <2> QED BY <2>1, <2>2, <2>3
<1>2. Listed(rest) /\ k \in Nat /\ Len(open) = k + 1 /\ Missing(open) = Missing(rest) \cup {m.call}
  BY RemovedIs
<1>3. /\ n \in Nat /\ DOMAIN q = 1 .. n /\ DOMAIN c = 1 .. n + 1
      /\ \A i \in DOMAIN q : EndOf(q, i) \in Nat
  BY <1>1, TranscriptIs
<1>4. Callers(c) = Callers(q) /\ \A i \in Callers(q) : EndOf(c, i) = EndOf(q, i) /\ i \in 1 .. n
  <2>1. ~HasCalls(m)
    BY DEF HasCalls, IsTool
  <2>2. \A i \in DOMAIN q : i \in DOMAIN c
    BY <1>3
  <2>3. \A i \in DOMAIN c : i \in DOMAIN q \/ i = n + 1
    BY <1>3
  <2>4. Callers(c) = Callers(q)
    BY <1>1, <2>1, <2>2, <2>3 DEF Callers
  <2> QED BY <1>1, <1>3, <2>4 DEF Callers, EndOf
<1>5. ASSUME NEW i \in Callers(q), NEW j \in Nat, j <= n
      PROVE  Given(c, i, j) = Given(q, i, j)
  <2>1. \A x \in i + 1 .. j : c[x] = q[x]
    BY <1>1, <1>3, <1>4, <1>5
  <2> QED BY <2>1 DEF Given
<1>6. ASSUME NEW i \in Callers(q) PROVE Given(c, i, n + 1) = Given(q, i, n) \cup {m.call}
  <2>1. i \in 1 .. n
    BY <1>4
  <2>2. \A x \in i + 1 .. n + 1 : x \in i + 1 .. n \/ x = n + 1
    BY <1>3, <2>1
  <2>3. n + 1 \in i + 1 .. n + 1 /\ \A x \in i + 1 .. n : x \in i + 1 .. n + 1
    BY <1>3, <2>1
  <2>4. Given(c, i, n + 1) = Given(c, i, n) \cup {m.call}
    BY <1>1, <2>2, <2>3 DEF Given
  <2>5. Given(c, i, n) = Given(q, i, n)
    BY <1>3, <1>5
  <2> QED BY <2>4, <2>5
<1>7. k = 0 => Missing(rest) = {}
  <2>1. k = 0 => DOMAIN rest = {}
    BY <1>2 DEF Listed
  <2> QED BY <2>1 DEF Missing
<1>8. PICK e \in Callers(q) : EndOf(q, e) = n + Len(open)
  <2>1. open # <<>>
    OBVIOUS
  <2> QED BY <2>1 DEF PairedBut
<1> HIDE DEF n, k
<1>9. ASSUME NEW i \in Callers(c)
      PROVE  /\ EndOf(c, i) <= Len(c) + k
             /\ \A j \in i + 1 .. EndOf(c, i) : j <= Len(c) => IsTool(c[j])
             /\ EndOf(c, i) <= Len(c) => Given(c, i, EndOf(c, i)) = ToSet(c[i].calls)
             /\ EndOf(c, i) > Len(c) =>
                  /\ EndOf(c, i) = Len(c) + k
                  /\ Given(c, i, Len(c)) \cup Missing(rest) = ToSet(c[i].calls)
  <2>1. /\ i \in Callers(q) /\ i \in 1 .. n /\ EndOf(c, i) = EndOf(q, i) /\ EndOf(q, i) \in Nat
        /\ c[i] = q[i]
    BY <1>1, <1>3, <1>4
  <2>2. /\ EndOf(q, i) <= n + (k + 1)
        /\ \A j \in i + 1 .. EndOf(q, i) : j <= n => IsTool(q[j])
        /\ EndOf(q, i) <= n => Given(q, i, EndOf(q, i)) = ToSet(q[i].calls)
        /\ EndOf(q, i) > n =>
             /\ EndOf(q, i) = n + (k + 1)
             /\ Given(q, i, n) \cup Missing(open) = ToSet(q[i].calls)
    BY <1>2, <2>1 DEF PairedBut, n
  <2>3. EndOf(c, i) <= Len(c) + k
    BY <1>1, <1>2, <1>3, <2>1, <2>2
  <2>4. \A j \in i + 1 .. EndOf(c, i) : j <= Len(c) => IsTool(c[j])
    <3> TAKE j \in i + 1 .. EndOf(c, i)
    <3>1. HAVE j <= Len(c)
    <3>2. CASE j = n + 1
      BY <1>1, <3>2
    <3>3. CASE j # n + 1
      <4>1. j \in DOMAIN q /\ j <= n
        BY <1>1, <1>3, <2>1, <3>1, <3>3
      <4>2. IsTool(q[j])
        BY <2>1, <2>2, <4>1
      <4> QED BY <1>1, <4>1, <4>2
    <3> QED BY <3>2, <3>3
  <2>5. CASE EndOf(q, i) <= n
    <3>1. Given(c, i, EndOf(q, i)) = ToSet(c[i].calls)
      BY <1>5, <2>1, <2>2, <2>5
    <3>2. ~(EndOf(c, i) > Len(c))
      BY <1>1, <1>3, <2>1, <2>5
    <3> QED BY <2>1, <2>3, <2>4, <3>1, <3>2
  <2>6. CASE ~(EndOf(q, i) <= n)
    <3>1. EndOf(q, i) = n + (k + 1) /\ Given(q, i, n) \cup Missing(open) = ToSet(q[i].calls)
      BY <1>3, <2>1, <2>2, <2>6
    <3>2. Given(c, i, n + 1) \cup Missing(rest) = ToSet(c[i].calls)
      BY <1>2, <1>6, <2>1, <3>1
    <3>3. EndOf(c, i) = Len(c) + k
      BY <1>1, <1>2, <1>3, <2>1, <3>1
    <3>4. EndOf(c, i) <= Len(c) => k = 0 /\ EndOf(c, i) = n + 1
      BY <1>1, <1>2, <1>3, <3>3
    <3> QED BY <1>1, <1>7, <2>3, <2>4, <3>2, <3>3, <3>4
  <2> QED BY <2>5, <2>6
<1>10. ASSUME NEW j \in DOMAIN c, IsTool(c[j])
       PROVE  \E i \in Callers(c) : i < j /\ j <= EndOf(c, i)
  <2>1. CASE j \in DOMAIN q
    <3>1. PICK i \in Callers(q) : i < j /\ j <= EndOf(q, i)
      BY <1>1, <1>10, <2>1 DEF PairedBut
    <3> QED BY <1>4, <3>1
  <2>2. CASE j = n + 1
    <3>1. e < j /\ j <= EndOf(q, e)
      BY <1>2, <1>3, <1>4, <1>8, <2>2
    <3> QED BY <1>4, <3>1
  <2> QED BY <1>3, <2>1, <2>2
<1>11. EndOf(c, e) = Len(c) + k /\ e \in Callers(c)
  BY <1>1, <1>2, <1>3, <1>4, <1>8
<1> QED BY <1>1, <1>2, <1>9, <1>10, <1>11 DEF PairedBut, k

\* What is made up for the open calls.
LEMMA SyntheticsAre ==
    ASSUME NEW open, NEW p, Listed(open), p = [l \in DOMAIN open |-> Synthetic(open[l][2])]
    PROVE  /\ IsTranscript(p) /\ DOMAIN p = DOMAIN open /\ Len(p) = Len(open)
           /\ \A l \in DOMAIN p : p[l].call = open[l][2] /\ IsTool(p[l]) /\ p[l].calls = <<>>
<1>1. Len(open) \in Nat /\ DOMAIN open = 1 .. Len(open)
  BY DEF Listed
<1>2. ASSUME NEW id, NEW m, m = Synthetic(id)
      PROVE  m.call = id /\ IsTool(m) /\ m.calls = <<>> /\ IsMessage(m)
  <2>1. m.call = id /\ m.role = "tool" /\ m.calls = <<>> /\ DOMAIN m = {"role", "tag", "calls", "call"}
    BY <1>2 DEF Synthetic, ToolMsg
  <2>2. Listed(m.calls) /\ DOMAIN m.calls = {}
    BY <2>1, EmptyTags
  <2> QED BY <2>1, <2>2 DEF IsMessage, IsTool
<1>3. DOMAIN p = 1 .. Len(open) /\ p = [l \in 1 .. Len(open) |-> p[l]]
  BY <1>1
<1>4. \A l \in DOMAIN open : p[l] = Synthetic(open[l][2])
  OBVIOUS
<1>5. \A l \in DOMAIN open :
        p[l].call = open[l][2] /\ IsTool(p[l]) /\ p[l].calls = <<>> /\ IsMessage(p[l])
  BY <1>2, <1>4
<1>6. Listed(p) /\ Len(p) = Len(open)
  BY <1>1, <1>3, MadeListed
<1> QED BY <1>1, <1>3, <1>5, <1>6 DEF IsTranscript

\* The results that are missing are made up.
LEMMA ClosedPaired ==
    ASSUME NEW q, NEW open, NEW p, NEW c, IsTranscript(q), PairedBut(q, open), Listed(open),
           IsTranscript(p), DOMAIN p = DOMAIN open, Len(p) = Len(open),
           \A l \in DOMAIN p : p[l].call = open[l][2] /\ IsTool(p[l]), c = q \o p
    PROVE  IsTranscript(c) /\ Paired(c)
<1> DEFINE n == Len(q)
           k == Len(open)
<1>1. k \in Nat /\ DOMAIN open = 1 .. k
  BY DEF Listed
<1>2. DOMAIN p = 1 .. k /\ \A l \in 1 .. k : p[l].call = open[l][2] /\ IsTool(p[l])
  BY <1>1
<1>4. Len(p) = k
  OBVIOUS
<1>6. /\ IsTranscript(c) /\ Len(c) = n + k
      /\ \A i \in DOMAIN q : c[i] = q[i]
      /\ \A l \in 1 .. k : c[l + n] = p[l]
  <2>1. IsTranscript(c) /\ Len(c) = Len(q) + Len(p)
    BY JoinedIs
  <2>2. \A i \in DOMAIN q : c[i] = q[i]
    BY JoinedIs
  <2>3. \A l \in DOMAIN p : c[l + Len(q)] = p[l]
    BY JoinedIs
  <2> QED BY <1>2, <1>4, <2>1, <2>2, <2>3
<1>7. /\ n \in Nat /\ DOMAIN q = 1 .. n /\ DOMAIN c = 1 .. n + k
      /\ \A i \in DOMAIN q : EndOf(q, i) \in Nat
  BY <1>6, TranscriptIs
<1>8. \A j \in n + 1 .. n + k : j - n \in 1 .. k /\ j = (j - n) + n
  BY <1>1, <1>7
<1>9. \A j \in n + 1 .. n + k : IsTool(c[j]) /\ c[j].call = open[j - n][2]
  BY <1>2, <1>6, <1>8
<1>10. Callers(c) = Callers(q) /\ \A i \in Callers(q) : EndOf(c, i) = EndOf(q, i) /\ i \in 1 .. n
  <2>1. \A j \in n + 1 .. n + k : ~HasCalls(c[j])
    BY <1>9 DEF HasCalls, IsTool
  <2>2. \A i \in DOMAIN q : i \in DOMAIN c
    BY <1>1, <1>7
  <2>3. \A i \in DOMAIN c : i \in DOMAIN q \/ i \in n + 1 .. n + k
    BY <1>1, <1>7
  <2>4. Callers(c) = Callers(q)
    BY <1>6, <2>1, <2>2, <2>3 DEF Callers
  <2> QED BY <1>6, <1>7, <2>4 DEF Callers, EndOf
<1>11. ASSUME NEW i \in Callers(q), NEW j \in Nat, j <= n
       PROVE  Given(c, i, j) = Given(q, i, j)
  <2>1. \A x \in i + 1 .. j : c[x] = q[x]
    BY <1>6, <1>7, <1>10, <1>11
  <2> QED BY <2>1 DEF Given
<1>12. ASSUME NEW i \in Callers(q) PROVE Given(c, i, n + k) = Given(q, i, n) \cup Missing(open)
  <2>1. i \in 1 .. n
    BY <1>10
  <2>2. \A x \in i + 1 .. n + k : x \in i + 1 .. n \/ x \in n + 1 .. n + k
    BY <1>1, <1>7, <2>1
  <2>3. \A x \in i + 1 .. n : x \in i + 1 .. n + k
    BY <1>1, <1>7, <2>1
  <2>4. \A x \in n + 1 .. n + k : x \in i + 1 .. n + k
    BY <1>1, <1>7, <2>1
  <2>5. \A l \in DOMAIN open : l + n \in n + 1 .. n + k /\ (l + n) - n = l
    BY <1>1, <1>7
  <2>6. Given(c, i, n + k) = Given(c, i, n) \cup {c[x].call : x \in n + 1 .. n + k}
    BY <2>2, <2>3, <2>4 DEF Given
  <2>7. {c[x].call : x \in n + 1 .. n + k} = Missing(open)
    <3>1. \A x \in n + 1 .. n + k : x - n \in DOMAIN open /\ c[x].call = open[x - n][2]
      BY <1>1, <1>8, <1>9
    <3>2. \A l \in DOMAIN open : c[l + n].call = open[l][2]
      <4> TAKE l \in DOMAIN open
      <4>1. l + n \in n + 1 .. n + k /\ (l + n) - n = l
        BY <2>5
      <4>2. c[l + n].call = open[(l + n) - n][2]
        BY <3>1, <4>1
      <4> QED BY <4>1, <4>2
    <3>3. ASSUME NEW x \in n + 1 .. n + k PROVE c[x].call \in Missing(open)
      BY <3>1 DEF Missing
    <3>4. ASSUME NEW y \in Missing(open) PROVE y \in {c[x].call : x \in n + 1 .. n + k}
      <4>1. PICK l \in DOMAIN open : y = open[l][2]
        BY DEF Missing
      <4>2. y = c[l + n].call /\ l + n \in n + 1 .. n + k
        BY <2>5, <3>2, <4>1
      <4> QED BY <4>2
    <3> QED BY <3>3, <3>4
  <2>8. Given(c, i, n) = Given(q, i, n)
    BY <1>7, <1>11
  <2> QED BY <2>6, <2>7, <2>8
<1>13. k # 0 => \E i \in Callers(q) : EndOf(q, i) = n + k
  <2>1. ASSUME open = <<>> PROVE k = 0
    BY <2>1
  <2> QED BY <2>1 DEF PairedBut
<1> HIDE DEF n, k
<1>14. ASSUME NEW i \in Callers(c)
       PROVE  /\ EndOf(c, i) <= Len(c)
              /\ \A j \in i + 1 .. EndOf(c, i) : IsTool(c[j])
              /\ Given(c, i, EndOf(c, i)) = ToSet(c[i].calls)
  <2>1. /\ i \in Callers(q) /\ i \in 1 .. n /\ EndOf(c, i) = EndOf(q, i) /\ EndOf(q, i) \in Nat
        /\ c[i] = q[i]
    BY <1>6, <1>7, <1>10
  <2>2. /\ EndOf(q, i) <= n + k
        /\ \A j \in i + 1 .. EndOf(q, i) : j <= n => IsTool(q[j])
        /\ EndOf(q, i) <= n => Given(q, i, EndOf(q, i)) = ToSet(q[i].calls)
        /\ EndOf(q, i) > n =>
             /\ EndOf(q, i) = n + k
             /\ Given(q, i, n) \cup Missing(open) = ToSet(q[i].calls)
    BY <2>1 DEF PairedBut, n, k
  <2>3. \A j \in i + 1 .. EndOf(c, i) : IsTool(c[j])
    <3> TAKE j \in i + 1 .. EndOf(c, i)
    <3>1. CASE j <= n
      <4>1. j \in DOMAIN q
        BY <1>7, <2>1, <3>1
      <4>2. IsTool(q[j])
        BY <2>1, <2>2, <3>1
      <4> QED BY <1>6, <4>1, <4>2
    <3>2. CASE ~(j <= n)
      <4>1. j \in n + 1 .. n + k
        BY <1>1, <1>7, <2>1, <2>2, <3>2
      <4> QED BY <1>9, <4>1
    <3> QED BY <3>1, <3>2
  <2>4. CASE EndOf(q, i) <= n
    <3>1. Given(c, i, EndOf(q, i)) = ToSet(c[i].calls)
      BY <1>11, <2>1, <2>2, <2>4
    <3> QED BY <1>6, <2>1, <2>2, <2>3, <3>1
  <2>5. CASE ~(EndOf(q, i) <= n)
    <3>1. EndOf(q, i) = n + k /\ Given(q, i, n) \cup Missing(open) = ToSet(q[i].calls)
      BY <1>7, <2>1, <2>2, <2>5
    <3> QED BY <1>6, <1>12, <2>1, <2>2, <2>3, <3>1
  <2> QED BY <2>4, <2>5
<1>15. ASSUME NEW j \in DOMAIN c, IsTool(c[j])
       PROVE  \E i \in Callers(c) : i < j /\ j <= EndOf(c, i)
  <2>1. CASE j \in DOMAIN q
    <3>1. PICK i \in Callers(q) : i < j /\ j <= EndOf(q, i)
      BY <1>6, <1>15, <2>1 DEF PairedBut
    <3> QED BY <1>10, <3>1
  <2>2. CASE j \in n + 1 .. n + k
    <3>1. PICK e \in Callers(q) : EndOf(q, e) = n + k
      BY <1>1, <1>7, <1>13, <2>2
    <3>2. e < j /\ j <= EndOf(q, e)
      BY <1>1, <1>7, <1>10, <2>2, <3>1
    <3> QED BY <1>10, <3>2
  <2> QED BY <1>1, <1>7, <2>1, <2>2
<1>16. PairedBut(c, <<>>)
  <2>1. \A i \in Callers(c) : EndOf(c, i) <= Len(c) + Len(<<>>) /\ ~(EndOf(c, i) > Len(c))
    <3> TAKE i \in Callers(c)
    <3>1. EndOf(c, i) <= Len(c) /\ EndOf(c, i) \in Nat /\ Len(c) \in Nat /\ Len(<<>>) = 0
      BY <1>1, <1>6, <1>7, <1>10, <1>14
    <3> QED BY <3>1
  <2> QED BY <1>14, <1>15, <2>1 DEF PairedBut
<1>17. Paired(c)
  BY <1>6, <1>16, PairedIs
<1> QED BY <1>6, <1>17
-----------------------------------------------------------------------------
(* Ids of calls. *)

\* Appending one more index to an id.
LEMMA SuffixedIs ==
    ASSUME NEW id, NEW x, NEW new, Listed(id), new = Append(id, x)
    PROVE  Listed(new) /\ new # <<>> /\ Last(new) = x
<1> DEFINE S == ToSet(id) \cup {x}
<1>1. id \in Seq(S) /\ x \in S
  BY DEF Listed
<1> HIDE DEF S
<1>2. /\ new \in Seq(S) /\ Len(new) = Len(id) + 1 /\ new[Len(id) + 1] = x /\ Len(id) \in Nat
  BY <1>1, AppendProperties
<1>3. new # <<>>
  BY <1>2
<1>4. Last(new) = x
  BY <1>2 DEF Last
<1> QED BY <1>2, <1>3, <1>4, ListedIs

Differ(ids) == \A k, l \in DOMAIN ids : ids[k] = ids[l] => k = l
OwnPlaces(ids) == \A k, l \in DOMAIN ids : k # l => Last(ids[k]) # l - 1

\* The renamed ids of a message differ, and end in no other position.
LEMMA RenamedIds ==
    ASSUME NEW seen, NEW m, NEW new, IsMessage(m), new = Renamed(seen, m.calls)
    PROVE  /\ Listed(new) /\ DOMAIN new = DOMAIN m.calls
           /\ \A k \in DOMAIN new : Listed(new[k]) /\ new[k] # <<>>
           /\ OwnPlaces(new) /\ Differ(new)
<1> DEFINE D == DOMAIN m.calls
           c == m.calls
<1>1. PICK N \in Nat : D = 1 .. N
  BY DEF IsMessage, Listed
<1>2. /\ DOMAIN new = D /\ new = [k \in D |-> new[k]]
      /\ \A k \in D : new[k] = IF c[k] \in seen \cup {new[l] : l \in 1 .. k - 1}
                               THEN Append(c[k], k - 1) ELSE c[k]
  <2>1. Listed(m.calls)
    BY DEF IsMessage
  <2> QED BY <2>1, RenamedIs
<1>3. Listed(new)
  BY <1>1, <1>2, MadeListed
<1>4. /\ \A k \in D : Listed(c[k]) /\ c[k] # <<>>
      /\ \A k, l \in D : k # l => Last(c[k]) # l - 1
  BY DEF IsMessage
<1>5. ASSUME NEW k \in D
      PROVE  \/ new[k] = c[k] /\ \A l \in 1 .. k - 1 : new[l] # c[k]
             \/ Listed(new[k]) /\ new[k] # <<>> /\ Last(new[k]) = k - 1
  <2>1. CASE c[k] \in seen \cup {new[l] : l \in 1 .. k - 1}
    <3>1. new[k] = Append(c[k], k - 1)
      BY <1>2, <2>1
    <3> QED BY <1>4, <3>1, SuffixedIs
  <2>2. CASE c[k] \notin seen \cup {new[l] : l \in 1 .. k - 1}
    BY <1>2, <2>2
  <2> QED BY <2>1, <2>2
<1>6. \A k \in D : Listed(new[k]) /\ new[k] # <<>>
  BY <1>4, <1>5
<1>7. \A k, l \in D : k # l => Last(new[k]) # l - 1
  <2> SUFFICES ASSUME NEW k \in D, NEW l \in D, k # l PROVE Last(new[k]) # l - 1
    OBVIOUS
  <2>1. k - 1 # l - 1
    BY <1>1
  <2> QED BY <1>4, <1>5, <2>1
<1>8. ASSUME NEW k \in D, NEW l \in D, k < l PROVE new[k] # new[l]
  <2>1. CASE new[l] = c[l] /\ \A i \in 1 .. l - 1 : new[i] # c[l]
    <3>1. k \in 1 .. l - 1
      BY <1>1, <1>8
    <3> QED BY <2>1, <3>1
  <2>2. CASE Last(new[l]) = l - 1
    <3>1. k # l
      BY <1>1, <1>8
    <3> QED BY <1>7, <2>2, <3>1
  <2> QED BY <1>5, <2>1, <2>2
<1>9. \A k, l \in D : new[k] = new[l] => k = l
  <2> SUFFICES ASSUME NEW k \in D, NEW l \in D, k # l PROVE new[k] # new[l]
    OBVIOUS
  <2>1. k < l \/ l < k
    BY <1>1
  <2> QED BY <1>8, <2>1
<1> QED BY <1>2, <1>3, <1>6, <1>7, <1>9 DEF OwnPlaces, Differ

\* A message whose calls are renamed.
LEMMA RenamedMessage ==
    ASSUME NEW seen, NEW m, NEW new, NEW x, IsMessage(m), HasCalls(m),
           new = Renamed(seen, m.calls), x = [m EXCEPT !.calls = new]
    PROVE  IsMessage(x) /\ x.role = m.role /\ x.tag = m.tag /\ x.calls = new
<1>1. /\ DOMAIN x = {"role", "tag", "calls", "call"} /\ x.role = m.role /\ x.tag = m.tag
      /\ x.calls = new
  BY DEF IsMessage
<1>2. Listed(new) /\ DOMAIN new = DOMAIN m.calls
  BY RenamedIds
<1>3. \A k \in DOMAIN new : Listed(new[k]) /\ new[k] # <<>>
  BY RenamedIds
<1>4. OwnPlaces(new)
  BY RenamedIds
<1>5. x.role = "assistant"
  BY <1>1 DEF HasCalls
<1> QED BY <1>1, <1>2, <1>3, <1>4, <1>5 DEF IsMessage, OwnPlaces

\* The calls of the messages of a transcript differ if those of its parts do.
LEMMA JoinedDistinct ==
    ASSUME NEW p, NEW q, NEW c, IsTranscript(p), IsTranscript(q), c = p \o q,
           DistinctCalls(p), DistinctCalls(q)
    PROVE  DistinctCalls(c)
<1>1. Len(c) = Len(p) + Len(q) /\ IsTranscript(c)
  BY JoinedIs
<1>2. \A i \in DOMAIN p : c[i] = p[i]
  BY JoinedIs
<1>3. \A i \in DOMAIN q : c[i + Len(p)] = q[i]
  BY JoinedIs
<1>4. /\ DOMAIN c = 1 .. Len(p) + Len(q) /\ DOMAIN p = 1 .. Len(p) /\ DOMAIN q = 1 .. Len(q)
      /\ Len(p) \in Nat /\ Len(q) \in Nat
  BY <1>1, TranscriptIs
<1>5. \A i \in DOMAIN c : i \in DOMAIN p \/ (i - Len(p) \in DOMAIN q /\ i = (i - Len(p)) + Len(p))
  BY <1>4
<1>6. \A i \in DOMAIN c : (\E j \in DOMAIN p : c[i] = p[j]) \/ (\E j \in DOMAIN q : c[i] = q[j])
  BY <1>2, <1>3, <1>5
<1> QED BY <1>6 DEF DistinctCalls

LEMMA AppendDistinct ==
    ASSUME NEW q, NEW m, NEW c, IsTranscript(q), IsMessage(m), c = Append(q, m), DistinctCalls(q),
           Differ(m.calls)
    PROVE  DistinctCalls(c)
<1>1. Len(c) = Len(q) + 1 /\ IsTranscript(c)
  BY AppendedIs
<1>2. \A i \in DOMAIN q : c[i] = q[i]
  BY AppendedIs
<1>3. c[Len(q) + 1] = m
  BY AppendedIs
<1>4. /\ DOMAIN c = 1 .. Len(q) + 1 /\ DOMAIN q = 1 .. Len(q) /\ Len(q) \in Nat
  BY <1>1, TranscriptIs
<1>5. \A i \in DOMAIN c : i \in DOMAIN q \/ i = Len(q) + 1
  BY <1>4
<1>6. \A i \in DOMAIN c : (\E j \in DOMAIN q : c[i] = q[j]) \/ c[i] = m
  BY <1>2, <1>3, <1>5
<1> QED BY <1>6 DEF DistinctCalls, Differ

\* The tags of what was joined or appended.
LEMMA AppendedTag ==
    ASSUME NEW q, NEW m, NEW c, IsTranscript(q), IsMessage(m), c = Append(q, m)
    PROVE  TagsOf(q) \subseteq TagsOf(c) /\ m.tag \in TagsOf(c) \cup {<<>>}
<1>1. TagsOf(q) \subseteq TagsOf(c)
  BY AppendTags DEF IsTranscript
<1>2. Len(c) = Len(q) + 1 /\ IsTranscript(c)
  BY AppendedIs
<1>3. c[Len(q) + 1] = m
  BY AppendedIs
<1>4. Len(q) + 1 \in DOMAIN c
  BY <1>2, TranscriptIs
<1> QED BY <1>1, <1>3, <1>4 DEF TagsOf
-----------------------------------------------------------------------------
(* The repair of a history, from one message to the next. *)

PassFields == {"out", "open", "seen", "dropped"}

\* The state of the repair after the first i messages.
PassOK(st, msgs, i) ==
    /\ DOMAIN st = PassFields
    /\ IsTranscript(st.out) /\ Listed(st.open)
    /\ PairedBut(st.out, st.open) /\ DistinctCalls(st.out)
    /\ \A j \in 1 .. i : ~IsTool(msgs[j]) => msgs[j].tag \in TagsOf(st.out) \cup {<<>>}

\* The same when the last call has all its results.
PassClosed(st, msgs, i) == PassOK(st, msgs, i) /\ st.open = <<>> /\ Paired(st.out)

LEMMA CloseOK ==
    ASSUME NEW st, NEW msgs, NEW i, PassOK(st, msgs, i)
    PROVE  PassClosed(Close(st), msgs, i)
<1> DEFINE x == Close(st)
           p == [l \in DOMAIN st.open |-> Synthetic(st.open[l][2])]
<1>1. DOMAIN x = PassFields /\ x.out = st.out \o p /\ x.open = <<>>
  BY DEF Close, PassOK, PassFields
<1>2. /\ IsTranscript(p) /\ DOMAIN p = DOMAIN st.open /\ Len(p) = Len(st.open)
      /\ \A l \in DOMAIN p : p[l].call = st.open[l][2] /\ IsTool(p[l]) /\ p[l].calls = <<>>
  BY SyntheticsAre DEF PassOK
<1> HIDE DEF p, x
<1>3. IsTranscript(x.out) /\ Paired(x.out)
  BY <1>1, <1>2, ClosedPaired DEF PassOK
<1>4. DistinctCalls(p)
  BY <1>2 DEF DistinctCalls
<1>5. DistinctCalls(x.out)
  BY <1>1, <1>2, <1>4, JoinedDistinct DEF PassOK
<1>6. TagsOf(x.out) = TagsOf(st.out) \cup TagsOf(p)
  BY <1>1, <1>2, ConcatTags DEF IsTranscript, PassOK
<1>7. \A j \in 1 .. i : ~IsTool(msgs[j]) => msgs[j].tag \in TagsOf(x.out) \cup {<<>>}
  BY <1>6 DEF PassOK
<1>8. Listed(x.open) /\ PairedBut(x.out, x.open)
  BY <1>1, <1>3, EmptyTags, PairedIs
<1> QED BY <1>1, <1>3, <1>5, <1>7, <1>8 DEF PassOK, PassClosed, x

\* A message that is a result.
LEMMA TakeResultOK ==
    ASSUME NEW st, NEW msgs, NEW i \in Nat, PassOK(st, msgs, i),
           IsMessage(msgs[i + 1]), IsTool(msgs[i + 1])
    PROVE  PassOK(TakeResult(st, msgs[i + 1]), msgs, i + 1)
<1> DEFINE m == msgs[i + 1]
           l == SelectInSeq(st.open, LAMBDA p : p[1] = m.call)
           x == TakeResult(st, m)
<1>1. CASE l = 0
  <2>1. DOMAIN x = PassFields /\ x.out = st.out /\ x.open = st.open
    BY <1>1 DEF TakeResult, PassOK, PassFields
  <2> HIDE DEF x
  <2>2. \A j \in 1 .. i + 1 : j \in 1 .. i \/ j = i + 1
    OBVIOUS
  <2>3. \A j \in 1 .. i + 1 : ~IsTool(msgs[j]) => msgs[j].tag \in TagsOf(x.out) \cup {<<>>}
    BY <2>1, <2>2 DEF PassOK
  <2> QED BY <2>1, <2>3 DEF PassOK, x
<1>2. CASE l # 0
  <2> DEFINE I == {k \in 1 .. Len(st.open) : st.open[k][1] = m.call}
  <2>1. l = IF I # {} THEN Min(I) ELSE 0
    BY DEF SelectInSeq
  <2>2. I # {}
    BY <1>2, <2>1
  <2>3. \E k \in I : \A y \in I : k <= y
    <3>1. Len(st.open) \in Nat
      BY DEF PassOK, Listed
    <3>2. I \in SUBSET Nat
      BY <3>1
    <3> QED BY <2>2, <3>2, LeastNumber
  <2>4. l \in I
    BY <2>1, <2>2, <2>3 DEF Min
  <2>5. l \in DOMAIN st.open
    BY <2>4 DEF PassOK, Listed
  <2> DEFINE new == [m EXCEPT !.call = st.open[l][2]]
             rest == RemoveAt(st.open, l)
  <2> HIDE DEF l, I
  <2>6. DOMAIN x = PassFields /\ x.out = Append(st.out, new) /\ x.open = rest
    BY <1>2 DEF TakeResult, PassOK, PassFields, l
  <2>7. /\ DOMAIN new = {"role", "tag", "calls", "call"} /\ new.calls = m.calls
        /\ new.role = m.role /\ new.call = st.open[l][2]
    BY DEF IsMessage
  <2>8. IsMessage(new) /\ IsTool(new)
    BY <2>7 DEF IsMessage, IsTool
  <2> HIDE DEF new, rest, x
  <2>9. IsTranscript(x.out) /\ Listed(rest) /\ PairedBut(x.out, rest)
    <3>1. IsTranscript(st.out) /\ Listed(st.open) /\ PairedBut(st.out, st.open)
      BY DEF PassOK
    <3>2. rest = RemoveAt(st.open, l)
      BY DEF rest
    <3> QED BY <2>5, <2>6, <2>7, <2>8, <3>1, <3>2, ResultTaken
  <2>10. new.calls = <<>>
    BY <2>7, <2>8 DEF IsMessage, IsTool
  <2>11. DistinctCalls(x.out)
    <3>1. Differ(new.calls)
      BY <2>10 DEF Differ
    <3>2. IsTranscript(st.out) /\ DistinctCalls(st.out)
      BY DEF PassOK
    <3> QED BY <2>6, <2>8, <3>1, <3>2, AppendDistinct
  <2>12. TagsOf(st.out) \subseteq TagsOf(x.out)
    BY <2>6, <2>8, AppendedTag DEF PassOK
  <2>13. \A j \in 1 .. i + 1 : j \in 1 .. i \/ j = i + 1
    OBVIOUS
  <2>14. \A j \in 1 .. i + 1 : ~IsTool(msgs[j]) => msgs[j].tag \in TagsOf(x.out) \cup {<<>>}
    BY <2>12, <2>13 DEF PassOK
  <2> QED BY <2>6, <2>9, <2>11, <2>14 DEF PassOK, x
<1> QED BY <1>1, <1>2

\* A message with calls.
LEMMA TakeCallsOK ==
    ASSUME NEW st, NEW msgs, NEW i \in Nat, PassClosed(st, msgs, i),
           IsMessage(msgs[i + 1]), HasCalls(msgs[i + 1])
    PROVE  PassOK(TakeCalls(st, msgs[i + 1]), msgs, i + 1)
<1> DEFINE m == msgs[i + 1]
           new == Renamed(st.seen, m.calls)
           y == [m EXCEPT !.calls = new]
           open == [k \in DOMAIN new |-> <<m.calls[k], new[k]>>]
           x == TakeCalls(st, m)
<1>1. DOMAIN x = PassFields /\ x.out = Append(st.out, y) /\ x.open = open
  BY DEF TakeCalls, PassOK, PassClosed, PassFields
<1>2. /\ IsMessage(y) /\ y.role = m.role /\ y.tag = m.tag /\ y.calls = new
      /\ Listed(new) /\ DOMAIN new = DOMAIN m.calls
      /\ Differ(new)
  <2> DEFINE seen == st.seen
  <2>1. /\ IsMessage(m) /\ HasCalls(m) /\ new = Renamed(seen, m.calls)
        /\ y = [m EXCEPT !.calls = new]
    OBVIOUS
  <2> HIDE DEF new, y, m, seen
  <2>2. IsMessage(y) /\ y.role = m.role /\ y.tag = m.tag /\ y.calls = new
    BY <2>1, RenamedMessage
  <2>3. Listed(new) /\ DOMAIN new = DOMAIN m.calls
    BY <2>1, RenamedIds
  <2>4. Differ(new)
    BY <2>1, RenamedIds
  <2> QED BY <2>2, <2>3, <2>4
<1> HIDE DEF new, y, x
<1>3. /\ DOMAIN open = DOMAIN new /\ open = [k \in DOMAIN new |-> open[k]]
      /\ \A k \in DOMAIN new : open[k][2] = new[k]
  OBVIOUS
<1> HIDE DEF open
<1>4. Listed(open)
  <2>1. Len(new) \in Nat /\ DOMAIN new = 1 .. Len(new)
    BY <1>2 DEF Listed
  <2> QED BY <1>3, <2>1, MadeListed
<1>5. Missing(open) = ToSet(new)
  BY <1>3 DEF Missing, ToSet
<1>6. IsTranscript(x.out) /\ PairedBut(x.out, open)
  <2>1. y.role = "assistant" /\ DOMAIN open = DOMAIN y.calls /\ Missing(open) = ToSet(y.calls)
    BY <1>2, <1>3, <1>5 DEF HasCalls
  <2>2. IsTranscript(st.out) /\ Paired(st.out)
    BY DEF PassClosed, PassOK
  <2> QED BY <1>1, <1>2, <1>4, <2>1, <2>2, CallsOpen
<1>7. DistinctCalls(x.out)
  BY <1>1, <1>2, AppendDistinct DEF PassOK, PassClosed
<1>8. TagsOf(st.out) \subseteq TagsOf(x.out) /\ y.tag \in TagsOf(x.out) \cup {<<>>}
  BY <1>1, <1>2, AppendedTag DEF PassOK, PassClosed
<1>9. \A j \in 1 .. i + 1 : j \in 1 .. i \/ j = i + 1
  OBVIOUS
<1>10. \A j \in 1 .. i + 1 : ~IsTool(msgs[j]) => msgs[j].tag \in TagsOf(x.out) \cup {<<>>}
  BY <1>2, <1>8, <1>9 DEF PassOK, PassClosed
<1> QED BY <1>1, <1>4, <1>6, <1>7, <1>10 DEF PassOK, x

LEMMA TakeOK ==
    ASSUME NEW st, NEW msgs, NEW i \in Nat, PassOK(st, msgs, i), IsMessage(msgs[i + 1])
    PROVE  PassOK(Take(st, msgs[i + 1]), msgs, i + 1)
<1> DEFINE m == msgs[i + 1]
           z == Close(st)
<1>1. CASE IsTool(m)
  BY <1>1, TakeResultOK DEF Take
<1>2. PassClosed(z, msgs, i)
  BY CloseOK
<1> HIDE DEF z
<1>3. CASE HasCalls(m)
  <2>1. ~IsTool(m)
    BY <1>3 DEF HasCalls, IsTool
  <2>2. Take(st, m) = TakeCalls(z, m)
    BY <1>3, <2>1 DEF Take, z
  <2> QED BY <1>2, <1>3, <2>2, TakeCallsOK
<1>4. CASE ~IsTool(m) /\ ~HasCalls(m)
  <2> DEFINE x == [z EXCEPT !.out = Append(@, m)]
  <2>1. Take(st, m) = x
    BY <1>4 DEF Take, z
  <2>2. DOMAIN x = PassFields /\ x.out = Append(z.out, m) /\ x.open = <<>>
    BY <1>2 DEF PassClosed, PassOK, PassFields
  <2> HIDE DEF x
  <2>3. m.calls = <<>> /\ Plain(m)
    BY <1>4 DEF IsMessage, HasCalls, Plain
  <2>4. IsTranscript(x.out) /\ Paired(x.out)
    BY <1>2, <2>2, <2>3, AppendPaired DEF PassClosed, PassOK
  <2>5. PairedBut(x.out, x.open) /\ Listed(x.open)
    BY <2>2, <2>4, PairedIs, EmptyTags
  <2>6. DistinctCalls(x.out)
    <3>1. Differ(m.calls)
      BY <2>3 DEF Differ
    <3>2. IsTranscript(z.out) /\ DistinctCalls(z.out) /\ IsMessage(m)
      BY <1>2 DEF PassClosed, PassOK
    <3> QED BY <2>2, <3>1, <3>2, AppendDistinct
  <2>7. TagsOf(z.out) \subseteq TagsOf(x.out) /\ m.tag \in TagsOf(x.out) \cup {<<>>}
    BY <1>2, <2>2, AppendedTag DEF PassClosed, PassOK
  <2>8. \A j \in 1 .. i + 1 : j \in 1 .. i \/ j = i + 1
    OBVIOUS
  <2>9. \A j \in 1 .. i + 1 : ~IsTool(msgs[j]) => msgs[j].tag \in TagsOf(x.out) \cup {<<>>}
    BY <1>2, <2>7, <2>8 DEF PassOK, PassClosed
  <2> QED BY <2>1, <2>2, <2>4, <2>5, <2>6, <2>9 DEF PassOK
<1> QED BY <1>1, <1>3, <1>4

\* Every state of the pass is one.
LEMMA PassesOK ==
    ASSUME NEW msgs, IsTranscript(msgs)
    PROVE  \A i \in 0 .. Len(msgs) : PassOK(Passes(msgs)[i], msgs, i)
<1> DEFINE N == Len(msgs)
           pass == Passes(msgs)
           Bad == {i \in Nat : i <= N /\ ~PassOK(pass[i], msgs, i)}
<1>1. N \in Nat /\ DOMAIN msgs = 1 .. N /\ Listed(msgs)
  BY TranscriptIs
<1>2. pass[0] = Fresh /\ \A i \in DOMAIN msgs : pass[i] = Take(pass[i - 1], msgs[i])
  BY <1>1, PassesAre
<1> HIDE DEF pass
<1>3. PassOK(pass[0], msgs, 0)
  <2>1. DOMAIN Fresh = PassFields /\ Fresh.out = <<>> /\ Fresh.open = <<>>
    BY DEF Fresh, PassFields
  <2>2. IsTranscript(<<>>) /\ DistinctCalls(<<>>) /\ Callers(<<>>) = {}
    BY EmptyTags DEF IsTranscript, DistinctCalls, Callers
  <2>3. PairedBut(<<>>, <<>>)
    BY <2>2 DEF PairedBut
  <2> QED BY <1>2, <2>1, <2>2, <2>3, EmptyTags DEF PassOK
<1>4. Bad = {}
  <2>1. SUFFICES ASSUME Bad # {} PROVE FALSE
    OBVIOUS
  <2>2. PICK n \in Bad : \A i \in Bad : n <= i
    BY <2>1, LeastNumber
  <2>3. n # 0
    BY <1>3, <2>2
  <2>4. n \in DOMAIN msgs /\ n - 1 \in Nat /\ (n - 1) + 1 = n /\ n - 1 <= N /\ ~(n <= n - 1)
    BY <1>1, <2>2, <2>3
  <2>5. PassOK(pass[n - 1], msgs, n - 1)
    BY <2>2, <2>4
  <2>6. IsMessage(msgs[n])
    BY <2>4 DEF IsTranscript
  <2>7. PassOK(Take(pass[n - 1], msgs[(n - 1) + 1]), msgs, (n - 1) + 1)
    BY <2>4, <2>5, <2>6, TakeOK
  <2>8. pass[n] = Take(pass[n - 1], msgs[n])
    BY <1>2, <2>4
  <2> QED BY <2>2, <2>4, <2>7, <2>8
<1> QED BY <1>1, <1>4 DEF pass

\* The repair of any transcript makes one whose calls all have their results, and
\* loses nothing but results.
LEMMA SanitizeIs ==
    ASSUME NEW msgs, IsTranscript(msgs)
    PROVE  /\ IsTranscript(Sanitize(msgs)) /\ Paired(Sanitize(msgs)) /\ DistinctCalls(Sanitize(msgs))
           /\ \A i \in DOMAIN msgs : ~IsTool(msgs[i]) =>
                 msgs[i].tag \in TagsOf(Sanitize(msgs)) \cup {<<>>}
<1> DEFINE N == Len(msgs)
<1>1. N \in Nat /\ DOMAIN msgs = 1 .. N /\ Listed(msgs)
  BY TranscriptIs
<1>2. Sanitized(msgs) = Close(Passes(msgs)[N])
  BY <1>1, PassesAre
<1>3. PassOK(Passes(msgs)[N], msgs, N)
  BY <1>1, PassesOK
<1>4. PassClosed(Sanitized(msgs), msgs, N)
  BY <1>2, <1>3, CloseOK
<1> QED BY <1>1, <1>4 DEF PassClosed, PassOK, Sanitize
-----------------------------------------------------------------------------
(* What is left of a transcript after a cut. *)

\* What is left of a transcript from one of its messages on.
LEMMA FromIs ==
    ASSUME NEW q, NEW i \in DOMAIN q, NEW c, IsTranscript(q), c = From(q, i)
    PROVE  /\ IsTranscript(c) /\ Len(c) = Len(q) - i + 1
           /\ \A j \in DOMAIN c : j + (i - 1) \in DOMAIN q /\ c[j] = q[j + (i - 1)]
           /\ \A j \in i .. Len(q) : j - (i - 1) \in DOMAIN c /\ c[j - (i - 1)] = q[j]
<1> DEFINE S == ToSet(q)
           n == Len(q)
<1>1. q \in Seq(S) /\ n \in Nat /\ DOMAIN q = 1 .. n /\ i \in 1 .. n
  BY DEF Listed, IsTranscript
<1>2. \A j \in i .. n : q[j] \in S
  <2>1. \A j \in 1 .. n : q[j] \in S
    BY <1>1 DEF ToSet
  <2> QED BY <1>1, <2>1
<1> HIDE DEF S
<1>3. c = SubSeq(q, i, n)
  BY DEF From
<1>4. /\ c \in Seq(S) /\ Len(c) = IF i <= n THEN n - i + 1 ELSE 0
      /\ \A j \in 1 .. n - i + 1 : c[j] = q[i + j - 1]
  BY <1>1, <1>2, <1>3, SubSeqProperties
<1>5. Len(c) = n - i + 1 /\ DOMAIN c = 1 .. n - i + 1
  BY <1>1, <1>4
<1>6. \A j \in DOMAIN c : j + (i - 1) \in DOMAIN q /\ c[j] = q[j + (i - 1)]
  <2> TAKE j \in DOMAIN c
  <2>1. j \in 1 .. n - i + 1 /\ i + j - 1 = j + (i - 1) /\ j + (i - 1) \in DOMAIN q
    BY <1>1, <1>5
  <2> QED BY <1>4, <2>1
<1>7. \A j \in i .. n : j - (i - 1) \in DOMAIN c /\ c[j - (i - 1)] = q[j]
  <2> TAKE j \in i .. n
  <2>1. j - (i - 1) \in DOMAIN c /\ (j - (i - 1)) + (i - 1) = j
    BY <1>1, <1>5
  <2>2. c[j - (i - 1)] = q[(j - (i - 1)) + (i - 1)]
    BY <1>6, <2>1
  <2> QED BY <2>1, <2>2
<1>8. Listed(c)
  BY <1>4, ListedIs
<1>9. \A j \in DOMAIN c : IsMessage(c[j])
  BY <1>6 DEF IsTranscript
<1> QED BY <1>5, <1>6, <1>7, <1>8, <1>9 DEF IsTranscript

\* Cut before a message that is no result, a transcript stays paired.
LEMMA CutPaired ==
    ASSUME NEW q, NEW i \in DOMAIN q, NEW c, IsTranscript(q), c = From(q, i),
           Paired(q), ~IsTool(q[i])
    PROVE  PairedBut(c, <<>>)
<1> DEFINE n == Len(q)
           d == i - 1
<1>1. IsTranscript(c) /\ Len(c) = n - d
  <2>1. IsTranscript(c) /\ Len(c) = Len(q) - i + 1
    BY FromIs
  <2>2. Len(q) \in Nat /\ i \in Int
    BY TranscriptIs
  <2> QED BY <2>1, <2>2
<1>2. \A j \in DOMAIN c : j + d \in DOMAIN q /\ c[j] = q[j + d]
  BY FromIs
<1>3. \A j \in i .. n : j - d \in DOMAIN c /\ c[j - d] = q[j]
  BY FromIs
<1>4. /\ n \in Nat /\ DOMAIN q = 1 .. n /\ i \in 1 .. n /\ d \in Nat
      /\ \A j \in DOMAIN q : EndOf(q, j) \in Nat /\ Len(q[j].calls) \in Nat
      /\ DOMAIN c = 1 .. n - d /\ \A j \in DOMAIN c : EndOf(c, j) \in Nat /\ Len(c[j].calls) \in Nat
  <2>1. n \in Nat /\ DOMAIN q = 1 .. n /\ i \in 1 .. n /\ d \in Nat
    BY TranscriptIs
  <2>2. \A j \in DOMAIN q : EndOf(q, j) \in Nat /\ Len(q[j].calls) \in Nat
    BY TranscriptIs
  <2>3. \A j \in DOMAIN c : EndOf(c, j) \in Nat /\ Len(c[j].calls) \in Nat
    BY <1>1, TranscriptIs
  <2>4. DOMAIN c = 1 .. n - d
    BY <1>1, TranscriptIs
  <2> QED BY <2>1, <2>2, <2>3, <2>4
<1>5. PairedBut(q, <<>>) /\ Len(<<>>) = 0
  BY PairedIs
<1> HIDE DEF n, d
<1>6. ASSUME NEW j \in Callers(c)
      PROVE  /\ EndOf(c, j) <= Len(c) /\ EndOf(c, j) \in Nat
             /\ \A k \in j + 1 .. EndOf(c, j) : IsTool(c[k])
             /\ Given(c, j, EndOf(c, j)) = ToSet(c[j].calls)
  <2> DEFINE e == j + d
  <2>1. j \in DOMAIN c /\ e \in DOMAIN q /\ c[j] = q[e] /\ e \in Callers(q)
    BY <1>2 DEF Callers
  <2>2. EndOf(q, e) = EndOf(c, j) + d
    BY <1>4, <2>1 DEF EndOf
  <2>3. EndOf(q, e) <= n /\ EndOf(q, e) \in Nat
    BY <1>4, <1>5, <2>1 DEF PairedBut, n
  <2>4. /\ \A k \in e + 1 .. EndOf(q, e) : k <= n => IsTool(q[k])
        /\ Given(q, e, EndOf(q, e)) = ToSet(q[e].calls)
    BY <1>5, <2>1, <2>3 DEF PairedBut, n
  <2>5. \A k \in j + 1 .. EndOf(c, j) : k \in DOMAIN c /\ k + d \in e + 1 .. EndOf(q, e) /\ k + d <= n
    BY <1>1, <1>4, <2>1, <2>2, <2>3
  <2>6. \A k \in e + 1 .. EndOf(q, e) : k \in i .. n /\ k - d \in j + 1 .. EndOf(c, j)
    <3> TAKE k \in e + 1 .. EndOf(q, e)
    <3>1. k - d \in j + 1 .. EndOf(c, j)
      BY <1>4, <2>1, <2>2, <2>3
    <3>2. d + 1 = i
      BY <1>4 DEF d
    <3>3. k \in i .. n
      BY <1>4, <2>1, <2>3, <3>2
    <3> QED BY <3>1, <3>3
  <2>7. \A k \in j + 1 .. EndOf(c, j) : IsTool(c[k])
    BY <1>2, <2>4, <2>5
  <2>8. Given(c, j, EndOf(c, j)) = Given(q, e, EndOf(q, e))
    <3>1. \A x \in Given(c, j, EndOf(c, j)) : x \in Given(q, e, EndOf(q, e))
      BY <1>2, <2>5 DEF Given
    <3>2. \A x \in Given(q, e, EndOf(q, e)) : x \in Given(c, j, EndOf(c, j))
      BY <1>3, <2>6 DEF Given
    <3> QED BY <3>1, <3>2
  <2>9. EndOf(c, j) <= Len(c) /\ EndOf(c, j) \in Nat
    BY <1>1, <1>4, <2>1, <2>2, <2>3
  <2> QED BY <2>1, <2>4, <2>7, <2>8, <2>9
<1>7. ASSUME NEW j \in DOMAIN c, IsTool(c[j])
      PROVE  \E k \in Callers(c) : k < j /\ j <= EndOf(c, k)
  <2>1. j + d \in DOMAIN q /\ IsTool(q[j + d])
    BY <1>2, <1>7
  <2>2. PICK e \in Callers(q) : e < j + d /\ j + d <= EndOf(q, e)
    BY <1>5, <2>1 DEF PairedBut
  <2>3. e \in 1 .. n /\ e \in DOMAIN q
    BY <1>4 DEF Callers
  <2>4. ~(e < i)
    <3>1. SUFFICES ASSUME e < i PROVE FALSE
      OBVIOUS
    <3>2. i = d + 1
      BY <1>4 DEF d
    <3>3. i \in e + 1 .. EndOf(q, e) /\ i <= n
      BY <1>4, <2>2, <2>3, <3>1, <3>2
    <3> QED BY <1>5, <3>3 DEF PairedBut, n
  <2>5. e \in i .. n
    BY <1>4, <2>3, <2>4
  <2>6. e - d \in DOMAIN c /\ c[e - d] = q[e]
    BY <1>3, <2>5
  <2>7. e - d \in Callers(c) /\ EndOf(c, e - d) = EndOf(q, e) - d
    BY <1>4, <2>3, <2>6 DEF Callers, EndOf
  <2>8. e - d < j /\ j <= EndOf(c, e - d)
    BY <1>4, <2>2, <2>3, <2>7
  <2> QED BY <2>7, <2>8
<1>8. \A j \in Callers(c) : EndOf(c, j) <= Len(c) + Len(<<>>) /\ ~(EndOf(c, j) > Len(c))
  <2> TAKE j \in Callers(c)
  <2>1. EndOf(c, j) <= Len(c) /\ EndOf(c, j) \in Nat /\ Len(c) \in Nat /\ Len(<<>>) = 0
    BY <1>1, <1>5, <1>6, TranscriptIs
  <2> QED BY <2>1
<1> QED BY <1>6, <1>7, <1>8 DEF PairedBut

LEMMA CutDistinct ==
    ASSUME NEW q, NEW i \in DOMAIN q, NEW c, IsTranscript(q), c = From(q, i), DistinctCalls(q)
    PROVE  DistinctCalls(c)
<1>1. \A j \in DOMAIN c : j + (i - 1) \in DOMAIN q /\ c[j] = q[j + (i - 1)]
  BY FromIs
<1> QED BY <1>1 DEF DistinctCalls

\* A set of numbers that is bounded and not empty has a greatest one.
LEMMA GreatestNumber ==
    ASSUME NEW n \in Nat, NEW T \in SUBSET (0 .. n), T # {}
    PROVE  \E x \in T : \A y \in T : y <= x
<1> DEFINE L == {n - y : y \in T}
<1>1. L \in SUBSET Nat /\ L # {}
  <2>1. \A y \in T : n - y \in Nat
    OBVIOUS
  <2> QED BY <2>1
<1>2. PICK l \in L : \A k \in L : l <= k
  BY <1>1, LeastNumber
<1>3. PICK x \in T : l = n - x
  BY <1>2
<1>4. \A y \in T : l <= n - y
  BY <1>2
<1>5. \A y \in T : y <= x
  BY <1>3, <1>4
<1> QED BY <1>5

\* A transcript that may be sent: calls and results are paired, and no message has
\* two calls with one id.
Ready(q) == IsTranscript(q) /\ Paired(q) /\ DistinctCalls(q)

LEMMA EmptyReady == Ready(<<>>)
<1>1. IsTranscript(<<>>) /\ DistinctCalls(<<>>) /\ Callers(<<>>) = {}
  BY EmptyTags DEF IsTranscript, DistinctCalls, Callers
<1>2. PairedBut(<<>>, <<>>)
  BY <1>1 DEF PairedBut
<1> QED BY <1>1, <1>2, PairedIs DEF Ready

LEMMA PlainsReady ==
    ASSUME NEW q, Listed(q), \A j \in DOMAIN q : Plain(q[j])
    PROVE  Ready(q)
<1>1. IsTranscript(q)
  BY DEF IsTranscript, Plain
<1>2. Callers(q) = {} /\ \A j \in DOMAIN q : ~IsTool(q[j]) /\ q[j].calls = <<>>
  BY DEF Callers, Plain, HasCalls, IsMessage
<1>3. PairedBut(q, <<>>)
  BY <1>2 DEF PairedBut
<1>4. DistinctCalls(q)
  BY <1>2 DEF DistinctCalls
<1> QED BY <1>1, <1>3, <1>4, PairedIs DEF Ready

LEMMA JoinedReady ==
    ASSUME NEW p, NEW q, NEW c, Ready(p), Ready(q), c = p \o q
    PROVE  Ready(c)
<1>1. IsTranscript(p) /\ IsTranscript(q) /\ Paired(p) /\ PairedBut(q, <<>>)
  BY PairedIs DEF Ready
<1>2. IsTranscript(c) /\ Paired(c)
  BY <1>1, JoinedPaired
<1>3. DistinctCalls(c)
  BY <1>1, JoinedDistinct DEF Ready
<1> QED BY <1>2, <1>3 DEF Ready

LEMMA AppendReady ==
    ASSUME NEW q, NEW m, NEW c, Ready(q), Plain(m), c = Append(q, m)
    PROVE  Ready(c)
<1>1. IsTranscript(c) /\ Paired(c)
  BY AppendPaired DEF Ready
<1>2. Differ(m.calls)
  BY DEF Differ, Plain, HasCalls, IsMessage
<1>3. DistinctCalls(c)
  BY <1>2, AppendDistinct DEF Ready, Plain
<1> QED BY <1>1, <1>3 DEF Ready

LEMMA CutReady ==
    ASSUME NEW q, NEW i \in DOMAIN q, NEW c, Ready(q), ~IsTool(q[i]), c = From(q, i)
    PROVE  Ready(c)
<1>1. IsTranscript(q) /\ Paired(q) /\ DistinctCalls(q)
  BY DEF Ready
<1>2. IsTranscript(c)
  BY <1>1, FromIs
<1>3. PairedBut(c, <<>>)
  BY <1>1, CutPaired
<1>4. DistinctCalls(c)
  BY <1>1, CutDistinct
<1> QED BY <1>2, <1>3, <1>4, PairedIs DEF Ready

\* limitHistoryTurns cuts a transcript before a message of the user.
LEMMA LimitCuts ==
    ASSUME NEW q, NEW limit \in Int, IsTranscript(q)
    PROVE  LimitTurns(q, limit) = q \/ \E i \in Users(q) : LimitTurns(q, limit) = From(q, i)
<1> DEFINE U == Users(q)
           later(i) == {j \in U : j > i}
           ends == {i \in U : Cardinality(later(i)) < limit}
<1>1. Len(q) \in Nat /\ DOMAIN q = 1 .. Len(q) /\ U \subseteq DOMAIN q
  BY TranscriptIs DEF Users
<1>2. CASE limit <= 0 \/ Cardinality(U) <= limit
  BY <1>2 DEF LimitTurns
<1>3. CASE ~(limit <= 0 \/ Cardinality(U) <= limit)
  <2>1. U # {}
    <3>1. ASSUME U = {} PROVE FALSE
      <4>1. Cardinality(U) = 0
        BY <3>1, FS_EmptySet
      <4>2. ~(limit <= 0) /\ ~(0 <= limit)
        BY <1>3, <4>1
      <4> QED BY <4>2
    <3> QED BY <3>1
  <2> HIDE DEF U
  <2>22. U \in SUBSET (0 .. Len(q))
    BY <1>1
  <2>2. PICK x \in U : \A y \in U : y <= x
    BY <1>1, <2>1, <2>22, GreatestNumber
  <2> USE DEF U
  <2>3. later(x) = {}
    BY <1>1, <2>2
  <2>4. Cardinality(later(x)) = 0
    BY <2>3, FS_EmptySet
  <2>5. x \in ends
    BY <1>3, <2>4
  <2>6. ends \in SUBSET Nat
    BY <1>1
  <2>7. \E z \in ends : \A y \in ends : z <= y
    BY <2>5, <2>6, LeastNumber
  <2>8. Min(ends) \in ends
    BY <2>7 DEF Min
  <2>9. Min(ends) \in U
    BY <2>8
  <2>10. LimitTurns(q, limit) = From(q, Min(ends))
    BY <1>3 DEF LimitTurns
  <2> HIDE DEF ends
  <2> QED BY <2>9, <2>10
<1> QED BY <1>2, <1>3

LEMMA LimitIs ==
    ASSUME NEW q, NEW limit \in Int, IsTranscript(q)
    PROVE  IsTranscript(LimitTurns(q, limit))
<1>1. Users(q) \subseteq DOMAIN q
  BY DEF Users
<1> QED BY <1>1, LimitCuts, FromIs

\* compactMessagesInPlace puts a summary in the place of the first messages, or
\* changes nothing, and keeps a request ready to be sent.
LEMMA CompactCuts ==
    ASSUME NEW q, NEW summary, IsTranscript(q)
    PROVE  \/ Compact(q, summary) = q
           \/ \E m \in DOMAIN q : /\ ~IsTool(q[m]) /\ m <= Len(q) - KeepLast + 1
                                  /\ Compact(q, summary) = <<summary>> \o From(q, m)
<1> DEFINE keep == Max({KeepLast, (Len(q) * 3) \div 10})
           first == Len(q) - keep + 1
           clean == {i \in 2 .. first : CleanSplit(q, i)}
<1>1. CASE Len(q) < 6 \/ clean = {} \/ Max(clean) <= 2
  BY <1>1 DEF Compact
<1>2. CASE ~(Len(q) < 6 \/ clean = {} \/ Max(clean) <= 2)
  <2>1. Len(q) \in Nat /\ DOMAIN q = 1 .. Len(q)
    BY TranscriptIs
  <2>2. keep \in Nat /\ keep >= KeepLast
    <3> DEFINE b == (Len(q) * 3) \div 10
    <3>1. KeepLast \in Nat /\ b \in Nat
      BY <2>1, KeepLastAssumption
    <3> HIDE DEF b
    <3>2. \E x \in {KeepLast, b} : \A y \in {KeepLast, b} : x >= y
      BY <3>1
    <3>3. Max({KeepLast, b}) \in {KeepLast, b} /\ Max({KeepLast, b}) >= KeepLast
      BY <3>2 DEF Max
    <3> QED BY <3>1, <3>3 DEF b
  <2> HIDE DEF keep
  <2>3. first \in Int /\ first <= Len(q) /\ first <= Len(q) - KeepLast + 1
    BY <2>1, <2>2, KeepLastAssumption
  <2>4. clean \in SUBSET (0 .. Len(q)) /\ clean # {} /\ clean \subseteq DOMAIN q
    BY <1>2, <2>1, <2>3
  <2>5. \E x \in clean : \A y \in clean : y <= x
    BY <2>1, <2>4, GreatestNumber
  <2>6. \E x \in clean : \A y \in clean : x >= y
    BY <2>4, <2>5
  <2>7. Max(clean) \in clean
    BY <2>6 DEF Max
  <2> DEFINE m == Max(clean)
  <2>8. m \in DOMAIN q /\ ~IsTool(q[m])
    BY <2>4, <2>7 DEF CleanSplit
  <2>9. m <= Len(q) - KeepLast + 1
    <3>1. m \in 2 .. first
      BY <2>7
    <3> HIDE DEF m
    <3> QED BY <2>1, <2>3, <3>1, KeepLastAssumption
  <2>10. Compact(q, summary) = <<summary>> \o From(q, m)
    BY <1>2 DEF Compact, keep
  <2> HIDE DEF m
  <2> QED BY <2>8, <2>9, <2>10
<1> QED BY <1>1, <1>2

LEMMA CompactReady ==
    ASSUME NEW q, NEW summary, Ready(q), Plain(summary)
    PROVE  Ready(Compact(q, summary))
<1>1. ASSUME NEW m \in DOMAIN q, ~IsTool(q[m]) PROVE Ready(<<summary>> \o From(q, m))
  <2>1. Ready(From(q, m))
    BY <1>1, CutReady
  <2>2. Ready(<<summary>>)
    <3> DEFINE p == <<summary>>
    <3>1. IsTranscript(p) /\ p[1] = summary /\ DOMAIN p = {1}
      BY OneMessage DEF Plain
    <3> HIDE DEF p
    <3>2. Ready(p)
      BY <3>1, PlainsReady DEF IsTranscript
    <3> QED BY <3>2 DEF p
  <2> QED BY <2>1, <2>2, JoinedReady
<1>2. IsTranscript(q)
  BY DEF Ready
<1> QED BY <1>1, <1>2, CompactCuts

\* TruncateHistory keeps the last messages.
LEMMA TruncateCuts ==
    ASSUME NEW q, NEW keep \in Nat \ {0}, IsTranscript(q)
    PROVE  Truncate(q, keep) = <<>> \/ \E i \in DOMAIN q : Truncate(q, keep) = From(q, i)
<1> DEFINE n == Len(q)
           i == IF n > keep THEN n - keep + 1 ELSE 1
<1>1. n \in Nat /\ DOMAIN q = 1 .. n /\ q \in Seq(ToSet(q))
  BY TranscriptIs DEF IsTranscript, Listed
<1>2. CASE n = 0
  <2>1. Truncate(q, keep) = SubSeq(q, 1, 0)
    BY <1>2 DEF Truncate, From
  <2>2. SubSeq(q, 1, 0) = <<>>
    BY <1>1, SubSeqEmpty
  <2> QED BY <2>1, <2>2
<1>3. CASE n # 0
  <2>1. i \in DOMAIN q
    BY <1>1, <1>3
  <2>2. Truncate(q, keep) = From(q, i)
    BY DEF Truncate
  <2> HIDE DEF i
  <2> QED BY <2>1, <2>2
<1> QED BY <1>2, <1>3

\* TruncateHistory: what it cuts off is in the messages before the last keep ones.
LEMMA TruncateIs ==
    ASSUME NEW q, NEW keep \in Nat \ {0}, IsTranscript(q)
    PROVE  /\ IsTranscript(Truncate(q, keep))
           /\ TagsOf(q) \subseteq TagsOf(Truncate(q, keep)) \cup TagsOf(SubSeq(q, 1, Len(q) - keep))
<1> DEFINE n == Len(q)
           i == IF n > keep THEN n - keep + 1 ELSE 1
           c == Truncate(q, keep)
<1>1. n \in Nat /\ DOMAIN q = 1 .. n /\ q \in Seq(ToSet(q))
  BY TranscriptIs DEF IsTranscript, Listed
<1>2. CASE n = 0
  <2>1. q = <<>>
    BY <1>1, <1>2
  <2>2. TagsOf(q) = {}
    BY <2>1, EmptyTags
  <2>3. c = <<>>
    <3>1. c = SubSeq(q, 1, 0)
      BY <1>2 DEF Truncate, From
    <3>2. SubSeq(q, 1, 0) \in Seq(ToSet(q)) /\ Len(SubSeq(q, 1, 0)) = 0
      BY <1>1, SubSeqProperties
    <3> QED BY <3>1, <3>2
  <2> QED BY <2>1, <2>2, <2>3
<1>3. CASE n # 0
  <2>1. i \in DOMAIN q
    BY <1>1, <1>3
  <2>2. c = From(q, i)
    BY DEF Truncate
  <2>20. (n > keep /\ i = n - keep + 1) \/ (n <= keep /\ i = 1)
    BY <1>1
  <2> HIDE DEF c, i
  <2>3. IsTranscript(c)
    BY <2>1, <2>2, FromIs
  <2>4. \A j \in i .. Len(q) : j - (i - 1) \in DOMAIN c /\ c[j - (i - 1)] = q[j]
    BY <2>1, <2>2, FromIs
  <2>5. \A j \in i .. n : q[j].tag \in TagsOf(c) \cup {<<>>}
    BY <2>4 DEF TagsOf
  <2>6. ASSUME NEW j \in 1 .. n, ~(j \in i .. n)
        PROVE  q[j].tag \in TagsOf(SubSeq(q, 1, n - keep)) \cup {<<>>}
    <3> DEFINE d == SubSeq(q, 1, n - keep)
    <3>1. j \in 1 .. n - keep /\ n > keep
      BY <1>1, <2>6, <2>20
    <3>2. \A k \in 1 .. n - keep : q[k] \in ToSet(q)
      <4>1. \A k \in 1 .. n - keep : k \in DOMAIN q
        BY <1>1, <3>1
      <4> QED BY <4>1 DEF ToSet
    <3>3. d \in Seq(ToSet(q)) /\ Len(d) = n - keep /\ \A k \in 1 .. n - keep : d[k] = q[k]
      <4> DEFINE b == n - keep
      <4>1. b \in Int /\ 1 <= b /\ b - 1 + 1 = b /\ \A k \in 1 .. b : 1 + k - 1 = k
        BY <1>1, <3>1
      <4>2. d = SubSeq(q, 1, b) /\ \A k \in 1 .. b : q[k] \in ToSet(q)
        BY <3>2
      <4> HIDE DEF b, d, n
      <4>3. /\ d \in Seq(ToSet(q)) /\ Len(d) = IF 1 <= b THEN b - 1 + 1 ELSE 0
            /\ \A k \in 1 .. b - 1 + 1 : d[k] = q[1 + k - 1]
        BY <4>1, <4>2, SubSeqProperties
      <4>4. d \in Seq(ToSet(q)) /\ Len(d) = b /\ \A k \in 1 .. b : d[k] = q[k]
        BY <4>1, <4>3
      <4> QED BY <4>4 DEF b, n
    <3>4. j \in DOMAIN d /\ d[j] = q[j]
      BY <3>1, <3>3
    <3> HIDE DEF d
    <3>5. q[j].tag \in TagsOf(d) \cup {<<>>}
      BY <3>4 DEF TagsOf
    <3> QED BY <3>5 DEF d
  <2>7. \A j \in DOMAIN q : q[j].tag \in TagsOf(c) \cup TagsOf(SubSeq(q, 1, n - keep)) \cup {<<>>}
    BY <1>1, <2>5, <2>6
  <2>8. TagsOf(q) \subseteq TagsOf(c) \cup TagsOf(SubSeq(q, 1, n - keep))
    BY <2>7 DEF TagsOf
  <2> QED BY <2>3, <2>8 DEF c
<1> QED BY <1>2, <1>3
-----------------------------------------------------------------------------
(* The messages that the loop makes. *)

\* Calls that are all open.
AllOpen(ids) == [k \in DOMAIN ids |-> <<ids[k], ids[k]>>]

LEMMA AllOpenIs ==
    ASSUME NEW ids, Listed(ids)
    PROVE  /\ Listed(AllOpen(ids)) /\ DOMAIN AllOpen(ids) = DOMAIN ids
           /\ Len(AllOpen(ids)) = Len(ids)
           /\ \A k \in DOMAIN ids : AllOpen(ids)[k][2] = ids[k]
           /\ Missing(AllOpen(ids)) = ToSet(ids)
<1> DEFINE o == AllOpen(ids)
<1>1. Len(ids) \in Nat /\ DOMAIN ids = 1 .. Len(ids)
  BY DEF Listed
<1>2. /\ DOMAIN o = DOMAIN ids /\ o = [k \in DOMAIN ids |-> o[k]]
      /\ \A k \in DOMAIN ids : o[k][2] = ids[k]
  BY DEF AllOpen
<1> HIDE DEF o
<1>3. Listed(o)
  BY <1>1, <1>2, MadeListed
<1>4. Len(o) = Len(ids)
  BY <1>1, <1>2, <1>3 DEF Listed
<1>5. Missing(o) = ToSet(ids)
  BY <1>2 DEF Missing, ToSet
<1> QED BY <1>2, <1>3, <1>4, <1>5 DEF o

LEMMA TextIs ==
    ASSUME NEW role, NEW tag, NEW m, m = TextMsg(role, tag), role # "tool"
    PROVE  Plain(m)
<1>1. /\ DOMAIN m = {"role", "tag", "calls", "call"} /\ m.role = role /\ m.calls = <<>>
  BY DEF TextMsg
<1>2. Listed(m.calls) /\ DOMAIN m.calls = {}
  BY <1>1, EmptyTags
<1> QED BY <1>1, <1>2 DEF Plain, IsMessage, IsTool, HasCalls

\* What the run says itself, and what its user says.
LEMMA TextsArePlain ==
    /\ Plain(Instruction) /\ Plain(Reminder) /\ \A tag : Plain(TextMsg("assistant", tag))
    /\ \A r : Plain(Question(r))
    /\ \A r, n : Plain(Reply(r, n))
    /\ \A i : Plain(FollowUp(i))
BY TextIs DEF Instruction, Reminder, Question, Reply, FollowUp

LEMMA OneReady ==
    ASSUME NEW m, Plain(m)
    PROVE  Ready(<<m>>)
<1> DEFINE p == <<m>>
<1>1. IsTranscript(p) /\ p[1] = m /\ DOMAIN p = {1}
  BY OneMessage DEF Plain
<1> HIDE DEF p
<1>2. Ready(p)
  BY <1>1, PlainsReady DEF IsTranscript
<1> QED BY <1>2 DEF p

LEMMA TwoReady ==
    ASSUME NEW m, NEW n, Plain(m), Plain(n)
    PROVE  Ready(<<m, n>>)
<1> DEFINE p == <<m, n>>
<1>1. p \in Seq({m, n}) /\ \A j \in DOMAIN p : p[j] \in {m, n}
  OBVIOUS
<1> HIDE DEF p
<1>2. Listed(p)
  BY <1>1, ListedIs
<1>3. Ready(p)
  BY <1>1, <1>2, PlainsReady
<1> QED BY <1>3 DEF p

LEMMA IdIs ==
    ASSUME NEW p, NEW x, NEW y, NEW c, Listed(p), c = p \o <<x, y>>
    PROVE  Listed(c) /\ c # <<>> /\ Last(c) = y
<1> DEFINE S == ToSet(p) \cup {x, y}
           e == <<x, y>>
<1>1. p \in Seq(S) /\ e \in Seq(S) /\ Len(e) = 2 /\ e[2] = y /\ Len(p) \in Nat
  BY DEF Listed
<1> HIDE DEF S, e
<1>2. c \in Seq(S) /\ Len(c) = Len(p) + 2 /\ c[Len(p) + 2] = y
  <2>1. c = p \o e
    BY DEF e
  <2>2. /\ c \in Seq(S) /\ Len(c) = Len(p) + Len(e)
        /\ \A i \in 1 .. Len(p) + Len(e) : c[i] = IF i <= Len(p) THEN p[i] ELSE e[i - Len(p)]
    BY <1>1, <2>1, ConcatProperties
  <2>3. Len(p) + 2 \in 1 .. Len(p) + Len(e) /\ ~(Len(p) + 2 <= Len(p)) /\ (Len(p) + 2) - Len(p) = 2
    BY <1>1
  <2> QED BY <1>1, <2>2, <2>3
<1>3. Listed(c)
  BY <1>2, ListedIs
<1>4. Len(c) # 0 /\ Last(c) = y
  BY <1>1, <1>2 DEF Last
<1>5. c # <<>>
  BY <1>4
<1> QED BY <1>3, <1>4, <1>5

\* An answer with calls, their ids made unique.
LEMMA CallMsgIs ==
    ASSUME NEW r \in Runs, NEW iter, NEW n \in Nat \ {0}, NEW tag, NEW m,
           m = CallMsg(tag, Uniquify(r, iter, n))
    PROVE  IsMessage(m) /\ HasCalls(m) /\ m.role = "assistant" /\ Differ(m.calls)
<1> DEFINE ids == m.calls
<1>1. /\ DOMAIN m = {"role", "tag", "calls", "call"} /\ m.role = "assistant"
      /\ ids = Uniquify(r, iter, n)
  BY DEF CallMsg
<1>2. /\ DOMAIN ids = 1 .. n /\ ids = [k \in 1 .. n |-> ids[k]]
      /\ \A k \in 1 .. n : ids[k] = RunPrefix[r] \o <<iter, k - 1>>
  BY <1>1 DEF Uniquify
<1> HIDE DEF ids
<1>3. \A k \in 1 .. n : Listed(ids[k]) /\ ids[k] # <<>> /\ Last(ids[k]) = k - 1
  <2> TAKE k \in 1 .. n
  <2>1. Listed(RunPrefix[r]) /\ ids[k] = RunPrefix[r] \o <<iter, k - 1>>
    BY <1>2, LoopAssumption
  <2> QED BY <2>1, IdIs
<1>4. Listed(ids)
  BY <1>2, MadeListed
<1>5. ids # <<>>
  BY <1>2
<1>6. \A k, l \in DOMAIN ids : k # l => Last(ids[k]) # l - 1
  BY <1>2, <1>3
<1>7. Differ(ids)
  BY <1>2, <1>3 DEF Differ
<1>8. IsMessage(m) /\ HasCalls(m)
  BY <1>1, <1>2, <1>3, <1>4, <1>5, <1>6 DEF IsMessage, HasCalls, ids
<1> QED BY <1>1, <1>7, <1>8 DEF ids

\* The results of the first n calls of m.
LEMMA ResultsAre ==
    ASSUME NEW r, NEW n \in Nat
    PROVE  /\ IsTranscript(Results(r, n)) /\ DOMAIN Results(r, n) = 1 .. n /\ Len(Results(r, n)) = n
           /\ \A k \in 1 .. n : /\ IsTool(Results(r, n)[k]) /\ Results(r, n)[k].calls = <<>>
                                /\ Results(r, n)[k].call = Last(run[r].pending).calls[k]
<1> DEFINE q == Results(r, n)
<1>1. /\ DOMAIN q = 1 .. n /\ q = [k \in 1 .. n |-> q[k]]
      /\ \A k \in 1 .. n : q[k] = ToolMsg(<<r, run[r].iter, k>>, Last(run[r].pending).calls[k])
  BY DEF Results
<1> HIDE DEF q
<1>2. ASSUME NEW tag, NEW id, NEW m, m = ToolMsg(tag, id)
      PROVE  IsMessage(m) /\ IsTool(m) /\ m.calls = <<>> /\ m.call = id
  <2>1. /\ DOMAIN m = {"role", "tag", "calls", "call"} /\ m.role = "tool" /\ m.calls = <<>>
        /\ m.call = id
    BY <1>2 DEF ToolMsg
  <2>2. Listed(m.calls) /\ DOMAIN m.calls = {}
    BY <2>1, EmptyTags
  <2> QED BY <2>1, <2>2 DEF IsMessage, IsTool
<1>3. \A k \in 1 .. n : /\ IsMessage(q[k]) /\ IsTool(q[k]) /\ q[k].calls = <<>>
                        /\ q[k].call = Last(run[r].pending).calls[k]
  <2> TAKE k \in 1 .. n
  <2> DEFINE tag == <<r, run[r].iter, k>>
             id == Last(run[r].pending).calls[k]
  <2>1. q[k] = ToolMsg(tag, id)
    BY <1>1
  <2> HIDE DEF tag, id
  <2>2. IsMessage(q[k]) /\ IsTool(q[k]) /\ q[k].calls = <<>> /\ q[k].call = id
    BY <1>2, <2>1
  <2> QED BY <2>2 DEF id
<1>4. Listed(q) /\ Len(q) = n
  <2>1. Listed(q)
    BY <1>1, MadeListed
  <2> QED BY <1>1, <2>1 DEF Listed
<1> QED BY <1>1, <1>3, <1>4 DEF IsTranscript, q

\* A warning behind the last of n messages.
LEMMA WarnedIs ==
    ASSUME NEW q, NEW m, NEW n, IsTranscript(q), n = Len(q)
    PROVE  InsertAt(q, n + 1, m) = q \o <<m>>
<1> DEFINE S == ToSet(q) \cup {m}
           a == SubSeq(q, 1, n + 1 - 1)
           b == SubSeq(q, n + 1, n)
<1>1. q \in Seq(S) /\ n \in Nat /\ DOMAIN q = 1 .. n
  BY DEF IsTranscript, Listed
<1>2. a = q /\ b = <<>>
  <2>1. n + 1 - 1 = n /\ n < n + 1 /\ n \in Int /\ n + 1 \in Int
    BY <1>1
  <2>2. \A i \in 1 .. n : q[i] \in S
    BY <1>1
  <2>3. a = SubSeq(q, 1, n)
    BY <2>1
  <2> HIDE DEF a, S
  <2>4. /\ a \in Seq(S) /\ Len(a) = IF 1 <= n THEN n - 1 + 1 ELSE 0
        /\ \A i \in 1 .. n - 1 + 1 : a[i] = q[1 + i - 1]
    BY <2>1, <2>2, <2>3, SubSeqProperties
  <2>5. Len(a) = n /\ \A i \in 1 .. n : a[i] = q[i]
    BY <1>1, <2>4
  <2>6. a = q
    BY <1>1, <2>4, <2>5
  <2> QED BY <2>1, <2>6, SubSeqEmpty
<1>3. InsertAt(q, n + 1, m) = a \o <<m>> \o b
  BY DEF InsertAt
<1> HIDE DEF a, b
<1>4. q \o <<m>> \in Seq(S) /\ <<m>> \in Seq(S)
  BY <1>1, ConcatProperties
<1> HIDE DEF S
<1>5. (q \o <<m>>) \o <<>> = q \o <<m>>
  BY <1>4, ConcatEmptySeq
<1> QED BY <1>2, <1>3, <1>5
-----------------------------------------------------------------------------
(* The messages of a run and of the session. *)

\* What a run has read and buffered are transcripts; what it is about to send is
\* ready; where its tools are to run, only the calls of its last message are open.
TextOK(x) ==
    /\ IsTranscript(x.snap) /\ IsTranscript(x.pending)
    /\ x.pc = "tools" => HasCalls(Last(x.pending))
    /\ ~x.over /\ ~x.split =>
         /\ x.pc \in {"clean", "cleanSave", "ask"} => Ready(x.msgs)
         /\ x.pc = "tools" =>
              /\ IsTranscript(x.msgs) /\ DistinctCalls(x.msgs)
              /\ PairedBut(x.msgs, AllOpen(Last(x.pending).calls))

StoreTexts ==
    /\ IsTranscript(cache.history) /\ IsTranscript(row.history)
    /\ \A a \in Savers : IsTranscript(saving[a].history)

TextsInv == StoreTexts /\ \A r \in Runs : TextOK(run[r])

\* x may send what it has after an answer.
Sendable(x) ==
    /\ DOMAIN x = Fields
    /\ IsTranscript(x.snap) /\ IsTranscript(x.pending)
    /\ ~x.over /\ ~x.split => Ready(x.msgs)

SameTexts(x, y) ==
    /\ x.snap = y.snap /\ x.pending = y.pending /\ x.msgs = y.msgs
    /\ x.over = y.over /\ x.split = y.split

LEMMA SameTextsOK ==
    ASSUME NEW x, NEW y, SameTexts(x, y), TextOK(y),
           \/ x.pc = y.pc \/ x.pc \notin {"clean", "cleanSave", "ask", "tools"}
           \/ y.pc \in {"clean", "cleanSave"} /\ x.pc \in {"cleanSave", "ask"}
    PROVE  TextOK(x)
BY DEF SameTexts, TextOK

LEMMA IdleText == TextOK(Idle) /\ TextOK(Failed)
<1>1. IsTranscript(<<>>)
  BY EmptyReady DEF Ready
<1>2. /\ Idle.snap = <<>> /\ Idle.pending = <<>> /\ Idle.pc = "idle"
      /\ Failed.snap = <<>> /\ Failed.pending = <<>> /\ Failed.pc = "failed"
  BY DEF Idle, Failed
<1> QED BY <1>1, <1>2 DEF TextOK

LEMMA EndedText ==
    ASSUME NEW r, NEW x, IsTranscript(x.pending)
    PROVE  TextOK(Ended(r, x))
<1> DEFINE y == Ended(r, x)
           m == Reply(r, MaxIter[r] + 1)
<1>1. y.snap = <<>> /\ y.pc = "flush" /\ y.pending = Append(x.pending, m)
  BY DEF Ended, Idle
<1>2. IsMessage(m)
  BY TextsArePlain DEF Plain
<1> HIDE DEF y, m
<1>3. IsTranscript(y.pending)
  BY <1>1, <1>2, AppendedIs
<1>4. IsTranscript(y.snap)
  BY <1>1, EmptyReady DEF Ready
<1> QED BY <1>1, <1>3, <1>4 DEF TextOK, y

LEMMA LastCallReady ==
    ASSUME NEW r, NEW iter, NEW q, Ready(q)
    PROVE  Ready(LastCall(r, iter, q))
<1>1. Ready(Append(q, Reminder))
  BY TextsArePlain, AppendReady
<1> QED BY <1>1 DEF LastCall

LEMMA ContinuedText ==
    ASSUME NEW r, NEW x, Sendable(x)
    PROVE  TextOK(Continued(r, x))
<1>1. CASE x.iter = MaxIter[r]
  BY <1>1, EndedText DEF Continued, Sendable
<1>2. CASE x.iter # MaxIter[r]
  <2> DEFINE y == [x EXCEPT !.pc = "ask", !.iter = @ + 1, !.msgs = LastCall(r, x.iter + 1, @)]
  <2>1. y = Continued(r, x)
    BY <1>2 DEF Continued
  <2>2. /\ y.pc = "ask" /\ y.snap = x.snap /\ y.pending = x.pending
        /\ y.over = x.over /\ y.split = x.split /\ y.msgs = LastCall(r, x.iter + 1, x.msgs)
    BY DEF Sendable, Fields
  <2> HIDE DEF y
  <2>3. ~y.over /\ ~y.split => Ready(y.msgs)
    BY <2>2, LastCallReady DEF Sendable
  <2>4. TextOK(y)
    BY <2>2, <2>3 DEF TextOK, Sendable
  <2> QED BY <2>1, <2>4
<1> QED BY <1>1, <1>2

LEMMA DrainedText ==
    ASSUME NEW r, NEW x, Sendable(x), inbox[r] \in Seq(Injections)
    PROVE  Sendable(Drained(r, x))
<1> DEFINE more == [k \in DOMAIN inbox[r] |-> FollowUp(inbox[r][k])]
           y == Drained(r, x)
<1>1. DOMAIN inbox[r] = 1 .. Len(inbox[r]) /\ Len(inbox[r]) \in Nat
  OBVIOUS
<1>2. /\ DOMAIN more = DOMAIN inbox[r] /\ more = [k \in DOMAIN inbox[r] |-> more[k]]
      /\ \A k \in DOMAIN inbox[r] : more[k] = FollowUp(inbox[r][k])
  OBVIOUS
<1>3. /\ DOMAIN y = Fields /\ y.snap = x.snap /\ y.pending = x.pending \o more
      /\ y.msgs = x.msgs \o more /\ y.over = x.over /\ y.split = x.split
  BY DEF Drained, Sendable, Fields
<1> HIDE DEF more, y
<1>4. Listed(more)
  BY <1>1, <1>2, MadeListed
<1>5. \A k \in DOMAIN more : Plain(more[k])
  BY <1>2, TextsArePlain
<1>6. Ready(more) /\ IsTranscript(more)
  BY <1>4, <1>5, PlainsReady DEF Ready
<1>7. IsTranscript(y.pending)
  BY <1>3, <1>6, JoinedIs DEF Sendable
<1>8. ~y.over /\ ~y.split => Ready(y.msgs)
  BY <1>3, <1>6, JoinedReady DEF Sendable
<1> QED BY <1>3, <1>7, <1>8 DEF Sendable, y

LEMMA AnsweredText ==
    ASSUME NEW r, NEW x \in Answered(r), TextOK(run[r]), At(r, "ask"), DOMAIN run[r] = Fields
    PROVE  Sendable(x)
<1> DEFINE y == run[r]
<1>1. Sendable(y)
  BY DEF TextOK, Sendable, At
<1>2. CASE x = y
  BY <1>1, <1>2
<1>3. ASSUME NEW m \in {y.msgs, Compact(y.msgs, Reminder)},
             x = [y EXCEPT !.compacted = TRUE, !.msgs = m]
      PROVE  Sendable(x)
  <2>1. /\ DOMAIN x = Fields /\ x.snap = y.snap /\ x.pending = y.pending /\ x.msgs = m
        /\ x.over = y.over /\ x.split = y.split
    BY <1>3 DEF Fields
  <2> HIDE DEF y
  <2>2. ~x.over /\ ~x.split => Ready(m)
    BY <1>1, <1>3, <2>1, CompactReady, TextsArePlain DEF Sendable
  <2> QED BY <1>1, <2>1, <2>2 DEF Sendable
<1> QED BY <1>2, <1>3 DEF Answered

LEMMA MessagesReady ==
    ASSUME NEW r, NEW snap, NEW summary, IsTranscript(snap)
    PROVE  Ready(Messages(r, snap, summary))
<1> DEFINE p == <<Instruction>>
           s == IF summary = {} THEN <<>> ELSE <<Reminder, TextMsg("assistant", <<>>)>>
           h == Sanitize(LimitTurns(snap, HistoryLimit))
           q == <<Question(r)>>
<1>1. Ready(p) /\ Ready(q)
  BY TextsArePlain, OneReady
<1>2. Ready(s)
  BY TextsArePlain, EmptyReady, TwoReady
<1>3. Ready(h)
  <2>1. IsTranscript(LimitTurns(snap, HistoryLimit))
    BY LimitIs, LoopAssumption
  <2> QED BY <2>1, SanitizeIs DEF Ready
<1>4. Messages(r, snap, summary) = p \o s \o h \o q
  BY DEF Messages
<1> HIDE DEF p, s, h, q
<1>5. Ready(p \o s)
  BY <1>1, <1>2, JoinedReady
<1>6. Ready(p \o s \o h)
  BY <1>3, <1>5, JoinedReady
<1> QED BY <1>1, <1>4, <1>6, JoinedReady
-----------------------------------------------------------------------------
(* The steps of the store and of the runs keep the texts. *)

LEMMA StoreStep_Texts ==
    ASSUME StoreTexts, StoreShape,
           \/ UNCHANGED storeVars \/ (\E m : IsMessage(m) /\ AddMessage(m))
           \/ (\E h : IsTranscript(h) /\ SetHistory(h))
           \/ (\E s : SetSummary(s)) \/ TruncateHistory(KeepLast) \/ IncrementCompaction
           \/ SetMemoryFlushDone \/ Reset \/ StoreRestart
           \/ (\E a \in Savers : SaveReads(a) \/ \E ok : SaveWrites(a, ok))
    PROVE  StoreTexts'
<1>1. ASSUME IsTranscript(cache'.history), UNCHANGED <<row, saving>> PROVE StoreTexts'
  BY <1>1 DEF StoreTexts
<1>2. DOMAIN cache = SessionFields /\ DOMAIN saving = Savers /\ IsTranscript(cache.history)
  BY DEF StoreShape, StoreTexts
<1>3. ASSUME NEW h, IsTranscript(h), Change([cache EXCEPT !.history = h]) PROVE StoreTexts'
  <2>1. cache'.history = h
    BY <1>2, <1>3 DEF Change, SessionFields
  <2> QED BY <1>1, <1>3, <2>1 DEF Change
<1>4. CASE UNCHANGED storeVars
  BY <1>4 DEF storeVars, StoreTexts
<1>5. ASSUME NEW m, IsMessage(m), AddMessage(m) PROVE StoreTexts'
  <2>1. IsTranscript(Append(cache.history, m))
    BY <1>2, <1>5, AppendedIs
  <2> QED BY <1>3, <1>5, <2>1 DEF AddMessage
<1>6. ASSUME NEW h, IsTranscript(h), SetHistory(h) PROVE StoreTexts'
  BY <1>3, <1>6 DEF SetHistory
<1>7. CASE TruncateHistory(KeepLast)
  <2>1. IsTranscript(Truncate(cache.history, KeepLast))
    BY <1>2, TruncateIs, KeepLastAssumption
  <2> QED BY <1>3, <1>7, <2>1 DEF TruncateHistory
<1>8. CASE Reset
  <2>1. cache' = [cache EXCEPT !.history = <<>>, !.summary = {}] /\ UNCHANGED <<row, saving>>
    BY <1>8 DEF Reset, Change
  <2>2. cache'.history = <<>>
    BY <1>2, <2>1 DEF SessionFields
  <2>3. IsTranscript(cache'.history)
    BY <2>2, EmptyReady DEF Ready
  <2> QED BY <1>1, <2>1, <2>3
<1>9. CASE (\E s : SetSummary(s)) \/ IncrementCompaction \/ SetMemoryFlushDone
  <2>1. cache'.history = cache.history /\ UNCHANGED <<row, saving>>
    BY <1>2, <1>9 DEF SetSummary, IncrementCompaction, SetMemoryFlushDone, Change, SessionFields
  <2> QED BY <1>1, <1>2, <2>1
<1>10. IsTranscript(NoSnapshot.history)
  BY EmptyReady DEF NoSnapshot, Ready
<1>11. CASE StoreRestart
  BY <1>10, <1>11 DEF StoreRestart, StoreTexts
<1>12. CASE \E a \in Savers : SaveReads(a)
  BY <1>2, <1>12 DEF SaveReads, StoreTexts
<1>13. ASSUME NEW a \in Savers, NEW ok, SaveWrites(a, ok) PROVE StoreTexts'
  <2>1. \A b \in Savers : saving'[b] = IF b = a THEN NoSnapshot ELSE saving[b]
    BY <1>2, <1>13 DEF SaveWrites
  <2>2. (row' = saving[a] \/ row' = row) /\ cache' = cache
    BY <1>13 DEF SaveWrites
  <2> QED BY <1>10, <2>1, <2>2 DEF StoreTexts
<1> QED BY <1>4, <1>5, <1>6, <1>7, <1>8, <1>9, <1>11, <1>12, <1>13

\* A run gets new local variables.
LEMMA SetTexts ==
    ASSUME TextsInv, ShapeInv, NEW r \in Runs, NEW new, run' = [run EXCEPT ![r] = new],
           TextOK(new), UNCHANGED storeVars
    PROVE  TextsInv'
<1>1. StoreTexts'
  BY DEF TextsInv, StoreTexts, storeVars
<1>2. \A q \in Runs : run'[q] = IF q = r THEN new ELSE run[q]
  BY SetIs
<1>3. \A q \in Runs : TextOK(run'[q])
  BY <1>2 DEF TextsInv
<1> QED BY <1>1, <1>3 DEF TextsInv

LEMMA Before_Texts ==
    ASSUME TextsInv, ShapeInv, NEW r \in Runs, Start(r) \/ ReadHistory(r) \/ ReadSummary(r)
    PROVE  TextsInv'
<1>0. DOMAIN run[r] = Fields /\ TextOK(run[r])
  BY DEF ShapeInv, TextsInv
<1>1. CASE Start(r)
  <2> DEFINE new == [Idle EXCEPT !.pc = "history", !.loop = cached, !.knew = Covered(cache)]
  <2>1. run' = [run EXCEPT ![r] = new] /\ UNCHANGED storeVars
    BY <1>1 DEF Start, Set
  <2>2. new.pc = "history" /\ SameTexts(new, Idle)
    BY DEF Idle, SameTexts
  <2> HIDE DEF new
  <2>3. TextOK(new)
    BY <2>2, IdleText, SameTextsOK
  <2> QED BY <2>1, <2>3, SetTexts
<1>2. CASE ReadHistory(r)
  <2> DEFINE new == [run[r] EXCEPT !.pc = "summary", !.snap = cache.history]
  <2>1. run' = [run EXCEPT ![r] = new] /\ UNCHANGED storeVars
    BY <1>2 DEF ReadHistory, Set
  <2>2. new.pc = "summary" /\ new.snap = cache.history /\ new.pending = run[r].pending
    BY <1>0 DEF Fields
  <2> HIDE DEF new
  <2>3. TextOK(new)
    BY <1>0, <2>2 DEF TextOK, TextsInv, StoreTexts
  <2> QED BY <2>1, <2>3, SetTexts
<1>3. CASE ReadSummary(r)
  <2> DEFINE dirty == Dropped(LimitTurns(run[r].snap, HistoryLimit)) > 0
             q == Messages(r, run[r].snap, cache.summary)
             msgs == LastCall(r, 1, q)
             new == [run[r] EXCEPT !.pc = IF dirty THEN "clean" ELSE "ask",
                                   !.iter = 1, !.knew = {},
                                   !.snap = IF dirty THEN run[r].snap ELSE <<>>,
                                   !.msgs = msgs, !.pending = <<Question(r)>>]
  <2>1. run' = [run EXCEPT ![r] = new] /\ UNCHANGED storeVars
    BY <1>3 DEF ReadSummary, Set
  <2>2. Ready(q)
    BY <1>0, MessagesReady DEF TextOK
  <2> HIDE DEF q
  <2>3. Ready(msgs)
    BY <2>2, LastCallReady
  <2> HIDE DEF msgs, dirty
  <2>4. /\ new.pc \in {"clean", "ask"} /\ new.msgs = msgs /\ new.pending = <<Question(r)>>
        /\ new.snap \in {run[r].snap, <<>>}
    BY <1>0 DEF Fields
  <2> HIDE DEF new
  <2>5. IsTranscript(new.snap)
    BY <1>0, <2>4, EmptyReady DEF Ready, TextOK
  <2>6. IsTranscript(new.pending)
    <3>1. IsTranscript(<<Question(r)>>)
      BY TextsArePlain, OneReady DEF Ready
    <3> QED BY <2>4, <3>1
  <2>7. TextOK(new)
    BY <2>3, <2>4, <2>5, <2>6 DEF TextOK
  <2> QED BY <2>1, <2>7, SetTexts
<1> QED BY <1>1, <1>2, <1>3

LEMMA AnswerText_Texts ==
    ASSUME TextsInv, ShapeInv, KeptInv, NEW r \in Runs, AnswerText(r)
    PROVE  TextsInv'
<1>0. DOMAIN run[r] = Fields /\ TextOK(run[r]) /\ inbox[r] \in Seq(Injections)
  BY DEF ShapeInv, TextsInv, KeptInv
<1> DEFINE y(x) == [x EXCEPT !.msgs = Append(@, Reply(r, x.iter)),
                             !.pending = Append(@, Reply(r, x.iter))]
           new(x) == IF inbox[r] = <<>> THEN Ended(r, x) ELSE Continued(r, Drained(r, y(x)))
<1>1. PICK x \in Answered(r) : run' = [run EXCEPT ![r] = new(x)]
  BY DEF AnswerText, Set
<1>2. At(r, "ask") /\ UNCHANGED storeVars
  BY DEF AnswerText, Ask
<1>3. Sendable(x)
  BY <1>0, <1>2, AnsweredText
<1> DEFINE m == Reply(r, x.iter)
<1>4. Plain(m)
  BY TextsArePlain
<1>5. /\ DOMAIN y(x) = Fields /\ y(x).msgs = Append(x.msgs, m) /\ y(x).snap = x.snap
      /\ y(x).pending = Append(x.pending, m) /\ y(x).over = x.over /\ y(x).split = x.split
  BY <1>3 DEF Sendable, Fields
<1> HIDE DEF m, y
<1>6. IsTranscript(y(x).pending)
  BY <1>3, <1>4, <1>5, AppendedIs DEF Sendable, Plain
<1>7. ~y(x).over /\ ~y(x).split => Ready(y(x).msgs)
  BY <1>3, <1>4, <1>5, AppendReady DEF Sendable
<1>8. Sendable(y(x))
  BY <1>3, <1>5, <1>6, <1>7 DEF Sendable
<1>9. TextOK(Continued(r, Drained(r, y(x))))
  BY <1>0, <1>8, DrainedText, ContinuedText
<1>10. TextOK(Ended(r, x))
  BY <1>3, EndedText DEF Sendable
<1>11. TextOK(new(x))
  BY <1>9, <1>10
<1> HIDE DEF new
<1> QED BY <1>1, <1>2, <1>11, SetTexts

LEMMA AnswerCutOff_Texts ==
    ASSUME TextsInv, ShapeInv, NEW r \in Runs, AnswerCutOff(r)
    PROVE  TextsInv'
<1>0. DOMAIN run[r] = Fields /\ TextOK(run[r])
  BY DEF ShapeInv, TextsInv
<1> DEFINE y(x) == [x EXCEPT !.msgs = @ \o <<Reply(r, x.iter), Reminder>>]
<1>1. PICK x \in Answered(r) : run' = [run EXCEPT ![r] = Continued(r, y(x))]
  BY DEF AnswerCutOff, Set
<1>2. At(r, "ask") /\ UNCHANGED storeVars
  BY DEF AnswerCutOff, Ask
<1>3. Sendable(x)
  BY <1>0, <1>2, AnsweredText
<1> DEFINE q == <<Reply(r, x.iter), Reminder>>
<1>4. Ready(q)
  BY TextsArePlain, TwoReady
<1>5. /\ DOMAIN y(x) = Fields /\ y(x).msgs = x.msgs \o q /\ y(x).snap = x.snap
      /\ y(x).pending = x.pending /\ y(x).over = x.over /\ y(x).split = x.split
  BY <1>3 DEF Sendable, Fields
<1> HIDE DEF q, y
<1>6. ~y(x).over /\ ~y(x).split => Ready(y(x).msgs)
  BY <1>3, <1>4, <1>5, JoinedReady DEF Sendable
<1>7. Sendable(y(x))
  BY <1>3, <1>5, <1>6 DEF Sendable
<1>8. TextOK(Continued(r, y(x)))
  BY <1>7, ContinuedText
<1> QED BY <1>1, <1>2, <1>8, SetTexts

LEMMA AnswerCalls_Texts ==
    ASSUME TextsInv, ShapeInv, NEW r \in Runs, NEW n \in CallSizes, AnswerCalls(r, n)
    PROVE  TextsInv'
<1>0. DOMAIN run[r] = Fields /\ TextOK(run[r]) /\ n \in Nat \ {0}
  BY LoopAssumption DEF ShapeInv, TextsInv
<1> DEFINE msg(x) == CallMsg(<<r, x.iter>>, Uniquify(r, x.iter, n))
           asked(x) == [x EXCEPT !.msgs = Append(@, msg(x)), !.pending = Append(@, msg(x)),
                                 !.calls = @ + n]
           over(x) == [asked(x) EXCEPT !.over = TRUE, !.msgs = Append(@, Reminder)]
           tools(x) == [asked(x) EXCEPT !.pc = "tools"]
           new(x) == IF asked(x).calls > MaxToolCalls THEN Continued(r, over(x)) ELSE tools(x)
<1>1. PICK x \in Answered(r) : run' = [run EXCEPT ![r] = new(x)]
  BY DEF AnswerCalls, Set
<1>2. At(r, "ask") /\ UNCHANGED storeVars
  BY DEF AnswerCalls, Ask
<1>3. Sendable(x)
  BY <1>0, <1>2, AnsweredText
<1> DEFINE m == msg(x)
<1>4. IsMessage(m) /\ HasCalls(m) /\ m.role = "assistant" /\ Differ(m.calls)
  BY <1>0, CallMsgIs
<1> HIDE DEF msg
<1>5. /\ DOMAIN asked(x) = Fields /\ asked(x).msgs = Append(x.msgs, m) /\ asked(x).snap = x.snap
      /\ asked(x).pending = Append(x.pending, m) /\ asked(x).over = x.over
      /\ asked(x).split = x.split
  BY <1>3 DEF Sendable, Fields
<1> HIDE DEF asked, m
<1>6. /\ IsTranscript(asked(x).pending) /\ Last(asked(x).pending) = m
  <2>1. Listed(x.pending)
    BY <1>3 DEF Sendable, IsTranscript
  <2>2. IsTranscript(asked(x).pending)
    BY <1>3, <1>4, <1>5, AppendedIs DEF Sendable
  <2>3. Last(asked(x).pending) = m
    BY <1>5, <2>1, AppendTags
  <2> QED BY <2>2, <2>3
<1>7. TextOK(tools(x))
  <2> DEFINE z == tools(x)
  <2>1. /\ z.pc = "tools" /\ z.msgs = asked(x).msgs /\ z.snap = x.snap
        /\ z.pending = asked(x).pending /\ z.over = x.over /\ z.split = x.split
    BY <1>5 DEF Fields
  <2> HIDE DEF z
  <2>2. ASSUME ~z.over /\ ~z.split
        PROVE  /\ IsTranscript(z.msgs) /\ DistinctCalls(z.msgs)
               /\ PairedBut(z.msgs, AllOpen(m.calls))
    <3>1. Ready(x.msgs)
      BY <1>3, <2>1, <2>2 DEF Sendable
    <3> DEFINE o == AllOpen(m.calls)
    <3>2. DOMAIN o = DOMAIN m.calls /\ Listed(o) /\ Missing(o) = ToSet(m.calls)
      BY <1>4, AllOpenIs DEF IsMessage
    <3> HIDE DEF o
    <3>3. IsTranscript(z.msgs) /\ PairedBut(z.msgs, o)
      BY <1>4, <1>5, <2>1, <3>1, <3>2, CallsOpen DEF Ready
    <3>4. DistinctCalls(z.msgs)
      BY <1>4, <1>5, <2>1, <3>1, AppendDistinct DEF Ready
    <3> QED BY <3>3, <3>4 DEF o
  <2>3. TextOK(z)
    BY <1>3, <1>4, <1>6, <2>1, <2>2 DEF TextOK, Sendable
  <2> QED BY <2>3 DEF z
<1>8. Sendable(over(x))
  <2> DEFINE z == over(x)
  <2>1. /\ DOMAIN z = Fields /\ z.snap = x.snap /\ z.pending = asked(x).pending /\ z.over = TRUE
    BY <1>5 DEF Fields
  <2> HIDE DEF z
  <2>2. Sendable(z)
    BY <1>3, <1>6, <2>1 DEF Sendable
  <2> QED BY <2>2 DEF z
<1> HIDE DEF over, tools
<1>9. TextOK(Continued(r, over(x)))
  BY <1>8, ContinuedText
<1>10. TextOK(new(x))
  BY <1>7, <1>9
<1> HIDE DEF new
<1> QED BY <1>1, <1>2, <1>10, SetTexts

LEMMA Tools_Texts ==
    ASSUME TextsInv, ShapeInv, KeptInv, NEW r \in Runs, NEW w, Tools(r, w)
    PROVE  TextsInv'
<1>0. /\ DOMAIN run[r] = Fields /\ TextOK(run[r]) /\ inbox[r] \in Seq(Injections)
      /\ At(r, "tools") /\ Calls(r) \in Nat /\ w \in 0 .. Calls(r) /\ UNCHANGED storeVars
  BY DEF ShapeInv, TextsInv, KeptInv, PendingOK, Tools, At, Calls
<1> DEFINE x == run[r]
           n == Calls(r)
           results == Results(r, n)
           warned == IF w = 0 THEN results ELSE InsertAt(results, w + 1, Reminder)
           y == [x EXCEPT !.msgs = @ \o warned, !.pending = @ \o results,
                          !.split = @ \/ w \in 1 .. n - 1]
           m == Last(x.pending)
<1>1. run' = [run EXCEPT ![r] = Continued(r, Drained(r, y))]
  BY DEF Tools, Set
<1>2. /\ IsTranscript(results) /\ DOMAIN results = 1 .. n /\ Len(results) = n
      /\ \A k \in 1 .. n : IsTool(results[k]) /\ results[k].calls = <<>>
                           /\ results[k].call = m.calls[k]
  BY <1>0, ResultsAre
<1>3. w = n => w = 0 \/ InsertAt(results, w + 1, Reminder) = results \o <<Reminder>>
  BY <1>2, WarnedIs
<1>4. n = Len(m.calls)
  BY DEF Calls
<1> HIDE DEF results, n
<1>5. /\ DOMAIN y = Fields /\ y.msgs = x.msgs \o warned /\ y.snap = x.snap
      /\ y.pending = x.pending \o results /\ y.over = x.over
      /\ ~y.split => ~x.split /\ w \notin 1 .. n - 1
  BY <1>0 DEF Fields
<1> HIDE DEF y
<1>6. IsTranscript(y.pending)
  BY <1>0, <1>2, <1>5, JoinedIs DEF TextOK
<1>7. ASSUME ~y.over, ~y.split PROVE Ready(y.msgs)
  <2>1. /\ ~x.over /\ ~x.split
        /\ warned = results \/ warned = results \o <<Reminder>>
    <3>1. w = 0 \/ w = n
      BY <1>0, <1>5, <1>7 DEF n
    <3> QED BY <1>3, <1>5, <1>7, <3>1
  <2> HIDE DEF warned
  <2> DEFINE open == AllOpen(m.calls)
             q == x.msgs \o results
  <2>2. IsTranscript(x.msgs) /\ DistinctCalls(x.msgs) /\ PairedBut(x.msgs, open)
    BY <1>0, <2>1 DEF TextOK, At
  <2>3. Listed(m.calls) /\ DOMAIN m.calls = 1 .. n
    <3>1. HasCalls(m) /\ IsTranscript(x.pending) /\ x.pending # <<>>
      BY <1>0 DEF TextOK, At, KeptInv, PendingOK
    <3>2. Len(x.pending) \in DOMAIN x.pending
      <4>1. Listed(x.pending)
        BY <3>1 DEF IsTranscript
      <4> QED BY <3>1, <4>1 DEF Listed
    <3>3. IsMessage(m)
      BY <3>1, <3>2 DEF IsTranscript, Last
    <3> QED BY <1>4, <3>3 DEF IsMessage, Listed
  <2>4. /\ Listed(open) /\ DOMAIN open = 1 .. n /\ Len(open) = n
        /\ \A k \in 1 .. n : open[k][2] = m.calls[k]
    BY <1>4, <2>3, AllOpenIs
  <2> HIDE DEF open, m, x
  <2>11. /\ DOMAIN results = DOMAIN open /\ Len(results) = Len(open)
         /\ \A k \in DOMAIN results : results[k].call = open[k][2] /\ IsTool(results[k])
    BY <1>2, <2>4
  <2>5. IsTranscript(q) /\ Paired(q)
    BY <1>2, <2>2, <2>4, <2>11, ClosedPaired
  <2>6. DistinctCalls(results)
    BY <1>2 DEF DistinctCalls
  <2>7. DistinctCalls(q)
    BY <1>2, <2>2, <2>6, JoinedDistinct
  <2>8. Ready(q)
    BY <2>5, <2>7 DEF Ready
  <2>9. CASE warned = results
    BY <1>5, <2>8, <2>9
  <2>10. CASE warned = results \o <<Reminder>>
    <3> DEFINE S == ToSet(x.msgs) \cup ToSet(results) \cup {Reminder}
    <3>1. x.msgs \in Seq(S) /\ results \in Seq(S) /\ <<Reminder>> \in Seq(S)
      BY <1>2, <2>2 DEF IsTranscript, Listed
    <3>2. q \o <<Reminder>> = x.msgs \o (results \o <<Reminder>>)
      <4> DEFINE a == x.msgs
                 b == results
                 c == <<Reminder>>
      <4> HIDE DEF S
      <4>1. a \in Seq(S) /\ b \in Seq(S) /\ c \in Seq(S)
        BY <3>1
      <4> HIDE DEF a, b, c
      <4>2. (a \o b) \o c = a \o (b \o c)
        BY <4>1, ConcatAssociative
      <4> QED BY <4>2 DEF a, b, c
    <3>3. Ready(<<Reminder>>)
      BY TextsArePlain, OneReady
    <3>4. Ready(q \o <<Reminder>>)
      BY <2>8, <3>3, JoinedReady
    <3> QED BY <1>5, <2>10, <3>2, <3>4
  <2> QED BY <2>1, <2>9, <2>10
<1>8. Sendable(y)
  BY <1>0, <1>5, <1>6, <1>7 DEF Sendable, TextOK
<1>9. TextOK(Continued(r, Drained(r, y)))
  BY <1>0, <1>8, DrainedText, ContinuedText
<1> QED BY <1>0, <1>1, <1>9, SetTexts

LEMMA Stuck_Texts ==
    ASSUME TextsInv, ShapeInv, KeptInv, NEW r \in Runs, NEW n, Stuck(r, n)
    PROVE  TextsInv'
<1>0. /\ DOMAIN run[r] = Fields /\ TextOK(run[r]) /\ UNCHANGED storeVars
      /\ At(r, "tools") /\ Calls(r) \in Nat /\ n \in 1 .. Calls(r)
  BY DEF ShapeInv, TextsInv, KeptInv, PendingOK, Stuck, At, Calls
<1> DEFINE y == [run[r] EXCEPT !.pending = @ \o Results(r, n), !.stuck = TRUE]
<1>1. run' = [run EXCEPT ![r] = Ended(r, y)]
  BY DEF Stuck, Set
<1>2. y.pending = run[r].pending \o Results(r, n)
  BY <1>0 DEF Fields
<1> HIDE DEF y
<1>3. IsTranscript(Results(r, n))
  BY <1>0, ResultsAre
<1>4. IsTranscript(y.pending)
  BY <1>0, <1>2, <1>3, JoinedIs DEF TextOK
<1>5. TextOK(Ended(r, y))
  BY <1>4, EndedText
<1> QED BY <1>0, <1>1, <1>5, SetTexts

LEMMA Fail_Texts ==
    ASSUME TextsInv, ShapeInv, NEW r \in Runs, Fail(r)
    PROVE  TextsInv'
<1>1. run' = [run EXCEPT ![r] = Failed] /\ UNCHANGED storeVars
  BY DEF Fail, Set, Ask
<1> QED BY <1>1, IdleText, SetTexts

\* The session is changed, and rs are the runs but for what they know.
LEMMA StillTexts ==
    ASSUME TextsInv, NEW rs, \A q \in Runs : DOMAIN rs[q] = Fields, StillKnown(rs),
           \A q \in Runs : TextOK(rs[q]), StoreTexts'
    PROVE  TextsInv'
<1>1. \A q \in Runs : run'[q].pc = rs[q].pc /\ SameTexts(run'[q], rs[q])
  BY StillKnownIs DEF Like, SameTexts
<1>2. \A q \in Runs : TextOK(run'[q])
  BY <1>1, SameTextsOK
<1> QED BY <1>2 DEF TextsInv

LEMMA Writes_Texts ==
    ASSUME TextsInv, ShapeInv, LocalsOK, NEW r \in Runs, Clean(r) \/ Flush(r)
    PROVE  TextsInv'
<1>0. /\ DOMAIN run = Runs /\ \A q \in Runs : DOMAIN run[q] = Fields /\ TextOK(run[q])
      /\ StoreTexts /\ StoreShape
  BY ShapeParts DEF ShapeInv, TextsInv
<1>1. CASE Clean(r)
  <2> DEFINE rs == [run EXCEPT ![r].pc = "cleanSave", ![r].snap = <<>>]
             new == [run[r] EXCEPT !.pc = "cleanSave", !.snap = <<>>]
  <2>1. StillKnown(rs) /\ run[r].pc = "clean" /\ SetHistory(Sanitize(run[r].snap))
    BY <1>1 DEF Clean, At
  <2>2. /\ DOMAIN new = Fields /\ new.pc = "cleanSave" /\ new.snap = <<>>
        /\ new.pending = run[r].pending /\ new.msgs = run[r].msgs
        /\ new.over = run[r].over /\ new.split = run[r].split
    BY <1>0 DEF Fields
  <2>3. \A q \in Runs : rs[q] = IF q = r THEN new ELSE run[q]
    BY <1>0
  <2> HIDE DEF rs, new
  <2>4. IsTranscript(<<>>)
    BY EmptyReady DEF Ready
  <2>5. TextOK(new)
    BY <1>0, <2>1, <2>2, <2>4 DEF TextOK
  <2>6. StoreTexts'
    <3>1. IsTranscript(Sanitize(run[r].snap))
      BY <1>0, SanitizeIs DEF TextOK
    <3> QED BY <1>0, <2>1, <3>1, StoreStep_Texts
  <2> QED BY <1>0, <2>1, <2>2, <2>3, <2>5, <2>6, StillTexts
<1>2. CASE Flush(r)
  <2> DEFINE n == run[r].flushed + 1
             tags == TagsOf(<<run[r].pending[n]>>)
             pc == IF n = Len(run[r].pending) THEN "save" ELSE "flush"
             new == [run[r] EXCEPT !.flushed = n, !.knew = @ \cup tags, !.pc = pc]
             rs == [run EXCEPT ![r].flushed = n, ![r].knew = @ \cup tags, ![r].pc = pc]
  <2>1. StillKnown(rs) /\ run[r].pc = "flush" /\ AddMessage(run[r].pending[n])
    BY <1>2 DEF Flush, At
  <2>2. pc \in {"save", "flush"}
    OBVIOUS
  <2>3. n \in DOMAIN run[r].pending
    <3>1. run[r].flushed \in Nat /\ run[r].flushed < Len(run[r].pending)
      BY <2>1 DEF LocalsOK, CountsOK
    <3>2. Len(run[r].pending) \in Nat /\ DOMAIN run[r].pending = 1 .. Len(run[r].pending)
      BY <1>0, TranscriptIs DEF TextOK
    <3> QED BY <3>1, <3>2
  <2> HIDE DEF pc, tags, n
  <2>4. /\ DOMAIN new = Fields /\ new.pc \in {"save", "flush"} /\ SameTexts(new, run[r])
    BY <1>0, <2>2 DEF Fields, SameTexts
  <2>5. \A q \in Runs : rs[q] = IF q = r THEN new ELSE run[q]
    BY <1>0
  <2> HIDE DEF rs, new
  <2>6. TextOK(new)
    BY <1>0, <2>4, SameTextsOK
  <2>7. StoreTexts'
    <3>1. IsMessage(run[r].pending[n])
      BY <1>0, <2>3 DEF TextOK, IsTranscript
    <3> QED BY <1>0, <2>1, <3>1, StoreStep_Texts
  <2> QED BY <1>0, <2>1, <2>4, <2>5, <2>6, <2>7, StillTexts
<1> QED BY <1>1, <1>2

\* A run goes from pc to pc, where it changes none of its messages.
LEMMA Goto_Texts ==
    ASSUME TextsInv, ShapeInv, NEW r \in Runs, NEW pc, Goto(r, pc), StoreTexts',
           \/ pc \notin {"clean", "cleanSave", "ask", "tools"}
           \/ run[r].pc = "cleanSave" /\ pc = "ask"
    PROVE  TextsInv'
<1>1. \A q \in Runs : SameTexts(run'[q], run[q]) /\ run'[q].pc = IF q = r THEN pc ELSE run[q].pc
  BY GotoIs DEF SameTexts
<1>2. \A q \in Runs : TextOK(run[q])
  BY DEF TextsInv
<1>3. \A q \in Runs : TextOK(run'[q])
  BY <1>1, <1>2, SameTextsOK
<1> QED BY <1>3 DEF TextsInv

LEMMA After_Texts ==
    ASSUME TextsInv, ShapeInv, NEW r \in Runs,
           Saved(r) \/ SkipSummary(r) \/ TryLock(r) \/ Return(r) \/ MemoryFlush(r)
    PROVE  TextsInv'
<1>1. StoreTexts /\ StoreShape
  BY ShapeParts DEF TextsInv
<1>2. <<r, "run">> \in Savers
  BY LoopAssumption
<1>3. StoreTexts'
  <2>1. \/ UNCHANGED storeVars \/ SetMemoryFlushDone
        \/ SaveWrites(<<r, "run">>, r \notin cancelled)
    BY DEF Saved, SkipSummary, TryLock, Return, MemoryFlush
  <2> QED BY <1>1, <1>2, <2>1, StoreStep_Texts
<1>4. CASE Saved(r)
  <2>1. Goto(r, AfterSave[run[r].pc]) /\ run[r].pc \in {"cleanSave", "save", "memSave"}
    BY <1>4, AfterSaveIs DEF Saved
  <2>2. /\ AfterSave["cleanSave"] = "ask" /\ AfterSave["save"] = "summarize"
        /\ AfterSave["memSave"] = "return"
    BY DEF AfterSave
  <2> QED BY <1>3, <2>1, <2>2, Goto_Texts
<1>5. CASE SkipSummary(r) \/ TryLock(r) \/ Return(r) \/ MemoryFlush(r)
  <2>1. \E pc \in {"return", "memFlush", "memSave", "done"} : Goto(r, pc)
    BY <1>5 DEF SkipSummary, TryLock, Return, MemoryFlush
  <2> QED BY <1>3, <2>1, Goto_Texts
<1> QED BY <1>4, <1>5

\* A step that does nothing with the runs.
LEMMA Quiet_Texts ==
    ASSUME TextsInv, ShapeInv, UNCHANGED run \/ StillKnown(run), StoreTexts'
    PROVE  TextsInv'
<1>1. CASE UNCHANGED run
  BY <1>1 DEF TextsInv
<1>2. CASE StillKnown(run)
  <2>1. \A q \in Runs : DOMAIN run[q] = Fields /\ TextOK(run[q])
    BY DEF ShapeInv, TextsInv
  <2> QED BY <1>2, <2>1, StillTexts
<1> QED BY <1>1, <1>2

LEMMA Sum_Texts ==
    ASSUME TextsInv, ShapeInv, NEW r \in Runs, SumStep(r) \/ Saves(r)
    PROVE  TextsInv'
<1>1. StoreTexts /\ StoreShape
  BY ShapeParts DEF TextsInv
<1>2. <<r, "run">> \in Savers /\ <<r, "sum">> \in Savers
  BY LoopAssumption
<1>3. /\ \/ UNCHANGED storeVars \/ SetSummary(NewSummary(r)) \/ TruncateHistory(KeepLast)
         \/ IncrementCompaction
         \/ (\E a \in Savers : SaveReads(a) \/ \E ok : SaveWrites(a, ok))
      /\ UNCHANGED run \/ StillKnown(run)
  BY <1>2 DEF SumStep, SumReadHistory, SumReadSummary, SumFails, SumStore, SumTruncate, SumCount,
              SumSaves, SumSaved, Saves, loopVars
<1>4. StoreTexts'
  BY <1>1, <1>3, StoreStep_Texts
<1> QED BY <1>3, <1>4, Quiet_Texts

LEMMA Outside_Texts ==
    ASSUME TextsInv, ShapeInv, \/ (\E i \in Injections : Inject(i)) \/ (\E r \in Runs : Abort(r))
                               \/ ExpireLoop \/ ResetSession \/ Restart \/ UNCHANGED vars
    PROVE  TextsInv'
<1>1. StoreTexts /\ StoreShape
  BY ShapeParts DEF TextsInv
<1>2. StoreTexts'
  <2>1. UNCHANGED storeVars \/ Reset \/ StoreRestart
    BY DEF Inject, Abort, ExpireLoop, ResetSession, Restart, vars
  <2> QED BY <1>1, <2>1, StoreStep_Texts
<1>3. CASE Restart
  <2> DEFINE rs == [r \in Runs |-> IF Running(r) THEN Failed ELSE run[r]]
  <2>1. StillKnown(rs)
    BY <1>3 DEF Restart
  <2>2. \A q \in Runs : DOMAIN rs[q] = Fields /\ TextOK(rs[q])
    BY IdleIs, IdleText DEF ShapeInv, TextsInv
  <2> HIDE DEF rs
  <2> QED BY <1>2, <2>1, <2>2, StillTexts
<1>4. CASE ~Restart
  <2>1. UNCHANGED run \/ StillKnown(run)
    BY <1>4 DEF Inject, Abort, ExpireLoop, ResetSession, loopVars, vars
  <2> QED BY <1>2, <2>1, Quiet_Texts
<1> QED BY <1>3, <1>4

LEMMA Next_Texts ==
    ASSUME TextsInv, ShapeInv, KeptInv, LocalsOK, [Next]_vars
    PROVE  TextsInv'
<1>1. ASSUME NEW r \in Runs, RunStep(r) PROVE TextsInv'
  BY <1>1, Before_Texts, AnswerText_Texts, AnswerCutOff_Texts, AnswerCalls_Texts, Tools_Texts,
     Stuck_Texts, Fail_Texts, Writes_Texts, Sum_Texts, After_Texts DEF RunStep
<1>2. ASSUME NEW r \in Runs, SumStep(r) PROVE TextsInv'
  BY <1>2, Sum_Texts
<1> QED BY <1>1, <1>2, Outside_Texts DEF Next

LEMMA Init_Texts ==
    ASSUME Init
    PROVE  TextsInv
<1>1. /\ IsTranscript(cache.history) /\ row = cache
      /\ saving = [a \in Savers |-> NoSnapshot] /\ NoSnapshot.history = <<>>
  BY StoredAssumption DEF Init, StoreInit, NoSnapshot
<1>2. StoreTexts
  BY <1>1, EmptyReady DEF StoreTexts, Ready
<1>3. \A r \in Runs : run[r] = Idle
  BY DEF Init
<1> QED BY <1>2, <1>3, IdleText DEF TextsInv

LEMMA SpecTexts == Spec => []TextsInv
<1>1. TextsInv /\ ShapeInv /\ KeptInv /\ LocalsOK /\ [Next]_vars => TextsInv'
  BY Next_Texts
<1>2. MemInv => ShapeInv
  BY DEF MemInv
<1> QED BY <1>1, <1>2, Init_Texts, SpecMem, SpecKept, SpecType, PTL DEF Spec

\* What t stands for is lost for one of the reasons there are.
Excused(t) ==
    \/ ResetSession \/ Restart
    \/ \E r \in Runs : Ours(r) /\ StaleView(r)
    \/ \E k \in DOMAIN cache.history :
         /\ cache.history[k].tag = t /\ IsTool(cache.history[k])
         /\ \E r \in Runs : At(r, "clean")

LEMMA Clean_Loses ==
    ASSUME ShapeInv, TextsInv, NEW r \in Runs, Clean(r),
           NEW t \in Covered(cache) \ Covered(cache')
    PROVE  Excused(t)
<1> DEFINE h == cache.history
           rs == [run EXCEPT ![r].pc = "cleanSave", ![r].snap = <<>>]
<1>1. At(r, "clean") /\ StillKnown(rs) /\ SetHistory(Sanitize(run[r].snap))
  BY DEF Clean
<1>2. cache'.history = Sanitize(run[r].snap) /\ cache'.summary = cache.summary
  BY <1>1 DEF SetHistory, Change, ShapeInv, SessionFields
<1>3. t \in TagsOf(h) /\ t \notin TagsOf(Sanitize(run[r].snap))
  BY <1>2 DEF Covered
<1>4. PICK k \in DOMAIN h : h[k].tag = t
  BY <1>3 DEF TagsOf
<1>5. t # <<>>
  BY <1>3 DEF TagsOf
<1>6. CASE h # run[r].snap
  <2>1. StaleView(r)
    BY <1>1, <1>6 DEF StaleView
  <2>2. run'[r].pc = "cleanSave"
    <3>1. \A q \in Runs : DOMAIN rs[q] = Fields
      BY DEF ShapeInv, Fields
    <3>2. rs[r].pc = "cleanSave"
      BY DEF ShapeInv, Fields
    <3> HIDE DEF rs
    <3> QED BY <1>1, <3>1, <3>2, StillKnownIs DEF Like
  <2>3. Ours(r)
    BY <1>1, <2>2 DEF Ours, At
  <2> QED BY <2>1, <2>3 DEF Excused
<1>7. CASE h = run[r].snap
  <2>1. IsTranscript(run[r].snap)
    BY DEF TextsInv, TextOK
  <2>2. ~IsTool(h[k]) => h[k].tag \in TagsOf(Sanitize(run[r].snap)) \cup {<<>>}
    BY <1>4, <1>7, <2>1, SanitizeIs
  <2>3. IsTool(h[k])
    BY <1>3, <1>4, <1>5, <2>2
  <2> QED BY <1>1, <1>4, <2>3 DEF Excused
<1> QED BY <1>6, <1>7

LEMMA Flush_Keeps ==
    ASSUME ShapeInv, TextsInv, NEW r \in Runs, Flush(r)
    PROVE  Covered(cache) \subseteq Covered(cache')
<1> DEFINE m == run[r].pending[run[r].flushed + 1]
<1>1. AddMessage(m)
  BY DEF Flush
<1> HIDE DEF m
<1>2. cache'.history = Append(cache.history, m) /\ cache'.summary = cache.summary
  BY <1>1 DEF AddMessage, Change, ShapeInv, SessionFields
<1>3. TagsOf(cache.history) \subseteq TagsOf(Append(cache.history, m))
  BY AppendTags DEF TextsInv, StoreTexts, IsTranscript
<1> QED BY <1>2, <1>3 DEF Covered

LEMMA SumWrites_Loses ==
    ASSUME ShapeInv, TextsInv, NEW r \in Runs, SumStore(r) \/ SumTruncate(r),
           NEW t \in Covered(cache) \ Covered(cache')
    PROVE  Excused(t)
<1>1. CASE SumStore(r)
  <2>1. /\ SumAt(r, "call") /\ cache'.history = cache.history /\ cache'.summary = NewSummary(r)
        /\ sum'[r].pc = "truncate"
    BY <1>1 DEF SumStore, SetSummary, Change, SumGoto, ShapeInv, SessionFields
  <2>2. ~(cache.summary \subseteq sum[r].summary)
    BY <2>1 DEF Covered, NewSummary
  <2> QED BY <2>1, <2>2 DEF Excused, Ours, StaleView, SumAt
<1>2. CASE SumTruncate(r)
  <2>1. /\ SumAt(r, "truncate") /\ cache'.history = Truncate(cache.history, KeepLast)
        /\ cache'.summary = cache.summary /\ sum'[r].pc = "count"
    BY <1>2 DEF SumTruncate, TruncateHistory, Change, SumGoto, ShapeInv, SessionFields
  <2>2. TagsOf(cache.history) \subseteq TagsOf(Truncate(cache.history, KeepLast))
           \cup TagsOf(SubSeq(cache.history, 1, Len(cache.history) - KeepLast))
    BY TruncateIs, KeepLastAssumption DEF TextsInv, StoreTexts
  <2>3. cache.history = sum[r].hist /\ cache.summary = NewSummary(r) => t \in Covered(cache')
    BY <2>1, <2>2 DEF Covered, NewSummary, ToSummarize
  <2>4. StaleView(r)
    BY <2>1, <2>3 DEF StaleView
  <2> QED BY <2>1, <2>4 DEF Excused, Ours, SumAt
<1> QED BY <1>1, <1>2
-----------------------------------------------------------------------------
(* Ids in whole transcripts. *)

\* The ids of all calls.
Ids(q) == UNION {ToSet(q[i].calls) : i \in DOMAIN q}

\* No two messages share an id.
Apart(q) == \A i, j \in DOMAIN q : i # j => ToSet(q[i].calls) \cap ToSet(q[j].calls) = {}

\* c has no id that q has not, nor one twice that q has once.
Within(c, q) == Ids(c) \subseteq Ids(q) /\ (UniqueIds(q) => UniqueIds(c))

LEMMA UniqueIs == ASSUME NEW q PROVE UniqueIds(q) <=> DistinctCalls(q) /\ Apart(q)
<1>1. ASSUME UniqueIds(q) PROVE DistinctCalls(q) /\ Apart(q)
  <2>1. ASSUME NEW i \in DOMAIN q, NEW j \in DOMAIN q, NEW k \in DOMAIN q[i].calls,
               NEW l \in DOMAIN q[j].calls, q[i].calls[k] = q[j].calls[l]
        PROVE  i = j /\ k = l
    <3>1. <<i, k>> = <<j, l>>
      BY <1>1, <2>1 DEF UniqueIds
    <3> QED BY <3>1
  <2> QED BY <2>1 DEF DistinctCalls, Apart, ToSet
<1>2. ASSUME DistinctCalls(q), Apart(q) PROVE UniqueIds(q)
  <2>1. ASSUME NEW i \in DOMAIN q, NEW j \in DOMAIN q, NEW k \in DOMAIN q[i].calls,
               NEW l \in DOMAIN q[j].calls, q[i].calls[k] = q[j].calls[l]
        PROVE  <<i, k>> = <<j, l>>
    <3>1. q[i].calls[k] \in ToSet(q[i].calls) /\ q[j].calls[l] \in ToSet(q[j].calls)
      BY DEF ToSet
    <3>2. i = j
      BY <1>2, <2>1, <3>1 DEF Apart
    <3> QED BY <1>2, <2>1, <3>2 DEF DistinctCalls
  <2> QED BY <2>1 DEF UniqueIds
<1> QED BY <1>1, <1>2

LEMMA EmptyIds == Ids(<<>>) = {} /\ UniqueIds(<<>>)
BY DEF Ids, UniqueIds

\* Messages without calls have no ids.
LEMMA CallessIds ==
    ASSUME NEW q, \A i \in DOMAIN q : q[i].calls = <<>>
    PROVE  Ids(q) = {} /\ UniqueIds(q)
<1>1. \A i \in DOMAIN q : ToSet(q[i].calls) = {} /\ DOMAIN q[i].calls = {}
  BY DEF ToSet
<1> QED BY <1>1 DEF Ids, UniqueIds

LEMMA JoinedIds ==
    ASSUME NEW p, NEW q, NEW c, IsTranscript(p), IsTranscript(q), c = p \o q
    PROVE  /\ Ids(c) = Ids(p) \cup Ids(q)
           /\ UniqueIds(p) /\ UniqueIds(q) /\ Ids(p) \cap Ids(q) = {} => UniqueIds(c)
<1> DEFINE n == Len(p)
<1>1. Len(c) = n + Len(q) /\ IsTranscript(c)
  BY JoinedIs
<1>2. \A i \in DOMAIN p : c[i] = p[i]
  BY JoinedIs
<1>3. \A i \in DOMAIN q : c[i + n] = q[i]
  BY JoinedIs
<1>4. /\ DOMAIN c = 1 .. n + Len(q) /\ DOMAIN p = 1 .. n /\ DOMAIN q = 1 .. Len(q)
      /\ n \in Nat /\ Len(q) \in Nat
  BY <1>1, TranscriptIs
<1> HIDE DEF n
<1>5. \A i \in DOMAIN c : i \in DOMAIN p \/ (i - n \in DOMAIN q /\ i = (i - n) + n)
  BY <1>4
<1>6. \A i \in DOMAIN c : \/ i \in DOMAIN p /\ c[i] = p[i]
                          \/ i - n \in DOMAIN q /\ c[i] = q[i - n]
  BY <1>2, <1>3, <1>5
<1>7. /\ \A i \in DOMAIN p : i \in DOMAIN c /\ c[i] = p[i]
      /\ \A i \in DOMAIN q : i + n \in DOMAIN c /\ c[i + n] = q[i]
  BY <1>2, <1>3, <1>4
<1>8. Ids(c) = Ids(p) \cup Ids(q)
  <2>1. \A x \in Ids(c) : x \in Ids(p) \cup Ids(q)
    BY <1>6 DEF Ids
  <2>2. \A x \in Ids(p) \cup Ids(q) : x \in Ids(c)
    BY <1>7 DEF Ids
  <2> QED BY <2>1, <2>2
<1>9. ASSUME UniqueIds(p), UniqueIds(q), Ids(p) \cap Ids(q) = {} PROVE UniqueIds(c)
  <2>1. DistinctCalls(p) /\ Apart(p) /\ DistinctCalls(q) /\ Apart(q)
    BY <1>9, UniqueIs
  <2>2. DistinctCalls(c)
    BY <2>1, JoinedDistinct
  <2>3. ASSUME NEW i \in DOMAIN c, NEW j \in DOMAIN c, i # j
        PROVE  ToSet(c[i].calls) \cap ToSet(c[j].calls) = {}
    <3>1. \A k \in DOMAIN p, l \in DOMAIN q : ToSet(p[k].calls) \cap ToSet(q[l].calls) = {}
      BY <1>9 DEF Ids
    <3>2. CASE i \in DOMAIN p /\ c[i] = p[i]
      BY <1>6, <2>1, <2>3, <3>1, <3>2 DEF Apart
    <3>3. CASE i - n \in DOMAIN q /\ c[i] = q[i - n]
      <4>1. i - n # j - n
        BY <1>4, <2>3
      <4> QED BY <1>6, <2>1, <3>1, <3>3, <4>1 DEF Apart
    <3> QED BY <1>6, <3>2, <3>3
  <2>4. Apart(c)
    BY <2>3 DEF Apart
  <2> QED BY <2>2, <2>4, UniqueIs
<1> QED BY <1>8, <1>9

LEMMA AppendIds ==
    ASSUME NEW q, NEW m, NEW c, IsTranscript(q), IsMessage(m), c = Append(q, m)
    PROVE  /\ Ids(c) = Ids(q) \cup ToSet(m.calls)
           /\ UniqueIds(q) /\ Differ(m.calls) /\ Ids(q) \cap ToSet(m.calls) = {} => UniqueIds(c)
<1> DEFINE p == <<m>>
<1>1. IsTranscript(p) /\ p[1] = m /\ DOMAIN p = {1}
  BY OneMessage
<1>2. c = q \o p
  BY AppendJoins
<1> HIDE DEF p
<1>3. Ids(p) = ToSet(m.calls)
  BY <1>1 DEF Ids
<1>4. Differ(m.calls) => UniqueIds(p)
  BY <1>1 DEF Differ, UniqueIds
<1>5. Ids(c) = Ids(q) \cup Ids(p)
  BY <1>1, <1>2, JoinedIds
<1>6. UniqueIds(q) /\ UniqueIds(p) /\ Ids(q) \cap Ids(p) = {} => UniqueIds(c)
  BY <1>1, <1>2, JoinedIds
<1> QED BY <1>3, <1>4, <1>5, <1>6

\* Joined with messages that have no calls, a transcript keeps its ids.
LEMMA JoinedCalless ==
    ASSUME NEW p, NEW q, NEW c, IsTranscript(p), IsTranscript(q), c = p \o q,
           \A i \in DOMAIN q : q[i].calls = <<>>
    PROVE  Ids(c) = Ids(p) /\ (UniqueIds(p) => UniqueIds(c))
<1>1. Ids(q) = {} /\ UniqueIds(q)
  BY CallessIds
<1>2. Ids(c) = Ids(p) \cup Ids(q)
  BY JoinedIds
<1>3. UniqueIds(p) /\ UniqueIds(q) /\ Ids(p) \cap Ids(q) = {} => UniqueIds(c)
  BY JoinedIds
<1> QED BY <1>1, <1>2, <1>3

LEMMA AppendCalless ==
    ASSUME NEW q, NEW m, NEW c, IsTranscript(q), Plain(m), c = Append(q, m)
    PROVE  Ids(c) = Ids(q) /\ (UniqueIds(q) => UniqueIds(c))
<1>1. m.calls = <<>> /\ IsMessage(m)
  BY DEF Plain, HasCalls, IsMessage
<1>2. ToSet(m.calls) = {} /\ Differ(m.calls)
  BY <1>1 DEF ToSet, Differ
<1>3. Ids(c) = Ids(q) \cup ToSet(m.calls)
  BY <1>1, AppendIds
<1>4. UniqueIds(q) /\ Differ(m.calls) /\ Ids(q) \cap ToSet(m.calls) = {} => UniqueIds(c)
  BY <1>1, AppendIds
<1> QED BY <1>2, <1>3, <1>4

LEMMA CutWithin ==
    ASSUME NEW q, NEW i \in DOMAIN q, NEW c, IsTranscript(q), c = From(q, i)
    PROVE  Within(c, q)
<1> DEFINE d == i - 1
<1>1. \A j \in DOMAIN c : j + d \in DOMAIN q /\ c[j] = q[j + d]
  BY FromIs
<1>2. IsTranscript(c)
  BY FromIs
<1>3. DOMAIN c \subseteq Int /\ d \in Int
  BY <1>2, TranscriptIs
<1> HIDE DEF d
<1>4. Ids(c) \subseteq Ids(q)
  BY <1>1 DEF Ids
<1>5. ASSUME UniqueIds(q) PROVE UniqueIds(c)
  <2>1. DistinctCalls(q) /\ Apart(q)
    BY <1>5, UniqueIs
  <2>2. DistinctCalls(c)
    BY <2>1, CutDistinct
  <2>3. \A j, k \in DOMAIN c : j # k => j + d # k + d
    BY <1>3
  <2>4. Apart(c)
    BY <1>1, <2>1, <2>3 DEF Apart
  <2> QED BY <2>2, <2>4, UniqueIs
<1> QED BY <1>4, <1>5 DEF Within

LEMMA WithinSelf == ASSUME NEW q PROVE Within(q, q)
BY DEF Within

\* What the limit on turns, the truncation and the compaction leave.
LEMMA LimitWithin ==
    ASSUME NEW q, NEW limit \in Int, IsTranscript(q)
    PROVE  Within(LimitTurns(q, limit), q)
<1>1. Users(q) \subseteq DOMAIN q
  BY DEF Users
<1> QED BY <1>1, LimitCuts, CutWithin, WithinSelf

LEMMA TruncateWithin ==
    ASSUME NEW q, NEW keep \in Nat \ {0}, IsTranscript(q)
    PROVE  Within(Truncate(q, keep), q)
BY TruncateCuts, CutWithin, EmptyIds DEF Within

LEMMA CompactWithin ==
    ASSUME NEW q, NEW summary, IsTranscript(q), Plain(summary)
    PROVE  Within(Compact(q, summary), q)
<1> DEFINE p == <<summary>>
<1>1. IsTranscript(p) /\ p[1] = summary /\ DOMAIN p = {1}
  BY OneMessage DEF Plain
<1>2. Ids(p) = {} /\ UniqueIds(p)
  <2>1. summary.calls = <<>>
    BY DEF Plain, HasCalls, IsMessage
  <2> QED BY <1>1, <2>1, CallessIds
<1> HIDE DEF p
<1>3. ASSUME NEW m \in DOMAIN q PROVE Within(p \o From(q, m), q)
  <2> DEFINE d == From(q, m)
             c == p \o d
  <2>1. IsTranscript(d)
    BY FromIs
  <2>2. Within(d, q)
    BY CutWithin
  <2> HIDE DEF d
  <2>3. Ids(c) = Ids(p) \cup Ids(d)
    BY <1>1, <2>1, JoinedIds
  <2>4. UniqueIds(p) /\ UniqueIds(d) /\ Ids(p) \cap Ids(d) = {} => UniqueIds(c)
    BY <1>1, <2>1, JoinedIds
  <2> HIDE DEF c
  <2>5. Within(c, q)
    BY <1>2, <2>2, <2>3, <2>4 DEF Within
  <2> QED BY <2>5 DEF c, d
<1>4. \/ Compact(q, summary) = q
      \/ \E m \in DOMAIN q : Compact(q, summary) = p \o From(q, m)
  BY CompactCuts DEF p
<1> QED BY <1>3, <1>4, WithinSelf
-----------------------------------------------------------------------------
(* The repair of a history whose ids are unique renames nothing. *)

LEMMA NotRenamed ==
    ASSUME NEW seen, NEW ids, Listed(ids), Differ(ids), ToSet(ids) \cap seen = {}
    PROVE  Renamed(seen, ids) = ids
<1> DEFINE new == Renamed(seen, ids)
           D == DOMAIN ids
           Bad == {k \in D : new[k] # ids[k]}
<1>1. DOMAIN new = D /\ new = [k \in D |-> new[k]]
  BY RenamedIs
<1>2. \A k \in D : new[k] = IF ids[k] \in seen \cup {new[l] : l \in 1 .. k - 1}
                            THEN Append(ids[k], k - 1) ELSE ids[k]
  BY RenamedIs
<1>3. ids \in Seq(ToSet(ids)) /\ Len(ids) \in Nat /\ D = 1 .. Len(ids)
  BY DEF Listed
<1> HIDE DEF new
<1>4. Bad = {}
  <2>1. SUFFICES ASSUME Bad # {} PROVE FALSE
    OBVIOUS
  <2>2. Bad \in SUBSET Nat
    BY <1>3
  <2>3. PICK k \in Bad : \A l \in Bad : k <= l
    BY <2>1, <2>2, LeastNumber
  <2>4. k \in D /\ ids[k] \notin seen
    BY DEF ToSet
  <2>5. ASSUME NEW l \in 1 .. k - 1 PROVE new[l] # ids[k]
    <3>1. l \in D /\ l # k /\ l \notin Bad
      BY <1>3, <2>3, <2>4
    <3> QED BY <2>4, <3>1 DEF Differ
  <2>6. ids[k] \notin seen \cup {new[l] : l \in 1 .. k - 1}
    BY <2>4, <2>5
  <2> QED BY <1>2, <2>4, <2>6
<1>5. \A k \in D : new[k] = ids[k]
  BY <1>4
<1>6. ids = [k \in D |-> ids[k]]
  BY <1>3
<1> QED BY <1>1, <1>5, <1>6 DEF new

\* The ids of the first i messages.
IdsTo(msgs, i) == UNION {ToSet(msgs[j].calls) : j \in 1 .. i}

\* What the repair of the first i messages has made has no id but theirs, and none twice.
PassIds(st, msgs, i) ==
    /\ st.seen \subseteq IdsTo(msgs, i) /\ Ids(st.out) \subseteq IdsTo(msgs, i)
    /\ UniqueIds(st.out)

LEMMA CloseIds ==
    ASSUME NEW st, NEW msgs, NEW i, PassOK(st, msgs, i), PassIds(st, msgs, i)
    PROVE  PassIds(Close(st), msgs, i)
<1> DEFINE x == Close(st)
           p == [l \in DOMAIN st.open |-> Synthetic(st.open[l][2])]
<1>1. x.out = st.out \o p /\ x.seen = st.seen
  BY DEF Close, PassOK, PassFields
<1>2. IsTranscript(p) /\ \A l \in DOMAIN p : p[l].calls = <<>>
  BY SyntheticsAre DEF PassOK
<1> HIDE DEF p, x
<1>3. IsTranscript(st.out)
  BY DEF PassOK
<1>4. Ids(x.out) = Ids(st.out) /\ (UniqueIds(st.out) => UniqueIds(x.out))
  BY <1>1, <1>2, <1>3, JoinedCalless
<1> QED BY <1>1, <1>4 DEF PassIds, x

LEMMA TakeResultIds ==
    ASSUME NEW st, NEW msgs, NEW i \in Nat, PassOK(st, msgs, i), PassIds(st, msgs, i),
           IsMessage(msgs[i + 1]), IsTool(msgs[i + 1])
    PROVE  PassIds(TakeResult(st, msgs[i + 1]), msgs, i)
<1> DEFINE m == msgs[i + 1]
           l == SelectInSeq(st.open, LAMBDA p : p[1] = m.call)
           x == TakeResult(st, m)
           new == [m EXCEPT !.call = st.open[l][2]]
<1>1. CASE l = 0
  <2>1. x.out = st.out /\ x.seen = st.seen
    BY <1>1 DEF TakeResult, PassOK, PassFields
  <2> HIDE DEF x
  <2> QED BY <2>1 DEF PassIds, x
<1>2. CASE l # 0
  <2>1. x.out = Append(st.out, new) /\ x.seen = st.seen
    BY <1>2 DEF TakeResult, PassOK, PassFields
  <2>2. /\ DOMAIN new = {"role", "tag", "calls", "call"} /\ new.calls = m.calls
        /\ new.role = m.role
    BY DEF IsMessage
  <2>3. IsMessage(new) /\ new.calls = <<>>
    BY <2>2 DEF IsMessage, IsTool
  <2> HIDE DEF x, new
  <2>4. ToSet(new.calls) = {} /\ Differ(new.calls) /\ IsTranscript(st.out)
    BY <2>3 DEF ToSet, Differ, PassOK
  <2>5. Ids(x.out) = Ids(st.out) \cup ToSet(new.calls)
    BY <2>1, <2>3, <2>4, AppendIds
  <2>6. UniqueIds(st.out) /\ Differ(new.calls) /\ Ids(st.out) \cap ToSet(new.calls) = {}
          => UniqueIds(x.out)
    BY <2>1, <2>3, <2>4, AppendIds
  <2> QED BY <2>1, <2>4, <2>5, <2>6 DEF PassIds, x
<1> QED BY <1>1, <1>2

LEMMA TakeCallsIds ==
    ASSUME NEW st, NEW msgs, NEW i \in Nat, PassOK(st, msgs, i), PassIds(st, msgs, i),
           IsMessage(msgs[i + 1]), Differ(msgs[i + 1].calls),
           ToSet(msgs[i + 1].calls) \cap IdsTo(msgs, i) = {}
    PROVE  PassIds(TakeCalls(st, msgs[i + 1]), msgs, i + 1)
<1> DEFINE m == msgs[i + 1]
           new == Renamed(st.seen, m.calls)
           x == TakeCalls(st, m)
<1>1. Listed(m.calls) /\ ToSet(m.calls) \cap st.seen = {}
  BY DEF IsMessage, PassIds
<1>2. new = m.calls
  BY <1>1, NotRenamed
<1> DEFINE y == [m EXCEPT !.calls = new]
<1>3. x.out = Append(st.out, y) /\ x.seen = st.seen \cup ToSet(new)
  BY DEF TakeCalls, PassOK, PassFields
<1> HIDE DEF new, x
<1>4. IsMessage(y) /\ y.calls = m.calls
  BY <1>2 DEF IsMessage
<1> HIDE DEF y
<1>5. x.out = Append(st.out, y) /\ x.seen = st.seen \cup ToSet(m.calls)
  BY <1>2, <1>3
<1>6. IsTranscript(st.out) /\ Ids(st.out) \cap ToSet(m.calls) = {}
  BY DEF PassOK, PassIds
<1>7. Ids(x.out) = Ids(st.out) \cup ToSet(m.calls)
  BY <1>4, <1>5, <1>6, AppendIds
<1>8. UniqueIds(st.out) /\ Differ(m.calls) /\ Ids(st.out) \cap ToSet(m.calls) = {} => UniqueIds(x.out)
  BY <1>4, <1>5, <1>6, AppendIds
<1>9. IdsTo(msgs, i + 1) = IdsTo(msgs, i) \cup ToSet(m.calls)
  <2>1. 1 .. i + 1 = (1 .. i) \cup {i + 1}
    OBVIOUS
  <2> QED BY <2>1 DEF IdsTo
<1> QED BY <1>5, <1>6, <1>7, <1>8, <1>9 DEF PassIds, x

LEMMA TakeIds ==
    ASSUME NEW st, NEW msgs, NEW i \in Nat, PassOK(st, msgs, i), PassIds(st, msgs, i),
           IsMessage(msgs[i + 1]), Differ(msgs[i + 1].calls),
           ToSet(msgs[i + 1].calls) \cap IdsTo(msgs, i) = {}
    PROVE  PassIds(Take(st, msgs[i + 1]), msgs, i + 1)
<1> DEFINE m == msgs[i + 1]
           z == Close(st)
<1>1. IdsTo(msgs, i) \subseteq IdsTo(msgs, i + 1)
  BY DEF IdsTo
<1>2. CASE IsTool(m)
  <2>1. Take(st, m) = TakeResult(st, m)
    BY <1>2 DEF Take
  <2>2. PassIds(TakeResult(st, m), msgs, i)
    BY <1>2, TakeResultIds
  <2> QED BY <1>1, <2>1, <2>2 DEF PassIds
<1>3. PassOK(z, msgs, i) /\ PassIds(z, msgs, i)
  BY CloseOK, CloseIds DEF PassClosed
<1> HIDE DEF z
<1>4. CASE HasCalls(m)
  <2>1. ~IsTool(m)
    BY <1>4 DEF HasCalls, IsTool
  <2>2. Take(st, m) = TakeCalls(z, m)
    BY <1>4, <2>1 DEF Take, z
  <2>3. PassIds(TakeCalls(z, m), msgs, i + 1)
    BY <1>3, TakeCallsIds
  <2> QED BY <2>2, <2>3
<1>5. CASE ~IsTool(m) /\ ~HasCalls(m)
  <2> DEFINE x == [z EXCEPT !.out = Append(@, m)]
  <2>1. Take(st, m) = x
    BY <1>5 DEF Take, z
  <2>2. x.out = Append(z.out, m) /\ x.seen = z.seen
    BY <1>3 DEF PassOK, PassFields
  <2> HIDE DEF x
  <2>3. Plain(m) /\ IsTranscript(z.out)
    BY <1>3, <1>5 DEF Plain, PassOK
  <2>4. Ids(x.out) = Ids(z.out) /\ (UniqueIds(z.out) => UniqueIds(x.out))
    BY <2>2, <2>3, AppendCalless
  <2>5. PassIds(x, msgs, i + 1)
    BY <1>1, <1>3, <2>2, <2>4 DEF PassIds
  <2> QED BY <2>1, <2>5
<1> QED BY <1>2, <1>4, <1>5

\* The ids of a message differ from one another and from all before them.
LEMMA NewIds ==
    ASSUME NEW msgs, IsTranscript(msgs), UniqueIds(msgs), NEW n \in DOMAIN msgs
    PROVE  Differ(msgs[n].calls) /\ ToSet(msgs[n].calls) \cap IdsTo(msgs, n - 1) = {}
<1>1. DistinctCalls(msgs) /\ Apart(msgs)
  BY UniqueIs
<1>2. DOMAIN msgs = 1 .. Len(msgs) /\ Len(msgs) \in Nat
  BY TranscriptIs
<1>3. \A j \in 1 .. n - 1 : j \in DOMAIN msgs /\ j # n
  BY <1>2
<1>4. \A j \in 1 .. n - 1 : ToSet(msgs[n].calls) \cap ToSet(msgs[j].calls) = {}
  BY <1>1, <1>3 DEF Apart
<1> QED BY <1>1, <1>4 DEF DistinctCalls, Differ, IdsTo

LEMMA SanitizeWithin ==
    ASSUME NEW msgs, IsTranscript(msgs), UniqueIds(msgs)
    PROVE  Within(Sanitize(msgs), msgs)
<1> DEFINE N == Len(msgs)
           pass == Passes(msgs)
           Bad == {i \in Nat : i <= N /\ ~PassIds(pass[i], msgs, i)}
<1>1. N \in Nat /\ DOMAIN msgs = 1 .. N /\ Listed(msgs)
  BY TranscriptIs
<1>2. /\ Sanitized(msgs) = Close(pass[N]) /\ pass[0] = Fresh
      /\ \A i \in DOMAIN msgs : pass[i] = Take(pass[i - 1], msgs[i])
  BY <1>1, PassesAre
<1>3. \A i \in 0 .. N : PassOK(pass[i], msgs, i)
  BY PassesOK
<1> HIDE DEF pass
<1>4. PassIds(pass[0], msgs, 0)
  <2>1. Fresh.out = <<>> /\ Fresh.seen = {}
    BY DEF Fresh
  <2> QED BY <1>2, <2>1, EmptyIds DEF PassIds
<1>5. Bad = {}
  <2>1. SUFFICES ASSUME Bad # {} PROVE FALSE
    OBVIOUS
  <2>2. PICK n \in Bad : \A i \in Bad : n <= i
    BY <2>1, LeastNumber
  <2>3. n # 0
    BY <1>4, <2>2
  <2>4. n \in DOMAIN msgs /\ n - 1 \in Nat /\ (n - 1) + 1 = n /\ n - 1 \in 0 .. N /\ ~(n <= n - 1)
    BY <1>1, <2>2, <2>3
  <2>5. PassIds(pass[n - 1], msgs, n - 1) /\ PassOK(pass[n - 1], msgs, n - 1)
    BY <1>1, <1>3, <2>2, <2>4
  <2>6. IsMessage(msgs[n])
    BY <2>4 DEF IsTranscript
  <2>7. Differ(msgs[n].calls) /\ ToSet(msgs[n].calls) \cap IdsTo(msgs, n - 1) = {}
    BY <2>4, NewIds
  <2>8. PassIds(Take(pass[n - 1], msgs[(n - 1) + 1]), msgs, (n - 1) + 1)
    BY <2>4, <2>5, <2>6, <2>7, TakeIds
  <2>9. pass[n] = Take(pass[n - 1], msgs[n])
    BY <1>2, <2>4
  <2> QED BY <2>2, <2>4, <2>8, <2>9
<1>6. PassIds(Sanitized(msgs), msgs, N)
  <2>1. PassOK(pass[N], msgs, N) /\ PassIds(pass[N], msgs, N)
    BY <1>1, <1>3, <1>5
  <2> QED BY <1>2, <2>1, CloseIds
<1>7. IdsTo(msgs, N) = Ids(msgs)
  BY <1>1 DEF IdsTo, Ids
<1> QED BY <1>6, <1>7 DEF PassIds, Within, Sanitize
-----------------------------------------------------------------------------
(* What the repair drops. *)

\* The ids, as the transcript has them, of the calls that are still open.
Asked(open) == {open[l][1] : l \in DOMAIN open}
AskedOnce(open) == \A k, l \in DOMAIN open : open[k][1] = open[l][1] => k = l

\* What is where once one element has been taken out.
LEMMA RemovedAt ==
    ASSUME NEW open, NEW rest, NEW i \in DOMAIN open, Listed(open), rest = RemoveAt(open, i)
    PROVE  /\ Listed(rest) /\ Len(open) \in Nat /\ Len(rest) = Len(open) - 1
           /\ DOMAIN open = 1 .. Len(open) /\ DOMAIN rest = 1 .. Len(rest)
           /\ \A j \in DOMAIN rest : rest[j] = IF j < i THEN open[j] ELSE open[j + 1]
<1> DEFINE S == ToSet(open)
           N == Len(open)
           a == SubSeq(open, 1, i - 1)
           b == SubSeq(open, i + 1, N)
<1>1. open \in Seq(S) /\ N \in Nat /\ i \in 1 .. N /\ DOMAIN open = 1 .. N
  BY DEF Listed
<1> HIDE DEF S
<1>2. \A j \in 1 .. N : open[j] \in S
  BY <1>1, ElementOfSeq
<1>3. /\ a \in Seq(S) /\ Len(a) = i - 1 /\ \A j \in 1 .. i - 1 : a[j] = open[j]
  <2>1. \A j \in 1 .. i - 1 : open[j] \in S
    BY <1>1, <1>2
  <2>2. /\ SubSeq(open, 1, i - 1) \in Seq(S)
        /\ Len(SubSeq(open, 1, i - 1)) = IF 1 <= i - 1 THEN (i - 1) - 1 + 1 ELSE 0
        /\ \A j \in 1 .. (i - 1) - 1 + 1 : SubSeq(open, 1, i - 1)[j] = open[1 + j - 1]
    BY <1>1, <2>1, SubSeqProperties
  <2> QED BY <1>1, <2>2
<1>4. /\ b \in Seq(S) /\ Len(b) = N - i /\ \A j \in 1 .. N - i : b[j] = open[i + j]
  <2>1. \A j \in i + 1 .. N : open[j] \in S
    BY <1>1, <1>2
  <2>2. /\ SubSeq(open, i + 1, N) \in Seq(S)
        /\ Len(SubSeq(open, i + 1, N)) = IF i + 1 <= N THEN N - (i + 1) + 1 ELSE 0
        /\ \A j \in 1 .. N - (i + 1) + 1 : SubSeq(open, i + 1, N)[j] = open[(i + 1) + j - 1]
    BY <1>1, <2>1, SubSeqProperties
  <2>3. N - (i + 1) + 1 = N - i /\ \A j \in 1 .. N - i : (i + 1) + j - 1 = i + j
    BY <1>1
  <2> QED BY <1>1, <2>2, <2>3
<1>5. rest = a \o b
  BY DEF RemoveAt
<1> HIDE DEF a, b
<1>6. /\ rest \in Seq(S) /\ Len(rest) = Len(a) + Len(b)
      /\ \A j \in 1 .. Len(a) + Len(b) : rest[j] = IF j <= Len(a) THEN a[j] ELSE b[j - Len(a)]
  BY <1>3, <1>4, <1>5, ConcatProperties
<1>7. Len(rest) = N - 1 /\ DOMAIN rest = 1 .. N - 1
  BY <1>1, <1>3, <1>4, <1>6
<1>8. \A j \in 1 .. N - 1 : rest[j] = IF j < i THEN open[j] ELSE open[j + 1]
  <2> TAKE j \in 1 .. N - 1
  <2>1. CASE j < i
    BY <1>1, <1>3, <1>4, <1>6, <2>1
  <2>2. CASE ~(j < i)
    <3>1. rest[j] = b[j - (i - 1)] /\ j - (i - 1) \in 1 .. N - i /\ i + (j - (i - 1)) = j + 1
      BY <1>1, <1>3, <1>4, <1>6, <2>2
    <3> QED BY <1>4, <2>2, <3>1
  <2> QED BY <2>1, <2>2
<1>9. Listed(rest)
  BY <1>6, ListedIs
<1> QED BY <1>1, <1>7, <1>8, <1>9

\* One of the calls is taken out of the open ones.
LEMMA RemovedAsked ==
    ASSUME NEW open, NEW rest, NEW i \in DOMAIN open, Listed(open), AskedOnce(open),
           rest = RemoveAt(open, i)
    PROVE  AskedOnce(rest) /\ Asked(rest) \subseteq Asked(open) \ {open[i][1]}
<1>1. /\ Len(open) \in Nat /\ Len(rest) = Len(open) - 1
      /\ DOMAIN open = 1 .. Len(open) /\ DOMAIN rest = 1 .. Len(rest)
  BY RemovedAt
<1>2. \A j \in DOMAIN rest : rest[j] = IF j < i THEN open[j] ELSE open[j + 1]
  BY RemovedAt
<1> DEFINE at(j) == IF j < i THEN j ELSE j + 1
<1>3. \A j \in DOMAIN rest : at(j) \in DOMAIN open /\ at(j) # i /\ rest[j] = open[at(j)]
  BY <1>1, <1>2
<1>4. \A j, k \in DOMAIN rest : at(j) = at(k) => j = k
  BY <1>1
<1> HIDE DEF at
<1>5. AskedOnce(rest)
  BY <1>3, <1>4 DEF AskedOnce
<1>6. \A j \in DOMAIN rest : rest[j][1] \in Asked(open) /\ rest[j][1] # open[i][1]
  BY <1>3 DEF AskedOnce, Asked
<1> QED BY <1>5, <1>6 DEF Asked

\* When there are as many results as open calls and each call has one, the first
\* result is one of them: the others are too few for all the calls.
LEMMA FirstMatches ==
    ASSUME NEW open, NEW msgs, NEW i \in Nat, Listed(open), AskedOnce(open), open # <<>>,
           Asked(open) \subseteq Given(msgs, i, i + Len(open))
    PROVE  msgs[i + 1].call \in Asked(open)
<1> DEFINE n == Len(open)
           T == i + 2 .. i + n
           D == 1 .. n
<1>1. n \in Nat \ {0} /\ DOMAIN open = D
  BY DEF Listed
<1>2. SUFFICES ASSUME msgs[i + 1].call \notin Asked(open) PROVE FALSE
  OBVIOUS
<1>3. \A k \in D : \E x \in T : msgs[x].call = open[k][1]
  <2> TAKE k \in D
  <2>1. open[k][1] \in Asked(open)
    BY <1>1 DEF Asked
  <2>2. PICK x \in i + 1 .. i + n : msgs[x].call = open[k][1]
    BY <2>1 DEF Given
  <2>3. x # i + 1
    BY <1>2, <2>1, <2>2
  <2> QED BY <1>1, <2>2, <2>3
<1> DEFINE f == [k \in D |-> CHOOSE x \in T : msgs[x].call = open[k][1]]
<1>4. f \in [D -> T] /\ \A k \in D : msgs[f[k]].call = open[k][1]
  BY <1>3
<1> HIDE DEF f
<1>5. /\ IsFiniteSet(D) /\ Cardinality(D) = n
      /\ IsFiniteSet(T) /\ Cardinality(T) < n
  <2>1. IsFiniteSet(D) /\ Cardinality(D) = n
    BY <1>1, FS_Interval
  <2>2. i + 2 \in Int /\ i + n \in Int
    BY <1>1
  <2>3. IsFiniteSet(T) /\ Cardinality(T) = IF i + 2 > i + n THEN 0 ELSE (i + n) - (i + 2) + 1
    BY <2>2, FS_Interval
  <2> QED BY <1>1, <2>1, <2>3
<1> HIDE DEF D, T, n
<1>6. PICK k, l \in D : k # l /\ f[k] = f[l]
  BY <1>4, <1>5, FS_PigeonHole
<1>7. open[k][1] = open[l][1]
  BY <1>4, <1>6
<1> QED BY <1>1, <1>6, <1>7 DEF AskedOnce

\* The state of the repair of a paired transcript after i messages: nothing is
\* dropped, and the messages that come next are the results of the open calls.
PassPaired(st, msgs, i) ==
    /\ st.dropped = 0 /\ AskedOnce(st.open)
    /\ \A x \in i + 1 .. i + Len(st.open) : x \in DOMAIN msgs /\ IsTool(msgs[x])
    /\ Asked(st.open) \subseteq Given(msgs, i, i + Len(st.open))
    /\ \A e \in Callers(msgs) : e <= i => EndOf(msgs, e) <= i + Len(st.open)

\* Where no result comes next, no call is open.
LEMMA NoneOpen ==
    ASSUME NEW st, NEW msgs, NEW i \in Nat, PassOK(st, msgs, i), PassPaired(st, msgs, i),
           i + 1 \in DOMAIN msgs => ~IsTool(msgs[i + 1])
    PROVE  /\ st.open = <<>> /\ Len(st.open) = 0
           /\ Close(st).open = <<>> /\ Close(st).dropped = 0 /\ PassOK(Close(st), msgs, i)
           /\ \A e \in Callers(msgs) : e <= i => EndOf(msgs, e) <= i
<1>1. Listed(st.open) /\ Len(st.open) \in Nat
  BY DEF PassOK, Listed
<1>2. Len(st.open) = 0
  <2>1. ASSUME Len(st.open) # 0 PROVE FALSE
    <3>1. i + 1 \in i + 1 .. i + Len(st.open)
      BY <1>1, <2>1
    <3> QED BY <3>1 DEF PassPaired
  <2> QED BY <2>1
<1>3. st.open = <<>>
  BY <1>1, <1>2 DEF Listed
<1>4. PassOK(Close(st), msgs, i) /\ Close(st).open = <<>>
  BY CloseOK DEF PassClosed
<1>5. Close(st).dropped = st.dropped + Len(st.open)
  BY DEF Close, PassOK, PassFields
<1>6. Close(st).dropped = 0
  BY <1>2, <1>5 DEF PassPaired
<1>7. ASSUME NEW e \in Callers(msgs), e <= i PROVE EndOf(msgs, e) <= i
  <2>1. EndOf(msgs, e) <= i + Len(st.open)
    BY <1>7 DEF PassPaired
  <2> QED BY <1>2, <2>1
<1> QED BY <1>2, <1>3, <1>4, <1>6, <1>7

\* Nothing open, and the last caller has had its results.
LEMMA NothingOpen ==
    ASSUME NEW st, NEW msgs, NEW i \in Nat, st.dropped = 0, st.open = <<>>,
           \A e \in Callers(msgs) : e <= i => EndOf(msgs, e) <= i
    PROVE  PassPaired(st, msgs, i)
<1>1. Len(st.open) = 0 /\ Asked(st.open) = {} /\ AskedOnce(st.open)
  BY DEF Asked, AskedOnce
<1>2. i + Len(st.open) = i /\ ~(i + 1 <= i)
  BY <1>1
<1> QED BY <1>1, <1>2 DEF PassPaired

LEMMA TakeResultPaired ==
    ASSUME NEW st, NEW msgs, NEW i \in Nat, PassOK(st, msgs, i), PassPaired(st, msgs, i),
           IsTranscript(msgs), Paired(msgs), i + 1 \in DOMAIN msgs, IsTool(msgs[i + 1])
    PROVE  PassPaired(TakeResult(st, msgs[i + 1]), msgs, i + 1)
<1> DEFINE m == msgs[i + 1]
           l == SelectInSeq(st.open, LAMBDA p : p[1] = m.call)
           x == TakeResult(st, m)
           n == Len(st.open)
           I == {k \in 1 .. n : st.open[k][1] = m.call}
<1>1. Listed(st.open) /\ n \in Nat /\ DOMAIN st.open = 1 .. n
  BY DEF PassOK, Listed
<1>2. st.open # <<>>
  <2>1. PICK e \in Callers(msgs) : e < i + 1 /\ i + 1 <= EndOf(msgs, e)
    BY PairedIs DEF PairedBut
  <2>2. e \in Nat /\ EndOf(msgs, e) \in Nat
    BY TranscriptIs DEF Callers
  <2>3. e <= i
    BY <2>1, <2>2
  <2>4. EndOf(msgs, e) <= i + n
    BY <2>3 DEF PassPaired
  <2>5. n # 0
    BY <1>1, <2>1, <2>2, <2>4
  <2> QED BY <2>5
<1>3. m.call \in Asked(st.open)
  BY <1>1, <1>2, FirstMatches DEF PassPaired
<1>4. I # {}
  BY <1>1, <1>3 DEF Asked
<1>5. l \in DOMAIN st.open /\ st.open[l][1] = m.call /\ l # 0
  <2>1. l = IF I # {} THEN Min(I) ELSE 0
    BY DEF SelectInSeq
  <2>2. \E k \in I : \A y \in I : k <= y
    <3>1. I \in SUBSET Nat
      BY <1>1
    <3> QED BY <1>4, <3>1, LeastNumber
  <2>3. l \in I
    BY <1>4, <2>1, <2>2 DEF Min
  <2> QED BY <1>1, <2>3
<1> DEFINE rest == RemoveAt(st.open, l)
<1>6. x.open = rest /\ x.dropped = st.dropped
  BY <1>5 DEF TakeResult, PassOK, PassFields
<1> HIDE DEF l, I, x
<1>7. Len(rest) = n - 1 /\ Listed(rest)
  BY <1>1, <1>5, RemovedAt
<1>8. AskedOnce(rest) /\ Asked(rest) \subseteq Asked(st.open) \ {m.call}
  <2>1. AskedOnce(st.open)
    BY DEF PassPaired
  <2> QED BY <1>1, <1>5, <2>1, RemovedAsked
<1> HIDE DEF rest, n
<1>9. (i + 1) + Len(rest) = i + n
  BY <1>1, <1>7
<1>10. \A y \in i + 2 .. i + n : y \in i + 1 .. i + n
  BY <1>1
<1>11. \A y \in i + 2 .. i + n : y \in DOMAIN msgs /\ IsTool(msgs[y])
  BY <1>10 DEF PassPaired, n
<1>12. Asked(rest) \subseteq Given(msgs, i + 1, i + n)
  <2> SUFFICES ASSUME NEW id \in Asked(rest) PROVE id \in Given(msgs, i + 1, i + n)
    OBVIOUS
  <2>1. id \in Given(msgs, i, i + n) /\ id # m.call
    BY <1>8 DEF PassPaired, n
  <2>2. PICK y \in i + 1 .. i + n : id = msgs[y].call
    BY <2>1 DEF Given
  <2>3. y # i + 1
    BY <2>1, <2>2
  <2>4. y \in (i + 1) + 1 .. i + n
    BY <1>1, <2>2, <2>3
  <2> QED BY <2>2, <2>4 DEF Given
<1>13. \A e \in Callers(msgs) : e <= i + 1 => EndOf(msgs, e) <= i + n
  <2> SUFFICES ASSUME NEW e \in Callers(msgs), e <= i + 1 PROVE EndOf(msgs, e) <= i + n
    OBVIOUS
  <2>1. e # i + 1 /\ e \in Nat
    BY TranscriptIs DEF Callers, HasCalls, IsTool
  <2>2. e <= i
    BY <2>1
  <2> QED BY <2>2 DEF PassPaired, n
<1>14. (i + 1) + 1 = i + 2
  OBVIOUS
<1>15. x.dropped = 0
  BY <1>6 DEF PassPaired
<1> QED BY <1>6, <1>8, <1>9, <1>11, <1>12, <1>13, <1>14, <1>15 DEF PassPaired, x

LEMMA TakeCallsPaired ==
    ASSUME NEW st, NEW msgs, NEW i \in Nat, PassOK(st, msgs, i), st.dropped = 0,
           \A e \in Callers(msgs) : e <= i => EndOf(msgs, e) <= i,
           IsTranscript(msgs), Paired(msgs), DistinctCalls(msgs),
           i + 1 \in DOMAIN msgs, HasCalls(msgs[i + 1])
    PROVE  PassPaired(TakeCalls(st, msgs[i + 1]), msgs, i + 1)
<1> DEFINE m == msgs[i + 1]
           new == Renamed(st.seen, m.calls)
           open == [k \in DOMAIN new |-> <<m.calls[k], new[k]>>]
           x == TakeCalls(st, m)
           s == i + 1
<1>1. x.open = open /\ x.dropped = 0
  BY DEF TakeCalls, PassOK, PassFields
<1>2. IsMessage(m) /\ Listed(m.calls) /\ Len(m.calls) \in Nat /\ DOMAIN m.calls = 1 .. Len(m.calls)
  BY DEF IsTranscript, IsMessage, Listed
<1>3. DOMAIN new = DOMAIN m.calls
  BY <1>2, RenamedIds
<1> HIDE DEF x
<1>4. DOMAIN open = DOMAIN m.calls /\ \A k \in DOMAIN open : open[k][1] = m.calls[k]
  BY <1>3
<1>5. open = [k \in 1 .. Len(m.calls) |-> open[k]]
  BY <1>2, <1>3
<1> HIDE DEF open, new
<1>6. Len(open) = Len(m.calls)
  BY <1>2, <1>5, MadeListed
<1>7. AskedOnce(open) /\ Asked(open) = ToSet(m.calls)
  BY <1>4 DEF AskedOnce, Asked, ToSet, DistinctCalls
<1>8. s \in Callers(msgs) /\ EndOf(msgs, s) = s + Len(open)
  BY <1>6 DEF Callers, EndOf
<1>9. /\ EndOf(msgs, s) <= Len(msgs) /\ Len(msgs) \in Nat /\ DOMAIN msgs = 1 .. Len(msgs)
      /\ \A j \in s + 1 .. EndOf(msgs, s) : j <= Len(msgs) => IsTool(msgs[j])
      /\ Given(msgs, s, EndOf(msgs, s)) = ToSet(msgs[s].calls)
  <2>1. PairedBut(msgs, <<>>) /\ Len(<<>>) = 0
    BY PairedIs
  <2>2. Len(msgs) \in Nat /\ DOMAIN msgs = 1 .. Len(msgs) /\ EndOf(msgs, s) \in Nat
    BY TranscriptIs
  <2>3. EndOf(msgs, s) <= Len(msgs) + Len(<<>>)
    BY <1>8, <2>1 DEF PairedBut
  <2>4. EndOf(msgs, s) <= Len(msgs)
    BY <2>1, <2>2, <2>3
  <2> QED BY <1>8, <2>1, <2>2, <2>4 DEF PairedBut
<1>10. \A j \in s + 1 .. s + Len(open) : j \in DOMAIN msgs /\ IsTool(msgs[j])
  <2> TAKE j \in s + 1 .. s + Len(open)
  <2>1. s \in Nat /\ Len(open) \in Nat
    BY <1>2, <1>6
  <2>2. EndOf(msgs, s) = s + Len(open) /\ EndOf(msgs, s) <= Len(msgs) /\ Len(msgs) \in Nat
    BY <1>8, <1>9
  <2> HIDE DEF s
  <2>3. j \in 1 .. Len(msgs) /\ j <= Len(msgs) /\ j \in s + 1 .. EndOf(msgs, s)
    BY <2>1, <2>2
  <2> QED BY <1>9, <2>3
<1>11. Asked(open) \subseteq Given(msgs, s, s + Len(open))
  BY <1>7, <1>8, <1>9
<1>12. ASSUME NEW e \in Callers(msgs), e <= s PROVE EndOf(msgs, e) <= s + Len(open)
  <2>1. e \in Nat /\ EndOf(msgs, e) \in Nat
    BY TranscriptIs DEF Callers
  <2>2. CASE e = s
    BY <1>8, <2>1, <2>2
  <2>3. CASE e # s
    <3>1. e <= i
      BY <1>12, <2>1, <2>3
    <3>2. EndOf(msgs, e) <= i
      BY <3>1
    <3>3. Len(open) \in Nat
      BY <1>2, <1>6
    <3> QED BY <2>1, <3>2, <3>3
  <2> QED BY <2>2, <2>3
<1>13. PassPaired(x, msgs, s)
  <2> HIDE DEF s, m
  <2>1. x.dropped = 0 /\ AskedOnce(x.open)
    BY <1>1, <1>7
  <2>2. \A j \in s + 1 .. s + Len(x.open) : j \in DOMAIN msgs /\ IsTool(msgs[j])
    BY <1>1, <1>10
  <2>3. Asked(x.open) \subseteq Given(msgs, s, s + Len(x.open))
    BY <1>1, <1>11
  <2>4. \A e \in Callers(msgs) : e <= s => EndOf(msgs, e) <= s + Len(x.open)
    BY <1>1, <1>12
  <2> QED BY <2>1, <2>2, <2>3, <2>4 DEF PassPaired
<1> QED BY <1>13 DEF x

LEMMA TakePaired ==
    ASSUME NEW st, NEW msgs, NEW i \in Nat, PassOK(st, msgs, i), PassPaired(st, msgs, i),
           IsTranscript(msgs), Paired(msgs), DistinctCalls(msgs), i + 1 \in DOMAIN msgs
    PROVE  PassPaired(Take(st, msgs[i + 1]), msgs, i + 1)
<1> DEFINE m == msgs[i + 1]
           z == Close(st)
<1>1. CASE IsTool(m)
  BY <1>1, TakeResultPaired DEF Take
<1>2. CASE ~IsTool(m)
  <2>1. z.open = <<>> /\ z.dropped = 0 /\ PassOK(z, msgs, i)
    BY <1>2, NoneOpen
  <2>2. \A e \in Callers(msgs) : e <= i => EndOf(msgs, e) <= i
    BY <1>2, NoneOpen
  <2> HIDE DEF z
  <2>3. CASE HasCalls(m)
    <3>1. Take(st, m) = TakeCalls(z, m)
      BY <1>2, <2>3 DEF Take, z
    <3>2. PassPaired(TakeCalls(z, m), msgs, i + 1)
      BY <2>1, <2>2, <2>3, TakeCallsPaired
    <3> QED BY <3>1, <3>2
  <2>4. CASE ~HasCalls(m)
    <3> DEFINE x == [z EXCEPT !.out = Append(@, m)]
    <3>1. Take(st, m) = x
      BY <1>2, <2>4 DEF Take, z
    <3>2. x.open = <<>> /\ x.dropped = 0
      BY <2>1 DEF PassOK, PassFields
    <3> HIDE DEF x
    <3>3. ASSUME NEW e \in Callers(msgs), e <= i + 1 PROVE EndOf(msgs, e) <= i + 1
      <4>1. e # i + 1 /\ e \in Nat /\ EndOf(msgs, e) \in Nat
        BY <2>4, TranscriptIs DEF Callers
      <4>2. e <= i
        BY <3>3, <4>1
      <4>3. EndOf(msgs, e) <= i
        BY <2>2, <4>2
      <4> QED BY <4>1, <4>3
    <3>4. PassPaired(x, msgs, i + 1)
      BY <3>2, <3>3, NothingOpen
    <3> QED BY <3>1, <3>4
  <2> QED BY <2>3, <2>4
<1> QED BY <1>1, <1>2

\* The repair of a paired transcript drops nothing and makes nothing up.
LEMMA PairedDropsNothing ==
    ASSUME NEW msgs, IsTranscript(msgs), Paired(msgs), DistinctCalls(msgs)
    PROVE  Dropped(msgs) = 0
<1> DEFINE N == Len(msgs)
           pass == Passes(msgs)
           Bad == {i \in Nat : i <= N /\ ~PassPaired(pass[i], msgs, i)}
<1>1. N \in Nat /\ DOMAIN msgs = 1 .. N /\ Listed(msgs)
  BY TranscriptIs
<1>2. /\ Sanitized(msgs) = Close(pass[N]) /\ pass[0] = Fresh
      /\ \A i \in DOMAIN msgs : pass[i] = Take(pass[i - 1], msgs[i])
  BY <1>1, PassesAre
<1>3. \A i \in 0 .. N : PassOK(pass[i], msgs, i)
  BY PassesOK
<1> HIDE DEF pass
<1>4. PassPaired(pass[0], msgs, 0)
  <2>1. Fresh.open = <<>> /\ Fresh.dropped = 0
    BY DEF Fresh
  <2>2. \A e \in Callers(msgs) : ~(e <= 0)
    BY <1>1 DEF Callers
  <2> QED BY <1>2, <2>1, <2>2, NothingOpen
<1>5. Bad = {}
  <2>1. SUFFICES ASSUME Bad # {} PROVE FALSE
    OBVIOUS
  <2>2. PICK n \in Bad : \A i \in Bad : n <= i
    BY <2>1, LeastNumber
  <2>3. n # 0
    BY <1>4, <2>2
  <2>4. n \in DOMAIN msgs /\ n - 1 \in Nat /\ (n - 1) + 1 = n /\ n - 1 \in 0 .. N /\ ~(n <= n - 1)
    BY <1>1, <2>2, <2>3
  <2>5. PassPaired(pass[n - 1], msgs, n - 1) /\ PassOK(pass[n - 1], msgs, n - 1)
    BY <1>1, <1>3, <2>2, <2>4
  <2>6. PassPaired(Take(pass[n - 1], msgs[(n - 1) + 1]), msgs, (n - 1) + 1)
    BY <2>4, <2>5, TakePaired
  <2>7. pass[n] = Take(pass[n - 1], msgs[n])
    BY <1>2, <2>4
  <2> QED BY <2>2, <2>4, <2>6, <2>7
<1>6. PassOK(pass[N], msgs, N) /\ PassPaired(pass[N], msgs, N)
  BY <1>1, <1>3, <1>5
<1>7. N + 1 \notin DOMAIN msgs
  BY <1>1
<1>8. Close(pass[N]).dropped = 0
  BY <1>1, <1>6, <1>7, NoneOpen
<1> QED BY <1>2, <1>8 DEF Dropped

\* Two messages are the same, field by field.
Alike(x, m) == x.role = m.role /\ x.tag = m.tag /\ x.calls = m.calls /\ x.call = m.call

\* The state of the repair after i messages none of whose ids is renamed: as long as
\* nothing has been dropped or made up, nothing is changed.
PassSame(st, msgs, i) ==
    /\ st.dropped \in Nat
    /\ st.dropped = 0 =>
         /\ Len(st.out) = i /\ \A j \in 1 .. i : Alike(st.out[j], msgs[j])
         /\ \A l \in DOMAIN st.open : st.open[l][1] = st.open[l][2]

LEMMA CloseSame ==
    ASSUME NEW st, NEW msgs, NEW i \in Nat, PassOK(st, msgs, i), PassSame(st, msgs, i)
    PROVE  PassSame(Close(st), msgs, i)
<1> DEFINE x == Close(st)
           p == [l \in DOMAIN st.open |-> Synthetic(st.open[l][2])]
           n == Len(st.open)
<1>1. x.out = st.out \o p /\ x.dropped = st.dropped + n /\ x.open = <<>>
  BY DEF Close, PassOK, PassFields
<1>2. IsTranscript(p) /\ Len(p) = n
  BY SyntheticsAre DEF PassOK
<1>3. n \in Nat /\ IsTranscript(st.out)
  BY DEF PassOK, Listed
<1> HIDE DEF p, x, n
<1>4. Len(x.out) = Len(st.out) + Len(p)
  BY <1>1, <1>2, <1>3, JoinedIs
<1>5. \A j \in DOMAIN st.out : x.out[j] = st.out[j]
  BY <1>1, <1>2, <1>3, JoinedIs
<1>6. Len(st.out) \in Nat /\ DOMAIN st.out = 1 .. Len(st.out)
  BY <1>3, TranscriptIs
<1>7. st.dropped \in Nat
  BY DEF PassSame
<1>8. x.dropped \in Nat
  BY <1>1, <1>3, <1>7
<1>9. ASSUME x.dropped = 0
      PROVE  Len(x.out) = i /\ \A j \in 1 .. i : Alike(x.out[j], msgs[j])
  <2>1. st.dropped = 0 /\ n = 0
    BY <1>1, <1>3, <1>7, <1>9
  <2>2. Len(st.out) = i /\ \A j \in 1 .. i : Alike(st.out[j], msgs[j])
    BY <2>1 DEF PassSame
  <2>3. Len(x.out) = i
    BY <1>2, <1>4, <1>6, <2>1, <2>2
  <2>4. \A j \in 1 .. i : x.out[j] = st.out[j]
    BY <1>5, <1>6, <2>2
  <2> QED BY <2>2, <2>3, <2>4
<1>10. DOMAIN x.open = {}
  BY <1>1
<1> QED BY <1>8, <1>9, <1>10 DEF PassSame, x

\* One more message that is like the one it stands for.
LEMMA OneMoreSame ==
    ASSUME NEW out, NEW m, NEW new, NEW msgs, NEW i \in Nat, IsTranscript(out), IsMessage(m),
           new = Append(out, m), Len(out) = i, \A j \in 1 .. i : Alike(out[j], msgs[j]),
           Alike(m, msgs[i + 1])
    PROVE  Len(new) = i + 1 /\ \A j \in 1 .. i + 1 : Alike(new[j], msgs[j])
<1>1. Len(new) = Len(out) + 1
  BY AppendedIs
<1>2. \A j \in DOMAIN out : new[j] = out[j]
  BY AppendedIs
<1>3. new[Len(out) + 1] = m
  BY AppendedIs
<1>4. DOMAIN out = 1 .. i
  BY TranscriptIs
<1>5. \A j \in 1 .. i + 1 : j \in 1 .. i \/ j = i + 1
  OBVIOUS
<1>6. \A j \in 1 .. i + 1 : Alike(new[j], msgs[j])
  BY <1>2, <1>3, <1>4, <1>5
<1> QED BY <1>1, <1>6

LEMMA TakeResultSame ==
    ASSUME NEW st, NEW msgs, NEW i \in Nat, PassOK(st, msgs, i), PassSame(st, msgs, i),
           IsMessage(msgs[i + 1]), IsTool(msgs[i + 1])
    PROVE  PassSame(TakeResult(st, msgs[i + 1]), msgs, i + 1)
<1> DEFINE m == msgs[i + 1]
           l == SelectInSeq(st.open, LAMBDA p : p[1] = m.call)
           x == TakeResult(st, m)
           n == Len(st.open)
           I == {k \in 1 .. n : st.open[k][1] = m.call}
<1>1. Listed(st.open) /\ n \in Nat /\ DOMAIN st.open = 1 .. n /\ st.dropped \in Nat
  BY DEF PassOK, Listed, PassSame
<1>2. CASE l = 0
  <2>1. x.dropped = st.dropped + 1
    BY <1>2 DEF TakeResult, PassOK, PassFields
  <2> HIDE DEF x
  <2>2. x.dropped \in Nat /\ x.dropped # 0
    BY <1>1, <2>1
  <2> QED BY <2>2 DEF PassSame, x
<1>3. CASE l # 0
  <2>1. l = IF I # {} THEN Min(I) ELSE 0
    BY DEF SelectInSeq
  <2>2. I # {}
    BY <1>3, <2>1
  <2>3. \E k \in I : \A y \in I : k <= y
    <3>1. I \in SUBSET Nat
      BY <1>1
    <3> QED BY <2>2, <3>1, LeastNumber
  <2>4. l \in I
    BY <2>1, <2>2, <2>3 DEF Min
  <2>5. l \in DOMAIN st.open /\ st.open[l][1] = m.call
    BY <1>1, <2>4
  <2> DEFINE new == [m EXCEPT !.call = st.open[l][2]]
             rest == RemoveAt(st.open, l)
  <2>6. x.out = Append(st.out, new) /\ x.open = rest /\ x.dropped = st.dropped
    BY <1>3 DEF TakeResult, PassOK, PassFields
  <2>7. /\ DOMAIN new = {"role", "tag", "calls", "call"} /\ new.calls = m.calls
        /\ new.role = m.role /\ new.tag = m.tag /\ new.call = st.open[l][2]
    BY DEF IsMessage
  <2> HIDE DEF l, I, x, new
  <2>8. IsMessage(new) /\ IsTranscript(st.out)
    BY <2>7 DEF IsMessage, PassOK
  <2>9. Len(rest) = n - 1 /\ DOMAIN rest = 1 .. Len(rest)
    BY <1>1, <2>5, RemovedAt
  <2>10. \A j \in DOMAIN rest : rest[j] = IF j < l THEN st.open[j] ELSE st.open[j + 1]
    BY <1>1, <2>5, RemovedAt
  <2> HIDE DEF rest
  <2>11. \A j \in DOMAIN rest : \E k \in DOMAIN st.open : rest[j] = st.open[k]
    <3> TAKE j \in DOMAIN rest
    <3>1. j \in 1 .. n /\ j + 1 \in 1 .. n
      BY <1>1, <2>9
    <3> QED BY <1>1, <2>10, <3>1
  <2>12. ASSUME x.dropped = 0
         PROVE  /\ Len(x.out) = i + 1 /\ \A j \in 1 .. i + 1 : Alike(x.out[j], msgs[j])
                /\ \A j \in DOMAIN rest : rest[j][1] = rest[j][2]
    <3>1. /\ Len(st.out) = i /\ \A j \in 1 .. i : Alike(st.out[j], msgs[j])
          /\ \A k \in DOMAIN st.open : st.open[k][1] = st.open[k][2]
      BY <2>6, <2>12 DEF PassSame
    <3>2. Alike(new, m)
      BY <2>5, <2>7, <3>1 DEF Alike
    <3> HIDE DEF m
    <3>3. \A j \in DOMAIN rest : rest[j][1] = rest[j][2]
      BY <2>11, <3>1
    <3>4. Len(x.out) = i + 1 /\ \A j \in 1 .. i + 1 : Alike(x.out[j], msgs[j])
      BY <2>6, <2>8, <3>1, <3>2, OneMoreSame DEF m
    <3> QED BY <3>3, <3>4
  <2> QED BY <1>1, <2>6, <2>12 DEF PassSame, x
<1> QED BY <1>2, <1>3

LEMMA TakeCallsSame ==
    ASSUME NEW st, NEW msgs, NEW i \in Nat, PassOK(st, msgs, i), PassIds(st, msgs, i),
           PassSame(st, msgs, i), IsMessage(msgs[i + 1]), Differ(msgs[i + 1].calls),
           ToSet(msgs[i + 1].calls) \cap IdsTo(msgs, i) = {}
    PROVE  PassSame(TakeCalls(st, msgs[i + 1]), msgs, i + 1)
<1> DEFINE m == msgs[i + 1]
           new == Renamed(st.seen, m.calls)
           open == [k \in DOMAIN new |-> <<m.calls[k], new[k]>>]
           x == TakeCalls(st, m)
<1>1. Listed(m.calls) /\ ToSet(m.calls) \cap st.seen = {}
  BY DEF IsMessage, PassIds
<1>2. new = m.calls
  BY <1>1, NotRenamed
<1> DEFINE y == [m EXCEPT !.calls = new]
<1>3. x.out = Append(st.out, y) /\ x.open = open /\ x.dropped = st.dropped
  BY DEF TakeCalls, PassOK, PassFields
<1> HIDE DEF new, x
<1>4. \A l \in DOMAIN open : open[l][1] = open[l][2]
  BY <1>2
<1> HIDE DEF open
<1>5. IsMessage(y) /\ Alike(y, m)
  BY <1>2 DEF IsMessage, Alike
<1> HIDE DEF y, m
<1>6. IsTranscript(st.out)
  BY DEF PassOK
<1>7. ASSUME x.dropped = 0
      PROVE  Len(x.out) = i + 1 /\ \A j \in 1 .. i + 1 : Alike(x.out[j], msgs[j])
  <2>1. Len(st.out) = i /\ \A j \in 1 .. i : Alike(st.out[j], msgs[j])
    BY <1>3, <1>7 DEF PassSame
  <2> QED BY <1>3, <1>5, <1>6, <2>1, OneMoreSame DEF m
<1>8. x.dropped \in Nat
  BY <1>3 DEF PassSame
<1>9. PassSame(x, msgs, i + 1)
  BY <1>3, <1>4, <1>7, <1>8 DEF PassSame
<1> QED BY <1>9 DEF x, m

LEMMA TakeSame ==
    ASSUME NEW st, NEW msgs, NEW i \in Nat, PassOK(st, msgs, i), PassIds(st, msgs, i),
           PassSame(st, msgs, i), IsMessage(msgs[i + 1]), Differ(msgs[i + 1].calls),
           ToSet(msgs[i + 1].calls) \cap IdsTo(msgs, i) = {}
    PROVE  PassSame(Take(st, msgs[i + 1]), msgs, i + 1)
<1> DEFINE m == msgs[i + 1]
           z == Close(st)
<1>1. CASE IsTool(m)
  BY <1>1, TakeResultSame DEF Take
<1>2. PassOK(z, msgs, i) /\ PassIds(z, msgs, i) /\ PassSame(z, msgs, i) /\ z.open = <<>>
  BY CloseOK, CloseIds, CloseSame DEF PassClosed
<1> HIDE DEF z
<1>3. CASE HasCalls(m)
  <2>1. ~IsTool(m)
    BY <1>3 DEF HasCalls, IsTool
  <2>2. Take(st, m) = TakeCalls(z, m)
    BY <1>3, <2>1 DEF Take, z
  <2>3. PassSame(TakeCalls(z, m), msgs, i + 1)
    BY <1>2, TakeCallsSame
  <2> QED BY <2>2, <2>3
<1>4. CASE ~IsTool(m) /\ ~HasCalls(m)
  <2> DEFINE x == [z EXCEPT !.out = Append(@, m)]
  <2>1. Take(st, m) = x
    BY <1>4 DEF Take, z
  <2>2. x.out = Append(z.out, m) /\ x.open = z.open /\ x.dropped = z.dropped
    BY <1>2 DEF PassOK, PassFields
  <2> HIDE DEF x
  <2>3. ASSUME x.dropped = 0
        PROVE  Len(x.out) = i + 1 /\ \A j \in 1 .. i + 1 : Alike(x.out[j], msgs[j])
    <3>1. Len(z.out) = i /\ \A j \in 1 .. i : Alike(z.out[j], msgs[j])
      BY <1>2, <2>2, <2>3 DEF PassSame
    <3>2. IsTranscript(z.out) /\ IsMessage(m) /\ Alike(m, msgs[i + 1])
      BY <1>2 DEF PassOK, Alike
    <3> HIDE DEF m
    <3> QED BY <2>2, <3>1, <3>2, OneMoreSame
  <2>4. PassSame(x, msgs, i + 1)
    BY <1>2, <2>2, <2>3 DEF PassSame
  <2> QED BY <2>1, <2>4
<1> QED BY <1>1, <1>3, <1>4

\* A repair of unique ids that drops nothing and makes nothing up changes nothing.
LEMMA NothingDroppedSame ==
    ASSUME NEW msgs, IsTranscript(msgs), UniqueIds(msgs), Dropped(msgs) = 0
    PROVE  /\ Len(Sanitize(msgs)) = Len(msgs)
           /\ \A i \in DOMAIN msgs : Alike(Sanitize(msgs)[i], msgs[i])
<1> DEFINE N == Len(msgs)
           pass == Passes(msgs)
           Good(i) == PassIds(pass[i], msgs, i) /\ PassSame(pass[i], msgs, i)
           Bad == {i \in Nat : i <= N /\ ~Good(i)}
<1>1. N \in Nat /\ DOMAIN msgs = 1 .. N /\ Listed(msgs)
  BY TranscriptIs
<1>2. /\ Sanitized(msgs) = Close(pass[N]) /\ pass[0] = Fresh
      /\ \A i \in DOMAIN msgs : pass[i] = Take(pass[i - 1], msgs[i])
  BY <1>1, PassesAre
<1>3. \A i \in 0 .. N : PassOK(pass[i], msgs, i)
  BY PassesOK
<1> HIDE DEF pass
<1>4. Good(0)
  <2>1. Fresh.out = <<>> /\ Fresh.seen = {} /\ Fresh.open = <<>> /\ Fresh.dropped = 0
    BY DEF Fresh
  <2>2. Len(<<>>) = 0 /\ DOMAIN <<>> = {}
    OBVIOUS
  <2>3. PassIds(Fresh, msgs, 0)
    BY <2>1, EmptyIds DEF PassIds
  <2>4. PassSame(Fresh, msgs, 0)
    BY <2>1, <2>2 DEF PassSame
  <2> QED BY <1>2, <2>3, <2>4
<1>5. Bad = {}
  <2>1. SUFFICES ASSUME Bad # {} PROVE FALSE
    OBVIOUS
  <2>2. PICK n \in Bad : \A i \in Bad : n <= i
    BY <2>1, LeastNumber
  <2>3. n # 0
    BY <1>4, <2>2
  <2>4. n \in DOMAIN msgs /\ n - 1 \in Nat /\ (n - 1) + 1 = n /\ n - 1 \in 0 .. N /\ ~(n <= n - 1)
    BY <1>1, <2>2, <2>3
  <2>5. Good(n - 1) /\ PassOK(pass[n - 1], msgs, n - 1)
    BY <1>1, <1>3, <2>2, <2>4
  <2>6. IsMessage(msgs[n])
    BY <2>4 DEF IsTranscript
  <2>7. Differ(msgs[n].calls) /\ ToSet(msgs[n].calls) \cap IdsTo(msgs, n - 1) = {}
    BY <2>4, NewIds
  <2>8. PassIds(Take(pass[n - 1], msgs[(n - 1) + 1]), msgs, (n - 1) + 1)
    BY <2>4, <2>5, <2>6, <2>7, TakeIds
  <2>9. PassSame(Take(pass[n - 1], msgs[(n - 1) + 1]), msgs, (n - 1) + 1)
    BY <2>4, <2>5, <2>6, <2>7, TakeSame
  <2>10. pass[n] = Take(pass[n - 1], msgs[n])
    BY <1>2, <2>4
  <2> QED BY <2>2, <2>4, <2>8, <2>9, <2>10
<1>6. PassOK(pass[N], msgs, N) /\ PassSame(pass[N], msgs, N)
  BY <1>1, <1>3, <1>5
<1>7. PassSame(Sanitized(msgs), msgs, N)
  BY <1>1, <1>2, <1>6, CloseSame
<1> QED BY <1>1, <1>7 DEF PassSame, Sanitize, Dropped

\* A transcript that is like a paired one is paired.
LEMMA AlikePaired ==
    ASSUME NEW p, NEW q, IsTranscript(p), IsTranscript(q), Len(p) = Len(q),
           \A i \in DOMAIN q : Alike(p[i], q[i]), Paired(p)
    PROVE  Paired(q)
<1>1. DOMAIN p = DOMAIN q /\ DOMAIN q = 1 .. Len(q) /\ Len(q) \in Nat
  BY TranscriptIs
<1>2. /\ \A i \in DOMAIN q : /\ HasCalls(p[i]) <=> HasCalls(q[i])
                             /\ IsTool(p[i]) <=> IsTool(q[i])
                             /\ p[i].call = q[i].call /\ p[i].calls = q[i].calls
                             /\ EndOf(p, i) = EndOf(q, i) /\ EndOf(q, i) \in Nat
  BY TranscriptIs DEF Alike, HasCalls, IsTool, EndOf
<1>3. Callers(p) = Callers(q) /\ Callers(q) \subseteq DOMAIN q
  BY <1>1, <1>2 DEF Callers
<1>4. PairedBut(p, <<>>) /\ Len(<<>>) = 0
  BY PairedIs
<1>5. ASSUME NEW i \in Callers(q)
      PROVE  /\ EndOf(q, i) <= Len(q) /\ ~(EndOf(q, i) > Len(q))
             /\ \A j \in i + 1 .. EndOf(q, i) : IsTool(q[j])
             /\ Given(q, i, EndOf(q, i)) = ToSet(q[i].calls)
  <2>1. i \in 1 .. Len(q) /\ EndOf(p, i) = EndOf(q, i) /\ EndOf(q, i) \in Nat /\ i \in Callers(p)
    BY <1>1, <1>2, <1>3
  <2>2. EndOf(p, i) <= Len(p) + Len(<<>>)
    BY <1>4, <2>1 DEF PairedBut
  <2>3. EndOf(q, i) <= Len(q)
    BY <1>1, <1>4, <2>1, <2>2
  <2>4. ~(EndOf(q, i) > Len(q))
    BY <1>1, <2>1, <2>3
  <2>5. /\ \A j \in i + 1 .. EndOf(q, i) : j <= Len(q) => IsTool(p[j])
        /\ Given(p, i, EndOf(q, i)) = ToSet(p[i].calls)
    BY <1>4, <2>1, <2>3 DEF PairedBut
  <2>6. \A j \in i + 1 .. EndOf(q, i) : j \in DOMAIN q /\ j <= Len(q)
    BY <1>1, <2>1, <2>3
  <2>7. \A j \in i + 1 .. EndOf(q, i) : IsTool(q[j]) /\ p[j].call = q[j].call
    BY <1>2, <2>5, <2>6
  <2>8. Given(q, i, EndOf(q, i)) = Given(p, i, EndOf(q, i))
    BY <2>7 DEF Given
  <2>9. p[i].calls = q[i].calls
    BY <1>1, <1>2, <2>1
  <2> QED BY <2>3, <2>4, <2>5, <2>7, <2>8, <2>9
<1>6. \A j \in DOMAIN q : IsTool(q[j]) => \E i \in Callers(q) : i < j /\ j <= EndOf(q, i)
  <2> SUFFICES ASSUME NEW j \in DOMAIN q, IsTool(q[j])
               PROVE  \E i \in Callers(q) : i < j /\ j <= EndOf(q, i)
    OBVIOUS
  <2>1. PICK i \in Callers(p) : i < j /\ j <= EndOf(p, i)
    BY <1>1, <1>2, <1>4 DEF PairedBut
  <2> QED BY <1>2, <1>3, <2>1
<1>7. PairedBut(q, <<>>)
  <2>1. \A i \in Callers(q) : EndOf(q, i) <= Len(q) + Len(<<>>)
    BY <1>1, <1>2, <1>3, <1>4, <1>5
  <2> QED BY <1>5, <1>6, <2>1 DEF PairedBut
<1> QED BY <1>7, PairedIs
-----------------------------------------------------------------------------
(* What the repair keeps. *)

\* Message j of the kept ones became message f[j] of out: in the same order, with all
\* messages kept that are no results, and nothing but made-up results in between.
KeptAs(kept, f, out, msgs, n) ==
    /\ kept \subseteq 1 .. n /\ \A j \in 1 .. n : ~IsTool(msgs[j]) => j \in kept
    /\ f \in [kept -> DOMAIN out] /\ \A j, k \in kept : j < k => f[j] < f[k]
    /\ \A j \in kept : out[f[j]].role = msgs[j].role /\ out[f[j]].tag = msgs[j].tag
    /\ \A p \in DOMAIN out :
         (\E j \in kept : f[j] = p) \/ (IsTool(out[p]) /\ out[p].tag = <<>>)

InOrder(out, msgs, n) == \E kept, f : KeptAs(kept, f, out, msgs, n)

LEMMA CloseInOrder ==
    ASSUME NEW st, NEW msgs, NEW n \in Nat, PassOK(st, msgs, n), InOrder(st.out, msgs, n)
    PROVE  InOrder(Close(st).out, msgs, n)
<1> DEFINE x == Close(st)
           p == [l \in DOMAIN st.open |-> Synthetic(st.open[l][2])]
<1>1. x.out = st.out \o p
  BY DEF Close, PassOK, PassFields
<1>2. IsTranscript(p) /\ IsTranscript(st.out) /\ DOMAIN p = DOMAIN st.open
  BY SyntheticsAre DEF PassOK
<1>3. \A l \in DOMAIN p : IsTool(p[l]) /\ p[l].tag = <<>>
  BY DEF Synthetic, ToolMsg, IsTool
<1> HIDE DEF p, x
<1>4. Len(x.out) = Len(st.out) + Len(p) /\ IsTranscript(x.out)
  BY <1>1, <1>2, JoinedIs
<1>5. \A j \in DOMAIN st.out : x.out[j] = st.out[j]
  BY <1>1, <1>2, JoinedIs
<1>6. \A j \in DOMAIN p : x.out[j + Len(st.out)] = p[j]
  BY <1>1, <1>2, JoinedIs
<1>7. /\ DOMAIN x.out = 1 .. Len(st.out) + Len(p) /\ DOMAIN st.out = 1 .. Len(st.out)
      /\ DOMAIN p = 1 .. Len(p) /\ Len(st.out) \in Nat /\ Len(p) \in Nat
  BY <1>2, <1>4, TranscriptIs
<1>8. \A j \in DOMAIN x.out :
        j \in DOMAIN st.out \/ (j - Len(st.out) \in DOMAIN p /\ j = (j - Len(st.out)) + Len(st.out))
  BY <1>7
<1>9. PICK kept, f : KeptAs(kept, f, st.out, msgs, n)
  BY DEF InOrder
<1>10. DOMAIN st.out \subseteq DOMAIN x.out
  BY <1>7
<1>11. f \in [kept -> DOMAIN x.out]
  BY <1>9, <1>10 DEF KeptAs
<1>12. \A j \in kept : f[j] \in DOMAIN st.out
  BY <1>9 DEF KeptAs
<1>13. \A j \in kept : x.out[f[j]].role = msgs[j].role /\ x.out[f[j]].tag = msgs[j].tag
  BY <1>5, <1>9, <1>12 DEF KeptAs
<1>14. \A q \in DOMAIN x.out :
         (\E j \in kept : f[j] = q) \/ (IsTool(x.out[q]) /\ x.out[q].tag = <<>>)
  <2> TAKE q \in DOMAIN x.out
  <2>1. CASE q \in DOMAIN st.out
    BY <1>5, <1>9, <2>1 DEF KeptAs
  <2>2. CASE q \notin DOMAIN st.out
    <3>1. q - Len(st.out) \in DOMAIN p /\ x.out[q] = p[q - Len(st.out)]
      BY <1>6, <1>8, <2>2
    <3> QED BY <1>3, <3>1
  <2> QED BY <2>1, <2>2
<1>15. KeptAs(kept, f, x.out, msgs, n)
  BY <1>9, <1>11, <1>13, <1>14 DEF KeptAs
<1> QED BY <1>15 DEF InOrder, x

\* A result that is dropped.
LEMMA DropInOrder ==
    ASSUME NEW out, NEW msgs, NEW n \in Nat, InOrder(out, msgs, n), IsTool(msgs[n + 1])
    PROVE  InOrder(out, msgs, n + 1)
<1>1. PICK kept, f : KeptAs(kept, f, out, msgs, n)
  BY DEF InOrder
<1>2. \A j \in 1 .. n + 1 : j \in 1 .. n \/ j = n + 1
  OBVIOUS
<1>3. 1 .. n \subseteq 1 .. n + 1
  OBVIOUS
<1>4. KeptAs(kept, f, out, msgs, n + 1)
  BY <1>1, <1>2, <1>3 DEF KeptAs
<1> QED BY <1>4 DEF InOrder

\* A message that is kept.
LEMMA AppendInOrder ==
    ASSUME NEW out, NEW m, NEW new, NEW msgs, NEW n \in Nat, IsTranscript(out), IsMessage(m),
           new = Append(out, m), InOrder(out, msgs, n),
           m.role = msgs[n + 1].role, m.tag = msgs[n + 1].tag
    PROVE  InOrder(new, msgs, n + 1)
<1>1. Len(new) = Len(out) + 1 /\ IsTranscript(new)
  BY AppendedIs
<1>2. \A j \in DOMAIN out : new[j] = out[j]
  BY AppendedIs
<1>3. new[Len(out) + 1] = m
  BY AppendedIs
<1>4. Len(out) \in Nat /\ DOMAIN out = 1 .. Len(out) /\ DOMAIN new = 1 .. Len(out) + 1
  BY <1>1, TranscriptIs
<1>5. PICK kept, f : KeptAs(kept, f, out, msgs, n)
  BY DEF InOrder
<1> DEFINE more == kept \cup {n + 1}
           g == [j \in more |-> IF j = n + 1 THEN Len(out) + 1 ELSE f[j]]
<1>6. kept \subseteq 1 .. n /\ n + 1 \notin kept /\ \A j \in kept : j < n + 1 /\ j \in Nat
  BY <1>5 DEF KeptAs
<1>7. \A j \in kept : g[j] = f[j] /\ f[j] \in DOMAIN out /\ f[j] \in 1 .. Len(out)
  BY <1>4, <1>5, <1>6 DEF KeptAs
<1>8. g[n + 1] = Len(out) + 1
  OBVIOUS
<1>9. more \subseteq 1 .. n + 1 /\ \A j \in 1 .. n + 1 : ~IsTool(msgs[j]) => j \in more
  BY <1>5 DEF KeptAs
<1>10. g \in [more -> DOMAIN new]
  <2>1. \A j \in more : g[j] \in DOMAIN new
    BY <1>4, <1>7, <1>8
  <2> QED BY <2>1
<1>11. \A j, k \in more : j < k => g[j] < g[k]
  <2> SUFFICES ASSUME NEW j \in more, NEW k \in more, j < k PROVE g[j] < g[k]
    OBVIOUS
  <2>1. j \in kept
    BY <1>6
  <2>2. CASE k = n + 1
    BY <1>4, <1>7, <1>8, <2>1, <2>2
  <2>3. CASE k \in kept
    BY <1>5, <1>7, <2>1, <2>3 DEF KeptAs
  <2> QED BY <2>2, <2>3
<1> HIDE DEF g
<1>12. \A j \in more : new[g[j]].role = msgs[j].role /\ new[g[j]].tag = msgs[j].tag
  <2> TAKE j \in more
  <2>1. CASE j = n + 1
    BY <1>3, <1>8, <2>1
  <2>2. CASE j \in kept
    <3>1. new[g[j]] = out[f[j]]
      BY <1>2, <1>7, <2>2
    <3> QED BY <1>5, <2>2, <3>1 DEF KeptAs
  <2> QED BY <2>1, <2>2
<1>13. \A p \in DOMAIN new :
         (\E j \in more : g[j] = p) \/ (IsTool(new[p]) /\ new[p].tag = <<>>)
  <2> TAKE p \in DOMAIN new
  <2>1. CASE p = Len(out) + 1
    BY <1>8, <2>1
  <2>2. CASE p # Len(out) + 1
    <3>1. p \in DOMAIN out
      BY <1>4, <2>2
    <3>2. (\E j \in kept : f[j] = p) \/ (IsTool(out[p]) /\ out[p].tag = <<>>)
      BY <1>5, <3>1 DEF KeptAs
    <3> QED BY <1>2, <1>7, <3>1, <3>2
  <2> QED BY <2>1, <2>2
<1>14. KeptAs(more, g, new, msgs, n + 1)
  BY <1>9, <1>10, <1>11, <1>12, <1>13 DEF KeptAs
<1> QED BY <1>14 DEF InOrder

LEMMA TakeInOrder ==
    ASSUME NEW st, NEW msgs, NEW i \in Nat, PassOK(st, msgs, i), InOrder(st.out, msgs, i),
           IsMessage(msgs[i + 1])
    PROVE  InOrder(Take(st, msgs[i + 1]).out, msgs, i + 1)
<1> DEFINE m == msgs[i + 1]
           z == Close(st)
<1>1. CASE IsTool(m)
  <2> DEFINE l == SelectInSeq(st.open, LAMBDA p : p[1] = m.call)
             x == TakeResult(st, m)
  <2>1. Take(st, m) = x
    BY <1>1 DEF Take
  <2>2. CASE l = 0
    <3>1. x.out = st.out
      BY <2>2 DEF TakeResult, PassOK, PassFields
    <3> HIDE DEF x
    <3>2. InOrder(st.out, msgs, i + 1)
      BY <1>1, DropInOrder
    <3> QED BY <2>1, <3>1, <3>2
  <2>3. CASE l # 0
    <3> DEFINE new == [m EXCEPT !.call = st.open[l][2]]
    <3>1. x.out = Append(st.out, new)
      BY <2>3 DEF TakeResult, PassOK, PassFields
    <3>2. /\ DOMAIN new = {"role", "tag", "calls", "call"} /\ new.calls = m.calls
          /\ new.role = m.role /\ new.tag = m.tag
      BY DEF IsMessage
    <3> HIDE DEF l, x, new
    <3>3. IsMessage(new) /\ IsTranscript(st.out)
      BY <3>2 DEF IsMessage, PassOK
    <3>4. InOrder(x.out, msgs, i + 1)
      BY <3>1, <3>2, <3>3, AppendInOrder
    <3> QED BY <2>1, <3>4
  <2> QED BY <2>2, <2>3
<1>2. PassOK(z, msgs, i) /\ InOrder(z.out, msgs, i)
  BY CloseOK, CloseInOrder DEF PassClosed
<1> HIDE DEF z
<1>3. IsTranscript(z.out)
  BY <1>2 DEF PassOK
<1>4. CASE HasCalls(m)
  <2> DEFINE seen == z.seen
             ids == Renamed(seen, m.calls)
             y == [m EXCEPT !.calls = ids]
             x == TakeCalls(z, m)
  <2>1. ~IsTool(m)
    BY <1>4 DEF HasCalls, IsTool
  <2>2. Take(st, m) = x
    BY <1>4, <2>1 DEF Take, z
  <2>3. x.out = Append(z.out, y)
    BY <1>2 DEF TakeCalls, PassOK, PassFields
  <2>4. ids = Renamed(seen, m.calls) /\ y = [m EXCEPT !.calls = ids]
    OBVIOUS
  <2> HIDE DEF x, y, ids, seen
  <2>5. IsMessage(y) /\ y.role = m.role /\ y.tag = m.tag
    BY <1>4, <2>4, RenamedMessage
  <2>6. InOrder(x.out, msgs, i + 1)
    BY <1>2, <1>3, <2>3, <2>5, AppendInOrder
  <2> QED BY <2>2, <2>6
<1>5. CASE ~IsTool(m) /\ ~HasCalls(m)
  <2> DEFINE x == [z EXCEPT !.out = Append(@, m)]
  <2>1. Take(st, m) = x
    BY <1>5 DEF Take, z
  <2>2. x.out = Append(z.out, m)
    BY <1>2 DEF PassOK, PassFields
  <2> HIDE DEF x
  <2>3. InOrder(x.out, msgs, i + 1)
    BY <1>2, <1>3, <2>2, AppendInOrder
  <2> QED BY <2>1, <2>3
<1> QED BY <1>1, <1>4, <1>5

LEMMA SanitizeInOrder ==
    ASSUME NEW msgs, IsTranscript(msgs)
    PROVE  InOrder(Sanitize(msgs), msgs, Len(msgs))
<1> DEFINE N == Len(msgs)
           pass == Passes(msgs)
           Bad == {i \in Nat : i <= N /\ ~InOrder(pass[i].out, msgs, i)}
<1>1. N \in Nat /\ DOMAIN msgs = 1 .. N /\ Listed(msgs)
  BY TranscriptIs
<1>2. /\ Sanitized(msgs) = Close(pass[N]) /\ pass[0] = Fresh
      /\ \A i \in DOMAIN msgs : pass[i] = Take(pass[i - 1], msgs[i])
  BY <1>1, PassesAre
<1>3. \A i \in 0 .. N : PassOK(pass[i], msgs, i)
  BY PassesOK
<1> HIDE DEF pass
<1>4. InOrder(pass[0].out, msgs, 0)
  <2>1. pass[0].out = <<>>
    BY <1>2 DEF Fresh
  <2>2. KeptAs({}, <<>>, <<>>, msgs, 0)
    BY DEF KeptAs
  <2> QED BY <2>1, <2>2 DEF InOrder
<1>5. Bad = {}
  <2>1. SUFFICES ASSUME Bad # {} PROVE FALSE
    OBVIOUS
  <2>2. PICK n \in Bad : \A i \in Bad : n <= i
    BY <2>1, LeastNumber
  <2>3. n # 0
    BY <1>4, <2>2
  <2>4. n \in DOMAIN msgs /\ n - 1 \in Nat /\ (n - 1) + 1 = n /\ n - 1 \in 0 .. N /\ ~(n <= n - 1)
    BY <1>1, <2>2, <2>3
  <2>5. InOrder(pass[n - 1].out, msgs, n - 1) /\ PassOK(pass[n - 1], msgs, n - 1)
    BY <1>1, <1>3, <2>2, <2>4
  <2>6. IsMessage(msgs[n])
    BY <2>4 DEF IsTranscript
  <2>7. InOrder(Take(pass[n - 1], msgs[(n - 1) + 1]).out, msgs, (n - 1) + 1)
    BY <2>4, <2>5, <2>6, TakeInOrder
  <2>8. pass[n] = Take(pass[n - 1], msgs[n])
    BY <1>2, <2>4
  <2> QED BY <2>2, <2>4, <2>7, <2>8
<1>6. PassOK(pass[N], msgs, N) /\ InOrder(pass[N].out, msgs, N)
  BY <1>1, <1>3, <1>5
<1>7. InOrder(Close(pass[N]).out, msgs, N)
  BY <1>1, <1>6, CloseInOrder
<1> QED BY <1>2, <1>7 DEF Sanitize
-----------------------------------------------------------------------------
(* The ids that the runs make. *)

\* The id of a call of run r in its i-th iteration.
IdOf(r, i, k) == RunPrefix[r] \o <<i, k>>

\* What run r may call its tool calls from its n-th iteration on.
IdsFrom(r, n) == {IdOf(r, i, k) : i \in {j \in Nat : j >= n}, k \in Nat}
Own(r) == IdsFrom(r, 0)

\* No two runs have the same part of their id in those of their calls.
DistinctPrefixes == \A q, r \in Runs : RunPrefix[q] = RunPrefix[r] => q = r

\* What earlier runs of the gateway have left has unique ids, none of these runs.
ForeignHistories ==
    \A s \in Stored : /\ UniqueIds(s.history)
                      /\ \A r \in Runs : Ids(s.history) \cap Own(r) = {}

\* What run r, in state x, may still put into the session.
Awaited(r, x) ==
    IF x.pc \in LoopPcs \cup {"idle"} THEN Own(r)
    ELSE IF x.pc = "flush"
    THEN UNION {ToSet(x.pending[i].calls) : i \in {j \in DOMAIN x.pending : j > x.flushed}}
    ELSE {}

\* A history that none of the runs rs is still to put an id into that it has.
Placed(h, rs) == UniqueIds(h) /\ \A q \in Runs : Ids(h) \cap Awaited(q, rs[q]) = {}

\* Messages without an id of the iterations of r from the n-th on.
FreshFrom(r, q, n) == IsTranscript(q) /\ UniqueIds(q) /\ Ids(q) \cap IdsFrom(r, n) = {}

\* What r has buffered, all its own.
Buffered(r, q) == IsTranscript(q) /\ UniqueIds(q) /\ Ids(q) \subseteq Own(r)

AskIds(r, x, n) ==
    FreshFrom(r, x.msgs, n) /\ FreshFrom(r, x.pending, n) /\ Buffered(r, x.pending)

RunIds(r, x) ==
    /\ x.pc \in {"clean", "cleanSave", "ask"} => AskIds(r, x, x.iter)
    /\ x.pc = "tools" => AskIds(r, x, x.iter + 1)
    /\ x.pc = "flush" => Buffered(r, x.pending)

IdsInv ==
    /\ Placed(cache.history, run) /\ Placed(row.history, run)
    /\ \A a \in Savers : Placed(saving[a].history, run)
    /\ \A r \in Runs : Placed(run[r].snap, run) /\ RunIds(r, run[r])

\* What a sequence with another behind it has where.
LEMMA ConcatLen ==
    ASSUME NEW p, NEW e, NEW c, Listed(p), Listed(e), c = p \o e
    PROVE  Len(c) = Len(p) + Len(e)
<1> DEFINE S == ToSet(p) \cup ToSet(e)
<1>1. p \in Seq(S) /\ e \in Seq(S) /\ Len(p) \in Nat /\ Len(e) \in Nat
  BY DEF Listed
<1> HIDE DEF S
<1> QED BY <1>1, ConcatProperties

LEMMA ConcatHead ==
    ASSUME NEW p, NEW e, NEW c, Listed(p), Listed(e), c = p \o e, NEW i \in 1 .. Len(p)
    PROVE  c[i] = p[i]
<1> DEFINE S == ToSet(p) \cup ToSet(e)
<1>1. p \in Seq(S) /\ e \in Seq(S) /\ Len(p) \in Nat /\ Len(e) \in Nat
  BY DEF Listed
<1> HIDE DEF S
<1> QED BY <1>1, ConcatProperties

LEMMA ConcatFirst ==
    ASSUME NEW p, NEW e, NEW c, Listed(p), Listed(e), c = p \o e, Len(e) = 2
    PROVE  c[Len(p) + 1] = e[1]
<1> DEFINE S == ToSet(p) \cup ToSet(e)
<1>1. p \in Seq(S) /\ e \in Seq(S) /\ Len(p) \in Nat /\ Len(e) \in Nat
  BY DEF Listed
<1> HIDE DEF S
<1>2. c[Len(p) + 1] = e[Len(p) + 1 - Len(p)]
  BY <1>1, ConcatProperties
<1> QED BY <1>1, <1>2

LEMMA SameHead ==
    ASSUME NEW p, NEW s, NEW e, NEW f, NEW c, Listed(p), Listed(s), Listed(e), Listed(f),
           Len(e) = 2, Len(f) = 2, c = p \o e, c = s \o f
    PROVE  p = s
<1>1. Len(p) \in Nat /\ Len(s) \in Nat
  BY DEF Listed
<1>2. Len(c) = Len(p) + Len(e)
  BY ConcatLen
<1>5. Len(c) = Len(s) + Len(f)
  BY ConcatLen
<1>8. Len(p) = Len(s)
  BY <1>1, <1>2, <1>5
<1>9. ASSUME NEW i \in 1 .. Len(p) PROVE p[i] = s[i]
  <2>1. c[i] = p[i]
    BY ConcatHead
  <2>2. c[i] = s[i]
    BY ConcatHead, <1>8
  <2> QED BY <2>1, <2>2
<1>10. p = s
  <2> DEFINE S == ToSet(p) \cup ToSet(s)
  <2>1. p \in Seq(S) /\ s \in Seq(S)
    BY DEF Listed
  <2> HIDE DEF S
  <2> QED BY <1>8, <1>9, <2>1, SeqEqual
<1> QED BY <1>10

\* An id tells the run and the iteration.
LEMMA IdOfIs ==
    ASSUME NEW q \in Runs, NEW r \in Runs, NEW i, NEW k, NEW j, NEW l, NEW id,
           id = IdOf(q, i, k), id = IdOf(r, j, l)
    PROVE  RunPrefix[q] = RunPrefix[r] /\ i = j
<1>1. PICK p, s : p = RunPrefix[q] /\ s = RunPrefix[r]
  OBVIOUS
<1>2. PICK e, f : e = <<i, k>> /\ f = <<j, l>>
  OBVIOUS
<1>3. Listed(p) /\ Listed(s)
  BY <1>1, LoopAssumption
<1>4. /\ e \in Seq({i, k}) /\ f \in Seq({j, l}) /\ Len(e) = 2 /\ Len(f) = 2
      /\ e[1] = i /\ f[1] = j
  BY <1>2
<1>5. Listed(e) /\ Listed(f)
  BY <1>4, ListedIs
<1>6. id = p \o e
  BY <1>1, <1>2 DEF IdOf
<1>7. id = s \o f
  BY <1>1, <1>2 DEF IdOf
<1>8. p = s
  BY <1>3, <1>4, <1>5, <1>6, <1>7, SameHead
<1>9. id[Len(p) + 1] = e[1]
  BY <1>3, <1>4, <1>5, <1>6, ConcatFirst
<1>10. id[Len(s) + 1] = f[1]
  BY <1>3, <1>4, <1>5, <1>7, ConcatFirst
<1> QED BY <1>1, <1>4, <1>8, <1>9, <1>10

LEMMA OneIteration ==
    ASSUME NEW r \in Runs, NEW i, NEW k, NEW j, NEW l, IdOf(r, i, k) = IdOf(r, j, l)
    PROVE  i = j
<1>1. PICK id : id = IdOf(r, i, k)
  OBVIOUS
<1>2. id = IdOf(r, j, l)
  BY <1>1
<1> QED BY <1>1, <1>2, IdOfIs

LEMMA LaterIds ==
    ASSUME NEW r, NEW n \in Nat, NEW m \in Nat, n <= m
    PROVE  IdsFrom(r, m) \subseteq IdsFrom(r, n)
<1>1. \A j \in Nat : j >= m => j >= n
  OBVIOUS
<1> QED BY <1>1 DEF IdsFrom

LEMMA OwnApart ==
    ASSUME DistinctPrefixes, NEW q \in Runs, NEW r \in Runs, q # r
    PROVE  Own(q) \cap Own(r) = {}
<1>1. RunPrefix[q] # RunPrefix[r]
  BY DEF DistinctPrefixes
<1>2. \A i, k, j, l : IdOf(q, i, k) # IdOf(r, j, l)
  BY <1>1, IdOfIs
<1> QED BY <1>2 DEF Own, IdsFrom

\* uniquifyToolCallIDs.
LEMMA UniquifyIds ==
    ASSUME NEW r \in Runs, NEW i \in Nat, NEW n \in Nat, NEW tag, NEW m,
           m = CallMsg(tag, Uniquify(r, i, n))
    PROVE  /\ ToSet(m.calls) \subseteq IdsFrom(r, i)
           /\ ToSet(m.calls) \subseteq Own(r)
           /\ ToSet(m.calls) \cap IdsFrom(r, i + 1) = {}
<1>1. m.calls = Uniquify(r, i, n)
  BY DEF CallMsg
<1>2. \A id \in ToSet(m.calls) : \E k \in Nat : id = IdOf(r, i, k)
  <2>1. DOMAIN m.calls = 1 .. n /\ \A k \in 1 .. n : m.calls[k] = IdOf(r, i, k - 1)
    BY <1>1 DEF Uniquify, IdOf
  <2>2. \A k \in 1 .. n : k - 1 \in Nat
    OBVIOUS
  <2> QED BY <2>1, <2>2 DEF ToSet
<1>3. ToSet(m.calls) \subseteq IdsFrom(r, i)
  <2>1. i >= i
    OBVIOUS
  <2> QED BY <1>2, <2>1 DEF IdsFrom
<1>4. ToSet(m.calls) \subseteq Own(r)
  <2>1. IdsFrom(r, i) \subseteq Own(r)
    BY LaterIds DEF Own
  <2> QED BY <1>3, <2>1
<1>5. ASSUME NEW id \in ToSet(m.calls), id \in IdsFrom(r, i + 1) PROVE FALSE
  <2>1. PICK k \in Nat : id = IdOf(r, i, k)
    BY <1>2, <1>5
  <2>2. PICK j \in Nat, l \in Nat : j >= i + 1 /\ id = IdOf(r, j, l)
    BY <1>5 DEF IdsFrom
  <2>3. IdOf(r, i, k) = IdOf(r, j, l)
    BY <2>1, <2>2
  <2>4. i = j
    BY <2>3, OneIteration, Zenon
  <2> QED BY <2>2, <2>4
<1> QED BY <1>3, <1>4, <1>5

\* Transcripts that are fresh stay so with messages that have no calls, and cut.
LEMMA FreshWithin ==
    ASSUME NEW r, NEW n, NEW q, NEW c, FreshFrom(r, q, n), IsTranscript(c), Within(c, q)
    PROVE  FreshFrom(r, c, n)
BY DEF FreshFrom, Within

LEMMA FreshLater ==
    ASSUME NEW r, NEW n \in Nat, NEW q, FreshFrom(r, q, n)
    PROVE  FreshFrom(r, q, n + 1)
<1>1. n + 1 \in Nat /\ n <= n + 1
  OBVIOUS
<1>2. IdsFrom(r, n + 1) \subseteq IdsFrom(r, n)
  BY <1>1, LaterIds
<1> QED BY <1>2 DEF FreshFrom

LEMMA FreshJoined ==
    ASSUME NEW r, NEW n, NEW p, NEW q, NEW c, FreshFrom(r, p, n), IsTranscript(q),
           \A i \in DOMAIN q : q[i].calls = <<>>, c = p \o q
    PROVE  FreshFrom(r, c, n)
<1>1. IsTranscript(p)
  BY DEF FreshFrom
<1>2. Ids(c) = Ids(p) /\ (UniqueIds(p) => UniqueIds(c))
  BY <1>1, JoinedCalless
<1>3. IsTranscript(c)
  BY <1>1, JoinedIs
<1> QED BY <1>2, <1>3 DEF FreshFrom

LEMMA BufferedJoined ==
    ASSUME NEW r, NEW p, NEW q, NEW c, Buffered(r, p), IsTranscript(q),
           \A i \in DOMAIN q : q[i].calls = <<>>, c = p \o q
    PROVE  Buffered(r, c)
<1>1. IsTranscript(p)
  BY DEF Buffered
<1>2. Ids(c) = Ids(p) /\ (UniqueIds(p) => UniqueIds(c))
  BY <1>1, JoinedCalless
<1>3. IsTranscript(c)
  BY <1>1, JoinedIs
<1> QED BY <1>2, <1>3 DEF Buffered

\* The same with one message.
LEMMA FreshAppend ==
    ASSUME NEW r, NEW n, NEW q, NEW m, NEW c, FreshFrom(r, q, n), Plain(m), c = Append(q, m)
    PROVE  FreshFrom(r, c, n)
<1>1. IsTranscript(q) /\ IsMessage(m)
  BY DEF FreshFrom, Plain
<1>2. Ids(c) = Ids(q) /\ (UniqueIds(q) => UniqueIds(c))
  BY <1>1, AppendCalless
<1>3. IsTranscript(c)
  BY <1>1, AppendedIs
<1> QED BY <1>2, <1>3 DEF FreshFrom

LEMMA BufferedAppend ==
    ASSUME NEW r, NEW q, NEW m, NEW c, Buffered(r, q), Plain(m), c = Append(q, m)
    PROVE  Buffered(r, c)
<1>1. IsTranscript(q) /\ IsMessage(m)
  BY DEF Buffered, Plain
<1>2. Ids(c) = Ids(q) /\ (UniqueIds(q) => UniqueIds(c))
  BY <1>1, AppendCalless
<1>3. IsTranscript(c)
  BY <1>1, AppendedIs
<1> QED BY <1>2, <1>3 DEF Buffered

\* The same with calls of the n-th iteration.
LEMMA FreshCalls ==
    ASSUME NEW r, NEW n \in Nat, NEW q, NEW m, NEW c, FreshFrom(r, q, n), IsMessage(m),
           Differ(m.calls), ToSet(m.calls) \subseteq IdsFrom(r, n),
           ToSet(m.calls) \cap IdsFrom(r, n + 1) = {}, c = Append(q, m)
    PROVE  FreshFrom(r, c, n + 1)
<1>1. IsTranscript(q) /\ Ids(q) \cap ToSet(m.calls) = {}
  BY DEF FreshFrom
<1>2. FreshFrom(r, q, n + 1)
  BY FreshLater
<1>3. Ids(c) = Ids(q) \cup ToSet(m.calls)
  BY <1>1, AppendIds
<1>4. UniqueIds(q) /\ Differ(m.calls) /\ Ids(q) \cap ToSet(m.calls) = {} => UniqueIds(c)
  BY <1>1, AppendIds
<1>5. IsTranscript(c)
  BY <1>1, AppendedIs
<1> QED BY <1>1, <1>2, <1>3, <1>4, <1>5 DEF FreshFrom
-----------------------------------------------------------------------------
(* What the parts of the steps do with the ids. *)

\* What a run awaits is its own.
LEMMA OwnAwaits ==
    ASSUME NEW r, NEW x, x.pc = "flush" => Buffered(r, x.pending)
    PROVE  Awaited(r, x) \subseteq Own(r)
<1>1. CASE x.pc \in LoopPcs \cup {"idle"}
  BY <1>1 DEF Awaited
<1>2. CASE x.pc \notin LoopPcs \cup {"idle"} /\ x.pc # "flush"
  BY <1>2 DEF Awaited
<1>3. CASE x.pc = "flush"
  <2>1. Ids(x.pending) \subseteq Own(r)
    BY <1>3 DEF Buffered
  <2>2. x.pc \notin LoopPcs \cup {"idle"}
    BY <1>3 DEF LoopPcs
  <2>3. Awaited(r, x) \subseteq Ids(x.pending)
    BY <1>3, <2>2 DEF Awaited, Ids
  <2> QED BY <2>1, <2>3
<1> QED BY <1>1, <1>2, <1>3

LEMMA EndedOwn ==
    ASSUME NEW r, NEW x, NEW y, y = Ended(r, x), Buffered(r, x.pending)
    PROVE  RunIds(r, y) /\ y.snap = <<>> /\ y.pc = "flush"
<1> DEFINE m == Reply(r, MaxIter[r] + 1)
<1>1. y.snap = <<>> /\ y.pc = "flush" /\ y.pending = Append(x.pending, m)
  BY DEF Ended, Idle
<1>2. Plain(m)
  BY TextsArePlain
<1> HIDE DEF m
<1>3. Buffered(r, y.pending)
  BY <1>1, <1>2, BufferedAppend
<1> QED BY <1>1, <1>3 DEF RunIds

LEMMA LastCallFresh ==
    ASSUME NEW r, NEW iter, NEW n, NEW q, FreshFrom(r, q, n)
    PROVE  FreshFrom(r, LastCall(r, iter, q), n)
<1>1. FreshFrom(r, Append(q, Reminder), n)
  BY TextsArePlain, FreshAppend
<1> QED BY <1>1 DEF LastCall

LEMMA ContinuedOwn ==
    ASSUME NEW r, NEW x, NEW y, y = Continued(r, x), DOMAIN x = Fields, AskIds(r, x, x.iter + 1)
    PROVE  RunIds(r, y) /\ y.snap \in {x.snap, <<>>} /\ y.pc \in {"ask", "flush"}
<1>1. CASE x.iter = MaxIter[r]
  <2>1. y = Ended(r, x)
    BY <1>1 DEF Continued
  <2>2. Buffered(r, x.pending)
    BY DEF AskIds
  <2> QED BY <2>1, <2>2, EndedOwn
<1>2. CASE x.iter # MaxIter[r]
  <2>1. y = [x EXCEPT !.pc = "ask", !.iter = @ + 1, !.msgs = LastCall(r, x.iter + 1, @)]
    BY <1>2 DEF Continued
  <2>2. /\ y.pc = "ask" /\ y.snap = x.snap /\ y.pending = x.pending /\ y.iter = x.iter + 1
        /\ y.msgs = LastCall(r, x.iter + 1, x.msgs)
    BY <2>1 DEF Fields
  <2>3. FreshFrom(r, y.msgs, x.iter + 1)
    BY <2>2, LastCallFresh DEF AskIds
  <2>4. AskIds(r, y, y.iter)
    BY <2>2, <2>3 DEF AskIds
  <2> QED BY <2>2, <2>4 DEF RunIds
<1> QED BY <1>1, <1>2

LEMMA DrainedOwn ==
    ASSUME NEW r, NEW x, NEW y, NEW n, y = Drained(r, x), DOMAIN x = Fields, AskIds(r, x, n),
           inbox[r] \in Seq(Injections)
    PROVE  AskIds(r, y, n) /\ y.snap = x.snap /\ y.iter = x.iter /\ DOMAIN y = Fields
<1> DEFINE more == [k \in DOMAIN inbox[r] |-> FollowUp(inbox[r][k])]
<1>1. DOMAIN inbox[r] = 1 .. Len(inbox[r]) /\ Len(inbox[r]) \in Nat
  OBVIOUS
<1>2. /\ DOMAIN more = DOMAIN inbox[r] /\ more = [k \in DOMAIN inbox[r] |-> more[k]]
      /\ \A k \in DOMAIN inbox[r] : more[k] = FollowUp(inbox[r][k])
  OBVIOUS
<1>3. /\ DOMAIN y = Fields /\ y.snap = x.snap /\ y.pending = x.pending \o more
      /\ y.msgs = x.msgs \o more /\ y.iter = x.iter
  BY DEF Drained, Fields
<1> HIDE DEF more
<1>4. Listed(more)
  BY <1>1, <1>2, MadeListed
<1>5. \A k \in DOMAIN more : Plain(more[k])
  BY <1>2, TextsArePlain
<1>6. IsTranscript(more)
  BY <1>4, <1>5, PlainsReady DEF Ready
<1>7. \A k \in DOMAIN more : more[k].calls = <<>>
  BY <1>5 DEF Plain, HasCalls, IsMessage
<1>8. FreshFrom(r, y.msgs, n)
  BY <1>3, <1>6, <1>7, FreshJoined DEF AskIds
<1>9. FreshFrom(r, y.pending, n)
  BY <1>3, <1>6, <1>7, FreshJoined DEF AskIds
<1>10. Buffered(r, y.pending)
  BY <1>3, <1>6, <1>7, BufferedJoined DEF AskIds
<1> QED BY <1>3, <1>8, <1>9, <1>10 DEF AskIds

LEMMA CompactTranscript ==
    ASSUME NEW q, NEW summary, IsTranscript(q), Plain(summary)
    PROVE  IsTranscript(Compact(q, summary))
<1>1. IsTranscript(<<summary>>)
  BY OneMessage DEF Plain
<1>2. ASSUME NEW m \in DOMAIN q PROVE IsTranscript(<<summary>> \o From(q, m))
  <2>1. IsTranscript(From(q, m))
    BY FromIs
  <2> QED BY <1>1, <2>1, JoinedIs
<1> QED BY <1>2, CompactCuts

\* The compaction in the loop keeps a part of the request.
LEMMA AnsweredOwn ==
    ASSUME NEW r, NEW x \in Answered(r), RunIds(r, run[r]), At(r, "ask"), DOMAIN run[r] = Fields
    PROVE  AskIds(r, x, x.iter) /\ DOMAIN x = Fields /\ x.snap = run[r].snap
           /\ x.iter = run[r].iter
<1> DEFINE y == run[r]
<1>1. AskIds(r, y, y.iter)
  BY DEF RunIds, At
<1>2. CASE x = y
  BY <1>1, <1>2
<1>3. ASSUME NEW m \in {y.msgs, Compact(y.msgs, Reminder)},
             x = [y EXCEPT !.compacted = TRUE, !.msgs = m]
      PROVE  AskIds(r, x, x.iter) /\ DOMAIN x = Fields /\ x.snap = y.snap /\ x.iter = y.iter
  <2>1. /\ DOMAIN x = Fields /\ x.snap = y.snap /\ x.pending = y.pending /\ x.msgs = m
        /\ x.iter = y.iter
    BY <1>3 DEF Fields
  <2> HIDE DEF y
  <2>2. FreshFrom(r, y.msgs, y.iter) /\ IsTranscript(y.msgs)
    BY <1>1 DEF AskIds, FreshFrom
  <2>3. Plain(Reminder)
    BY TextsArePlain
  <2>4. IsTranscript(Compact(y.msgs, Reminder))
    BY <2>2, <2>3, CompactTranscript
  <2>5. Within(Compact(y.msgs, Reminder), y.msgs)
    BY <2>2, <2>3, CompactWithin
  <2>6. FreshFrom(r, Compact(y.msgs, Reminder), y.iter)
    BY <2>2, <2>4, <2>5, FreshWithin
  <2>7. FreshFrom(r, m, y.iter)
    BY <1>3, <2>2, <2>6
  <2> QED BY <1>1, <2>1, <2>7 DEF AskIds
<1> QED BY <1>2, <1>3 DEF Answered
-----------------------------------------------------------------------------
(* The steps keep the ids. *)

LEMMA PlacedStays ==
    ASSUME NEW h, Placed(h, run), \A q \in Runs : Awaited(q, run'[q]) \subseteq Awaited(q, run[q])
    PROVE  Placed(h, run')
BY DEF Placed

\* The runs await no more than they did, and what is kept was placed.
LEMMA IdsMove ==
    ASSUME \A q \in Runs : /\ Awaited(q, run'[q]) \subseteq Awaited(q, run[q])
                           /\ Placed(run'[q].snap, run) /\ RunIds(q, run'[q]),
           Placed(cache'.history, run) \/ Placed(cache'.history, run'),
           Placed(row'.history, run), \A a \in Savers : Placed(saving'[a].history, run)
    PROVE  IdsInv'
<1>1. \A h : Placed(h, run) => Placed(h, run')
  BY PlacedStays
<1> QED BY <1>1 DEF IdsInv

StoreIds == /\ Placed(cache.history, run) /\ Placed(row.history, run)
            /\ \A a \in Savers : Placed(saving[a].history, run)

LEMMA WithinPlaced ==
    ASSUME NEW h, NEW c, NEW rs, Placed(h, rs), Within(c, h)
    PROVE  Placed(c, rs)
BY DEF Placed, Within

LEMMA EmptyPlaced == \A rs : Placed(<<>>, rs)
BY EmptyIds DEF Placed

\* The session gets no message, and its history only replaced by what is placed.
LEMMA StoreStep_Ids ==
    ASSUME StoreIds, StoreTexts, StoreShape,
           \/ UNCHANGED storeVars \/ (\E h : Placed(h, run) /\ SetHistory(h))
           \/ (\E s : SetSummary(s)) \/ TruncateHistory(KeepLast) \/ IncrementCompaction
           \/ SetMemoryFlushDone \/ Reset \/ StoreRestart
           \/ (\E a \in Savers : SaveReads(a) \/ \E ok : SaveWrites(a, ok))
    PROVE  /\ Placed(cache'.history, run) /\ Placed(row'.history, run)
           /\ \A a \in Savers : Placed(saving'[a].history, run)
<1> DEFINE Goal == /\ Placed(cache'.history, run) /\ Placed(row'.history, run)
                   /\ \A a \in Savers : Placed(saving'[a].history, run)
<1>1. ASSUME Placed(cache'.history, run), UNCHANGED <<row, saving>> PROVE Goal
  BY <1>1 DEF StoreIds
<1>2. DOMAIN cache = SessionFields /\ DOMAIN saving = Savers /\ IsTranscript(cache.history)
  BY DEF StoreShape, StoreTexts
<1>3. ASSUME NEW h, Placed(h, run), Change([cache EXCEPT !.history = h]) PROVE Goal
  <2>1. cache'.history = h
    BY <1>2, <1>3 DEF Change, SessionFields
  <2> QED BY <1>1, <1>3, <2>1 DEF Change
<1>4. CASE UNCHANGED storeVars
  BY <1>4 DEF storeVars, StoreIds
<1>6. ASSUME NEW h, Placed(h, run), SetHistory(h) PROVE Goal
  BY <1>3, <1>6 DEF SetHistory
<1>7. CASE TruncateHistory(KeepLast)
  <2>1. Within(Truncate(cache.history, KeepLast), cache.history)
    BY <1>2, TruncateWithin, KeepLastAssumption
  <2>2. Placed(Truncate(cache.history, KeepLast), run)
    BY <2>1, WithinPlaced DEF StoreIds
  <2> QED BY <1>3, <1>7, <2>2 DEF TruncateHistory
<1>8. CASE Reset
  <2>1. cache' = [cache EXCEPT !.history = <<>>, !.summary = {}] /\ UNCHANGED <<row, saving>>
    BY <1>8 DEF Reset, Change
  <2>2. cache'.history = <<>>
    BY <1>2, <2>1 DEF SessionFields
  <2> QED BY <1>1, <2>1, <2>2, EmptyPlaced
<1>9. CASE (\E s : SetSummary(s)) \/ IncrementCompaction \/ SetMemoryFlushDone
  <2>1. cache'.history = cache.history /\ UNCHANGED <<row, saving>>
    BY <1>2, <1>9 DEF SetSummary, IncrementCompaction, SetMemoryFlushDone, Change, SessionFields
  <2> QED BY <1>1, <2>1 DEF StoreIds
<1>10. Placed(NoSnapshot.history, run)
  BY EmptyPlaced DEF NoSnapshot
<1>11. CASE StoreRestart
  BY <1>10, <1>11 DEF StoreRestart, StoreIds
<1>12. CASE \E a \in Savers : SaveReads(a)
  BY <1>2, <1>12 DEF SaveReads, StoreIds
<1>13. ASSUME NEW a \in Savers, NEW ok, SaveWrites(a, ok) PROVE Goal
  <2>1. \A b \in Savers : saving'[b] = IF b = a THEN NoSnapshot ELSE saving[b]
    BY <1>2, <1>13 DEF SaveWrites
  <2>2. (row' = saving[a] \/ row' = row) /\ cache' = cache
    BY <1>13 DEF SaveWrites
  <2> QED BY <1>10, <2>1, <2>2 DEF StoreIds
<1> QED BY <1>4, <1>6, <1>7, <1>8, <1>9, <1>11, <1>12, <1>13

\* A run gets new local variables.
LEMMA SetIds ==
    ASSUME IdsInv, ShapeInv, NEW r \in Runs, NEW new, run' = [run EXCEPT ![r] = new],
           run[r].pc \in LoopPcs \cup {"idle"}, RunIds(r, new),
           new.snap \in {run[r].snap, cache.history, <<>>}, UNCHANGED storeVars
    PROVE  IdsInv'
<1>1. \A q \in Runs : run'[q] = IF q = r THEN new ELSE run[q]
  BY SetIs
<1>2. Awaited(r, new) \subseteq Own(r)
  BY OwnAwaits DEF RunIds
<1>3. Awaited(r, run[r]) = Own(r)
  BY DEF Awaited
<1>4. Placed(new.snap, run)
  BY EmptyPlaced DEF IdsInv
<1>5. \A q \in Runs : /\ Awaited(q, run'[q]) \subseteq Awaited(q, run[q])
                      /\ Placed(run'[q].snap, run) /\ RunIds(q, run'[q])
  BY <1>1, <1>2, <1>3, <1>4 DEF IdsInv
<1>6. /\ Placed(cache'.history, run) /\ Placed(row'.history, run)
      /\ \A a \in Savers : Placed(saving'[a].history, run)
  BY DEF IdsInv, storeVars
<1> QED BY <1>5, <1>6, IdsMove

LEMMA AwaitedSame ==
    ASSUME NEW r, NEW x, NEW y, x.pc = y.pc, x.pending = y.pending, x.flushed = y.flushed
    PROVE  Awaited(r, x) = Awaited(r, y)
BY DEF Awaited

\* The session is changed, and rs are the runs but for what they know.
LEMMA StillIds ==
    ASSUME IdsInv, NEW rs, \A q \in Runs : DOMAIN rs[q] = Fields, StillKnown(rs),
           \A q \in Runs : /\ Awaited(q, rs[q]) \subseteq Awaited(q, run[q])
                           /\ Placed(rs[q].snap, run) /\ RunIds(q, rs[q]),
           Placed(cache'.history, run) \/ Placed(cache'.history, run'),
           Placed(row'.history, run), \A a \in Savers : Placed(saving'[a].history, run)
    PROVE  IdsInv'
<1>1. ASSUME NEW q \in Runs
      PROVE  /\ run'[q].pc = rs[q].pc /\ run'[q].snap = rs[q].snap /\ run'[q].msgs = rs[q].msgs
             /\ run'[q].pending = rs[q].pending /\ run'[q].flushed = rs[q].flushed
             /\ run'[q].iter = rs[q].iter
  BY StillKnownIs DEF Like
<1>2. ASSUME NEW q \in Runs PROVE Awaited(q, run'[q]) = Awaited(q, rs[q])
  BY <1>1, AwaitedSame
<1>3. ASSUME NEW q \in Runs PROVE RunIds(q, run'[q])
  <2>1. RunIds(q, rs[q])
    OBVIOUS
  <2> QED BY <1>1, <2>1 DEF RunIds, AskIds
<1>4. \A q \in Runs : /\ Awaited(q, run'[q]) \subseteq Awaited(q, run[q])
                      /\ Placed(run'[q].snap, run) /\ RunIds(q, run'[q])
  BY <1>1, <1>2, <1>3
<1> QED BY <1>4, IdsMove

\* A part of a transcript.
LEMMA PartIs ==
    ASSUME NEW q, NEW lo \in Nat \ {0}, NEW hi \in Nat, NEW c, IsTranscript(q), hi <= Len(q),
           c = SubSeq(q, lo, hi)
    PROVE  IsTranscript(c) /\ \A i \in DOMAIN c : \E j \in DOMAIN q : c[i] = q[j]
<1> DEFINE S == ToSet(q)
           n == Len(q)
<1>1. q \in Seq(S) /\ n \in Nat /\ DOMAIN q = 1 .. n
  BY DEF IsTranscript, Listed
<1>2. \A i \in lo .. hi : q[i] \in S
  BY <1>1 DEF ToSet
<1> HIDE DEF S, n
<1>3. /\ c \in Seq(S) /\ Len(c) = IF lo <= hi THEN hi - lo + 1 ELSE 0
      /\ \A i \in 1 .. hi - lo + 1 : c[i] = q[lo + i - 1]
  BY <1>2, SubSeqProperties
<1>4. \A i \in DOMAIN c : \E j \in DOMAIN q : c[i] = q[j]
  <2> TAKE i \in DOMAIN c
  <2>1. DOMAIN c = 1 .. Len(c) /\ hi <= n
    BY <1>3 DEF n
  <2>2. i \in 1 .. hi - lo + 1 /\ lo + i - 1 \in 1 .. n
    BY <1>1, <1>3, <2>1
  <2> QED BY <1>1, <1>3, <2>2
<1>5. Listed(c)
  BY <1>3, ListedIs
<1> QED BY <1>4, <1>5 DEF IsTranscript

LEMMA CallessPart ==
    ASSUME NEW q, NEW lo \in Nat \ {0}, NEW hi \in Nat, NEW c, IsTranscript(q), hi <= Len(q),
           c = SubSeq(q, lo, hi), \A i \in DOMAIN q : q[i].calls = <<>>
    PROVE  IsTranscript(c) /\ Ids(c) = {}
<1>1. IsTranscript(c)
  BY PartIs
<1>2. \A i \in DOMAIN c : \E j \in DOMAIN q : c[i] = q[j]
  BY PartIs
<1>3. \A i \in DOMAIN c : c[i].calls = <<>>
  BY <1>2
<1> QED BY <1>1, <1>3, CallessIds

\* A message without calls is put among messages without calls.
LEMMA InsertedIs ==
    ASSUME NEW q, NEW m, NEW w \in Nat, NEW k \in Nat, NEW c, IsTranscript(q), Plain(m),
           w <= Len(q), k = w + 1, \A i \in DOMAIN q : q[i].calls = <<>>, c = InsertAt(q, k, m)
    PROVE  IsTranscript(c) /\ Ids(c) = {}
<1> DEFINE d == <<m>>
<1>0. Len(q) \in Nat /\ 1 \in Nat \ {0} /\ k \in Nat \ {0} /\ Len(q) <= Len(q)
  <2>1. Len(q) \in Nat
    BY TranscriptIs
  <2> QED BY <2>1
<1>1. PICK a, b : a = SubSeq(q, 1, w) /\ b = SubSeq(q, k, Len(q))
  OBVIOUS
<1>2. c = (a \o d) \o b
  <2>1. a = SubSeq(q, 1, w)
    BY <1>1
  <2>2. b = SubSeq(q, k, Len(q))
    BY <1>1
  <2>3. InsertAt(q, k, m) = (a \o <<m>>) \o b
    <3>1. k - 1 = w
      OBVIOUS
    <3> QED BY <2>1, <2>2, <3>1, Zenon DEF InsertAt
  <2> QED BY <2>3
<1>3. IsTranscript(a) /\ Ids(a) = {}
  BY <1>0, <1>1, CallessPart
<1>4. IsTranscript(b) /\ Ids(b) = {}
  BY <1>0, <1>1, CallessPart
<1>5. IsTranscript(d) /\ \A i \in DOMAIN d : d[i].calls = <<>>
  BY OneMessage DEF Plain, HasCalls, IsMessage
<1> HIDE DEF d
<1>6. Ids(d) = {}
  BY <1>5, CallessIds
<1>7. IsTranscript(a \o d)
  BY <1>3, <1>5, JoinedIs
<1>8. Ids(a \o d) = Ids(a) \cup Ids(d)
  BY <1>3, <1>5, JoinedIds
<1>9. IsTranscript(c)
  BY <1>2, <1>4, <1>7, JoinedIs
<1>10. Ids(c) = Ids(a \o d) \cup Ids(b)
  BY <1>2, <1>4, <1>7, JoinedIds
<1> QED BY <1>3, <1>4, <1>6, <1>8, <1>9, <1>10

\* The request is fresh, if the history is.
LEMMA MessagesFresh ==
    ASSUME NEW r \in Runs, NEW snap, NEW summary, NEW n, IsTranscript(snap), UniqueIds(snap),
           Ids(snap) \cap IdsFrom(r, n) = {}
    PROVE  FreshFrom(r, Messages(r, snap, summary), n)
<1> DEFINE p == <<Instruction>>
           s == IF summary = {} THEN <<>> ELSE <<Reminder, TextMsg("assistant", <<>>)>>
           l == LimitTurns(snap, HistoryLimit)
           h == Sanitize(l)
           q == <<Question(r)>>
<1>1. Ready(p) /\ Ids(p) = {} /\ UniqueIds(p)
  <2>1. Plain(Instruction)
    BY TextsArePlain
  <2>2. p[1] = Instruction /\ DOMAIN p = {1} /\ Instruction.calls = <<>>
    BY <2>1, OneMessage DEF Plain, HasCalls, IsMessage
  <2>3. Ready(p)
    BY <2>1, OneReady
  <2> HIDE DEF p
  <2> QED BY <2>2, <2>3, CallessIds
<1>2. IsTranscript(s) /\ \A i \in DOMAIN s : s[i].calls = <<>>
  <2>1. Plain(Reminder) /\ Plain(TextMsg("assistant", <<>>))
    BY TextsArePlain
  <2>2. Reminder.calls = <<>> /\ TextMsg("assistant", <<>>).calls = <<>>
    BY <2>1 DEF Plain, HasCalls, IsMessage
  <2>3. IsTranscript(<<Reminder, TextMsg("assistant", <<>>)>>)
    BY <2>1, TwoReady DEF Ready
  <2>4. IsTranscript(<<>>)
    BY EmptyReady DEF Ready
  <2> QED BY <2>2, <2>3, <2>4
<1>3. IsTranscript(q) /\ \A i \in DOMAIN q : q[i].calls = <<>>
  BY TextsArePlain, OneMessage DEF Plain, HasCalls, IsMessage
<1>4. IsTranscript(l) /\ Within(l, snap)
  BY LimitIs, LimitWithin, LoopAssumption
<1> HIDE DEF l
<1>5. UniqueIds(l)
  BY <1>4 DEF Within
<1>6. IsTranscript(h) /\ Within(h, l)
  BY <1>4, <1>5, SanitizeIs, SanitizeWithin
<1>7. UniqueIds(h) /\ Ids(h) \cap IdsFrom(r, n) = {}
  BY <1>4, <1>5, <1>6 DEF Within
<1>8. Messages(r, snap, summary) = ((p \o s) \o h) \o q
  BY DEF Messages, l
<1> HIDE DEF p, s, h, q
<1>9. FreshFrom(r, p, n)
  BY <1>1 DEF FreshFrom, Ready
<1>10. FreshFrom(r, p \o s, n)
  BY <1>2, <1>9, FreshJoined
<1>11. Ids(p \o s) = {}
  <2>1. Ids(p \o s) = Ids(p)
    BY <1>1, <1>2, JoinedCalless DEF Ready
  <2> QED BY <1>1, <2>1
<1>12. FreshFrom(r, (p \o s) \o h, n)
  <2> DEFINE a == p \o s
             c == a \o h
  <2>1. IsTranscript(a) /\ UniqueIds(a) /\ Ids(a) = {}
    BY <1>10, <1>11 DEF FreshFrom
  <2> HIDE DEF a
  <2>2. IsTranscript(c)
    BY <1>6, <2>1, JoinedIs
  <2>3. Ids(c) = Ids(a) \cup Ids(h)
    BY <1>6, <2>1, JoinedIds
  <2>4. UniqueIds(a) /\ UniqueIds(h) /\ Ids(a) \cap Ids(h) = {} => UniqueIds(c)
    BY <1>6, <2>1, JoinedIds
  <2> HIDE DEF c
  <2>5. FreshFrom(r, c, n)
    BY <1>7, <2>1, <2>2, <2>3, <2>4 DEF FreshFrom
  <2> QED BY <2>5 DEF a, c
<1> QED BY <1>3, <1>8, <1>12, FreshJoined

LEMMA LaterAsk ==
    ASSUME NEW r, NEW x, NEW n \in Nat, AskIds(r, x, n)
    PROVE  AskIds(r, x, n + 1)
BY FreshLater DEF AskIds

\* The calls of an iteration.
LEMMA AskCalls ==
    ASSUME NEW r, NEW x, NEW y, NEW n \in Nat, NEW m, AskIds(r, x, n), IsMessage(m),
           Differ(m.calls), ToSet(m.calls) \subseteq IdsFrom(r, n), ToSet(m.calls) \subseteq Own(r),
           ToSet(m.calls) \cap IdsFrom(r, n + 1) = {},
           y.msgs = Append(x.msgs, m), y.pending = Append(x.pending, m)
    PROVE  AskIds(r, y, n + 1)
<1>1. FreshFrom(r, x.msgs, n) /\ FreshFrom(r, x.pending, n) /\ Buffered(r, x.pending)
  BY DEF AskIds
<1>2. FreshFrom(r, y.msgs, n + 1)
  BY <1>1, FreshCalls
<1>3. FreshFrom(r, y.pending, n + 1)
  BY <1>1, FreshCalls
<1>4. Ids(y.pending) = Ids(x.pending) \cup ToSet(m.calls)
  BY <1>1, AppendIds DEF FreshFrom
<1>5. Buffered(r, y.pending)
  BY <1>1, <1>3, <1>4 DEF FreshFrom, Buffered
<1> QED BY <1>2, <1>3, <1>5 DEF AskIds

LEMMA AskIter ==
    ASSUME LocalsOK, NEW r \in Runs
    PROVE  run[r].iter \in Nat
BY LoopAssumption DEF LocalsOK, CountsOK

LEMMA Before_Ids ==
    ASSUME IdsInv, TextsInv, ShapeInv, NEW r \in Runs, Start(r) \/ ReadHistory(r) \/ ReadSummary(r)
    PROVE  IdsInv'
<1>0. DOMAIN run[r] = Fields /\ TextOK(run[r]) /\ Placed(run[r].snap, run)
  BY DEF ShapeInv, TextsInv, IdsInv
<1>1. CASE Start(r)
  <2> DEFINE new == [Idle EXCEPT !.pc = "history", !.loop = cached, !.knew = Covered(cache)]
  <2>1. run' = [run EXCEPT ![r] = new] /\ UNCHANGED storeVars /\ run[r].pc = "idle"
    BY <1>1 DEF Start, Set, At
  <2>2. new.pc = "history" /\ new.snap = <<>>
    BY DEF Idle
  <2> HIDE DEF new
  <2>3. RunIds(r, new)
    BY <2>2 DEF RunIds
  <2> QED BY <2>1, <2>2, <2>3, SetIds
<1>2. CASE ReadHistory(r)
  <2> DEFINE new == [run[r] EXCEPT !.pc = "summary", !.snap = cache.history]
  <2>1. run' = [run EXCEPT ![r] = new] /\ UNCHANGED storeVars /\ run[r].pc = "history"
    BY <1>2 DEF ReadHistory, Set, At
  <2>2. new.pc = "summary" /\ new.snap = cache.history
    BY <1>0 DEF Fields
  <2> HIDE DEF new
  <2>3. RunIds(r, new)
    BY <2>2 DEF RunIds
  <2>4. run[r].pc \in LoopPcs
    BY <2>1 DEF LoopPcs
  <2> QED BY <2>1, <2>2, <2>3, <2>4, SetIds
<1>3. CASE ReadSummary(r)
  <2> DEFINE dirty == Dropped(LimitTurns(run[r].snap, HistoryLimit)) > 0
             q == Messages(r, run[r].snap, cache.summary)
             msgs == LastCall(r, 1, q)
             new == [run[r] EXCEPT !.pc = IF dirty THEN "clean" ELSE "ask",
                                   !.iter = 1, !.knew = {},
                                   !.snap = IF dirty THEN run[r].snap ELSE <<>>,
                                   !.msgs = msgs, !.pending = <<Question(r)>>]
  <2>1. run' = [run EXCEPT ![r] = new] /\ UNCHANGED storeVars /\ run[r].pc = "summary"
    BY <1>3 DEF ReadSummary, Set, At
  <2>2. run[r].pc \in LoopPcs
    BY <2>1 DEF LoopPcs
  <2>3. FreshFrom(r, q, 1)
    <3>1. Awaited(r, run[r]) = Own(r)
      BY <2>2 DEF Awaited
    <3>2. IsTranscript(run[r].snap) /\ UniqueIds(run[r].snap) /\ Ids(run[r].snap) \cap Own(r) = {}
      BY <1>0, <3>1 DEF Placed, TextOK
    <3>3. 0 \in Nat /\ 1 \in Nat /\ 0 <= 1
      OBVIOUS
    <3>4. IdsFrom(r, 1) \subseteq Own(r)
      BY <3>3, LaterIds DEF Own
    <3>5. Ids(run[r].snap) \cap IdsFrom(r, 1) = {}
      BY <3>2, <3>4
    <3> QED BY <3>2, <3>5, MessagesFresh
  <2> HIDE DEF q
  <2>4. FreshFrom(r, msgs, 1)
    BY <2>3, LastCallFresh
  <2> HIDE DEF msgs, dirty
  <2>5. /\ new.pc \in {"clean", "ask"} /\ new.msgs = msgs /\ new.pending = <<Question(r)>>
        /\ new.snap \in {run[r].snap, <<>>} /\ new.iter = 1
    BY <1>0 DEF Fields
  <2> HIDE DEF new
  <2>6. FreshFrom(r, new.pending, 1) /\ Buffered(r, new.pending)
    <3> DEFINE p == new.pending
    <3>1. Plain(Question(r))
      BY TextsArePlain
    <3>2. IsTranscript(p) /\ p[1] = Question(r) /\ DOMAIN p = {1}
      BY <2>5, <3>1, OneMessage DEF Plain
    <3>3. Question(r).calls = <<>>
      BY <3>1 DEF Plain, HasCalls, IsMessage
    <3> HIDE DEF p
    <3>4. Ids(p) = {} /\ UniqueIds(p)
      BY <3>2, <3>3, CallessIds
    <3>5. FreshFrom(r, p, 1) /\ Buffered(r, p)
      BY <3>2, <3>4 DEF FreshFrom, Buffered
    <3> QED BY <3>5 DEF p
  <2>7. RunIds(r, new)
    BY <2>4, <2>5, <2>6 DEF RunIds, AskIds
  <2>8. new.snap \in {run[r].snap, cache.history, <<>>}
    BY <2>5
  <2> QED BY <2>1, <2>2, <2>7, <2>8, SetIds
<1> QED BY <1>1, <1>2, <1>3

LEMMA AnswerText_Ids ==
    ASSUME IdsInv, ShapeInv, KeptInv, LocalsOK, NEW r \in Runs, AnswerText(r)
    PROVE  IdsInv'
<1>0. DOMAIN run[r] = Fields /\ RunIds(r, run[r]) /\ inbox[r] \in Seq(Injections)
  BY DEF ShapeInv, IdsInv, KeptInv
<1> DEFINE y(x) == [x EXCEPT !.msgs = Append(@, Reply(r, x.iter)),
                             !.pending = Append(@, Reply(r, x.iter))]
           new(x) == IF inbox[r] = <<>> THEN Ended(r, x) ELSE Continued(r, Drained(r, y(x)))
<1>1. PICK x \in Answered(r) : run' = [run EXCEPT ![r] = new(x)]
  BY DEF AnswerText, Set
<1>2. At(r, "ask") /\ UNCHANGED storeVars /\ run[r].pc \in LoopPcs
  BY DEF AnswerText, Ask, At, LoopPcs
<1>3. AskIds(r, x, x.iter) /\ DOMAIN x = Fields /\ x.snap = run[r].snap /\ x.iter \in Nat
  BY <1>0, <1>2, AnsweredOwn, AskIter
<1> DEFINE m == Reply(r, x.iter)
<1>4. Plain(m)
  BY TextsArePlain
<1>5. /\ DOMAIN y(x) = Fields /\ y(x).msgs = Append(x.msgs, m) /\ y(x).snap = x.snap
      /\ y(x).pending = Append(x.pending, m) /\ y(x).iter = x.iter
  BY <1>3 DEF Fields
<1> HIDE DEF m, y
<1>6. FreshFrom(r, y(x).msgs, x.iter) /\ FreshFrom(r, y(x).pending, x.iter)
  BY <1>3, <1>4, <1>5, FreshAppend DEF AskIds
<1>7. Buffered(r, y(x).pending)
  BY <1>3, <1>4, <1>5, BufferedAppend DEF AskIds
<1>8. AskIds(r, y(x), y(x).iter + 1)
  <2>1. AskIds(r, y(x), x.iter)
    BY <1>6, <1>7 DEF AskIds
  <2>2. AskIds(r, y(x), x.iter + 1)
    BY <1>3, <2>1, LaterAsk
  <2> QED BY <1>5, <2>2
<1> DEFINE z == Drained(r, y(x))
<1>9. AskIds(r, z, y(x).iter + 1) /\ z.snap = y(x).snap /\ z.iter = y(x).iter /\ DOMAIN z = Fields
  <2> DEFINE n == y(x).iter + 1
             w == y(x)
  <2>1. AskIds(r, w, n) /\ DOMAIN w = Fields
    BY <1>5, <1>8
  <2> HIDE DEF n, w
  <2>2. AskIds(r, Drained(r, w), n)
    BY <1>0, <2>1, DrainedOwn
  <2>3. Drained(r, w).snap = w.snap /\ Drained(r, w).iter = w.iter /\ DOMAIN Drained(r, w) = Fields
    BY <1>0, <2>1, DrainedOwn
  <2> QED BY <2>2, <2>3 DEF n, w
<1> HIDE DEF z
<1>10. RunIds(r, Continued(r, z)) /\ Continued(r, z).snap \in {z.snap, <<>>}
  BY <1>9, ContinuedOwn
<1>11. RunIds(r, Ended(r, x)) /\ Ended(r, x).snap = <<>>
  BY <1>3, EndedOwn DEF AskIds
<1>12. RunIds(r, new(x)) /\ new(x).snap \in {run[r].snap, cache.history, <<>>}
  <2>1. x.snap = run[r].snap /\ z.snap = x.snap
    BY <1>3, <1>5, <1>9
  <2>2. new(x) = Ended(r, x) \/ new(x) = Continued(r, z)
    BY DEF z
  <2> HIDE DEF new
  <2> QED BY <1>10, <1>11, <2>1, <2>2
<1> HIDE DEF new
<1>13. run' = [run EXCEPT ![r] = new(x)] /\ UNCHANGED storeVars
  BY <1>1, <1>2
<1> QED BY <1>2, <1>12, <1>13, SetIds

LEMMA AnswerCutOff_Ids ==
    ASSUME IdsInv, ShapeInv, LocalsOK, NEW r \in Runs, AnswerCutOff(r)
    PROVE  IdsInv'
<1>0. DOMAIN run[r] = Fields /\ RunIds(r, run[r])
  BY DEF ShapeInv, IdsInv
<1> DEFINE y(x) == [x EXCEPT !.msgs = @ \o <<Reply(r, x.iter), Reminder>>]
<1>1. PICK x \in Answered(r) : run' = [run EXCEPT ![r] = Continued(r, y(x))]
  BY DEF AnswerCutOff, Set
<1>2. At(r, "ask") /\ UNCHANGED storeVars /\ run[r].pc \in LoopPcs
  BY DEF AnswerCutOff, Ask, At, LoopPcs
<1>3. AskIds(r, x, x.iter) /\ DOMAIN x = Fields /\ x.snap = run[r].snap /\ x.iter \in Nat
  BY <1>0, <1>2, AnsweredOwn, AskIter
<1> DEFINE q == <<Reply(r, x.iter), Reminder>>
<1>4. IsTranscript(q) /\ \A i \in DOMAIN q : q[i].calls = <<>>
  <2>1. Plain(Reply(r, x.iter)) /\ Plain(Reminder)
    BY TextsArePlain
  <2>2. Reply(r, x.iter).calls = <<>> /\ Reminder.calls = <<>>
    BY <2>1 DEF Plain, HasCalls, IsMessage
  <2> QED BY <2>1, <2>2, TwoReady DEF Ready
<1>5. /\ DOMAIN y(x) = Fields /\ y(x).msgs = x.msgs \o q /\ y(x).snap = x.snap
      /\ y(x).pending = x.pending /\ y(x).iter = x.iter
  BY <1>3 DEF Fields
<1> HIDE DEF q, y
<1>6. FreshFrom(r, y(x).msgs, x.iter)
  BY <1>3, <1>4, <1>5, FreshJoined DEF AskIds
<1>7. AskIds(r, y(x), y(x).iter + 1)
  <2>1. AskIds(r, y(x), x.iter)
    BY <1>3, <1>5, <1>6 DEF AskIds
  <2>2. AskIds(r, y(x), x.iter + 1)
    BY <1>3, <2>1, LaterAsk
  <2> QED BY <1>5, <2>2
<1> DEFINE new == Continued(r, y(x))
<1>8. RunIds(r, new) /\ new.snap \in {y(x).snap, <<>>}
  BY <1>5, <1>7, ContinuedOwn
<1>9. new.snap \in {run[r].snap, cache.history, <<>>}
  BY <1>3, <1>5, <1>8
<1> HIDE DEF new
<1> QED BY <1>1, <1>2, <1>8, <1>9, SetIds DEF new

LEMMA AnswerCalls_Ids ==
    ASSUME IdsInv, ShapeInv, LocalsOK, NEW r \in Runs, NEW n \in CallSizes, AnswerCalls(r, n)
    PROVE  IdsInv'
<1>0. DOMAIN run[r] = Fields /\ RunIds(r, run[r]) /\ n \in Nat \ {0} /\ n \in Nat
  BY LoopAssumption DEF ShapeInv, IdsInv
<1> DEFINE msg(x) == CallMsg(<<r, x.iter>>, Uniquify(r, x.iter, n))
           asked(x) == [x EXCEPT !.msgs = Append(@, msg(x)), !.pending = Append(@, msg(x)),
                                 !.calls = @ + n]
           over(x) == [asked(x) EXCEPT !.over = TRUE, !.msgs = Append(@, Reminder)]
           tools(x) == [asked(x) EXCEPT !.pc = "tools"]
           new(x) == IF asked(x).calls > MaxToolCalls THEN Continued(r, over(x)) ELSE tools(x)
<1>1. PICK x \in Answered(r) : run' = [run EXCEPT ![r] = new(x)]
  BY DEF AnswerCalls, Set
<1>2. At(r, "ask") /\ UNCHANGED storeVars /\ run[r].pc \in LoopPcs
  BY DEF AnswerCalls, Ask, At, LoopPcs
<1>3. AskIds(r, x, x.iter) /\ DOMAIN x = Fields /\ x.snap = run[r].snap /\ x.iter \in Nat
  BY <1>0, <1>2, AnsweredOwn, AskIter
<1> DEFINE m == msg(x)
<1>4. IsMessage(m) /\ Differ(m.calls)
  BY <1>0, CallMsgIs
<1>5. /\ ToSet(m.calls) \subseteq IdsFrom(r, x.iter) /\ ToSet(m.calls) \subseteq Own(r)
      /\ ToSet(m.calls) \cap IdsFrom(r, x.iter + 1) = {}
  BY <1>0, <1>3, UniquifyIds
<1> HIDE DEF msg
<1> DEFINE a == asked(x)
<1>6. /\ DOMAIN a = Fields /\ a.msgs = Append(x.msgs, m) /\ a.snap = x.snap
      /\ a.pending = Append(x.pending, m) /\ a.iter = x.iter
  BY <1>3 DEF Fields
<1> HIDE DEF asked, m
<1>7. AskIds(r, a, a.iter + 1)
  <2> DEFINE k == x.iter
  <2>1. /\ k \in Nat /\ AskIds(r, x, k) /\ ToSet(m.calls) \subseteq IdsFrom(r, k)
        /\ ToSet(m.calls) \cap IdsFrom(r, k + 1) = {}
    BY <1>3, <1>5
  <2> HIDE DEF a
  <2>2. AskIds(r, a, k + 1)
    <3> HIDE DEF k
    <3> QED BY <1>4, <1>5, <1>6, <2>1, AskCalls
  <2> QED BY <1>6, <2>2
<1> DEFINE z == tools(x)
           w == over(x)
<1>8. RunIds(r, z) /\ z.snap = x.snap
  <2>1. /\ z.pc = "tools" /\ z.msgs = a.msgs /\ z.snap = x.snap /\ z.pending = a.pending
        /\ z.iter = a.iter
    BY <1>6 DEF Fields
  <2> HIDE DEF z, a
  <2>2. AskIds(r, z, z.iter + 1)
    BY <1>7, <2>1 DEF AskIds
  <2> QED BY <2>1, <2>2 DEF RunIds
<1>9. AskIds(r, w, w.iter + 1) /\ DOMAIN w = Fields /\ w.snap = x.snap
  <2>1. /\ DOMAIN w = Fields /\ w.snap = x.snap /\ w.pending = a.pending
        /\ w.msgs = Append(a.msgs, Reminder) /\ w.iter = a.iter
    BY <1>6 DEF Fields
  <2> HIDE DEF w, a
  <2>2. FreshFrom(r, w.msgs, a.iter + 1)
    <3> DEFINE k == a.iter + 1
    <3>1. FreshFrom(r, a.msgs, k) /\ Plain(Reminder)
      BY <1>7, TextsArePlain DEF AskIds
    <3> HIDE DEF k
    <3>2. FreshFrom(r, w.msgs, k)
      BY <2>1, <3>1, FreshAppend
    <3> QED BY <3>2 DEF k
  <2>3. AskIds(r, w, w.iter + 1)
    BY <1>7, <2>1, <2>2 DEF AskIds
  <2> QED BY <2>1, <2>3
<1>10. RunIds(r, Continued(r, w)) /\ Continued(r, w).snap \in {w.snap, <<>>}
  <2> HIDE DEF w
  <2> QED BY <1>9, ContinuedOwn
<1>11. new(x) = z \/ new(x) = Continued(r, w)
  OBVIOUS
<1> HIDE DEF z, w, new
<1>12. RunIds(r, new(x)) /\ new(x).snap \in {run[r].snap, cache.history, <<>>}
  BY <1>3, <1>8, <1>9, <1>10, <1>11
<1>13. run' = [run EXCEPT ![r] = new(x)] /\ UNCHANGED storeVars
  BY <1>1, <1>2
<1> QED BY <1>2, <1>12, <1>13, SetIds

LEMMA NoIds ==
    ASSUME NEW q, IsTranscript(q), Ids(q) = {}
    PROVE  \A i \in DOMAIN q : q[i].calls = <<>>
<1> TAKE i \in DOMAIN q
<1> DEFINE c == q[i].calls
<1>1. c \in Seq(ToSet(c))
  BY DEF IsTranscript, IsMessage, Listed
<1>2. ToSet(c) = {}
  BY DEF Ids
<1> HIDE DEF c
<1>3. c \in Seq({})
  BY <1>1, <1>2
<1>4. c = <<>>
  BY <1>3
<1> QED BY <1>4 DEF c

LEMMA Tools_Ids ==
    ASSUME IdsInv, ShapeInv, KeptInv, NEW r \in Runs, NEW w, Tools(r, w)
    PROVE  IdsInv'
<1>0. /\ DOMAIN run[r] = Fields /\ RunIds(r, run[r]) /\ inbox[r] \in Seq(Injections)
      /\ At(r, "tools") /\ Calls(r) \in Nat /\ w \in 0 .. Calls(r) /\ UNCHANGED storeVars
      /\ run[r].pc \in LoopPcs
  BY DEF ShapeInv, IdsInv, KeptInv, PendingOK, Tools, At, Calls, LoopPcs
<1> DEFINE x == run[r]
           n == Calls(r)
           results == Results(r, n)
           warned == IF w = 0 THEN results ELSE InsertAt(results, w + 1, Reminder)
           y == [x EXCEPT !.msgs = @ \o warned, !.pending = @ \o results,
                          !.split = @ \/ w \in 1 .. n - 1]
           k == x.iter + 1
<1>1. run' = [run EXCEPT ![r] = Continued(r, Drained(r, y))]
  BY DEF Tools, Set
<1>2. /\ IsTranscript(results) /\ DOMAIN results = 1 .. n /\ Len(results) = n
      /\ \A i \in DOMAIN results : results[i].calls = <<>>
  BY <1>0, ResultsAre
<1> HIDE DEF results
<1>3. IsTranscript(warned) /\ \A i \in DOMAIN warned : warned[i].calls = <<>>
  <2>1. CASE w = 0
    BY <1>2, <2>1
  <2>2. CASE w # 0
    <3> DEFINE j == w + 1
    <3>1. w \in Nat /\ j \in Nat /\ w <= Len(results) /\ j = w + 1
      BY <1>0, <1>2
    <3>3. warned = InsertAt(results, j, Reminder) /\ Plain(Reminder)
      BY <2>2, TextsArePlain
    <3> HIDE DEF j, warned
    <3>4. IsTranscript(warned) /\ Ids(warned) = {}
      BY <1>2, <3>1, <3>3, InsertedIs
    <3> QED BY <3>4, NoIds
  <2> QED BY <2>1, <2>2
<1> HIDE DEF n
<1>5. /\ DOMAIN y = Fields /\ y.msgs = x.msgs \o warned /\ y.snap = x.snap
      /\ y.pending = x.pending \o results /\ y.iter = x.iter
  BY <1>0 DEF Fields
<1>6. AskIds(r, x, k)
  BY <1>0 DEF RunIds, At
<1> HIDE DEF y, warned, k
<1>7. FreshFrom(r, y.msgs, k)
  BY <1>3, <1>5, <1>6, FreshJoined DEF AskIds
<1>8. FreshFrom(r, y.pending, k)
  BY <1>2, <1>5, <1>6, FreshJoined DEF AskIds
<1>9. Buffered(r, y.pending)
  BY <1>2, <1>5, <1>6, BufferedJoined DEF AskIds
<1>10. AskIds(r, y, k)
  BY <1>7, <1>8, <1>9 DEF AskIds
<1> DEFINE z == Drained(r, y)
<1>11. AskIds(r, z, k) /\ DOMAIN z = Fields /\ z.snap = x.snap /\ z.iter = x.iter
  <2>1. AskIds(r, z, k)
    BY <1>0, <1>5, <1>10, DrainedOwn
  <2>2. z.snap = y.snap /\ z.iter = y.iter /\ DOMAIN z = Fields
    BY <1>0, <1>5, <1>10, DrainedOwn
  <2> QED BY <1>5, <2>1, <2>2
<1>12. AskIds(r, z, z.iter + 1)
  BY <1>11 DEF k
<1> DEFINE new == Continued(r, z)
<1> HIDE DEF z
<1>13. RunIds(r, new) /\ new.snap \in {z.snap, <<>>}
  BY <1>11, <1>12, ContinuedOwn
<1>14. new.snap \in {run[r].snap, cache.history, <<>>}
  BY <1>11, <1>13
<1>15. run' = [run EXCEPT ![r] = new]
  BY <1>1 DEF z
<1> HIDE DEF new
<1> QED BY <1>0, <1>13, <1>14, <1>15, SetIds

LEMMA Stuck_Ids ==
    ASSUME IdsInv, ShapeInv, KeptInv, NEW r \in Runs, NEW n, Stuck(r, n)
    PROVE  IdsInv'
<1>0. /\ DOMAIN run[r] = Fields /\ RunIds(r, run[r]) /\ UNCHANGED storeVars
      /\ At(r, "tools") /\ Calls(r) \in Nat /\ n \in 1 .. Calls(r) /\ run[r].pc \in LoopPcs
  BY DEF ShapeInv, IdsInv, KeptInv, PendingOK, Stuck, At, Calls, LoopPcs
<1> DEFINE y == [run[r] EXCEPT !.pending = @ \o Results(r, n), !.stuck = TRUE]
           new == Ended(r, y)
<1>1. run' = [run EXCEPT ![r] = new]
  BY DEF Stuck, Set
<1>2. y.pending = run[r].pending \o Results(r, n)
  BY <1>0 DEF Fields
<1> HIDE DEF y
<1>3. IsTranscript(Results(r, n)) /\ \A i \in DOMAIN Results(r, n) : Results(r, n)[i].calls = <<>>
  BY <1>0, ResultsAre
<1>4. Buffered(r, run[r].pending)
  BY <1>0 DEF RunIds, AskIds, At
<1>5. Buffered(r, y.pending)
  BY <1>2, <1>3, <1>4, BufferedJoined
<1>6. RunIds(r, new) /\ new.snap = <<>>
  BY <1>5, EndedOwn
<1> HIDE DEF new
<1>7. new.snap \in {run[r].snap, cache.history, <<>>}
  BY <1>6
<1> QED BY <1>0, <1>1, <1>6, <1>7, SetIds

LEMMA Fail_Ids ==
    ASSUME IdsInv, ShapeInv, NEW r \in Runs, Fail(r)
    PROVE  IdsInv'
<1>1. run' = [run EXCEPT ![r] = Failed] /\ UNCHANGED storeVars /\ run[r].pc \in LoopPcs
  BY DEF Fail, Set, Ask, At, LoopPcs
<1>2. Failed.pc = "failed" /\ Failed.snap = <<>>
  BY DEF Failed, Idle
<1>3. RunIds(r, Failed)
  BY <1>2 DEF RunIds
<1>4. Failed.snap \in {run[r].snap, cache.history, <<>>}
  BY <1>2
<1> QED BY <1>1, <1>3, <1>4, SetIds

LEMMA Clean_Ids ==
    ASSUME IdsInv, TextsInv, ShapeInv, NEW r \in Runs, Clean(r)
    PROVE  IdsInv'
<1>0. /\ DOMAIN run = Runs /\ \A q \in Runs : DOMAIN run[q] = Fields /\ TextOK(run[q])
      /\ StoreTexts /\ StoreShape /\ StoreIds
  BY ShapeParts DEF ShapeInv, TextsInv, IdsInv, StoreIds
<1> DEFINE rs == [run EXCEPT ![r].pc = "cleanSave", ![r].snap = <<>>]
           new == [run[r] EXCEPT !.pc = "cleanSave", !.snap = <<>>]
<1>1. StillKnown(rs) /\ run[r].pc = "clean" /\ SetHistory(Sanitize(run[r].snap))
  BY DEF Clean, At
<1>2. /\ DOMAIN new = Fields /\ new.pc = "cleanSave" /\ new.snap = <<>> /\ new.iter = run[r].iter
      /\ new.pending = run[r].pending /\ new.msgs = run[r].msgs
  BY <1>0 DEF Fields
<1>3. \A q \in Runs : rs[q] = IF q = r THEN new ELSE run[q]
  BY <1>0
<1> HIDE DEF rs, new
<1>4. RunIds(r, new)
  <2>1. AskIds(r, run[r], run[r].iter)
    BY <1>1 DEF IdsInv, RunIds
  <2> QED BY <1>2, <2>1 DEF RunIds, AskIds
<1>5. Awaited(r, new) = Own(r) /\ Awaited(r, run[r]) = Own(r)
  BY <1>1, <1>2 DEF Awaited, LoopPcs
<1>6. \A q \in Runs : /\ Awaited(q, rs[q]) \subseteq Awaited(q, run[q])
                      /\ Placed(rs[q].snap, run) /\ RunIds(q, rs[q])
  BY <1>2, <1>3, <1>4, <1>5, EmptyPlaced DEF IdsInv
<1>7. Placed(Sanitize(run[r].snap), run)
  <2>1. IsTranscript(run[r].snap) /\ Placed(run[r].snap, run)
    BY <1>0 DEF TextOK, IdsInv
  <2>2. Within(Sanitize(run[r].snap), run[r].snap)
    BY <2>1, SanitizeWithin DEF Placed
  <2> QED BY <2>1, <2>2, WithinPlaced
<1>8. /\ Placed(cache'.history, run) /\ Placed(row'.history, run)
      /\ \A a \in Savers : Placed(saving'[a].history, run)
  BY <1>0, <1>1, <1>7, StoreStep_Ids
<1>9. \A q \in Runs : DOMAIN rs[q] = Fields
  BY <1>0, <1>2, <1>3
<1> QED BY <1>1, <1>6, <1>8, <1>9, StillIds

\* A message of the run's own goes from what it awaits into the session.
LEMMA FlushedPlaced ==
    ASSUME IdsInv, NEW r \in Runs, NEW n, NEW new, NEW h,
           IsTranscript(cache.history), run[r].pc = "flush", run[r].flushed \in Nat,
           n = run[r].flushed + 1, n \in DOMAIN run[r].pending,
           h = Append(cache.history, run[r].pending[n]),
           new.pc \in {"save", "flush"}, new.pending = run[r].pending, new.flushed = n
    PROVE  /\ Awaited(r, new) \subseteq Awaited(r, run[r])
           /\ UniqueIds(h) /\ Ids(h) \subseteq Ids(cache.history) \cup Own(r)
           /\ Ids(h) \cap Awaited(r, new) = {}
<1> DEFINE x == run[r]
           p == x.pending
           m == p[n]
           id == ToSet(m.calls)
           before == {j \in DOMAIN p : j > x.flushed}
           after == {j \in DOMAIN p : j > n}
<1>1. Buffered(r, p) /\ IsTranscript(p) /\ UniqueIds(p) /\ Ids(p) \subseteq Own(r)
  BY DEF IdsInv, RunIds, Buffered
<1>2. Placed(cache.history, run)
  BY DEF IdsInv
<1>3. Awaited(r, x) = UNION {ToSet(p[j].calls) : j \in before}
  BY DEF Awaited, LoopPcs
<1>4. Awaited(r, new) \subseteq UNION {ToSet(p[j].calls) : j \in after}
  <2>1. new.pc \notin LoopPcs \cup {"idle"}
    BY DEF LoopPcs
  <2> QED BY <2>1 DEF Awaited
<1>5. DOMAIN p \subseteq Nat
  BY <1>1, TranscriptIs
<1>6. n \in before /\ after \subseteq before /\ n \notin after
  BY <1>5
<1>7. Awaited(r, new) \subseteq Awaited(r, x)
  BY <1>3, <1>4, <1>6
<1>8. id \subseteq Awaited(r, x)
  BY <1>3, <1>6
<1>9. id \subseteq Own(r)
  BY <1>1 DEF Ids
<1>10. Differ(m.calls) /\ IsMessage(m)
  BY <1>1, UniqueIs DEF DistinctCalls, Differ, IsTranscript
<1>11. id \cap Awaited(r, new) = {}
  <2>1. \A j \in after : id \cap ToSet(p[j].calls) = {}
    BY <1>1, <1>6, UniqueIs DEF Apart
  <2> QED BY <1>4, <2>1
<1>13. Ids(cache.history) \cap Awaited(r, x) = {} /\ UniqueIds(cache.history)
  BY <1>2 DEF Placed
<1> DEFINE c == cache.history
<1>17. IsTranscript(c) /\ h = Append(c, m)
  OBVIOUS
<1> HIDE DEF m, p, c
<1>14. Ids(h) = Ids(c) \cup id
  BY <1>10, <1>17, AppendIds
<1>15. UniqueIds(h)
  <2>1. Ids(c) \cap id = {}
    BY <1>8, <1>13 DEF c
  <2>2. UniqueIds(c) /\ Differ(m.calls) /\ Ids(c) \cap id = {} => UniqueIds(h)
    BY <1>10, <1>17, AppendIds
  <2> QED BY <1>10, <1>13, <2>1, <2>2 DEF c
<1> HIDE DEF id
<1>16. Ids(h) \cap Awaited(r, new) = {}
  BY <1>7, <1>11, <1>13, <1>14 DEF c
<1> QED BY <1>7, <1>9, <1>14, <1>15, <1>16 DEF c

LEMMA Flush_Ids ==
    ASSUME DistinctPrefixes, IdsInv, TextsInv, ShapeInv, LocalsOK, NEW r \in Runs, Flush(r)
    PROVE  IdsInv'
<1>0. /\ DOMAIN run = Runs /\ \A q \in Runs : DOMAIN run[q] = Fields
      /\ DOMAIN cache = SessionFields /\ IsTranscript(cache.history) /\ IsTranscript(run[r].pending)
  BY DEF ShapeInv, TextsInv, StoreTexts, TextOK
<1> DEFINE n == run[r].flushed + 1
           tags == TagsOf(<<run[r].pending[n]>>)
           pc == IF n = Len(run[r].pending) THEN "save" ELSE "flush"
           new == [run[r] EXCEPT !.flushed = n, !.knew = @ \cup tags, !.pc = pc]
           rs == [run EXCEPT ![r].flushed = n, ![r].knew = @ \cup tags, ![r].pc = pc]
           h == Append(cache.history, run[r].pending[n])
<1>1. StillKnown(rs) /\ run[r].pc = "flush" /\ AddMessage(run[r].pending[n])
  BY DEF Flush, At
<1>2. pc \in {"save", "flush"}
  OBVIOUS
<1>3. n \in DOMAIN run[r].pending /\ run[r].flushed \in Nat
  <2>1. run[r].flushed \in Nat /\ run[r].flushed < Len(run[r].pending)
    BY <1>1 DEF LocalsOK, CountsOK
  <2>2. Len(run[r].pending) \in Nat /\ DOMAIN run[r].pending = 1 .. Len(run[r].pending)
    BY <1>0, TranscriptIs
  <2> QED BY <2>1, <2>2
<1>4. cache'.history = h /\ UNCHANGED <<row, saving>>
  BY <1>0, <1>1 DEF AddMessage, Change, SessionFields
<1> HIDE DEF pc, tags
<1>5. /\ DOMAIN new = Fields /\ new.pc \in {"save", "flush"} /\ new.pending = run[r].pending
      /\ new.flushed = n /\ new.snap = run[r].snap
  BY <1>0, <1>2 DEF Fields
<1>6. \A q \in Runs : rs[q] = IF q = r THEN new ELSE run[q]
  BY <1>0
<1>7. n = run[r].flushed + 1 /\ h = Append(cache.history, run[r].pending[n])
  OBVIOUS
<1> HIDE DEF rs, new, n, h
<1>15. /\ IsTranscript(cache.history) /\ run[r].pc = "flush" /\ run[r].flushed \in Nat
       /\ n \in DOMAIN run[r].pending /\ new.pc \in {"save", "flush"} /\ new.flushed = n
       /\ new.pending = run[r].pending
  BY <1>0, <1>1, <1>3, <1>5
<1>8. /\ Awaited(r, new) \subseteq Awaited(r, run[r])
      /\ UniqueIds(h) /\ Ids(h) \subseteq Ids(cache.history) \cup Own(r)
      /\ Ids(h) \cap Awaited(r, new) = {}
  BY <1>15, <1>7, FlushedPlaced
<1>9. Placed(h, rs)
  <2>1. ASSUME NEW q \in Runs, q # r PROVE Ids(h) \cap Awaited(q, run[q]) = {}
    <3>1. Awaited(q, run[q]) \subseteq Own(q)
      BY OwnAwaits DEF IdsInv, RunIds
    <3>2. Own(q) \cap Own(r) = {}
      BY <2>1, OwnApart
    <3>3. Ids(cache.history) \cap Awaited(q, run[q]) = {}
      BY DEF IdsInv, Placed
    <3> QED BY <1>8, <3>1, <3>2, <3>3
  <2> QED BY <1>6, <1>8, <2>1 DEF Placed
<1>10. RunIds(r, new)
  <2>1. Buffered(r, run[r].pending)
    BY <1>1 DEF IdsInv, RunIds
  <2> QED BY <1>5, <2>1 DEF RunIds
<1>11. \A q \in Runs : /\ Awaited(q, rs[q]) \subseteq Awaited(q, run[q])
                       /\ Placed(rs[q].snap, run) /\ RunIds(q, rs[q])
  BY <1>5, <1>6, <1>8, <1>10 DEF IdsInv
<1>12. \A q \in Runs : DOMAIN rs[q] = Fields
  BY <1>0, <1>5, <1>6
<1>13. Placed(cache'.history, run')
  <2>1. ASSUME NEW q \in Runs
        PROVE  /\ run'[q].pc = rs[q].pc /\ run'[q].pending = rs[q].pending
               /\ run'[q].flushed = rs[q].flushed
    BY <1>1, <1>12, StillKnownIs DEF Like
  <2>2. \A q \in Runs : Awaited(q, run'[q]) = Awaited(q, rs[q])
    BY <2>1, AwaitedSame
  <2> QED BY <1>4, <1>9, <2>2 DEF Placed
<1>14. Placed(row'.history, run) /\ \A a \in Savers : Placed(saving'[a].history, run)
  BY <1>4 DEF IdsInv
<1> QED BY <1>1, <1>11, <1>12, <1>13, <1>14, StillIds

\* A run goes from pc to pc, where it changes none of its messages.
LEMMA Goto_Ids ==
    ASSUME IdsInv, ShapeInv, NEW r \in Runs, NEW pc, Goto(r, pc),
           Placed(cache'.history, run), Placed(row'.history, run),
           \A a \in Savers : Placed(saving'[a].history, run),
           \/ pc \notin LoopPcs \cup {"idle", "flush"}
           \/ run[r].pc = "cleanSave" /\ pc = "ask"
    PROVE  IdsInv'
<1>1. ASSUME NEW q \in Runs
      PROVE  /\ run'[q].pc = IF q = r THEN pc ELSE run[q].pc
             /\ run'[q].snap = run[q].snap /\ run'[q].msgs = run[q].msgs
             /\ run'[q].pending = run[q].pending /\ run'[q].flushed = run[q].flushed
             /\ run'[q].iter = run[q].iter
  BY GotoIs
<1>2. ASSUME NEW q \in Runs, q # r
      PROVE  Awaited(q, run'[q]) \subseteq Awaited(q, run[q]) /\ RunIds(q, run'[q])
  <2>1. run'[q].pc = run[q].pc
    BY <1>1, <1>2
  <2>2. Awaited(q, run'[q]) = Awaited(q, run[q])
    BY <1>1, <2>1, AwaitedSame
  <2>3. RunIds(q, run[q])
    BY DEF IdsInv
  <2> QED BY <1>1, <2>1, <2>2, <2>3 DEF RunIds, AskIds
<1>3. CASE pc \notin LoopPcs \cup {"idle", "flush"}
  <2>1. run'[r].pc = pc
    BY <1>1
  <2>2. Awaited(r, run'[r]) \subseteq Awaited(r, run[r]) /\ RunIds(r, run'[r])
    BY <1>3, <2>1 DEF Awaited, RunIds, LoopPcs
  <2>3. \A q \in Runs : /\ Awaited(q, run'[q]) \subseteq Awaited(q, run[q])
                        /\ Placed(run'[q].snap, run) /\ RunIds(q, run'[q])
    BY <1>1, <1>2, <2>2 DEF IdsInv
  <2> QED BY <2>3, IdsMove
<1>4. CASE run[r].pc = "cleanSave" /\ pc = "ask"
  <2>1. run'[r].pc = "ask"
    BY <1>1, <1>4
  <2>2. Awaited(r, run'[r]) = Own(r) /\ Awaited(r, run[r]) = Own(r)
    BY <1>4, <2>1 DEF Awaited, LoopPcs
  <2>3. RunIds(r, run'[r])
    <3>1. AskIds(r, run[r], run[r].iter)
      BY <1>4 DEF IdsInv, RunIds
    <3> QED BY <1>1, <2>1, <3>1 DEF RunIds, AskIds
  <2>4. \A q \in Runs : /\ Awaited(q, run'[q]) \subseteq Awaited(q, run[q])
                        /\ Placed(run'[q].snap, run) /\ RunIds(q, run'[q])
    BY <1>1, <1>2, <2>2, <2>3 DEF IdsInv
  <2> QED BY <2>4, IdsMove
<1> QED BY <1>3, <1>4

LEMMA After_Ids ==
    ASSUME IdsInv, TextsInv, ShapeInv, NEW r \in Runs,
           Saved(r) \/ SkipSummary(r) \/ TryLock(r) \/ Return(r) \/ MemoryFlush(r)
    PROVE  IdsInv'
<1>1. StoreTexts /\ StoreShape /\ StoreIds
  BY ShapeParts DEF TextsInv, IdsInv, StoreIds
<1>2. <<r, "run">> \in Savers
  BY LoopAssumption
<1>3. /\ Placed(cache'.history, run) /\ Placed(row'.history, run)
      /\ \A a \in Savers : Placed(saving'[a].history, run)
  <2>1. \/ UNCHANGED storeVars \/ SetMemoryFlushDone
        \/ SaveWrites(<<r, "run">>, r \notin cancelled)
    BY DEF Saved, SkipSummary, TryLock, Return, MemoryFlush
  <2> QED BY <1>1, <1>2, <2>1, StoreStep_Ids
<1>4. CASE Saved(r)
  <2>1. Goto(r, AfterSave[run[r].pc]) /\ run[r].pc \in {"cleanSave", "save", "memSave"}
    BY <1>4, AfterSaveIs DEF Saved
  <2>2. /\ AfterSave["cleanSave"] = "ask" /\ AfterSave["save"] = "summarize"
        /\ AfterSave["memSave"] = "return"
    BY DEF AfterSave
  <2>3. /\ "summarize" \notin LoopPcs \cup {"idle", "flush"}
        /\ "return" \notin LoopPcs \cup {"idle", "flush"}
    BY DEF LoopPcs
  <2> QED BY <1>3, <2>1, <2>2, <2>3, Goto_Ids
<1>5. CASE SkipSummary(r) \/ TryLock(r) \/ Return(r) \/ MemoryFlush(r)
  <2>1. \E pc \in {"return", "memFlush", "memSave", "done"} : Goto(r, pc)
    BY <1>5 DEF SkipSummary, TryLock, Return, MemoryFlush
  <2>2. \A pc \in {"return", "memFlush", "memSave", "done"} : pc \notin LoopPcs \cup {"idle", "flush"}
    BY DEF LoopPcs
  <2> QED BY <1>3, <2>1, <2>2, Goto_Ids
<1> QED BY <1>4, <1>5

\* A step that does nothing with the runs.
LEMMA Quiet_Ids ==
    ASSUME IdsInv, ShapeInv, UNCHANGED run \/ StillKnown(run),
           Placed(cache'.history, run), Placed(row'.history, run),
           \A a \in Savers : Placed(saving'[a].history, run)
    PROVE  IdsInv'
<1>1. \A q \in Runs : /\ Awaited(q, run[q]) \subseteq Awaited(q, run[q])
                      /\ Placed(run[q].snap, run) /\ RunIds(q, run[q])
  BY DEF IdsInv
<1>2. CASE UNCHANGED run
  <2>1. \A q \in Runs : /\ Awaited(q, run'[q]) \subseteq Awaited(q, run[q])
                        /\ Placed(run'[q].snap, run) /\ RunIds(q, run'[q])
    BY <1>1, <1>2
  <2> QED BY <2>1, IdsMove
<1>3. CASE StillKnown(run)
  <2>1. \A q \in Runs : DOMAIN run[q] = Fields
    BY DEF ShapeInv
  <2> QED BY <1>1, <1>3, <2>1, StillIds
<1> QED BY <1>2, <1>3

LEMMA Sum_Ids ==
    ASSUME IdsInv, TextsInv, ShapeInv, NEW r \in Runs, SumStep(r) \/ Saves(r)
    PROVE  IdsInv'
<1>1. StoreTexts /\ StoreShape /\ StoreIds
  BY ShapeParts DEF TextsInv, IdsInv, StoreIds
<1>2. <<r, "run">> \in Savers /\ <<r, "sum">> \in Savers
  BY LoopAssumption
<1>3. /\ \/ UNCHANGED storeVars \/ SetSummary(NewSummary(r)) \/ TruncateHistory(KeepLast)
         \/ IncrementCompaction
         \/ (\E a \in Savers : SaveReads(a) \/ \E ok : SaveWrites(a, ok))
      /\ UNCHANGED run \/ StillKnown(run)
  BY <1>2 DEF SumStep, SumReadHistory, SumReadSummary, SumFails, SumStore, SumTruncate, SumCount,
              SumSaves, SumSaved, Saves, loopVars
<1>4. /\ Placed(cache'.history, run) /\ Placed(row'.history, run)
      /\ \A a \in Savers : Placed(saving'[a].history, run)
  BY <1>1, <1>3, StoreStep_Ids
<1> QED BY <1>3, <1>4, Quiet_Ids

LEMMA Outside_Ids ==
    ASSUME IdsInv, TextsInv, ShapeInv,
           \/ (\E i \in Injections : Inject(i)) \/ (\E r \in Runs : Abort(r))
           \/ ExpireLoop \/ ResetSession \/ Restart \/ UNCHANGED vars
    PROVE  IdsInv'
<1>1. StoreTexts /\ StoreShape /\ StoreIds
  BY ShapeParts DEF TextsInv, IdsInv, StoreIds
<1>2. /\ Placed(cache'.history, run) /\ Placed(row'.history, run)
      /\ \A a \in Savers : Placed(saving'[a].history, run)
  <2>1. UNCHANGED storeVars \/ Reset \/ StoreRestart
    BY DEF Inject, Abort, ExpireLoop, ResetSession, Restart, vars
  <2> QED BY <1>1, <2>1, StoreStep_Ids
<1>3. CASE Restart
  <2> DEFINE rs == [r \in Runs |-> IF Running(r) THEN Failed ELSE run[r]]
  <2>1. StillKnown(rs)
    BY <1>3 DEF Restart
  <2>2. \A q \in Runs : rs[q] = Failed \/ rs[q] = run[q]
    OBVIOUS
  <2> HIDE DEF rs
  <2>3. Failed.pc = "failed" /\ Failed.snap = <<>>
    BY DEF Failed, Idle
  <2>4. \A q \in Runs : Awaited(q, Failed) = {} /\ RunIds(q, Failed)
    BY <2>3 DEF Awaited, RunIds, LoopPcs
  <2>5. \A q \in Runs : DOMAIN rs[q] = Fields
    BY <2>2, IdleIs DEF ShapeInv
  <2>6. \A q \in Runs : /\ Awaited(q, rs[q]) \subseteq Awaited(q, run[q])
                        /\ Placed(rs[q].snap, run) /\ RunIds(q, rs[q])
    <3> TAKE q \in Runs
    <3>1. CASE rs[q] = Failed
      BY <2>3, <2>4, <3>1, EmptyPlaced
    <3>2. CASE rs[q] = run[q]
      BY <3>2 DEF IdsInv
    <3> QED BY <2>2, <3>1, <3>2
  <2> QED BY <1>2, <2>1, <2>5, <2>6, StillIds
<1>4. CASE ~Restart
  <2>1. UNCHANGED run \/ StillKnown(run)
    BY <1>4 DEF Inject, Abort, ExpireLoop, ResetSession, loopVars, vars
  <2> QED BY <1>2, <2>1, Quiet_Ids
<1> QED BY <1>3, <1>4

LEMMA Next_Ids ==
    ASSUME DistinctPrefixes, IdsInv, TextsInv, ShapeInv, KeptInv, LocalsOK, [Next]_vars
    PROVE  IdsInv'
<1>1. ASSUME NEW r \in Runs, RunStep(r) PROVE IdsInv'
  BY <1>1, Before_Ids, AnswerText_Ids, AnswerCutOff_Ids, AnswerCalls_Ids, Tools_Ids, Stuck_Ids,
     Fail_Ids, Clean_Ids, Flush_Ids, Sum_Ids, After_Ids DEF RunStep
<1>2. ASSUME NEW r \in Runs, SumStep(r) PROVE IdsInv'
  BY <1>2, Sum_Ids
<1> QED BY <1>1, <1>2, Outside_Ids DEF Next

LEMMA Init_Ids ==
    ASSUME ForeignHistories, Init
    PROVE  IdsInv
<1>1. /\ cache \in Stored /\ row = cache
      /\ \A a \in Savers : saving[a] = NoSnapshot
  BY DEF Init, StoreInit
<1>2. \A r \in Runs : run[r] = Idle
  BY DEF Init
<1>3. Idle.pc = "idle" /\ Idle.snap = <<>> /\ NoSnapshot.history = <<>>
  BY DEF Idle, NoSnapshot
<1>4. \A r \in Runs : Awaited(r, run[r]) = Own(r) /\ RunIds(r, run[r])
  BY <1>2, <1>3 DEF Awaited, RunIds
<1>5. Placed(cache.history, run)
  BY <1>1, <1>4 DEF ForeignHistories, Placed
<1>6. \A r \in Runs : Placed(run[r].snap, run)
  BY <1>2, <1>3, EmptyPlaced
<1>7. \A a \in Savers : Placed(saving[a].history, run)
  BY <1>1, <1>3, EmptyPlaced
<1> QED BY <1>1, <1>4, <1>5, <1>6, <1>7 DEF IdsInv
-----------------------------------------------------------------------------
(* The theorems. *)

\* A run builds its request from all that the session knew when the run began
\* and has known ever since, whatever the summarisers of other runs move from
\* the history to the summary between its two reads (loop_history.go).
THEOREM AgentLoopReadIsWhole == Spec => ReadIsWhole
<1>1. MemInv /\ [Next]_vars =>
        [\A r \in Runs : ReadSummary(r) =>
           run[r].knew \subseteq TagsOf(run[r].snap) \cup cache.summary]_vars
  BY DEF MemInv, KnewInv, KnownOK, ReadSummary, At
<1> QED BY <1>1, SpecMem, PTL DEF Spec, ReadIsWhole

\* Once a run has returned, a restart loses nothing of what it flushed and the
\* session has had ever since, unless another save overlapped with its own
\* (sessions.go, Save).
THEOREM AgentLoopAnsweredSurvives == Spec => AnsweredSurvives
<1>1. ASSUME MemInv, Restart, NEW r \in Runs, At(r, "done"), r \notin crossed
      PROVE  run[r].knew \subseteq Covered(cache')
  BY <1>1 DEF MemInv, SavedInv, Safe, At, AfterSaved, Restart, StoreRestart
<1>2. MemInv /\ [Next]_vars =>
        [Restart => \A r \in Runs : At(r, "done") /\ r \notin crossed =>
           run[r].knew \subseteq Covered(cache')]_vars
  BY <1>1
<1> QED BY <1>2, SpecMem, PTL DEF Spec, AnsweredSurvives

\* A follow-up whose sender was told that it was injected is flushed to the
\* session with the run, unless it came after the last look into the channel, the
\* run failed or the loop detector stopped it (router.go InjectMessage, loop.go).
THEOREM AgentLoopAcceptedIsKept == Spec => []AcceptedIsKept
<1>1. KeptInv => AcceptedIsKept
  BY DEF KeptInv, KeptIn, AcceptedIsKept, InLoop, At, LoopPcs
<1> QED BY <1>1, SpecKept, PTL

\* A run that never shared its session with another registered run is the one
\* that follow-ups, status queries and /stop find, as long as it is active
\* (router.go, activeRuns and sessionRuns).
THEOREM AgentLoopLoneRunIsBusy == Spec => []LoneRunIsBusy
<1>1. Init => LoneInv
  BY DEF Init, RouterInit, LoneInv
<1>2. LoneInv => LoneRunIsBusy
  BY DEF LoneInv, LoneRunIsBusy
<1> QED BY <1>1, <1>2, Next_Lone, PTL DEF Spec

\* The router's maps, the counters of the runs and the locks of the summarisers are
\* well typed: a message still to be flushed exists, an index entry is a registered
\* run's, a held lock is that of a run that summarises (loop.go, router.go).
THEOREM AgentLoopTypeOK == Spec => []TypeOK
<1>1. ASSUME MemInv, KeptInv, RouterTypeOK, LocalsOK PROVE TypeOK
  <2>1. \A r \in Runs : /\ run[r].pc \in Pcs /\ run[r].iter \in 0 .. MaxIter[r]
                        /\ run[r].flushed \in 0 .. Len(run[r].pending)
    BY <1>1 DEF LocalsOK, CountsOK
  <2>2. ASSUME NEW l \in Loops, holder[l] # NoRun
        PROVE  run[holder[l]].loop = l /\ (SumAt(holder[l], "off") => Running(holder[l]))
    BY <1>1, <2>2 DEF LocalsOK, LocksOK, Summarising, Running, At
  <2> QED BY <1>1, <2>1, <2>2 DEF TypeOK
<1> QED BY <1>1, SpecMem, SpecKept, SpecType, PTL

\* summarizeMu: of the runs of one instance of the loop, and their goroutines, only
\* one summarises the session at a time (loop_history.go maybeSummarize).
THEOREM AgentLoopOneSummariser ==
    Spec => [](\A q, r \in Runs :
                  Summarising(q) /\ Summarising(r) /\ run[q].loop = run[r].loop => q = r)
<1>1. LocalsOK => \A q, r \in Runs :
        Summarising(q) /\ Summarising(r) /\ run[q].loop = run[r].loop => q = r
  BY DEF LocalsOK, LocksOK
<1> QED BY <1>1, SpecType, PTL

\* Whatever is done to the session between, every request that a run sends has
\* each call of a tool answered once, by a result that follows it before any other
\* message, no result that answers nothing, and no answer that calls twice under
\* one id (loop.go, loop_history.go sanitizeHistory, loop_compact.go).
THEOREM AgentLoopRequestPaired == Spec => []RequestPaired
<1>1. TypeOK /\ TextsInv => RequestPaired
  <2>1. ASSUME TextsInv, NEW r \in Runs, Requests(r)
        PROVE  Paired(run[r].msgs) /\ DistinctCalls(run[r].msgs)
    <3>1. TextOK(run[r])
      BY <2>1 DEF TextsInv
    <3> QED BY <2>1, <3>1 DEF TextOK, Requests, At, Ready
  <2> QED BY <2>1 DEF RequestPaired
<1> QED BY <1>1, SpecTexts, AgentLoopTypeOK, PTL

\* In every request of a run the ids of all calls differ, in what it has read from
\* the session too, provided that no two runs have the same part of their id in the
\* ids of their calls, and that the session holds none that these runs will make
\* (loop_utils.go uniquifyToolCallIDs, loop_history.go sanitizeHistory).
THEOREM AgentLoopRequestIdsUnique ==
    ASSUME DistinctPrefixes, ForeignHistories
    PROVE  Spec => []RequestIdsUnique
<1>1. Init => IdsInv
  BY Init_Ids
<1>2. IdsInv /\ TextsInv /\ ShapeInv /\ KeptInv /\ LocalsOK /\ [Next]_vars => IdsInv'
  BY Next_Ids
<1>3. MemInv => ShapeInv
  BY DEF MemInv
<1>4. IdsInv => RequestIdsUnique
  BY DEF IdsInv, RunIds, AskIds, FreshFrom, RequestIdsUnique, Requests, At
<1> QED BY <1>1, <1>2, <1>3, <1>4, SpecTexts, SpecMem, SpecKept, SpecType, PTL DEF Spec

\* No message leaves the session for good, unless by a reset, a restart, the repair
\* of a history or a write that follows from a stale view (loop_history.go).
THEOREM AgentLoopNothingForgotten == Spec => NothingForgotten
<1>1. ASSUME ShapeInv, TextsInv, [Next]_vars, NEW t \in Covered(cache) \ Covered(cache')
      PROVE  Excused(t)
  <2>1. cache' # cache
    BY <1>1
  <2>2. ASSUME NEW r \in Runs, RunStep(r) PROVE Excused(t)
    <3>1. Clean(r) \/ Flush(r) \/ MemoryFlush(r)
      BY <2>1, <2>2 DEF RunStep, Start, ReadHistory, ReadSummary, AnswerText, AnswerCutOff,
           AnswerCalls, Fail, Ask, Tools, Stuck, Saves, SaveReads, Saved, SaveWrites, SkipSummary,
           TryLock, Return, storeVars
    <3>2. CASE MemoryFlush(r)
      BY <1>1, <3>2, CountersIs, ShapeParts DEF MemoryFlush
    <3> QED BY <1>1, <3>1, <3>2, Clean_Loses, Flush_Keeps
  <2>3. ASSUME NEW r \in Runs, SumStep(r) PROVE Excused(t)
    <3>1. SumStore(r) \/ SumTruncate(r) \/ SumCount(r)
      BY <2>1, <2>3 DEF SumStep, SumReadHistory, SumReadSummary, SumFails, SumSaves, SumSaved,
           SaveReads, SaveWrites, storeVars
    <3>2. CASE SumCount(r)
      BY <1>1, <3>2, CountersIs, ShapeParts DEF SumCount
    <3> QED BY <1>1, <3>1, <3>2, SumWrites_Loses
  <2>4. ASSUME \/ \E i \in Injections : Inject(i)
               \/ \E r \in Runs : Abort(r)
               \/ ExpireLoop \/ UNCHANGED vars
        PROVE  FALSE
    BY <2>1, <2>4 DEF Inject, Abort, ExpireLoop, vars, storeVars
  <2> QED BY <1>1, <2>2, <2>3, <2>4 DEF Next, Excused
<1>2. MemInv /\ TextsInv /\ [Next]_vars =>
        [\A t \in Covered(cache) \ Covered(cache') :
           \/ ResetSession \/ Restart
           \/ \E r \in Runs : Ours(r) /\ StaleView(r)
           \/ \E k \in DOMAIN cache.history : cache.history[k].tag = t /\ IsTool(cache.history[k])
                /\ \E r \in Runs : At(r, "clean")]_vars
  BY <1>1 DEF MemInv, Excused
<1> QED BY <1>2, SpecMem, SpecTexts, PTL DEF Spec, NothingForgotten

\* The repair of the transcripts that sanitizeHistory is given answers every call right
\* behind it, and leaves no other result and no id twice in one answer; a second repair
\* would drop nothing and make nothing up; nothing but results is dropped, nothing
\* else is put in, and nothing changes places.  If no id stands for two calls, what it
\* counts is zero for exactly the transcripts that were paired, and then it changes
\* nothing (loop_history.go).
THEOREM AgentLoopRepairSound ==
    ASSUME NEW msgs, IsTranscript(msgs)
    PROVE  /\ Paired(Sanitize(msgs)) /\ DistinctCalls(Sanitize(msgs))
           /\ Dropped(Sanitize(msgs)) = 0
           /\ InOrder(Sanitize(msgs), msgs, Len(msgs))
           /\ UniqueIds(msgs) => (Dropped(msgs) = 0 <=> Paired(msgs))
           /\ UniqueIds(msgs) /\ Paired(msgs) =>
                /\ Len(Sanitize(msgs)) = Len(msgs)
                /\ \A i \in DOMAIN msgs : Alike(Sanitize(msgs)[i], msgs[i])
<1> DEFINE c == Sanitize(msgs)
<1>1. Paired(c) /\ DistinctCalls(c) /\ IsTranscript(c)
  BY SanitizeIs DEF Ready
<1>2. InOrder(c, msgs, Len(msgs))
  BY SanitizeInOrder
<1> HIDE DEF c
<1>3. Dropped(c) = 0
  BY <1>1, PairedDropsNothing
<1>4. ASSUME UniqueIds(msgs), Paired(msgs) PROVE Dropped(msgs) = 0
  <2>1. DistinctCalls(msgs)
    BY <1>4, UniqueIs
  <2> QED BY <1>4, <2>1, PairedDropsNothing
<1>5. ASSUME UniqueIds(msgs), Dropped(msgs) = 0
      PROVE  Len(c) = Len(msgs) /\ \A i \in DOMAIN msgs : Alike(c[i], msgs[i])
  BY <1>5, NothingDroppedSame DEF c
<1>6. ASSUME UniqueIds(msgs), Dropped(msgs) = 0 PROVE Paired(msgs)
  BY <1>1, <1>5, <1>6, AlikePaired
<1> QED BY <1>1, <1>2, <1>3, <1>4, <1>5, <1>6 DEF c

\* Neither the limit on turns nor the compaction in the loop separates a call from its
\* results, and compaction keeps the last KeepLast messages, whatever the transcript
\* and the limit (loop_history.go, loop_compact.go).
THEOREM AgentLoopCutsSound ==
    ASSUME NEW msgs, IsTranscript(msgs), Paired(msgs), NEW limit \in Int,
           NEW summary, Plain(summary)
    PROVE  /\ Paired(LimitTurns(msgs, limit))
           /\ Paired(Compact(msgs, summary))
           /\ \A i \in 0 .. KeepLast - 1 : i < Len(msgs) =>
                Compact(msgs, summary)[Len(Compact(msgs, summary)) - i] = msgs[Len(msgs) - i]
<1> DEFINE n == Len(msgs)
<1>1. n \in Nat /\ DOMAIN msgs = 1 .. n /\ KeepLast \in Nat \ {0}
  BY TranscriptIs, KeepLastAssumption
<1>2. ASSUME NEW m \in DOMAIN msgs, ~IsTool(msgs[m])
      PROVE  IsTranscript(From(msgs, m)) /\ PairedBut(From(msgs, m), <<>>)
  <2> DEFINE d == From(msgs, m)
  <2>1. IsTranscript(d)
    BY FromIs
  <2>2. PairedBut(d, <<>>)
    BY <1>2, CutPaired
  <2> QED BY <2>1, <2>2
<1>3. Paired(LimitTurns(msgs, limit))
  <2>1. ASSUME NEW m \in Users(msgs) PROVE Paired(From(msgs, m))
    <3>1. m \in DOMAIN msgs /\ ~IsTool(msgs[m])
      BY DEF Users, IsTool
    <3> QED BY <1>2, <3>1, PairedIs
  <2> QED BY <2>1, LimitCuts
<1>4. ASSUME NEW m \in DOMAIN msgs, ~IsTool(msgs[m]), m <= n - KeepLast + 1,
             NEW c, c = <<summary>> \o From(msgs, m)
      PROVE  Paired(c) /\ \A i \in 0 .. KeepLast - 1 : i < n => c[Len(c) - i] = msgs[n - i]
  <2> DEFINE p == <<summary>>
             d == From(msgs, m)
  <2>1. IsTranscript(p) /\ Len(p) = 1 /\ p[1] = summary /\ DOMAIN p = {1}
    BY OneMessage DEF Plain
  <2>2. c = p \o d /\ IsTranscript(d) /\ PairedBut(d, <<>>)
    BY <1>2, <1>4
  <2>3. Len(d) = n - m + 1
    BY FromIs
  <2>4. \A j \in m .. n : j - (m - 1) \in DOMAIN d /\ d[j - (m - 1)] = msgs[j]
    BY FromIs
  <2> HIDE DEF p, d
  <2>5. Paired(p)
    <3>1. Listed(p) /\ \A j \in DOMAIN p : Plain(p[j])
      BY <2>1 DEF IsTranscript
    <3> QED BY <3>1, PlainsReady DEF Ready
  <2>6. Paired(c)
    BY <2>1, <2>2, <2>5, JoinedPaired
  <2>7. IsTranscript(p) /\ IsTranscript(d) /\ c = p \o d
    BY <2>1, <2>2
  <2>8. IsTranscript(c) /\ Len(c) = Len(p) + Len(d)
    BY <2>7, JoinedIs
  <2>9. \A j \in DOMAIN d : c[j + Len(p)] = d[j]
    BY <2>7, JoinedIs
  <2>10. ASSUME NEW i \in 0 .. KeepLast - 1, i < n PROVE c[Len(c) - i] = msgs[n - i]
    <3>1. Len(c) = 1 + (n - m + 1) /\ m \in Nat /\ i \in Nat /\ i <= KeepLast - 1
      BY <1>1, <2>1, <2>3, <2>8
    <3>2. n - i \in m .. n /\ Len(c) - i = ((n - i) - (m - 1)) + 1
      <4> HIDE DEF n
      <4>1. n - i \in Int /\ m <= n - i /\ n - i <= n
        BY <1>1, <1>4, <3>1
      <4> QED BY <1>1, <3>1, <4>1
    <3>3. (n - i) - (m - 1) \in DOMAIN d /\ d[(n - i) - (m - 1)] = msgs[n - i]
      BY <2>4, <3>2
    <3>4. c[((n - i) - (m - 1)) + Len(p)] = d[(n - i) - (m - 1)]
      BY <2>9, <3>3
    <3> QED BY <2>1, <3>2, <3>3, <3>4
  <2> QED BY <2>6, <2>10
<1>5. \/ Compact(msgs, summary) = msgs
      \/ \E m \in DOMAIN msgs : /\ ~IsTool(msgs[m]) /\ m <= n - KeepLast + 1
                                /\ Compact(msgs, summary) = <<summary>> \o From(msgs, m)
  BY CompactCuts
<1>6. CASE Compact(msgs, summary) = msgs
  BY <1>3, <1>6
<1>7. CASE Compact(msgs, summary) # msgs
  <2>1. PICK m \in DOMAIN msgs : /\ ~IsTool(msgs[m]) /\ m <= n - KeepLast + 1
                                 /\ Compact(msgs, summary) = <<summary>> \o From(msgs, m)
    BY <1>5, <1>7
  <2> DEFINE c == Compact(msgs, summary)
  <2>2. c = <<summary>> \o From(msgs, m)
    BY <2>1
  <2> HIDE DEF c
  <2>3. Paired(c) /\ \A i \in 0 .. KeepLast - 1 : i < n => c[Len(c) - i] = msgs[n - i]
    BY <1>4, <2>1, <2>2
  <2> QED BY <1>3, <2>3 DEF c
<1> QED BY <1>6, <1>7
=============================================================================
