------------------------------ MODULE InboundProofs ------------------------------
(* Theorems about Inbound: what passed the cache is delivered once, the        *)
(* messages of one sender keep their order but for a timer's batch, and when   *)
(* the consumer has stopped nothing is left in a buffer.                       *)
EXTENDS Inbound, FiniteSetTheorems, SequenceTheorems, TLAPS

\* A sequence without repetitions.
Once(q) == \A i, j \in DOMAIN q : q[i] = q[j] => i = j

\* Where a copy is: the buffers, the batches of the timers, the batches of the
\* consumer and the positions of the history that hold it.
InBuffers(c) == {k \in Keys : c \in ToSet(buffers[k])}
InHands(c) == {b \in hands : c \in ToSet(b)}
InWork(c) == {i \in DOMAIN work : c \in ToSet(work[i])}
InDelivered(c) == {i \in DOMAIN delivered : delivered[i] = c}

NoPlace(c) ==
    InBuffers(c) = {} /\ InHands(c) = {} /\ InWork(c) = {} /\ InDelivered(c) = {}

\* A copy that passed the cache is in one place.
OnePlace(c) ==
    \/ /\ InHands(c) = {} /\ InWork(c) = {} /\ InDelivered(c) = {}
       /\ InBuffers(c) = {KeyOf[c[1]]}
    \/ /\ InBuffers(c) = {} /\ InWork(c) = {} /\ InDelivered(c) = {}
       /\ \E b \in hands : InHands(c) = {b}
    \/ /\ InBuffers(c) = {} /\ InHands(c) = {} /\ InDelivered(c) = {}
       /\ \E i \in DOMAIN work : InWork(c) = {i}
    \/ /\ InBuffers(c) = {} /\ InHands(c) = {} /\ InWork(c) = {}
       /\ \E i \in DOMAIN delivered : InDelivered(c) = {i}

PlaceInv ==
    /\ \A c \in Copies : IF c \in ToSet(accepted) THEN OnePlace(c) ELSE NoPlace(c)
    /\ \A k \in Keys : Once(buffers[k])
    /\ \A b \in hands : Once(b)
    /\ \A i \in DOMAIN work : Once(work[i])
    /\ at \in {"recv", "stopped"} => work = <<>>
    /\ ~Debounce => \A k \in Keys : buffers[k] = <<>>

\* Every copy is published once, and is in the channel or past the cache.
CopiesInv ==
    /\ \A c \in ToSet(inbound) \cup ToSet(accepted) : c[2] <= published[c[1]]
    /\ Once(inbound) /\ Once(accepted)
    /\ ToSet(inbound) \cap ToSet(accepted) = {}

\* How often a message passed the cache.
PassedOf(m) == {i \in DOMAIN accepted : accepted[i][1] = m}

\* How often a message may have passed it: it was forgotten in between, or has an
\* entry now.
Allowed(m) == forgot[m] + IF m \in ToSet(Live) THEN 1 ELSE 0

CacheInv == \A m \in Messages \ NoId : Cardinality(PassedOf(m)) <= Allowed(m)

\* c passed the cache after d, and both come from one sender.
After(d, c) ==
    /\ \E i, j \in DOMAIN accepted : i < j /\ accepted[i] = d /\ accepted[j] = c
    /\ KeyOf[d[1]] = KeyOf[c[1]] /\ c[1] \notin Commands

\* While a copy is buffered, so are those after it; while the consumer holds it,
\* it holds those after it, in no earlier batch.
OrderInv ==
    \A d, c \in Copies :
      After(d, c) =>
        /\ InBuffers(d) # {} => InBuffers(c) # {}
        /\ \A i \in InWork(d) : \E j \in InWork(c) : i <= j

InboundInv == TypeOK /\ CopiesInv /\ CacheInv /\ PlaceInv /\ OrderInv
-----------------------------------------------------------------------------
(* Sequences. *)

\* The empty sequence holds nothing, a sequence of one holds that one.
LEMMA ShortHolds ==
    /\ ToSet(<<>>) = {} /\ Once(<<>>)
    /\ \A x : ToSet(<<x>>) = {x} /\ Once(<<x>>)
BY DEF ToSet, Once

\* What is appended is held; it is no repetition if it was not held before.
LEMMA AppendHolds ==
    ASSUME NEW S, NEW q \in Seq(S), NEW x \in S
    PROVE  /\ Append(q, x) \in Seq(S)
           /\ ToSet(Append(q, x)) = ToSet(q) \cup {x}
           /\ Once(q) /\ x \notin ToSet(q) => Once(Append(q, x))
<1>1. /\ Len(q) \in Nat /\ DOMAIN q = 1 .. Len(q)
      /\ DOMAIN Append(q, x) = 1 .. (Len(q) + 1)
      /\ Append(q, x)[Len(q) + 1] = x
      /\ \A i \in 1 .. Len(q) : Append(q, x)[i] = q[i]
  BY SMT
<1>2. DOMAIN Append(q, x) = DOMAIN q \cup {Len(q) + 1}
  BY <1>1
<1>3. ToSet(Append(q, x)) = ToSet(q) \cup {x}
  BY <1>1, <1>2 DEF ToSet
<1>4. ASSUME Once(q), x \notin ToSet(q)
      PROVE  Once(Append(q, x))
  BY <1>1, <1>2, <1>4 DEF ToSet, Once
<1> QED BY <1>3, <1>4

\* A sequence holds its head and what its tail holds.
LEMMA TailHolds ==
    ASSUME NEW S, NEW q \in Seq(S), q # <<>>
    PROVE  /\ Head(q) \in S /\ Tail(q) \in Seq(S) /\ Head(q) = q[1] /\ 1 \in DOMAIN q
           /\ Len(Tail(q)) = Len(q) - 1 /\ DOMAIN Tail(q) = 1 .. Len(q) - 1
           /\ DOMAIN q = 1 .. Len(q) /\ Len(q) \in Nat
           /\ \A i \in DOMAIN Tail(q) : Tail(q)[i] = q[i + 1]
           /\ ToSet(q) = ToSet(Tail(q)) \cup {Head(q)}
           /\ Once(q) => Once(Tail(q)) /\ Head(q) \notin ToSet(Tail(q))
<1>1. /\ Head(q) \in S /\ Tail(q) \in Seq(S) /\ Head(q) = q[1]
      /\ Len(Tail(q)) = Len(q) - 1 /\ DOMAIN Tail(q) = 1 .. Len(q) - 1
      /\ DOMAIN q = 1 .. Len(q) /\ Len(q) \in Nat /\ 1 \in DOMAIN q
      /\ \A i \in 1 .. Len(q) - 1 : Tail(q)[i] = q[i + 1]
  BY HeadTailProperties
<1>2. \A i \in DOMAIN q : i = 1 \/ (i - 1 \in DOMAIN Tail(q) /\ Tail(q)[i - 1] = q[i])
  BY <1>1
<1>3. \A i \in DOMAIN Tail(q) : i + 1 \in DOMAIN q /\ i + 1 # 1 /\ Tail(q)[i] = q[i + 1]
  BY <1>1
<1>4. ToSet(q) = ToSet(Tail(q)) \cup {Head(q)}
  BY <1>1, <1>2, <1>3 DEF ToSet
<1>5. ASSUME Once(q)
      PROVE  Once(Tail(q)) /\ Head(q) \notin ToSet(Tail(q))
  <2>1. Head(q) \notin ToSet(Tail(q))
    BY <1>1, <1>3, <1>5 DEF ToSet, Once
  <2>2. \A i, j \in DOMAIN Tail(q) : Tail(q)[i] = Tail(q)[j] => i + 1 = j + 1
    BY <1>1, <1>3, <1>5 DEF Once
  <2>3. \A i \in DOMAIN Tail(q) : i \in Int
    BY <1>1
  <2> QED BY <2>1, <2>2, <2>3 DEF Once
<1> QED BY <1>1, <1>4, <1>5

\* A copy is a message with a number.
LEMMA CopiesAre ==
    /\ \A c \in Copies : c[1] \in Messages /\ c[2] \in 1 .. MaxCopies[c[1]] /\ c = <<c[1], c[2]>>
    /\ \A m \in Messages : \A n \in 1 .. MaxCopies[m] : <<m, n>> \in Copies
BY DEF Copies
-----------------------------------------------------------------------------
(* The start, and the steps that change no place. *)

\* Initially every place is empty.
LEMMA InitHolds == Init => InboundInv
<1> SUFFICES ASSUME Init PROVE InboundInv
  OBVIOUS
<1> USE InboundAssumption
<1>1. TypeOK
  <2>1. /\ published \in [Messages -> Nat] /\ \A m \in Messages : published[m] <= MaxCopies[m]
        /\ forgot \in [Messages -> Nat] /\ fired \in [Keys -> Nat]
        /\ buffers \in [Keys -> Seq(Copies)]
    BY DEF Init
  <2>2. /\ inbound \in Seq(Copies) /\ Len(inbound) <= BusCap
        /\ seen \in Seq(Messages) /\ Len(seen) <= CacheMax /\ aged \in 0 .. Len(seen)
        /\ work \in Seq(Seq(Copies)) /\ accepted \in Seq(Copies) /\ delivered \in Seq(Copies)
    BY DEF Init
  <2> QED BY <2>1, <2>2 DEF Init, TypeOK
<1>2. accepted = <<>> /\ ToSet(accepted) = {} /\ DOMAIN accepted = {}
  BY ShortHolds DEF Init
<1>3. CopiesInv
  BY <1>2, ShortHolds DEF Init, CopiesInv
<1>4. CacheInv
  <2>1. \A m : PassedOf(m) = {} /\ Cardinality(PassedOf(m)) = 0
    BY <1>2, FS_EmptySet DEF PassedOf
  <2>2. \A m \in Messages : forgot[m] = 0
    BY DEF Init
  <2> QED BY <2>1, <2>2 DEF CacheInv, Allowed
<1>5. \A c : NoPlace(c)
  BY ShortHolds DEF Init, NoPlace, InBuffers, InHands, InWork, InDelivered
<1>6. PlaceInv
  BY <1>2, <1>5, ShortHolds DEF Init, PlaceInv
<1>7. OrderInv
  BY <1>2 DEF OrderInv, After
<1> QED BY <1>1, <1>3, <1>4, <1>6, <1>7 DEF InboundInv

\* The copies keep their places and their order while nothing moves them.
LEMMA PlacesStay ==
    ASSUME PlaceInv, OrderInv, UNCHANGED <<buffers, hands, at, work, accepted, delivered>>
    PROVE  PlaceInv' /\ OrderInv'
<1>1. \A c : /\ InBuffers(c)' = InBuffers(c) /\ InHands(c)' = InHands(c)
             /\ InWork(c)' = InWork(c) /\ InDelivered(c)' = InDelivered(c)
  BY DEF InBuffers, InHands, InWork, InDelivered
<1>2. \A c : (OnePlace(c)' <=> OnePlace(c)) /\ (NoPlace(c)' <=> NoPlace(c))
  BY <1>1 DEF OnePlace, NoPlace
<1>3. \A d, c : After(d, c)' <=> After(d, c)
  BY DEF After
<1>4. PlaceInv'
  BY <1>2 DEF PlaceInv
<1> QED BY <1>1, <1>3, <1>4 DEF OrderInv

\* The cache and the passed copies stay.
LEMMA CacheStays ==
    ASSUME CacheInv, UNCHANGED <<cacheVars, accepted>>
    PROVE  CacheInv'
<1>1. \A m : PassedOf(m)' = PassedOf(m) /\ Allowed(m)' = Allowed(m)
  BY DEF PassedOf, Allowed, Live, cacheVars
<1> QED BY <1>1 DEF CacheInv

\* A copy enters the channel under a number of its own.
LEMMA Publish_Inv ==
    ASSUME InboundInv, NEW m \in Messages, Publish(m)
    PROVE  InboundInv'
<1> USE InboundAssumption
<1> DEFINE c == <<m, published[m] + 1>>
<1>0. TypeOK /\ CopiesInv /\ CacheInv /\ PlaceInv /\ OrderInv
  BY DEF InboundInv
<1>1. /\ published[m] < MaxCopies[m] /\ Len(inbound) < BusCap
      /\ published' = [published EXCEPT ![m] = @ + 1]
      /\ inbound' = Append(inbound, c)
      /\ UNCHANGED <<cacheVars, bufferVars, fired, hands, at, work, stopKeys,
                     ctxDone, accepted, delivered>>
  BY DEF Publish
<1>2. published[m] \in Nat /\ c \in Copies /\ inbound \in Seq(Copies)
  <2>1. published[m] \in Nat /\ MaxCopies[m] \in Nat
    BY <1>0 DEF TypeOK
  <2>2. published[m] + 1 \in 1 .. MaxCopies[m]
    BY <1>1, <2>1
  <2> QED BY <1>0, <2>1, <2>2, CopiesAre DEF TypeOK
<1>3. /\ inbound' \in Seq(Copies) /\ Len(inbound') <= BusCap
      /\ ToSet(inbound') = ToSet(inbound) \cup {c}
      /\ Once(inbound) /\ c \notin ToSet(inbound) => Once(inbound')
  <2>1. Len(Append(inbound, c)) = Len(inbound) + 1 /\ Len(inbound) \in Nat /\ BusCap \in Nat
    BY <1>2
  <2> HIDE DEF c
  <2> QED BY <1>1, <1>2, <2>1, AppendHolds
<1>4. TypeOK'
  <2>1. published' \in [Messages -> Nat] /\ \A x \in Messages : published'[x] <= MaxCopies[x]
    BY <1>0, <1>1, <1>2 DEF TypeOK
  <2> QED BY <1>0, <1>1, <1>3, <2>1 DEF TypeOK, cacheVars, bufferVars
<1>5. CopiesInv'
  <2>1. \A x \in Copies : published[x[1]] <= published'[x[1]] /\ published'[x[1]] \in Nat
    <3>1. \A y \in Messages : published[y] <= published'[y] /\ published'[y] \in Nat
      <4>1. published \in [Messages -> Nat] /\ published' = [published EXCEPT ![m] = @ + 1]
        BY <1>0, <1>1 DEF TypeOK
      <4> HIDE DEF c
      <4> QED BY <4>1
    <3> QED BY <3>1, CopiesAre
  <2>2. ToSet(inbound) \subseteq Copies /\ ToSet(accepted) \subseteq Copies
    BY <1>0 DEF TypeOK, ToSet
  <2>3. \A x \in ToSet(inbound) \cup ToSet(accepted) : x[2] <= published[x[1]] /\ x[2] \in Nat
    BY <1>0, <2>2, CopiesAre DEF CopiesInv
  <2>4. c \notin ToSet(inbound) \cup ToSet(accepted)
    BY <1>2, <2>3
  <2>5. \A x \in ToSet(inbound)' \cup ToSet(accepted)' : x[2] <= published'[x[1]]
    <3> TAKE x \in ToSet(inbound)' \cup ToSet(accepted)'
    <3>1. CASE x = c
      <4>1. published'[m] = published[m] + 1
        BY <1>0, <1>1 DEF TypeOK
      <4>2. c[1] = m /\ c[2] = published[m] + 1
        OBVIOUS
      <4> HIDE DEF c
      <4> QED BY <3>1, <4>1, <4>2, <1>2
    <3>2. CASE x # c
      <4>1. x \in ToSet(inbound) \cup ToSet(accepted)
        BY <1>1, <1>3, <3>2
      <4>2. x \in Copies /\ x[2] <= published[x[1]] /\ x[2] \in Nat
        BY <2>2, <2>3, <4>1
      <4>3. published[x[1]] <= published'[x[1]] /\ published'[x[1]] \in Nat /\ published[x[1]] \in Nat
        BY <1>0, <2>1, <4>2, CopiesAre DEF TypeOK
      <4> QED BY <4>2, <4>3
    <3> QED BY <3>1, <3>2
  <2> HIDE DEF c
  <2> QED BY <1>0, <1>1, <1>3, <2>4, <2>5 DEF CopiesInv
<1>6. CacheInv'
  BY <1>0, <1>1, CacheStays
<1>7. PlaceInv' /\ OrderInv'
  BY <1>0, <1>1, PlacesStay DEF bufferVars
<1> QED BY <1>4, <1>5, <1>6, <1>7 DEF InboundInv

\* A copy of a message that has an entry leaves the channel.
LEMMA Skip_Inv ==
    ASSUME InboundInv, NEW c, SkipDuplicate(c)
    PROVE  InboundInv'
<1>0. TypeOK /\ CopiesInv /\ CacheInv /\ PlaceInv /\ OrderInv
  BY DEF InboundInv
<1>1. /\ inbound # <<>> /\ inbound' = Tail(inbound)
      /\ UNCHANGED <<published, cacheVars, bufferVars, fired, hands, at, work, stopKeys,
                     ctxDone, accepted, delivered>>
  BY DEF SkipDuplicate, Received
<1>2. /\ inbound' \in Seq(Copies) /\ Len(inbound') <= BusCap
      /\ ToSet(inbound') \subseteq ToSet(inbound)
      /\ Once(inbound) => Once(inbound')
  <2>1. inbound \in Seq(Copies) /\ Len(inbound) <= BusCap /\ BusCap \in Nat
    BY <1>0, InboundAssumption DEF TypeOK
  <2>2. Len(inbound') = Len(inbound) - 1 /\ Len(inbound) \in Nat
    BY <1>1, <2>1, TailHolds
  <2>3. Len(inbound') <= BusCap
    BY <2>1, <2>2
  <2> QED BY <1>1, <2>1, <2>3, TailHolds
<1>3. TypeOK'
  BY <1>0, <1>1, <1>2 DEF TypeOK, cacheVars, bufferVars
<1>4. CopiesInv'
  BY <1>0, <1>1, <1>2 DEF CopiesInv
<1>5. CacheInv' /\ PlaceInv' /\ OrderInv'
  BY <1>0, <1>1, CacheStays, PlacesStay DEF bufferVars
<1> QED BY <1>3, <1>4, <1>5 DEF InboundInv

\* The gateway's context is cancelled; the consumer begins to stop or returns; a
\* timer fires.  Nothing moves.
LEMMA Quiet_Inv ==
    ASSUME InboundInv,
           Cancel \/ StopConsuming \/ StopReturns \/ \E k \in Keys : TimerFires(k)
    PROVE  InboundInv'
<1>0. TypeOK /\ CopiesInv /\ CacheInv /\ PlaceInv /\ OrderInv
  BY DEF InboundInv
<1>1. /\ UNCHANGED <<published, inbound, cacheVars, buffers, hands, work, accepted, delivered>>
      /\ \/ at' = at
         \/ at' \in {"stopping", "stopped"} /\ work = <<>>
  BY <1>0 DEF Cancel, StopConsuming, StopReturns, TimerFires, bufferVars, PlaceInv
<1>2. TypeOK'
  <2>1. CASE Cancel \/ StopConsuming \/ StopReturns
    BY <1>0, <2>1 DEF Cancel, StopConsuming, StopReturns, TypeOK, cacheVars, bufferVars
  <2>2. ASSUME NEW k \in Keys, TimerFires(k)
        PROVE  TypeOK'
    <3>1. fired' \in [Keys -> Nat]
      BY <1>0, <2>2 DEF TimerFires, TypeOK
    <3>2. timer' = timer \ {k} /\ UNCHANGED <<at, stopKeys, ctxDone>>
      BY <2>2 DEF TimerFires
    <3> QED BY <1>0, <1>1, <3>1, <3>2 DEF TypeOK, cacheVars
  <2> QED BY <2>1, <2>2
<1>3. CopiesInv' /\ CacheInv'
  BY <1>0, <1>1, CacheStays DEF CopiesInv
<1>4. \A c : /\ InBuffers(c)' = InBuffers(c) /\ InHands(c)' = InHands(c)
             /\ InWork(c)' = InWork(c) /\ InDelivered(c)' = InDelivered(c)
  BY <1>1 DEF InBuffers, InHands, InWork, InDelivered
<1>5. \A c : (OnePlace(c)' <=> OnePlace(c)) /\ (NoPlace(c)' <=> NoPlace(c))
  BY <1>1, <1>4 DEF OnePlace, NoPlace
<1>6. PlaceInv'
  BY <1>0, <1>1, <1>5 DEF PlaceInv
<1>7. \A d, c : After(d, c)' <=> After(d, c)
  BY <1>1 DEF After
<1>8. OrderInv'
  BY <1>0, <1>1, <1>4, <1>7 DEF OrderInv
<1> QED BY <1>2, <1>3, <1>6, <1>8 DEF InboundInv
-----------------------------------------------------------------------------
(* The cache. *)

\* What is left of a sequence behind its first n members.
LEMMA Suffix ==
    ASSUME NEW S, NEW q \in Seq(S), NEW n \in 0 .. Len(q)
    PROVE  /\ SubSeq(q, n + 1, Len(q)) \in Seq(S)
           /\ Len(SubSeq(q, n + 1, Len(q))) = Len(q) - n
           /\ DOMAIN SubSeq(q, n + 1, Len(q)) = 1 .. Len(q) - n
           /\ \A i \in 1 .. Len(q) - n : SubSeq(q, n + 1, Len(q))[i] = q[n + i]
<1>1. Len(q) \in Nat /\ \A i \in n + 1 .. Len(q) : q[i] \in S
  OBVIOUS
<1>2. n + 1 \in Int /\ Len(q) \in Int
  BY <1>1
<1>3. /\ SubSeq(q, n + 1, Len(q)) \in Seq(S)
      /\ Len(SubSeq(q, n + 1, Len(q))) = IF n + 1 <= Len(q) THEN Len(q) - (n + 1) + 1 ELSE 0
      /\ \A i \in 1 .. Len(q) - (n + 1) + 1 :
            SubSeq(q, n + 1, Len(q))[i] = q[n + 1 + i - 1]
  BY <1>1, <1>2, SubSeqProperties
<1>4. Len(SubSeq(q, n + 1, Len(q))) = Len(q) - n
  BY <1>1, <1>3
<1>5. \A i \in 1 .. Len(q) - n : SubSeq(q, n + 1, Len(q))[i] = q[n + i]
  BY <1>1, <1>3
<1> QED BY <1>3, <1>4, <1>5

\* The live entries are those that are not aged.
LEMMA LiveIs ==
    ASSUME TypeOK
    PROVE  /\ Live \in Seq(Messages) /\ Len(Live) = Len(seen) - aged
           /\ DOMAIN Live = 1 .. Len(seen) - aged
           /\ \A i \in 1 .. Len(seen) - aged : Live[i] = seen[aged + i]
           /\ Len(seen) \in Nat /\ aged \in Nat /\ aged <= Len(seen) /\ CacheMax \in Nat \ {0}
           /\ \A i \in 1 .. Len(seen) : seen[i] \in Messages
<1>1. seen \in Seq(Messages) /\ aged \in 0 .. Len(seen) /\ Len(seen) \in Nat
  BY DEF TypeOK
<1> QED BY <1>1, Suffix, InboundAssumption DEF Live

\* A message passed finitely often.
LEMMA PassedFinite ==
    ASSUME TypeOK, NEW m
    PROVE  IsFiniteSet(PassedOf(m)) /\ Cardinality(PassedOf(m)) \in Nat
<1>1. Len(accepted) \in Nat /\ PassedOf(m) \subseteq 1 .. Len(accepted)
  BY DEF TypeOK, PassedOf
<1>2. IsFiniteSet(1 .. Len(accepted))
  <2>1. 1 \in Int /\ Len(accepted) \in Int
    BY <1>1
  <2> QED BY <2>1, FS_Interval
<1> QED BY <1>1, <1>2, FS_Subset, FS_CardinalityType

\* An entry passes its TTL: the message may pass once more.
LEMMA Expire_Inv ==
    ASSUME InboundInv, Expire
    PROVE  InboundInv'
<1>0. TypeOK /\ CopiesInv /\ CacheInv /\ PlaceInv /\ OrderInv
  BY DEF InboundInv
<1>1. /\ aged < Len(seen) /\ aged' = aged + 1
      /\ forgot' = [forgot EXCEPT ![seen[aged + 1]] = @ + 1]
      /\ UNCHANGED <<published, inbound, seen, bufferVars, fired, hands, at, work,
                     stopKeys, ctxDone, accepted, delivered>>
  BY DEF Expire
<1>2. TypeOK'
  <2>1. aged' \in 0 .. Len(seen) /\ seen[aged + 1] \in Messages
    BY <1>0, <1>1, LiveIs
  <2>2. forgot' \in [Messages -> Nat]
    BY <1>0, <1>1, <2>1 DEF TypeOK
  <2> QED BY <1>0, <1>1, <2>1, <2>2 DEF TypeOK, bufferVars
<1>3. CopiesInv' /\ PlaceInv' /\ OrderInv'
  BY <1>0, <1>1, PlacesStay DEF CopiesInv, bufferVars
<1>4. CacheInv'
  <2> SUFFICES ASSUME NEW m \in Messages \ NoId PROVE (Cardinality(PassedOf(m)) <= Allowed(m))'
    BY DEF CacheInv
  <2>1. PassedOf(m)' = PassedOf(m)
    BY <1>1 DEF PassedOf
  <2>2. /\ forgot[m] \in Nat /\ forgot'[m] \in Nat /\ forgot'[m] >= forgot[m]
        /\ m = seen[aged + 1] => forgot'[m] = forgot[m] + 1
    BY <1>0, <1>1, <1>2 DEF TypeOK
  <2>3. m \in ToSet(Live) /\ m # seen[aged + 1] => m \in ToSet(Live)'
    <3> SUFFICES ASSUME m \in ToSet(Live), m # seen[aged + 1] PROVE m \in ToSet(Live)'
      OBVIOUS
    <3>1. PICK i \in 1 .. Len(seen) - aged : m = seen[aged + i]
      BY <1>0, LiveIs DEF ToSet
    <3>2. i # 1
      BY <3>1
    <3>3. i - 1 \in 1 .. Len(seen) - (aged + 1) /\ aged + 1 + (i - 1) = aged + i
      BY <1>0, <1>1, <3>2, LiveIs
    <3>4. /\ DOMAIN Live' = 1 .. Len(seen') - aged'
          /\ \A n \in 1 .. Len(seen') - aged' : Live'[n] = seen'[aged' + n]
      <4>1. seen' \in Seq(Messages) /\ aged' \in 0 .. Len(seen')
        BY <1>2 DEF TypeOK
      <4> QED BY <4>1, Suffix DEF Live
    <3>5. i - 1 \in DOMAIN Live' /\ Live'[i - 1] = m
      BY <1>1, <3>1, <3>3, <3>4
    <3> QED BY <3>5 DEF ToSet
  <2>4. Cardinality(PassedOf(m)) <= Allowed(m)
    BY <1>0 DEF CacheInv
  <2>5. IsFiniteSet(PassedOf(m)) /\ Cardinality(PassedOf(m)) \in Nat
    BY <1>0, PassedFinite
  <2>6. Allowed(m)' >= Allowed(m) /\ Allowed(m) \in Nat /\ Allowed(m)' \in Nat
    BY <2>2, <2>3 DEF Allowed
  <2> QED BY <2>1, <2>4, <2>5, <2>6
<1> QED BY <1>2, <1>3, <1>4 DEF InboundInv

\* A sequence without its i-th member holds the others.
LEMMA RemovedHolds ==
    ASSUME NEW S, NEW q \in Seq(S), NEW i \in DOMAIN q
    PROVE  /\ RemoveAt(q, i) \in Seq(S) /\ Len(RemoveAt(q, i)) = Len(q) - 1
           /\ \A x \in ToSet(q) : x = q[i] \/ x \in ToSet(RemoveAt(q, i))
<1>1. Len(q) \in Nat /\ i \in 1 .. Len(q) /\ i \in Int /\ DOMAIN q = 1 .. Len(q)
      /\ \A j \in 1 .. Len(q) : q[j] \in S
  OBVIOUS
<1> DEFINE L == SubSeq(q, 1, i - 1)
           R == SubSeq(q, i + 1, Len(q))
<1>2. L \in Seq(S) /\ Len(L) = i - 1 /\ \A j \in 1 .. i - 1 : L[j] = q[j]
  <2>1. 1 \in Int /\ i - 1 \in Int /\ \A j \in 1 .. i - 1 : q[j] \in S
    BY <1>1
  <2>2. /\ L \in Seq(S)
        /\ Len(L) = IF 1 <= i - 1 THEN i - 1 - 1 + 1 ELSE 0
        /\ \A j \in 1 .. i - 1 - 1 + 1 : L[j] = q[1 + j - 1]
    BY <2>1, SubSeqProperties
  <2> HIDE DEF L
  <2> QED BY <1>1, <2>2
<1>3. R \in Seq(S) /\ Len(R) = Len(q) - i /\ \A j \in 1 .. Len(q) - i : R[j] = q[i + j]
  <2>1. i \in 0 .. Len(q)
    BY <1>1
  <2> QED BY <2>1, Suffix
<1>4. RemoveAt(q, i) = L \o R
  BY DEF RemoveAt
<1> HIDE DEF L, R
<1>5. /\ L \o R \in Seq(S) /\ Len(L \o R) = Len(q) - 1
      /\ \A j \in 1 .. Len(q) - 1 : (L \o R)[j] = IF j <= i - 1 THEN L[j] ELSE R[j - (i - 1)]
  <2>1. /\ L \o R \in Seq(S) /\ Len(L \o R) = Len(L) + Len(R)
        /\ \A j \in 1 .. Len(L) + Len(R) : (L \o R)[j] = IF j <= Len(L) THEN L[j] ELSE R[j - Len(L)]
    BY <1>2, <1>3, ConcatProperties
  <2>2. Len(L) + Len(R) = Len(q) - 1
    BY <1>1, <1>2, <1>3
  <2> QED BY <1>2, <2>1, <2>2
<1>6. ASSUME NEW j \in 1 .. Len(q), j # i
      PROVE  q[j] \in ToSet(L \o R)
  <2>1. CASE j < i
    <3>1. j \in 1 .. Len(q) - 1 /\ (L \o R)[j] = q[j]
      BY <1>1, <1>2, <1>5, <2>1
    <3>2. j \in DOMAIN (L \o R)
      BY <1>5, <3>1
    <3> QED BY <3>1, <3>2 DEF ToSet
  <2>2. CASE j > i
    <3>1. j - 1 \in 1 .. Len(q) - 1 /\ ~(j - 1 <= i - 1) /\ j - i \in 1 .. Len(q) - i
          /\ j - 1 - (i - 1) = j - i /\ i + (j - i) = j
      BY <1>1, <2>2
    <3>2. (L \o R)[j - 1] = q[j]
      BY <1>3, <1>5, <3>1
    <3>3. j - 1 \in DOMAIN (L \o R)
      BY <1>5, <3>1
    <3> QED BY <3>2, <3>3 DEF ToSet
  <2> QED BY <1>1, <1>6, <2>1, <2>2
<1>7. \A x \in ToSet(q) : x = q[i] \/ x \in ToSet(L \o R)
  <2> TAKE x \in ToSet(q)
  <2>1. PICK j \in 1 .. Len(q) : x = q[j]
    BY <1>1 DEF ToSet
  <2> QED BY <1>6, <2>1
<1> QED BY <1>4, <1>5, <1>7

\* What is new in the cache lets its message pass once more, and no other less
\* often than before: an entry that is evicted is counted as forgotten.
LEMMA RecordAllows ==
    ASSUME TypeOK, NEW m \in Messages, m \notin NoId => m \notin ToSet(Live), Record(m)
    PROVE  /\ seen' \in Seq(Messages) /\ Len(seen') <= CacheMax /\ aged' \in 0 .. Len(seen')
           /\ forgot' \in [Messages -> Nat]
           /\ \A x \in Messages \ NoId :
                /\ Allowed(x) \in Nat /\ Allowed(x)' \in Nat
                /\ Allowed(x)' >= Allowed(x)
                /\ x = m => Allowed(x)' >= Allowed(x) + 1
<1>1. forgot \in [Messages -> Nat] /\ seen \in Seq(Messages) /\ Len(seen) <= CacheMax
      /\ aged \in 0 .. Len(seen)
  BY DEF TypeOK
<1>2. CASE m \in NoId
  <2>1. UNCHANGED cacheVars
    BY <1>2 DEF Record
  <2>2. \A x \in Messages : Allowed(x)' = Allowed(x) /\ Allowed(x) \in Nat
    BY <1>1, <2>1 DEF Allowed, Live, cacheVars
  <2> QED BY <1>1, <1>2, <2>1, <2>2 DEF cacheVars
<1>3. CASE m \notin NoId
  <2>1. /\ aged' = 0
        /\ \/ Len(Live) < CacheMax /\ seen' = Append(Live, m) /\ forgot' = forgot
           \/ /\ ~(Len(Live) < CacheMax)
              /\ \E i \in DOMAIN Live :
                   /\ seen' = Append(RemoveAt(Live, i), m)
                   /\ forgot' = [forgot EXCEPT ![Live[i]] = @ + 1]
    BY <1>3 DEF Record
  <2>2. /\ Live \in Seq(Messages) /\ Len(Live) \in Nat /\ CacheMax \in Nat /\ m \notin ToSet(Live)
        /\ Len(Live) <= CacheMax
    BY <1>1, <1>3, LiveIs
  <2>3. /\ seen' \in Seq(Messages) /\ Len(seen') <= CacheMax
        /\ forgot' \in [Messages -> Nat]
        /\ m \in ToSet(seen') /\ forgot'[m] = forgot[m]
        /\ \A x \in Messages : \/ forgot'[x] = forgot[x] + 1
                               \/ forgot'[x] = forgot[x] /\ (x \in ToSet(Live) => x \in ToSet(seen'))
    <3>1. CASE Len(Live) < CacheMax /\ seen' = Append(Live, m) /\ forgot' = forgot
      <4>1. ToSet(seen') = ToSet(Live) \cup {m} /\ seen' \in Seq(Messages)
        BY <2>2, <3>1, AppendHolds
      <4>2. Len(seen') <= CacheMax
        BY <2>2, <3>1
      <4> QED BY <1>1, <3>1, <4>1, <4>2
    <3>2. ASSUME NEW i \in DOMAIN Live,
                 seen' = Append(RemoveAt(Live, i), m),
                 forgot' = [forgot EXCEPT ![Live[i]] = @ + 1]
          PROVE  /\ seen' \in Seq(Messages) /\ Len(seen') <= CacheMax
                 /\ forgot' \in [Messages -> Nat]
                 /\ m \in ToSet(seen') /\ forgot'[m] = forgot[m]
                 /\ \A x \in Messages :
                      \/ forgot'[x] = forgot[x] + 1
                      \/ forgot'[x] = forgot[x] /\ (x \in ToSet(Live) => x \in ToSet(seen'))
      <4>1. /\ RemoveAt(Live, i) \in Seq(Messages) /\ Len(RemoveAt(Live, i)) = Len(Live) - 1
            /\ \A x \in ToSet(Live) : x = Live[i] \/ x \in ToSet(RemoveAt(Live, i))
        BY <2>2, RemovedHolds
      <4>2. ToSet(seen') = ToSet(RemoveAt(Live, i)) \cup {m} /\ seen' \in Seq(Messages)
        BY <3>2, <4>1, AppendHolds
      <4>3. Len(seen') <= CacheMax
        BY <2>2, <3>2, <4>1
      <4>4. Live[i] \in Messages /\ Live[i] # m
        BY <2>2 DEF ToSet
      <4>5. forgot' \in [Messages -> Nat] /\ forgot'[m] = forgot[m]
            /\ \A x \in Messages : IF x = Live[i] THEN forgot'[x] = forgot[x] + 1
                                   ELSE forgot'[x] = forgot[x]
        BY <1>1, <3>2, <4>4
      <4> QED BY <4>1, <4>2, <4>3, <4>5
    <3> QED BY <2>1, <3>1, <3>2
  <2>4. Live' = seen'
    <3>1. SubSeq(seen', 1, Len(seen')) = seen'
      BY <2>3, SubSeqFull
    <3>2. aged' + 1 = 1
      BY <2>1
    <3>3. Live' = SubSeq(seen', aged' + 1, Len(seen'))
      BY DEF Live
    <3> QED BY <3>1, <3>2, <3>3
  <2>5. ASSUME NEW x \in Messages \ NoId
        PROVE  /\ Allowed(x) \in Nat /\ Allowed(x)' \in Nat
               /\ Allowed(x)' >= Allowed(x)
               /\ x = m => Allowed(x)' >= Allowed(x) + 1
    <3>1. forgot[x] \in Nat /\ forgot'[x] \in Nat
      BY <1>1, <2>3
    <3> QED BY <2>2, <2>3, <2>4, <3>1 DEF Allowed
  <2> QED BY <2>1, <2>3, <2>5
<1> QED BY <1>2, <1>3
-----------------------------------------------------------------------------
(* A copy passes the cache. *)

\* Whatever the consumer does with the copy, it is new behind the cache.
LEMMA Passes ==
    ASSUME InboundInv, NEW c, Admitted(c), UNCHANGED published
    PROVE  /\ c \in Copies /\ c[1] \in Messages /\ c \notin ToSet(accepted) /\ at = "recv" /\ work = <<>>
           /\ inbound' \in Seq(Copies) /\ Len(inbound') <= BusCap
           /\ accepted' \in Seq(Copies) /\ ToSet(accepted') = ToSet(accepted) \cup {c}
           /\ seen' \in Seq(Messages) /\ Len(seen') <= CacheMax /\ aged' \in 0 .. Len(seen')
           /\ forgot' \in [Messages -> Nat]
           /\ CopiesInv' /\ CacheInv'
           /\ \A d, e : After(d, e)' => /\ d # c /\ KeyOf[d[1]] = KeyOf[e[1]] /\ e[1] \notin Commands
                                        /\ After(d, e) \/ e = c
<1>0. TypeOK /\ CopiesInv /\ CacheInv /\ PlaceInv
  BY DEF InboundInv
<1>1. /\ at = "recv" /\ inbound # <<>> /\ c = Head(inbound) /\ inbound' = Tail(inbound)
      /\ ~IsDuplicate(c[1]) /\ Record(c[1]) /\ accepted' = Append(accepted, c)
  BY DEF Admitted, Received
<1>2. inbound \in Seq(Copies) /\ Len(inbound) <= BusCap /\ accepted \in Seq(Copies) /\ BusCap \in Nat
  BY <1>0, InboundAssumption DEF TypeOK
<1>3. /\ c \in Copies /\ inbound' \in Seq(Copies) /\ c \in ToSet(inbound)
      /\ ToSet(inbound) = ToSet(inbound') \cup {c} /\ Len(inbound') <= BusCap
      /\ Once(inbound') /\ c \notin ToSet(inbound')
  <2>1. Once(inbound)
    BY <1>0 DEF CopiesInv
  <2>2. Len(inbound') = Len(inbound) - 1 /\ Len(inbound) \in Nat
    BY <1>1, <1>2, TailHolds
  <2>3. Len(inbound') <= BusCap
    BY <1>2, <2>2
  <2> QED BY <1>1, <1>2, <2>1, <2>3, TailHolds
<1>4. c \notin ToSet(accepted) /\ c[1] \in Messages
  BY <1>0, <1>3, CopiesAre DEF CopiesInv
<1>5. /\ accepted' \in Seq(Copies) /\ ToSet(accepted') = ToSet(accepted) \cup {c}
      /\ Once(accepted')
  BY <1>0, <1>1, <1>2, <1>3, <1>4, AppendHolds DEF CopiesInv
<1>6. CopiesInv'
  BY <1>0, <1>3, <1>4, <1>5 DEF CopiesInv
<1>7. /\ seen' \in Seq(Messages) /\ Len(seen') <= CacheMax /\ aged' \in 0 .. Len(seen')
      /\ forgot' \in [Messages -> Nat]
      /\ \A x \in Messages \ NoId :
           /\ Allowed(x) \in Nat /\ Allowed(x)' \in Nat
           /\ Allowed(x)' >= Allowed(x)
           /\ x = c[1] => Allowed(x)' >= Allowed(x) + 1
  <2>1. c[1] \notin NoId => c[1] \notin ToSet(Live)
    BY <1>1 DEF IsDuplicate
  <2> QED BY <1>0, <1>1, <1>4, <2>1, RecordAllows
<1>8. /\ Len(accepted) \in Nat /\ DOMAIN accepted = 1 .. Len(accepted)
      /\ DOMAIN accepted' = 1 .. Len(accepted) + 1
      /\ accepted'[Len(accepted) + 1] = c
      /\ \A i \in 1 .. Len(accepted) : accepted'[i] = accepted[i]
  BY <1>1, <1>2, <1>3, SMT
<1>9. CacheInv'
  <2> SUFFICES ASSUME NEW m \in Messages \ NoId PROVE (Cardinality(PassedOf(m)) <= Allowed(m))'
    BY DEF CacheInv
  <2>1. IsFiniteSet(PassedOf(m)) /\ Cardinality(PassedOf(m)) \in Nat
    BY <1>0, PassedFinite
  <2>2. Cardinality(PassedOf(m)) <= Allowed(m)
    BY <1>0 DEF CacheInv
  <2>3. CASE m = c[1]
    <3>1. PassedOf(m)' = PassedOf(m) \cup {Len(accepted) + 1}
      BY <1>8, <2>3 DEF PassedOf
    <3>2. Len(accepted) + 1 \notin PassedOf(m)
      BY <1>8 DEF PassedOf
    <3>3. Cardinality(PassedOf(m)') = Cardinality(PassedOf(m)) + 1
      BY <2>1, <3>1, <3>2, FS_AddElement
    <3> QED BY <1>7, <2>1, <2>2, <2>3, <3>3
  <2>4. CASE m # c[1]
    <3>1. PassedOf(m)' = PassedOf(m)
      BY <1>8, <2>4 DEF PassedOf
    <3> QED BY <1>7, <2>1, <2>2, <3>1
  <2> QED BY <2>3, <2>4
<1>10. ASSUME NEW d, NEW e, After(d, e)'
       PROVE  /\ d # c /\ KeyOf[d[1]] = KeyOf[e[1]] /\ e[1] \notin Commands
              /\ After(d, e) \/ e = c
  <2>1. PICK i, j \in 1 .. Len(accepted) + 1 : i < j /\ accepted'[i] = d /\ accepted'[j] = e
    BY <1>8, <1>10 DEF After
  <2>2. i \in 1 .. Len(accepted) /\ accepted[i] = d
    BY <1>8, <2>1
  <2>3. d # c
    BY <1>4, <1>8, <2>2 DEF ToSet
  <2>4. KeyOf[d[1]] = KeyOf[e[1]] /\ e[1] \notin Commands
    BY <1>10 DEF After
  <2>5. CASE j = Len(accepted) + 1
    BY <1>8, <2>1, <2>3, <2>4, <2>5
  <2>6. CASE j # Len(accepted) + 1
    <3>1. j \in 1 .. Len(accepted) /\ accepted[j] = e
      BY <1>8, <2>1, <2>6
    <3> QED BY <1>8, <2>1, <2>2, <2>3, <2>4, <3>1 DEF After
  <2> QED BY <2>5, <2>6
<1>11. work = <<>>
  BY <1>0, <1>1 DEF PlaceInv
<1> QED BY <1>1, <1>3, <1>4, <1>5, <1>6, <1>7, <1>9, <1>10, <1>11

\* A taken buffer holds nothing more.
LEMMA TakenIs ==
    ASSUME TypeOK, NEW k \in Keys, TakeBuffer(k)
    PROVE  /\ buffers' \in [Keys -> Seq(Copies)]
           /\ \A j \in timer' : j \in Keys /\ buffers'[j] # <<>>
           /\ \A c : InBuffers(c)' = InBuffers(c) \ {k}
           /\ buffers'[k] = <<>> /\ \A j \in Keys : j # k => buffers'[j] = buffers[j]
<1>1. buffers' = [buffers EXCEPT ![k] = <<>>] /\ timer' = timer \ {k}
  BY DEF TakeBuffer
<1>2. /\ buffers' \in [Keys -> Seq(Copies)]
      /\ buffers'[k] = <<>> /\ \A j \in Keys : j # k => buffers'[j] = buffers[j]
  BY <1>1 DEF TypeOK
<1> QED BY <1>1, <1>2, ShortHolds DEF TypeOK, InBuffers

\* A copy that is handled at once is the consumer's only work.
LEMMA HandleAtOnce_Inv ==
    ASSUME InboundInv, NEW c, HandleAtOnce(c)
    PROVE  InboundInv'
<1>0. TypeOK /\ PlaceInv /\ OrderInv
  BY DEF InboundInv
<1>1. /\ Admitted(c) /\ (c[1] \in Commands \/ ~Debounce)
      /\ at' = "deliver" /\ work' = <<<<c>>>>
      /\ UNCHANGED <<published, bufferVars, fired, hands, stopKeys, ctxDone, delivered>>
  BY DEF HandleAtOnce
<1>2. /\ c \in Copies /\ c \notin ToSet(accepted) /\ work = <<>>
      /\ inbound' \in Seq(Copies) /\ Len(inbound') <= BusCap
      /\ accepted' \in Seq(Copies) /\ ToSet(accepted') = ToSet(accepted) \cup {c}
      /\ seen' \in Seq(Messages) /\ Len(seen') <= CacheMax /\ aged' \in 0 .. Len(seen')
      /\ forgot' \in [Messages -> Nat]
      /\ CopiesInv' /\ CacheInv'
      /\ \A d, e : After(d, e)' => /\ d # c /\ e[1] \notin Commands
                                   /\ After(d, e) \/ e = c
  BY <1>1, Passes
<1>3. work' \in Seq(Seq(Copies)) /\ DOMAIN work' = {1} /\ work'[1] = <<c>>
  BY <1>1, <1>2
<1>4. TypeOK'
  BY <1>0, <1>1, <1>2, <1>3 DEF TypeOK, bufferVars
<1>5. \A d : /\ InBuffers(d)' = InBuffers(d) /\ InHands(d)' = InHands(d)
             /\ InDelivered(d)' = InDelivered(d) /\ InWork(d) = {}
             /\ InWork(d)' = IF d = c THEN {1} ELSE {}
  <2> TAKE d
  <2>1. InBuffers(d)' = InBuffers(d) /\ InHands(d)' = InHands(d) /\ InDelivered(d)' = InDelivered(d)
    BY <1>1 DEF InBuffers, InHands, InDelivered, bufferVars
  <2>2. InWork(d) = {}
    BY <1>2 DEF InWork
  <2>3. InWork(d)' = IF d = c THEN {1} ELSE {}
    BY <1>3, ShortHolds DEF InWork
  <2> QED BY <2>1, <2>2, <2>3
<1>6. PlaceInv'
  <2>1. ASSUME NEW d \in Copies
        PROVE  (IF d \in ToSet(accepted) THEN OnePlace(d) ELSE NoPlace(d))'
    <3>1. CASE d = c
      <4>1. NoPlace(d)
        BY <1>0, <1>2, <3>1 DEF PlaceInv
      <4> QED BY <1>2, <1>3, <1>5, <3>1, <4>1 DEF NoPlace, OnePlace
    <3>2. CASE d # c
      BY <1>0, <1>1, <1>2, <1>5, <3>2 DEF PlaceInv, NoPlace, OnePlace
    <3> QED BY <3>1, <3>2
  <2>2. \A i \in DOMAIN work' : Once(work'[i])
    BY <1>3, ShortHolds
  <2> QED BY <1>0, <1>1, <2>1, <2>2 DEF PlaceInv, bufferVars
<1>7. OrderInv'
  <2> SUFFICES ASSUME NEW d \in Copies, NEW e \in Copies, After(d, e)'
               PROVE  /\ InBuffers(d)' # {} => InBuffers(e)' # {}
                      /\ \A i \in InWork(d)' : \E j \in InWork(e)' : i <= j
    BY DEF OrderInv
  <2>1. d # c /\ e[1] \notin Commands /\ (After(d, e) \/ e = c)
    BY <1>2
  <2>2. InBuffers(d)' # {} => InBuffers(e)' # {}
    <3>1. CASE c[1] \in Commands
      BY <1>0, <1>5, <2>1, <3>1 DEF OrderInv
    <3>2. CASE ~Debounce
      BY <1>0, <1>5, <3>2, ShortHolds DEF PlaceInv, InBuffers
    <3> QED BY <1>1, <3>1, <3>2
  <2> QED BY <1>5, <2>1, <2>2
<1> QED BY <1>2, <1>4, <1>6, <1>7 DEF InboundInv

\* A text joins the buffer of its key.
LEMMA PushText_Inv ==
    ASSUME InboundInv, NEW c, PushText(c)
    PROVE  InboundInv'
<1> USE InboundAssumption
<1>0. TypeOK /\ PlaceInv /\ OrderInv
  BY DEF InboundInv
<1>1. PICK k : k = KeyOf[c[1]]
  OBVIOUS
<1>2. /\ Admitted(c) /\ Debounce
      /\ buffers' = [buffers EXCEPT ![k] = Append(@, c)]
      /\ timer' = timer \cup {k}
      /\ UNCHANGED <<published, fired, hands, at, work, stopKeys, ctxDone, delivered>>
  BY <1>1 DEF PushText
<1>3. /\ c \in Copies /\ c[1] \in Messages /\ c \notin ToSet(accepted)
      /\ inbound' \in Seq(Copies) /\ Len(inbound') <= BusCap
      /\ accepted' \in Seq(Copies) /\ ToSet(accepted') = ToSet(accepted) \cup {c}
      /\ seen' \in Seq(Messages) /\ Len(seen') <= CacheMax /\ aged' \in 0 .. Len(seen')
      /\ forgot' \in [Messages -> Nat]
      /\ CopiesInv' /\ CacheInv'
      /\ \A d, e : After(d, e)' => d # c /\ (After(d, e) \/ e = c)
  BY <1>2, Passes
<1>4. /\ k \in Keys /\ buffers[k] \in Seq(Copies) /\ buffers'[k] = Append(buffers[k], c)
      /\ \A j \in Keys : j # k => buffers'[j] = buffers[j]
      /\ ToSet(buffers'[k]) = ToSet(buffers[k]) \cup {c}
      /\ buffers'[k] \in Seq(Copies) /\ buffers'[k] # <<>>
      /\ buffers' \in [Keys -> Seq(Copies)]
  <2>1. k \in Keys /\ buffers[k] \in Seq(Copies)
    BY <1>0, <1>1, <1>3 DEF TypeOK
  <2>2. /\ ToSet(Append(buffers[k], c)) = ToSet(buffers[k]) \cup {c}
        /\ Append(buffers[k], c) \in Seq(Copies) /\ Append(buffers[k], c) # <<>>
    <3>1. c \in Copies
      BY <1>3
    <3>2. /\ ToSet(Append(buffers[k], c)) = ToSet(buffers[k]) \cup {c}
          /\ Append(buffers[k], c) \in Seq(Copies)
      BY <2>1, <3>1, AppendHolds
    <3> QED BY <3>2, ShortHolds
  <2>3. buffers \in [Keys -> Seq(Copies)] /\ buffers' = [buffers EXCEPT ![k] = Append(buffers[k], c)]
    BY <1>0, <1>2 DEF TypeOK
  <2>4. PICK q \in Seq(Copies) : q = Append(buffers[k], c)
    BY <2>2
  <2>5. buffers' = [buffers EXCEPT ![k] = q]
    BY <2>3, <2>4
  <2>6. buffers' \in [Keys -> Seq(Copies)] /\ buffers'[k] = q
        /\ \A j \in Keys : j # k => buffers'[j] = buffers[j]
    BY <2>1, <2>3, <2>5
  <2> QED BY <2>1, <2>2, <2>4, <2>6
<1>5. TypeOK'
  <2>1. \A j \in timer' : j \in Keys /\ buffers'[j] # <<>>
    BY <1>0, <1>2, <1>4 DEF TypeOK
  <2> QED BY <1>0, <1>2, <1>3, <1>4, <2>1 DEF TypeOK
<1>6. NoPlace(c)
  BY <1>0, <1>3 DEF PlaceInv
<1>7. \A d : /\ InWork(d)' = InWork(d) /\ InHands(d)' = InHands(d)
             /\ InDelivered(d)' = InDelivered(d)
             /\ InBuffers(d)' = IF d = c THEN {k} ELSE InBuffers(d)
  <2> TAKE d
  <2>1. InWork(d)' = InWork(d) /\ InHands(d)' = InHands(d) /\ InDelivered(d)' = InDelivered(d)
    BY <1>2 DEF InWork, InHands, InDelivered
  <2>2. CASE d = c
    <3>1. \A j \in Keys : d \notin ToSet(buffers[j])
      BY <1>6, <2>2 DEF NoPlace, InBuffers
    <3> QED BY <1>4, <2>1, <2>2, <3>1 DEF InBuffers
  <2>3. CASE d # c
    BY <1>4, <2>1, <2>3 DEF InBuffers
  <2> QED BY <2>2, <2>3
<1>8. PlaceInv'
  <2>1. ASSUME NEW d \in Copies
        PROVE  (IF d \in ToSet(accepted) THEN OnePlace(d) ELSE NoPlace(d))'
    <3>1. CASE d = c
      BY <1>1, <1>3, <1>6, <1>7, <3>1 DEF NoPlace, OnePlace
    <3>2. CASE d # c
      BY <1>0, <1>2, <1>3, <1>7, <3>2 DEF PlaceInv, NoPlace, OnePlace
    <3> QED BY <3>1, <3>2
  <2>2. \A j \in Keys : Once(buffers'[j])
    <3>1. Once(buffers[k]) /\ c \notin ToSet(buffers[k])
      BY <1>0, <1>4, <1>6 DEF PlaceInv, NoPlace, InBuffers
    <3>2. Once(buffers'[k])
      BY <1>3, <1>4, <3>1, AppendHolds
    <3> QED BY <1>0, <1>4, <3>2 DEF PlaceInv
  <2> QED BY <1>0, <1>2, <2>1, <2>2 DEF PlaceInv
<1>9. OrderInv'
  <2> SUFFICES ASSUME NEW d \in Copies, NEW e \in Copies, After(d, e)'
               PROVE  /\ InBuffers(d)' # {} => InBuffers(e)' # {}
                      /\ \A i \in InWork(d)' : \E j \in InWork(e)' : i <= j
    BY DEF OrderInv
  <2>1. d # c /\ (After(d, e) \/ e = c)
    BY <1>3
  <2>2. CASE e # c
    BY <1>0, <1>7, <2>1, <2>2 DEF OrderInv
  <2>3. CASE e = c
    <3>1. work = <<>> /\ InWork(d)' = {}
      BY <1>2, <1>7, Passes DEF InWork
    <3> QED BY <1>7, <2>3, <3>1
  <2> QED BY <2>2, <2>3
<1> QED BY <1>3, <1>5, <1>8, <1>9 DEF InboundInv

\* A message with media is handed on behind the buffered text of its key.
LEMMA PushMedia_Inv ==
    ASSUME InboundInv, NEW c, PushMedia(c)
    PROVE  InboundInv'
<1> USE InboundAssumption
<1>0. TypeOK /\ PlaceInv /\ OrderInv
  BY DEF InboundInv
<1>1. PICK k : k = KeyOf[c[1]]
  OBVIOUS
<1>2. /\ Admitted(c) /\ Debounce /\ TakeBuffer(k)
      /\ at' = "deliver" /\ work' = Append(Batch(k), <<c>>)
      /\ UNCHANGED <<published, fired, hands, stopKeys, ctxDone, delivered>>
  BY <1>1 DEF PushMedia
<1>3. /\ c \in Copies /\ c[1] \in Messages /\ c \notin ToSet(accepted) /\ work = <<>>
      /\ inbound' \in Seq(Copies) /\ Len(inbound') <= BusCap
      /\ accepted' \in Seq(Copies) /\ ToSet(accepted') = ToSet(accepted) \cup {c}
      /\ seen' \in Seq(Messages) /\ Len(seen') <= CacheMax /\ aged' \in 0 .. Len(seen')
      /\ forgot' \in [Messages -> Nat]
      /\ CopiesInv' /\ CacheInv'
      /\ \A d, e : After(d, e)' => /\ d # c /\ KeyOf[d[1]] = KeyOf[e[1]]
                                   /\ After(d, e) \/ e = c
  BY <1>2, Passes
<1>4. k \in Keys /\ buffers[k] \in Seq(Copies) /\ Once(buffers[k])
  <2>1. k \in Keys
    BY <1>1, <1>3
  <2> QED BY <1>0, <2>1 DEF TypeOK, PlaceInv
<1>5. /\ buffers' \in [Keys -> Seq(Copies)]
      /\ \A j \in timer' : j \in Keys /\ buffers'[j] # <<>>
      /\ \A d : InBuffers(d)' = InBuffers(d) \ {k}
      /\ buffers'[k] = <<>> /\ \A j \in Keys : j # k => buffers'[j] = buffers[j]
  BY <1>0, <1>2, <1>4, TakenIs
<1>6. /\ work' \in Seq(Seq(Copies)) /\ \A i \in DOMAIN work' : i \in Nat /\ Once(work'[i])
      /\ \E n \in DOMAIN work' :
           /\ \A i \in DOMAIN work' : i <= n
           /\ \A d : InWork(d)' = (IF d \in ToSet(buffers[k]) THEN {1} ELSE {})
                                    \cup (IF d = c THEN {n} ELSE {})
  <2>1. CASE buffers[k] = <<>>
    <3>1. work' = <<<<c>>>>
      BY <1>2, <2>1 DEF Batch
    <3>2. work' \in Seq(Seq(Copies)) /\ DOMAIN work' = {1} /\ work'[1] = <<c>>
      BY <1>3, <3>1
    <3>3. \A d : InWork(d)' = IF d = c THEN {1} ELSE {}
      BY <3>2, ShortHolds DEF InWork
    <3>4. \A d : d \notin ToSet(buffers[k])
      BY <2>1, ShortHolds
    <3> QED BY <3>2, <3>3, <3>4, ShortHolds
  <2>2. CASE buffers[k] # <<>>
    <3>1. PICK one \in Seq(Copies) : one = <<c>>
      <4>1. c \in Copies
        BY <1>3
      <4>2. <<c>> \in Seq(Copies)
        BY <4>1
      <4> QED BY <4>2, Zenon
    <3>2. PICK q \in Seq(Copies) : q = buffers[k]
      BY <1>4
    <3>3. work' = Append(<<q>>, one)
      BY <1>2, <2>2, <3>1, <3>2 DEF Batch
    <3>4. <<q>> \in Seq(Seq(Copies)) /\ Len(<<q>>) = 1 /\ <<q>>[1] = q
      OBVIOUS
    <3>5. work' \in Seq(Seq(Copies)) /\ DOMAIN work' = 1 .. 2 /\ work'[1] = q /\ work'[2] = one
      <4>1. PICK p \in Seq(Seq(Copies)) : p = <<q>>
        BY <3>4
      <4>2. Len(p) = 1 /\ p[1] = q
        BY <3>4, <4>1
      <4>3. work' = Append(p, one)
        BY <3>3, <4>1
      <4>4. /\ Append(p, one) \in Seq(Seq(Copies)) /\ Len(Append(p, one)) = Len(p) + 1
            /\ \A i \in 1 .. Len(p) : Append(p, one)[i] = p[i]
            /\ Append(p, one)[Len(p) + 1] = one
        BY <3>1, AppendProperties
      <4>5. Len(work') = 2
        BY <4>2, <4>3, <4>4
      <4> QED BY <4>2, <4>3, <4>4, <4>5
    <3>6. \A i \in DOMAIN work' : i \in Nat /\ i <= 2 /\ (i = 1 \/ i = 2)
      BY <3>5
    <3>7. Once(q) /\ Once(one) /\ ToSet(one) = {c}
      BY <1>4, <3>1, <3>2, ShortHolds
    <3>8. \A i \in DOMAIN work' : Once(work'[i])
      BY <3>5, <3>6, <3>7
    <3>9. 1 \in DOMAIN work' /\ 2 \in DOMAIN work'
      BY <3>5
    <3>10. \A d : InWork(d)' = (IF d \in ToSet(buffers[k]) THEN {1} ELSE {})
                                \cup (IF d = c THEN {2} ELSE {})
      BY <3>2, <3>5, <3>6, <3>7, <3>9 DEF InWork
    <3> QED BY <3>5, <3>6, <3>8, <3>9, <3>10
  <2> QED BY <2>1, <2>2
<1>7. PICK n \in DOMAIN work' :
        /\ \A i \in DOMAIN work' : i <= n
        /\ \A d : InWork(d)' = (IF d \in ToSet(buffers[k]) THEN {1} ELSE {})
                                 \cup (IF d = c THEN {n} ELSE {})
  BY <1>6
<1>8. TypeOK'
  BY <1>0, <1>2, <1>3, <1>5, <1>6 DEF TypeOK
<1>9. NoPlace(c) /\ c \notin ToSet(buffers[k]) /\ 1 \in DOMAIN work' /\ 1 <= n
  <2>1. NoPlace(c)
    BY <1>0, <1>3 DEF PlaceInv
  <2>2. c \notin ToSet(buffers[k])
    BY <1>4, <2>1 DEF NoPlace, InBuffers
  <2>3. DOMAIN work' = 1 .. Len(work') /\ Len(work') \in Nat
    BY <1>6
  <2> QED BY <2>1, <2>2, <2>3
<1>10. \A d : InHands(d)' = InHands(d) /\ InDelivered(d)' = InDelivered(d) /\ InWork(d) = {}
  BY <1>2, <1>3 DEF InHands, InDelivered, InWork
<1>11. PlaceInv'
  <2>1. ASSUME NEW d \in Copies
        PROVE  (IF d \in ToSet(accepted) THEN OnePlace(d) ELSE NoPlace(d))'
    <3>1. CASE d = c
      <4>1. InWork(d)' = {n} /\ InBuffers(d)' = {} /\ InHands(d)' = {} /\ InDelivered(d)' = {}
        BY <1>5, <1>7, <1>9, <1>10, <3>1 DEF NoPlace
      <4> QED BY <1>3, <3>1, <4>1 DEF OnePlace
    <3>2. CASE d # c /\ d \in ToSet(buffers[k])
      <4>1. k \in InBuffers(d)
        BY <1>4, <3>2 DEF InBuffers
      <4>2. /\ d \in ToSet(accepted) /\ InBuffers(d) = {k} /\ InHands(d) = {} /\ InDelivered(d) = {}
        BY <1>0, <4>1 DEF PlaceInv, NoPlace, OnePlace
      <4>3. InWork(d)' = {1} /\ InBuffers(d)' = {} /\ InHands(d)' = {} /\ InDelivered(d)' = {}
        BY <1>5, <1>7, <1>10, <3>2, <4>2
      <4> QED BY <1>3, <1>9, <4>2, <4>3 DEF OnePlace
    <3>3. CASE d # c /\ d \notin ToSet(buffers[k])
      <4>1. k \notin InBuffers(d)
        BY <3>3 DEF InBuffers
      <4>2. /\ InWork(d)' = {} /\ InBuffers(d)' = InBuffers(d)
            /\ InHands(d)' = InHands(d) /\ InDelivered(d)' = InDelivered(d) /\ InWork(d) = {}
        BY <1>5, <1>7, <1>10, <3>3, <4>1
      <4>3. IF d \in ToSet(accepted) THEN OnePlace(d) ELSE NoPlace(d)
        BY <1>0 DEF PlaceInv
      <4>4. hands' = hands /\ delivered' = delivered
        BY <1>2
      <4>5. d \in ToSet(accepted)' <=> d \in ToSet(accepted)
        BY <1>3, <3>3
      <4> QED BY <4>2, <4>3, <4>4, <4>5 DEF OnePlace, NoPlace
    <3> QED BY <3>1, <3>2, <3>3
  <2>2. \A j \in Keys : Once(buffers'[j])
    BY <1>0, <1>5, ShortHolds DEF PlaceInv
  <2> QED BY <1>0, <1>2, <1>6, <2>1, <2>2 DEF PlaceInv
<1>12. OrderInv'
  <2> SUFFICES ASSUME NEW d \in Copies, NEW e \in Copies, After(d, e)'
               PROVE  /\ InBuffers(d)' # {} => InBuffers(e)' # {}
                      /\ \A i \in InWork(d)' : \E j \in InWork(e)' : i <= j
    BY DEF OrderInv
  <2>1. d # c /\ KeyOf[d[1]] = KeyOf[e[1]] /\ (After(d, e) \/ e = c)
    BY <1>3
  <2>2. \A x \in Copies : InBuffers(x) \subseteq {KeyOf[x[1]]}
    BY <1>0 DEF PlaceInv, NoPlace, OnePlace
  <2>3. InBuffers(d)' # {} => InBuffers(e)' # {}
    <3>1. CASE KeyOf[d[1]] = k
      BY <1>5, <2>2, <3>1
    <3>2. CASE KeyOf[d[1]] # k
      <4>1. After(d, e)
        BY <1>1, <2>1, <3>2
      <4>2. InBuffers(e)' = InBuffers(e) /\ InBuffers(d)' = InBuffers(d)
        BY <1>5, <2>1, <2>2, <3>2
      <4> QED BY <1>0, <4>1, <4>2 DEF OrderInv
    <3> QED BY <3>1, <3>2
  <2>4. ASSUME NEW i \in InWork(d)'
        PROVE  \E j \in InWork(e)' : i <= j
    <3>1. d \in ToSet(buffers[k]) /\ i = 1
      BY <1>7, <2>1, <2>4
    <3>2. CASE e = c
      BY <1>7, <1>9, <3>1, <3>2
    <3>3. CASE e # c
      <4>1. k \in InBuffers(d)
        BY <1>4, <3>1 DEF InBuffers
      <4>2. InBuffers(e) # {} /\ KeyOf[d[1]] = k
        BY <1>0, <2>1, <2>2, <3>3, <4>1 DEF OrderInv
      <4>3. e \in ToSet(buffers[k])
        BY <2>1, <2>2, <4>2 DEF InBuffers
      <4> QED BY <1>7, <3>1, <4>3
    <3> QED BY <3>2, <3>3
  <2> QED BY <2>3, <2>4
<1> QED BY <1>3, <1>8, <1>11, <1>12 DEF InboundInv
-----------------------------------------------------------------------------
(* The copies move on. *)

\* What a step that accepts nothing owes: the copies, the cache and who passed
\* after whom stay.
LEMMA NothingPasses ==
    ASSUME InboundInv, UNCHANGED <<published, inbound, cacheVars, accepted>>
    PROVE  CopiesInv' /\ CacheInv' /\ \A d, e : After(d, e)' => After(d, e)
<1>1. CacheInv'
  BY CacheStays DEF InboundInv
<1> QED BY <1>1 DEF InboundInv, CopiesInv, After

\* Stop takes the buffer of a key, and with it all that came later.
LEMMA StopFlush_Inv ==
    ASSUME InboundInv, NEW k \in Keys, StopFlush(k)
    PROVE  InboundInv'
<1> USE InboundAssumption
<1>0. TypeOK /\ PlaceInv /\ OrderInv
  BY DEF InboundInv
<1>1. /\ at = "stopping" /\ work = <<>> /\ stopKeys' = stopKeys \ {k}
      /\ TakeBuffer(k) /\ work' = Batch(k)
      /\ UNCHANGED <<published, inbound, cacheVars, fired, hands, at, ctxDone,
                     accepted, delivered>>
  BY DEF StopFlush
<1>2. CopiesInv' /\ CacheInv' /\ \A d, e : After(d, e)' => After(d, e)
  BY <1>1, NothingPasses
<1>3. buffers[k] \in Seq(Copies) /\ Once(buffers[k])
  BY <1>0 DEF TypeOK, PlaceInv
<1>4. /\ buffers' \in [Keys -> Seq(Copies)]
      /\ \A j \in timer' : j \in Keys /\ buffers'[j] # <<>>
      /\ \A d : InBuffers(d)' = InBuffers(d) \ {k}
      /\ buffers'[k] = <<>> /\ \A j \in Keys : j # k => buffers'[j] = buffers[j]
  BY <1>0, <1>1, TakenIs
<1>5. /\ work' \in Seq(Seq(Copies)) /\ \A i \in DOMAIN work' : Once(work'[i])
      /\ \A d : InWork(d)' = IF d \in ToSet(buffers[k]) THEN {1} ELSE {}
      /\ \A d \in ToSet(buffers[k]) : 1 \in DOMAIN work'
  <2>1. CASE buffers[k] = <<>>
    <3>1. work' = <<>> /\ \A d : d \notin ToSet(buffers[k])
      BY <1>1, <2>1, ShortHolds DEF Batch
    <3> QED BY <3>1 DEF InWork
  <2>2. CASE buffers[k] # <<>>
    <3>1. work' = <<buffers[k]>>
      BY <1>1, <2>2 DEF Batch
    <3>2. work' \in Seq(Seq(Copies)) /\ DOMAIN work' = {1} /\ work'[1] = buffers[k]
      BY <1>3, <3>1
    <3> QED BY <1>3, <3>2 DEF InWork
  <2> QED BY <2>1, <2>2
<1>6. TypeOK'
  BY <1>0, <1>1, <1>4, <1>5 DEF TypeOK, cacheVars
<1>7. \A d : InHands(d)' = InHands(d) /\ InDelivered(d)' = InDelivered(d) /\ InWork(d) = {}
  BY <1>1 DEF InHands, InDelivered, InWork
<1>8. PlaceInv'
  <2>1. ASSUME NEW d \in Copies
        PROVE  (IF d \in ToSet(accepted) THEN OnePlace(d) ELSE NoPlace(d))'
    <3>1. IF d \in ToSet(accepted) THEN OnePlace(d) ELSE NoPlace(d)
      BY <1>0 DEF PlaceInv
    <3>2. CASE d \in ToSet(buffers[k])
      <4>1. k \in InBuffers(d)
        BY <3>2 DEF InBuffers
      <4>2. /\ d \in ToSet(accepted) /\ InBuffers(d) = {k} /\ InHands(d) = {} /\ InDelivered(d) = {}
        BY <3>1, <4>1 DEF NoPlace, OnePlace
      <4>3. InWork(d)' = {1} /\ InBuffers(d)' = {} /\ InHands(d)' = {} /\ InDelivered(d)' = {}
        BY <1>4, <1>5, <1>7, <3>2, <4>2
      <4>4. d \in ToSet(accepted)' /\ 1 \in DOMAIN work'
        BY <1>1, <1>5, <3>2, <4>2
      <4> QED BY <4>3, <4>4 DEF OnePlace
    <3>3. CASE d \notin ToSet(buffers[k])
      <4>1. k \notin InBuffers(d)
        BY <3>3 DEF InBuffers
      <4>2. /\ InWork(d)' = {} /\ InBuffers(d)' = InBuffers(d)
            /\ InHands(d)' = InHands(d) /\ InDelivered(d)' = InDelivered(d) /\ InWork(d) = {}
        BY <1>4, <1>5, <1>7, <3>3, <4>1
      <4>3. UNCHANGED <<hands, delivered, accepted>>
        BY <1>1
      <4> QED BY <3>1, <4>2, <4>3 DEF OnePlace, NoPlace
    <3> QED BY <3>2, <3>3
  <2>2. \A j \in Keys : Once(buffers'[j])
    BY <1>0, <1>4, ShortHolds DEF PlaceInv
  <2>3. ~Debounce => \A j \in Keys : buffers'[j] = <<>>
    BY <1>0, <1>4 DEF PlaceInv
  <2> QED BY <1>0, <1>1, <1>5, <2>1, <2>2, <2>3 DEF PlaceInv
<1>9. OrderInv'
  <2> SUFFICES ASSUME NEW d \in Copies, NEW e \in Copies, After(d, e)'
               PROVE  /\ InBuffers(d)' # {} => InBuffers(e)' # {}
                      /\ \A i \in InWork(d)' : \E j \in InWork(e)' : i <= j
    BY DEF OrderInv
  <2>1. After(d, e) /\ KeyOf[d[1]] = KeyOf[e[1]]
    BY <1>2 DEF After
  <2>2. \A x \in Copies : InBuffers(x) \subseteq {KeyOf[x[1]]}
    BY <1>0 DEF PlaceInv, NoPlace, OnePlace
  <2>3. InBuffers(d) # {} => InBuffers(e) # {}
    BY <1>0, <2>1 DEF OrderInv
  <2>4. InBuffers(d)' # {} => InBuffers(e)' # {}
    BY <1>4, <2>1, <2>2, <2>3
  <2>5. ASSUME NEW i \in InWork(d)'
        PROVE  \E j \in InWork(e)' : i <= j
    <3>1. d \in ToSet(buffers[k]) /\ i = 1
      BY <1>5, <2>5
    <3>2. k \in InBuffers(d)
      BY <3>1 DEF InBuffers
    <3>3. e \in ToSet(buffers[k])
      BY <2>1, <2>2, <2>3, <3>2 DEF InBuffers
    <3> QED BY <1>5, <3>1, <3>3
  <2> QED BY <2>4, <2>5
<1> QED BY <1>2, <1>6, <1>8, <1>9 DEF InboundInv

\* So does a timer, whose goroutine then has the batch in its hands.
LEMMA TimerFlush_Inv ==
    ASSUME InboundInv, NEW k \in Keys, TimerFlush(k)
    PROVE  InboundInv'
<1> USE InboundAssumption
<1>0. TypeOK /\ PlaceInv /\ OrderInv
  BY DEF InboundInv
<1>1. /\ fired[k] > 0 /\ fired' = [fired EXCEPT ![k] = @ - 1]
      /\ TakeBuffer(k) /\ hands' = hands \cup ToSet(Batch(k))
      /\ UNCHANGED <<published, inbound, cacheVars, at, work, stopKeys, ctxDone,
                     accepted, delivered>>
  BY DEF TimerFlush
<1>2. CopiesInv' /\ CacheInv' /\ \A d, e : After(d, e)' => After(d, e)
  BY <1>1, NothingPasses
<1>3. buffers[k] \in Seq(Copies) /\ Once(buffers[k])
  BY <1>0 DEF TypeOK, PlaceInv
<1>4. /\ buffers' \in [Keys -> Seq(Copies)]
      /\ \A j \in timer' : j \in Keys /\ buffers'[j] # <<>>
      /\ \A d : InBuffers(d)' = InBuffers(d) \ {k}
      /\ buffers'[k] = <<>> /\ \A j \in Keys : j # k => buffers'[j] = buffers[j]
  BY <1>0, <1>1, TakenIs
<1>5. hands' = hands \cup (IF buffers[k] = <<>> THEN {} ELSE {buffers[k]})
  BY <1>1, ShortHolds DEF Batch
<1>6. TypeOK'
  <2>1. fired' \in [Keys -> Nat]
    BY <1>0, <1>1 DEF TypeOK
  <2> QED BY <1>0, <1>1, <1>3, <1>4, <1>5, <2>1 DEF TypeOK, cacheVars
<1>7. \A d : /\ InWork(d)' = InWork(d) /\ InDelivered(d)' = InDelivered(d)
             /\ InHands(d)' = InHands(d) \cup (IF d \in ToSet(buffers[k]) THEN {buffers[k]} ELSE {})
  <2> TAKE d
  <2>1. InWork(d)' = InWork(d) /\ InDelivered(d)' = InDelivered(d)
    BY <1>1 DEF InWork, InDelivered
  <2>2. d \in ToSet(buffers[k]) => buffers[k] # <<>>
    BY ShortHolds
  <2>3. InHands(d)' = InHands(d) \cup (IF d \in ToSet(buffers[k]) THEN {buffers[k]} ELSE {})
    BY <1>5, <2>2 DEF InHands
  <2> QED BY <2>1, <2>3
<1>8. PlaceInv'
  <2>1. ASSUME NEW d \in Copies
        PROVE  (IF d \in ToSet(accepted) THEN OnePlace(d) ELSE NoPlace(d))'
    <3>1. IF d \in ToSet(accepted) THEN OnePlace(d) ELSE NoPlace(d)
      BY <1>0 DEF PlaceInv
    <3>2. CASE d \in ToSet(buffers[k])
      <4>1. k \in InBuffers(d) /\ buffers[k] # <<>>
        BY <3>2, ShortHolds DEF InBuffers
      <4>2. /\ d \in ToSet(accepted) /\ InBuffers(d) = {k} /\ InHands(d) = {} /\ InDelivered(d) = {}
            /\ InWork(d) = {}
        BY <3>1, <4>1 DEF NoPlace, OnePlace
      <4>3. InHands(d)' = {buffers[k]} /\ InBuffers(d)' = {} /\ InWork(d)' = {} /\ InDelivered(d)' = {}
        BY <1>4, <1>7, <3>2, <4>2
      <4>4. d \in ToSet(accepted)' /\ buffers[k] \in hands'
        BY <1>1, <1>5, <4>1, <4>2
      <4> QED BY <4>3, <4>4 DEF OnePlace
    <3>3. CASE d \notin ToSet(buffers[k])
      <4>1. k \notin InBuffers(d)
        BY <3>3 DEF InBuffers
      <4>2. /\ InWork(d)' = InWork(d) /\ InBuffers(d)' = InBuffers(d)
            /\ InHands(d)' = InHands(d) /\ InDelivered(d)' = InDelivered(d)
        BY <1>4, <1>7, <3>3, <4>1
      <4>3. UNCHANGED <<work, delivered, accepted>> /\ hands \subseteq hands'
        BY <1>1, <1>5
      <4> QED BY <3>1, <4>2, <4>3 DEF OnePlace, NoPlace
    <3> QED BY <3>2, <3>3
  <2>2. \A j \in Keys : Once(buffers'[j])
    BY <1>0, <1>4, ShortHolds DEF PlaceInv
  <2>3. ~Debounce => \A j \in Keys : buffers'[j] = <<>>
    BY <1>0, <1>4 DEF PlaceInv
  <2>4. \A b \in hands' : Once(b)
    BY <1>0, <1>3, <1>5 DEF PlaceInv
  <2> QED BY <1>0, <1>1, <2>1, <2>2, <2>3, <2>4 DEF PlaceInv
<1>9. OrderInv'
  <2> SUFFICES ASSUME NEW d \in Copies, NEW e \in Copies, After(d, e)'
               PROVE  /\ InBuffers(d)' # {} => InBuffers(e)' # {}
                      /\ \A i \in InWork(d)' : \E j \in InWork(e)' : i <= j
    BY DEF OrderInv
  <2>1. After(d, e) /\ KeyOf[d[1]] = KeyOf[e[1]]
    BY <1>2 DEF After
  <2>2. \A x \in Copies : InBuffers(x) \subseteq {KeyOf[x[1]]}
    BY <1>0 DEF PlaceInv, NoPlace, OnePlace
  <2>3. /\ InBuffers(d) # {} => InBuffers(e) # {}
        /\ \A i \in InWork(d) : \E j \in InWork(e) : i <= j
    BY <1>0, <2>1 DEF OrderInv
  <2>4. InBuffers(d)' # {} => InBuffers(e)' # {}
    BY <1>4, <2>1, <2>2, <2>3
  <2> QED BY <1>7, <2>3, <2>4
<1> QED BY <1>2, <1>6, <1>8, <1>9 DEF InboundInv

\* A batch that is handed on arrives once.
LEMMA Arrives ==
    ASSUME TypeOK, NEW b \in Seq(Copies), Once(b), delivered' = delivered \o b
    PROVE  /\ delivered' \in Seq(Copies) /\ DOMAIN delivered \subseteq DOMAIN delivered'
           /\ \A d : d \notin ToSet(b) => InDelivered(d)' = InDelivered(d)
           /\ \A d : d \in ToSet(b) /\ InDelivered(d) = {} =>
                       \E i \in DOMAIN delivered' : InDelivered(d)' = {i}
<1>1. delivered \in Seq(Copies) /\ Len(delivered) \in Nat /\ Len(b) \in Nat
      /\ DOMAIN delivered = 1 .. Len(delivered) /\ DOMAIN b = 1 .. Len(b)
  BY DEF TypeOK
<1>2. /\ delivered' \in Seq(Copies) /\ Len(delivered') = Len(delivered) + Len(b)
      /\ \A i \in 1 .. Len(delivered) + Len(b) :
           delivered'[i] = IF i <= Len(delivered) THEN delivered[i] ELSE b[i - Len(delivered)]
  BY <1>1, ConcatProperties
<1>3. DOMAIN delivered' = 1 .. Len(delivered) + Len(b)
  BY <1>2
<1>4. /\ \A i \in DOMAIN delivered : i \in DOMAIN delivered' /\ delivered'[i] = delivered[i]
      /\ \A i \in DOMAIN delivered' \ DOMAIN delivered :
           i - Len(delivered) \in DOMAIN b /\ delivered'[i] = b[i - Len(delivered)]
      /\ \A j \in DOMAIN b : /\ Len(delivered) + j \in DOMAIN delivered' \ DOMAIN delivered
                             /\ delivered'[Len(delivered) + j] = b[j]
  <2>1. \A j \in DOMAIN b : /\ Len(delivered) + j \in 1 .. Len(delivered) + Len(b)
                            /\ ~(Len(delivered) + j <= Len(delivered))
                            /\ Len(delivered) + j - Len(delivered) = j
    BY <1>1
  <2>2. \A i \in DOMAIN delivered' \ DOMAIN delivered :
          i - Len(delivered) \in 1 .. Len(b) /\ ~(i <= Len(delivered))
    BY <1>1, <1>3
  <2> QED BY <1>1, <1>2, <1>3, <2>1, <2>2
<1>5. ASSUME NEW d, d \notin ToSet(b)
      PROVE  InDelivered(d)' = InDelivered(d)
  <2>1. \A j \in DOMAIN b : b[j] # d
    BY <1>5 DEF ToSet
  <2> QED BY <1>4, <2>1 DEF InDelivered
<1>6. ASSUME NEW d, d \in ToSet(b), InDelivered(d) = {}
      PROVE  \E i \in DOMAIN delivered' : InDelivered(d)' = {i}
  <2>1. PICK j \in DOMAIN b : b[j] = d
    BY <1>6 DEF ToSet
  <2>2. Len(delivered) + j \in InDelivered(d)'
    BY <1>4, <2>1 DEF InDelivered
  <2>3. ASSUME NEW i \in InDelivered(d)'
        PROVE  i = Len(delivered) + j
    <3>1. i \in DOMAIN delivered' \ DOMAIN delivered
      BY <1>4, <1>6, <2>3 DEF InDelivered
    <3>2. i - Len(delivered) \in DOMAIN b /\ b[i - Len(delivered)] = d
      BY <1>4, <2>3, <3>1 DEF InDelivered
    <3>3. i - Len(delivered) = j
      BY <2>1, <3>2 DEF Once
    <3>4. i \in Int /\ j \in Int
      BY <1>1, <1>3, <3>1
    <3> QED BY <1>1, <3>3, <3>4
  <2> QED BY <1>4, <2>1, <2>2, <2>3
<1> QED BY <1>2, <1>4, <1>5, <1>6

\* A timer's goroutine hands its batch on.
LEMMA TimerHandsOn_Inv ==
    ASSUME InboundInv, NEW b \in hands, TimerHandsOn(b)
    PROVE  InboundInv'
<1>0. TypeOK /\ PlaceInv /\ OrderInv
  BY DEF InboundInv
<1>1. /\ hands' = hands \ {b} /\ delivered' = delivered \o b
      /\ UNCHANGED <<published, inbound, cacheVars, bufferVars, fired, at, work,
                     stopKeys, ctxDone, accepted>>
  BY DEF TimerHandsOn
<1>2. CopiesInv' /\ CacheInv' /\ \A d, e : After(d, e)' => After(d, e)
  BY <1>1, NothingPasses
<1>3. b \in Seq(Copies) /\ Once(b)
  BY <1>0 DEF TypeOK, PlaceInv
<1>4. /\ delivered' \in Seq(Copies) /\ DOMAIN delivered \subseteq DOMAIN delivered'
      /\ \A d : d \notin ToSet(b) => InDelivered(d)' = InDelivered(d)
      /\ \A d : d \in ToSet(b) /\ InDelivered(d) = {} =>
                  \E i \in DOMAIN delivered' : InDelivered(d)' = {i}
  BY <1>0, <1>1, <1>3, Arrives
<1>5. TypeOK'
  BY <1>0, <1>1, <1>4 DEF TypeOK, cacheVars, bufferVars
<1>6. \A d : /\ InBuffers(d)' = InBuffers(d) /\ InWork(d)' = InWork(d)
             /\ InHands(d)' = InHands(d) \ {b}
  BY <1>1 DEF InBuffers, InWork, InHands, bufferVars
<1>7. PlaceInv'
  <2>1. ASSUME NEW d \in Copies
        PROVE  (IF d \in ToSet(accepted) THEN OnePlace(d) ELSE NoPlace(d))'
    <3>1. IF d \in ToSet(accepted) THEN OnePlace(d) ELSE NoPlace(d)
      BY <1>0 DEF PlaceInv
    <3>2. CASE d \in ToSet(b)
      <4>1. b \in InHands(d)
        BY <3>2 DEF InHands
      <4>2. /\ d \in ToSet(accepted) /\ InBuffers(d) = {} /\ InHands(d) = {b}
            /\ InWork(d) = {} /\ InDelivered(d) = {}
        BY <3>1, <4>1 DEF NoPlace, OnePlace
      <4>3. d \in ToSet(accepted)'
        BY <1>1, <4>2
      <4> QED BY <1>4, <1>6, <3>2, <4>2, <4>3 DEF OnePlace
    <3>3. CASE d \notin ToSet(b)
      <4>1. b \notin InHands(d)
        BY <3>3 DEF InHands
      <4>2. /\ InWork(d)' = InWork(d) /\ InBuffers(d)' = InBuffers(d)
            /\ InHands(d)' = InHands(d) /\ InDelivered(d)' = InDelivered(d)
        BY <1>4, <1>6, <3>3, <4>1
      <4>3. UNCHANGED <<work, accepted>> /\ InHands(d) \subseteq hands'
        BY <1>1, <4>1 DEF InHands
      <4> QED BY <1>4, <3>1, <4>2, <4>3 DEF OnePlace, NoPlace
    <3> QED BY <3>2, <3>3
  <2> QED BY <1>0, <1>1, <2>1 DEF PlaceInv, bufferVars
<1>8. OrderInv'
  BY <1>0, <1>2, <1>6 DEF OrderInv
<1> QED BY <1>2, <1>5, <1>7, <1>8 DEF InboundInv

\* The consumer hands its first batch on.
LEMMA HandOn_Inv ==
    ASSUME InboundInv, HandOn
    PROVE  InboundInv'
<1>0. TypeOK /\ PlaceInv /\ OrderInv
  BY DEF InboundInv
<1>1. /\ work # <<>> /\ delivered' = delivered \o Head(work) /\ work' = Tail(work)
      /\ at' = IF at = "deliver" /\ Tail(work) = <<>> THEN "recv" ELSE at
      /\ UNCHANGED <<published, inbound, cacheVars, bufferVars, fired, hands,
                     stopKeys, ctxDone, accepted>>
  BY DEF HandOn
<1>2. CopiesInv' /\ CacheInv' /\ \A d, e : After(d, e)' => After(d, e)
  BY <1>1, NothingPasses
<1>3. /\ work' \in Seq(Seq(Copies)) /\ Head(work) \in Seq(Copies) /\ Head(work) = work[1]
      /\ Len(work) \in Nat /\ DOMAIN work = 1 .. Len(work) /\ 1 \in DOMAIN work
      /\ DOMAIN work' = 1 .. Len(work) - 1
      /\ \A i \in DOMAIN work' : work'[i] = work[i + 1]
      /\ Once(Head(work))
  <2>1. work \in Seq(Seq(Copies))
    BY <1>0 DEF TypeOK
  <2>2. \A i \in DOMAIN work : Once(work[i])
    BY <1>0 DEF PlaceInv
  <2> QED BY <1>1, <2>1, <2>2, TailHolds
<1>4. /\ delivered' \in Seq(Copies) /\ DOMAIN delivered \subseteq DOMAIN delivered'
      /\ \A d : d \notin ToSet(Head(work)) => InDelivered(d)' = InDelivered(d)
      /\ \A d : d \in ToSet(Head(work)) /\ InDelivered(d) = {} =>
                  \E i \in DOMAIN delivered' : InDelivered(d)' = {i}
  BY <1>0, <1>1, <1>3, Arrives
<1>5. TypeOK'
  BY <1>0, <1>1, <1>3, <1>4 DEF TypeOK, cacheVars, bufferVars
<1>6. \A d : /\ InBuffers(d)' = InBuffers(d) /\ InHands(d)' = InHands(d)
             /\ d \in ToSet(Head(work)) <=> 1 \in InWork(d)
  BY <1>1, <1>3 DEF InBuffers, InHands, InWork, bufferVars
<1>7. \A d : /\ \A i \in InWork(d) : i # 1 => i - 1 \in InWork(d)' /\ i \in Int
             /\ \A i \in InWork(d)' : i + 1 \in InWork(d) /\ i \in Int /\ i + 1 # 1
  <2>1. \A i \in DOMAIN work : i # 1 => i - 1 \in DOMAIN work' /\ i \in Int /\ i - 1 + 1 = i
    BY <1>3
  <2>2. \A i \in DOMAIN work' : i + 1 \in DOMAIN work /\ i \in Int /\ i + 1 # 1
    BY <1>3
  <2> QED BY <1>3, <2>1, <2>2 DEF InWork
<1>8. PlaceInv'
  <2>1. ASSUME NEW d \in Copies
        PROVE  (IF d \in ToSet(accepted) THEN OnePlace(d) ELSE NoPlace(d))'
    <3>1. IF d \in ToSet(accepted) THEN OnePlace(d) ELSE NoPlace(d)
      BY <1>0 DEF PlaceInv
    <3>2. CASE 1 \in InWork(d)
      <4>1. /\ d \in ToSet(accepted) /\ InBuffers(d) = {} /\ InHands(d) = {}
            /\ InWork(d) = {1} /\ InDelivered(d) = {}
        BY <3>1, <3>2 DEF NoPlace, OnePlace
      <4>2. InWork(d)' = {}
        BY <1>7, <4>1
      <4>3. d \in ToSet(accepted)' /\ d \in ToSet(Head(work))
        BY <1>1, <1>6, <3>2, <4>1
      <4> QED BY <1>4, <1>6, <4>1, <4>2, <4>3 DEF OnePlace
    <3>3. CASE 1 \notin InWork(d)
      <4>1. InBuffers(d)' = InBuffers(d) /\ InHands(d)' = InHands(d) /\ InDelivered(d)' = InDelivered(d)
        BY <1>4, <1>6, <3>3
      <4>2. UNCHANGED <<hands, accepted>>
        BY <1>1
      <4>3. CASE InWork(d) = {}
        <5>1. InWork(d)' = {}
          BY <1>7, <4>3
        <5> QED BY <1>4, <3>1, <4>1, <4>2, <4>3, <5>1 DEF OnePlace, NoPlace
      <4>4. CASE InWork(d) # {}
        <5>1. PICK i \in DOMAIN work : InWork(d) = {i}
          BY <3>1, <4>4 DEF OnePlace, NoPlace
        <5>2. i - 1 \in InWork(d)' /\ i \in Int
          BY <1>7, <3>3, <5>1
        <5>3. \A j \in InWork(d)' : j = i - 1
          <6> TAKE j \in InWork(d)'
          <6>1. j + 1 = i /\ j \in Int
            BY <1>7, <5>1
          <6> QED BY <5>2, <6>1
        <5>4. InWork(d)' = {i - 1}
          BY <5>2, <5>3
        <5>5. i - 1 \in DOMAIN work'
          BY <5>2 DEF InWork
        <5>6. /\ d \in ToSet(accepted) /\ InBuffers(d) = {} /\ InHands(d) = {} /\ InDelivered(d) = {}
          BY <3>1, <4>4 DEF OnePlace, NoPlace
        <5> QED BY <4>1, <4>2, <5>4, <5>5, <5>6 DEF OnePlace
      <4> QED BY <4>3, <4>4
    <3> QED BY <3>2, <3>3
  <2>2. \A i \in DOMAIN work' : Once(work'[i])
    <3>1. \A i \in DOMAIN work' : i + 1 \in DOMAIN work
      BY <1>3
    <3> QED BY <1>0, <1>3, <3>1 DEF PlaceInv
  <2>3. at' \in {"recv", "stopped"} => work' = <<>>
    BY <1>0, <1>1 DEF PlaceInv
  <2> QED BY <1>0, <1>1, <2>1, <2>2, <2>3 DEF PlaceInv, bufferVars
<1>9. OrderInv'
  <2> SUFFICES ASSUME NEW d \in Copies, NEW e \in Copies, After(d, e)'
               PROVE  /\ InBuffers(d)' # {} => InBuffers(e)' # {}
                      /\ \A i \in InWork(d)' : \E j \in InWork(e)' : i <= j
    BY DEF OrderInv
  <2>1. /\ InBuffers(d) # {} => InBuffers(e) # {}
        /\ \A i \in InWork(d) : \E j \in InWork(e) : i <= j
    BY <1>0, <1>2 DEF OrderInv
  <2>2. ASSUME NEW i \in InWork(d)'
        PROVE  \E j \in InWork(e)' : i <= j
    <3>1. i + 1 \in InWork(d) /\ i \in Int
      BY <1>7
    <3>2. PICK j \in InWork(e) : i + 1 <= j
      BY <2>1, <3>1
    <3>3. i + 1 # 1 /\ i + 1 >= 1 /\ j \in Int
      BY <1>3, <1>7, <3>1, <3>2 DEF InWork
    <3>4. j # 1
      BY <3>1, <3>2, <3>3
    <3>5. j - 1 \in InWork(e)' /\ i <= j - 1
      BY <1>7, <3>1, <3>2, <3>3, <3>4
    <3> QED BY <3>5
  <2> QED BY <1>6, <2>1, <2>2
<1> QED BY <1>2, <1>5, <1>8, <1>9 DEF InboundInv
-----------------------------------------------------------------------------
(* The theorems. *)

\* Every step keeps the invariant.
LEMMA StepHolds == InboundInv /\ [Next]_vars => InboundInv'
<1> SUFFICES ASSUME InboundInv, [Next]_vars PROVE InboundInv'
  OBVIOUS
<1>1. CASE UNCHANGED vars
  <2>1. UNCHANGED <<published, inbound, seen, aged, forgot, buffers, timer, fired, hands, at, work,
                    stopKeys, ctxDone, accepted, delivered>>
    BY <1>1 DEF vars, cacheVars, bufferVars
  <2>2. TypeOK' /\ CopiesInv' /\ CacheInv'
    BY <2>1, CacheStays DEF InboundInv, TypeOK, CopiesInv, cacheVars
  <2>3. PlaceInv' /\ OrderInv'
    BY <2>1, PlacesStay DEF InboundInv
  <2> QED BY <2>2, <2>3 DEF InboundInv
<1>2. CASE ConsumerStep
  BY <1>2, Skip_Inv, HandleAtOnce_Inv, PushText_Inv, PushMedia_Inv, HandOn_Inv, Quiet_Inv,
     StopFlush_Inv DEF ConsumerStep
<1>3. CASE \E m \in Messages : Publish(m)
  BY <1>3, Publish_Inv
<1>4. CASE Expire
  BY <1>4, Expire_Inv
<1>5. CASE Cancel
  BY <1>5, Quiet_Inv
<1>6. CASE \E k \in Keys : TimerStep(k)
  BY <1>6, Quiet_Inv, TimerFlush_Inv DEF TimerStep
<1>7. CASE \E b \in hands : TimerHandsOn(b)
  BY <1>7, TimerHandsOn_Inv
<1> QED BY <1>1, <1>2, <1>3, <1>4, <1>5, <1>6, <1>7 DEF Next

\* Nothing that passed the cache is lost or processed twice, whichever of a
\* timer, a message with media and Stop takes a buffer; and a message passes
\* again only after its entry expired or was evicted: for any capacity of the
\* channel, any size of the cache, and any number of senders and copies.
THEOREM InboundDeliveredOnce == Spec => []DeliveredOnce
<1>1. InboundInv => DeliveredOnce
  <2> SUFFICES ASSUME InboundInv PROVE DeliveredOnce
    OBVIOUS
  <2>0. TypeOK /\ CacheInv /\ PlaceInv
    BY DEF InboundInv
  <2>1. ASSUME NEW c \in ToSet(accepted)
        PROVE  Places(c) = 1
    <3>1. c \in Copies
      BY <2>0 DEF TypeOK, ToSet
    <3>2. OnePlace(c)
      BY <2>0, <3>1 DEF PlaceInv
    <3>3. Cardinality({}) = 0 /\ \A x : Cardinality({x}) = 1
      BY FS_EmptySet, FS_Singleton
    <3>4. Places(c) = Cardinality(InBuffers(c)) + Cardinality(InHands(c))
                        + Cardinality(InWork(c)) + Cardinality(InDelivered(c))
      BY DEF Places, InBuffers, InHands, InWork, InDelivered
    <3>5. \/ /\ Cardinality(InBuffers(c)) = 1 /\ Cardinality(InHands(c)) = 0
             /\ Cardinality(InWork(c)) = 0 /\ Cardinality(InDelivered(c)) = 0
          \/ /\ Cardinality(InBuffers(c)) = 0 /\ Cardinality(InHands(c)) = 1
             /\ Cardinality(InWork(c)) = 0 /\ Cardinality(InDelivered(c)) = 0
          \/ /\ Cardinality(InBuffers(c)) = 0 /\ Cardinality(InHands(c)) = 0
             /\ Cardinality(InWork(c)) = 1 /\ Cardinality(InDelivered(c)) = 0
          \/ /\ Cardinality(InBuffers(c)) = 0 /\ Cardinality(InHands(c)) = 0
             /\ Cardinality(InWork(c)) = 0 /\ Cardinality(InDelivered(c)) = 1
      BY <3>2, <3>3 DEF OnePlace
    <3> QED BY <3>4, <3>5
  <2>2. ASSUME NEW m \in Messages \ NoId
        PROVE  Cardinality(PassedOf(m)) <= 1 + forgot[m]
    <3>1. Cardinality(PassedOf(m)) <= Allowed(m) /\ Cardinality(PassedOf(m)) \in Nat
      BY <2>0, PassedFinite DEF CacheInv
    <3>2. forgot[m] \in Nat
      BY <2>0 DEF TypeOK
    <3> QED BY <3>1, <3>2 DEF Allowed
  <2> QED BY <2>0, <2>1, <2>2 DEF DeliveredOnce, PassedOf
<1> QED BY <1>1, InitHolds, StepHolds, PTL DEF Spec

\* A message of a sender is not processed before an earlier one that is still
\* buffered or that the consumer holds; only a batch in the hands of a timer's
\* goroutine can be overtaken.
THEOREM InboundNoOvertaking == Spec => []NoOvertaking
<1>1. InboundInv => NoOvertaking
  <2> SUFFICES ASSUME InboundInv,
                      NEW c \in ToSet(delivered), NEW d \in ToSet(accepted),
                      KeyOf[c[1]] = KeyOf[d[1]], c[1] \notin Commands,
                      IndexOf(d) < IndexOf(c), d \notin ToSet(delivered)
               PROVE  \E b \in hands : d \in ToSet(b)
    BY DEF NoOvertaking
  <2>0. TypeOK /\ PlaceInv /\ OrderInv
    BY DEF InboundInv
  <2>1. c \in Copies /\ d \in Copies /\ InDelivered(c) # {} /\ InDelivered(d) = {}
    BY <2>0 DEF TypeOK, ToSet, InDelivered
  <2>2. /\ c \in ToSet(accepted) /\ OnePlace(c) /\ OnePlace(d)
        /\ InBuffers(c) = {} /\ InWork(c) = {}
    BY <2>0, <2>1 DEF PlaceInv, OnePlace, NoPlace
  <2>3. \A x \in ToSet(accepted) : IndexOf(x) \in DOMAIN accepted /\ accepted[IndexOf(x)] = x
    BY DEF ToSet, IndexOf
  <2>4. After(d, c)
    BY <2>2, <2>3 DEF After
  <2>5. InBuffers(d) = {} /\ InWork(d) = {}
    BY <2>0, <2>1, <2>2, <2>4 DEF OrderInv
  <2> QED BY <2>1, <2>2, <2>5 DEF OnePlace, InHands
<1> QED BY <1>1, InitHolds, StepHolds, PTL DEF Spec

\* What Stop has still to flush: a buffer that has anything in it belongs to a key
\* that Stop has read, and it returns when it has flushed them all.
StopInv ==
    /\ at \in {"stopping", "stopped"} => \A k \in Keys : buffers[k] # <<>> => k \in stopKeys
    /\ at = "stopped" => stopKeys = {}

\* Nothing is buffered any more once Stop has begun, and no timer fills a buffer.
LEMMA StopStep == InboundInv /\ StopInv /\ [Next]_vars => StopInv'
<1> SUFFICES ASSUME InboundInv, StopInv, [Next]_vars PROVE StopInv'
  OBVIOUS
<1>1. TypeOK
  BY DEF InboundInv
<1>2. ASSUME NEW k \in Keys, TakeBuffer(k)
      PROVE  \A j \in Keys : buffers'[j] # <<>> => j # k /\ buffers[j] # <<>>
  BY <1>1, <1>2 DEF TypeOK, TakeBuffer
<1>3. CASE UNCHANGED <<buffers, at, stopKeys>>
  BY <1>3 DEF StopInv
<1>4. ASSUME NEW c, HandleAtOnce(c) \/ PushMedia(c) PROVE StopInv'
  BY <1>4 DEF StopInv, HandleAtOnce, PushMedia
<1>5. ASSUME NEW c, PushText(c) PROVE StopInv'
  BY <1>5 DEF StopInv, PushText, Admitted, Received
<1>6. CASE HandOn
  BY <1>6 DEF StopInv, HandOn, bufferVars
<1>7. CASE StopConsuming
  BY <1>7 DEF StopInv, StopConsuming, bufferVars
<1>8. CASE StopReturns
  BY <1>8 DEF StopInv, StopReturns, bufferVars
<1>9. ASSUME NEW k \in Keys, StopFlush(k) PROVE StopInv'
  BY <1>2, <1>9 DEF StopInv, StopFlush
<1>10. ASSUME NEW k \in Keys, TimerFlush(k) PROVE StopInv'
  BY <1>2, <1>10 DEF StopInv, TimerFlush
<1>11. ASSUME \/ \E m \in Messages : Publish(m)
              \/ Expire \/ Cancel
              \/ \E c \in ToSet(inbound) : SkipDuplicate(c)
              \/ \E k \in Keys : TimerFires(k)
              \/ \E b \in hands : TimerHandsOn(b)
              \/ UNCHANGED vars
       PROVE  UNCHANGED <<buffers, at, stopKeys>>
  BY <1>11 DEF Publish, Expire, Cancel, SkipDuplicate, TimerFires, TimerHandsOn, vars, bufferVars
<1> QED
  BY <1>3, <1>4, <1>5, <1>6, <1>7, <1>8, <1>9, <1>10, <1>11 DEF Next, ConsumerStep, TimerStep

\* When the consumer has stopped, no buffer and no timer is left, and whatever passed
\* the cache has been processed, or is in the hands of a timer's goroutine that took
\* it before Stop could: the safety half of AcceptedIsDelivered (inbound_debounce.go
\* Stop, gateway_consumer.go).
THEOREM InboundStopLeavesNothing ==
    Spec => [](at = "stopped" =>
                 /\ \A k \in Keys : buffers[k] = <<>>
                 /\ timer = {}
                 /\ \A c \in ToSet(accepted) :
                      c \in ToSet(delivered) \/ \E b \in hands : c \in ToSet(b))
<1> DEFINE Left == at = "stopped" =>
                 /\ \A k \in Keys : buffers[k] = <<>>
                 /\ timer = {}
                 /\ \A c \in ToSet(accepted) :
                      c \in ToSet(delivered) \/ \E b \in hands : c \in ToSet(b)
<1>1. Init => StopInv
  BY DEF Init, StopInv
<1>2. InboundInv /\ StopInv => Left
  <2> SUFFICES ASSUME InboundInv, StopInv, at = "stopped"
               PROVE  /\ \A k \in Keys : buffers[k] = <<>>
                      /\ timer = {}
                      /\ \A c \in ToSet(accepted) :
                           c \in ToSet(delivered) \/ \E b \in hands : c \in ToSet(b)
    OBVIOUS
  <2>1. TypeOK /\ PlaceInv
    BY DEF InboundInv
  <2>2. \A k \in Keys : buffers[k] = <<>>
    BY DEF StopInv
  <2>3. timer = {}
    BY <2>1, <2>2 DEF TypeOK
  <2>4. ASSUME NEW c \in ToSet(accepted)
        PROVE  c \in ToSet(delivered) \/ \E b \in hands : c \in ToSet(b)
    <3>1. c \in Copies /\ OnePlace(c)
      BY <2>1 DEF TypeOK, ToSet, PlaceInv
    <3>2. InBuffers(c) = {}
      BY <2>2, ShortHolds DEF InBuffers
    <3>3. InWork(c) = {}
      BY <2>1 DEF PlaceInv, InWork
    <3>4. KeyOf[c[1]] \notin {}
      OBVIOUS
    <3>5. (\E b \in hands : b \in InHands(c)) \/ \E i \in DOMAIN delivered : i \in InDelivered(c)
      BY <3>1, <3>2, <3>3, <3>4 DEF OnePlace
    <3> QED BY <3>5 DEF InHands, InDelivered, ToSet
  <2> QED BY <2>2, <2>3, <2>4
<1> QED BY <1>1, <1>2, InitHolds, StepHolds, StopStep, PTL DEF Spec
=============================================================================
