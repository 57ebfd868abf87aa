------------------------------ MODULE Inbound ------------------------------
(* The way of a channel's message to the scheduler: the buffered inbound      *)
(* channel of the message bus (internal/bus/bus.go), the consumer loop        *)
(* (cmd/gateway_consumer.go), its de-duplication cache                        *)
(* (internal/bus/dedupe.go) and the debouncer that merges rapid messages of   *)
(* one sender (internal/bus/inbound_debounce.go).                             *)
(*                                                                            *)
(* A message may be published more than once (a webhook is retried): a copy   *)
(* is a message with a number.  Time is left out: a pending timer may fire at *)
(* any moment, a cache entry may pass its TTL at any moment, oldest first.    *)
(* processNormalMessage is one step, taken when it reaches the scheduler.     *)
EXTENDS Naturals, Sequences, FiniteSets, SequencesExt

CONSTANTS Messages,
          Keys,         \* debounceKey: channel, chat and sender
          KeyOf,        \* the key of each message
          MediaMsgs,    \* messages with media
          Commands,     \* /stop, /stopall and /reset
          NoId,         \* messages without a message_id
          BusCap,       \* the capacity of MessageBus.inbound
          CacheMax,     \* DedupeCache.maxSize
          Debounce,     \* debounceMs > 0
          MaxCopies     \* bound: how often each message is published

ASSUME InboundAssumption ==
    /\ KeyOf \in [Messages -> Keys]
    /\ MediaMsgs \subseteq Messages /\ Commands \subseteq Messages /\ NoId \subseteq Messages
    /\ MediaMsgs \cap Commands = {}
    /\ BusCap \in Nat \ {0} /\ CacheMax \in Nat \ {0}
    /\ MaxCopies \in [Messages -> Nat]
    /\ Debounce \in BOOLEAN

VARIABLES
    published,   \* how often each message was published
    inbound,     \* MessageBus.inbound
    seen,        \* the entries of the cache, oldest first
    aged,        \* how many of them are past their TTL
    buffers,     \* InboundDebouncer.buffers: the messages of each key
    timer,       \* the keys whose buffer has a running timer
    fired,       \* timers that fired and have not taken the mutex, per key
    hands,       \* batches that such timers took and have not handed on
    at,          \* where the consumer is
    work,        \* the batches it is handing on itself
    stopKeys,    \* the keys Stop has still to flush
    ctxDone,     \* the gateway's context is cancelled
    accepted,    \* history: the copies that passed the cache, in this order
    delivered,   \* history: the copies handed to processNormalMessage
    forgot       \* history: how often the cache forgot each message

cacheVars == <<seen, aged, forgot>>
bufferVars == <<buffers, timer>>
vars == <<published, inbound, cacheVars, bufferVars, fired, hands, at, work,
          stopKeys, ctxDone, accepted, delivered>>

Copies == UNION {{m} \X (1 .. MaxCopies[m]) : m \in Messages}

Init ==
    /\ published = [m \in Messages |-> 0]
    /\ inbound = <<>>
    /\ seen = <<>> /\ aged = 0 /\ forgot = [m \in Messages |-> 0]
    /\ buffers = [k \in Keys |-> <<>>] /\ timer = {}
    /\ fired = [k \in Keys |-> 0]
    /\ hands = {}
    /\ at = "recv" /\ work = <<>> /\ stopKeys = {}
    /\ ctxDone = FALSE
    /\ accepted = <<>> /\ delivered = <<>>
-----------------------------------------------------------------------------
(* The bus and the cache. *)

\* PublishInbound blocks while the channel is full.
Publish(m) ==
    /\ published[m] < MaxCopies[m]
    /\ Len(inbound) < BusCap
    /\ published' = [published EXCEPT ![m] = @ + 1]
    /\ inbound' = Append(inbound, <<m, published[m] + 1>>)
    /\ UNCHANGED <<cacheVars, bufferVars, fired, hands, at, work, stopKeys,
                   ctxDone, accepted, delivered>>

Live == SubSeq(seen, aged + 1, Len(seen))

\* Mutated: only the newest entry is compared.
IsDuplicate_Newest(m) == m \notin NoId /\ Live # <<>> /\ Last(Live) = m

IsDuplicate(m) == m \notin NoId /\ m \in ToSet(Live)

\* IsDuplicate of a new message: cleanup drops what is past its TTL and, at
\* maxSize, an entry that the map's iteration happens to give.
Record(m) ==
    IF m \in NoId THEN UNCHANGED cacheVars
    ELSE /\ aged' = 0
         /\ IF Len(Live) < CacheMax
            THEN seen' = Append(Live, m) /\ UNCHANGED forgot
            ELSE \E i \in DOMAIN Live :
                   /\ seen' = Append(RemoveAt(Live, i), m)
                   /\ forgot' = [forgot EXCEPT ![Live[i]] = @ + 1]

Expire ==
    /\ aged < Len(seen)
    /\ aged' = aged + 1
    /\ forgot' = [forgot EXCEPT ![seen[aged + 1]] = @ + 1]
    /\ UNCHANGED <<published, inbound, seen, bufferVars, fired, hands, at, work,
                   stopKeys, ctxDone, accepted, delivered>>
-----------------------------------------------------------------------------
(* The consumer loop. *)

\* The next message of the bus, in the consumer's hands.  While the context
\* is cancelled the select of ConsumeInbound may still choose a message.
Received(c) == at = "recv" /\ inbound # <<>> /\ c = Head(inbound) /\ inbound' = Tail(inbound)

SkipDuplicate(c) ==
    /\ Received(c)
    /\ IsDuplicate(c[1])
    /\ UNCHANGED <<published, cacheVars, bufferVars, fired, hands, at, work,
                   stopKeys, ctxDone, accepted, delivered>>

Admitted(c) ==
    /\ Received(c)
    /\ ~IsDuplicate(c[1])
    /\ Record(c[1])
    /\ accepted' = Append(accepted, c)

\* Handled on the spot, ahead of what the debouncer still holds; with
\* debouncing off, so is every message.
HandleAtOnce(c) ==
    /\ Admitted(c)
    /\ c[1] \in Commands \/ ~Debounce
    /\ at' = "deliver" /\ work' = <<<<c>>>>
    /\ UNCHANGED <<published, bufferVars, fired, hands, stopKeys, ctxDone, delivered>>

\* Mutated: a timer that is already running is stopped and not started again.
PushText_NoRestart(c) ==
    LET k == KeyOf[c[1]] IN
    /\ Admitted(c)
    /\ Debounce /\ c[1] \notin Commands \cup MediaMsgs
    /\ buffers' = [buffers EXCEPT ![k] = Append(@, c)]
    /\ timer' = IF buffers[k] = <<>> THEN timer \cup {k} ELSE timer \ {k}
    /\ UNCHANGED <<published, fired, hands, at, work, stopKeys, ctxDone, delivered>>

\* Push of a text: it joins the buffer of its key, whose timer starts anew.
\* Stop has no effect on a timer that has fired.
PushText(c) ==
    LET k == KeyOf[c[1]] IN
    /\ Admitted(c)
    /\ Debounce /\ c[1] \notin Commands \cup MediaMsgs
    /\ buffers' = [buffers EXCEPT ![k] = Append(@, c)]
    /\ timer' = timer \cup {k}
    /\ UNCHANGED <<published, fired, hands, at, work, stopKeys, ctxDone, delivered>>

\* flushKey under the mutex: the buffer is taken and its timer stopped.
TakeBuffer(k) ==
    /\ buffers' = [buffers EXCEPT ![k] = <<>>]
    /\ timer' = timer \ {k}

Batch(k) == IF buffers[k] = <<>> THEN <<>> ELSE <<buffers[k]>>

\* Mutated: the buffered text is left for its timer.
PushMedia_NoFlush(c) ==
    /\ Admitted(c)
    /\ Debounce /\ c[1] \in MediaMsgs
    /\ at' = "deliver" /\ work' = <<<<c>>>>
    /\ UNCHANGED <<published, bufferVars, fired, hands, stopKeys, ctxDone, delivered>>

\* Push of a message with media: the consumer hands on the buffered text of
\* its key and then the message, and receives nothing meanwhile.
PushMedia(c) ==
    /\ Admitted(c)
    /\ Debounce /\ c[1] \in MediaMsgs
    /\ TakeBuffer(KeyOf[c[1]])
    /\ at' = "deliver" /\ work' = Append(Batch(KeyOf[c[1]]), <<c>>)
    /\ UNCHANGED <<published, fired, hands, stopKeys, ctxDone, delivered>>

\* flushFn, called by the consumer.
HandOn ==
    /\ work # <<>>
    /\ delivered' = delivered \o Head(work)
    /\ work' = Tail(work)
    /\ at' = IF at = "deliver" /\ Tail(work) = <<>> THEN "recv" ELSE at
    /\ UNCHANGED <<published, inbound, cacheVars, bufferVars, fired, hands,
                   stopKeys, ctxDone, accepted>>

Cancel ==
    /\ ~ctxDone
    /\ ctxDone' = TRUE
    /\ UNCHANGED <<published, inbound, cacheVars, bufferVars, fired, hands, at,
                   work, stopKeys, accepted, delivered>>

\* The deferred Stop reads which keys have a buffer and flushes them one by
\* one; timers fire meanwhile.
StopConsuming ==
    /\ at = "recv" /\ ctxDone
    /\ at' = "stopping"
    /\ stopKeys' = {k \in Keys : buffers[k] # <<>>}
    /\ UNCHANGED <<published, inbound, cacheVars, bufferVars, fired, hands, work,
                   ctxDone, accepted, delivered>>

StopFlush(k) ==
    /\ at = "stopping" /\ work = <<>>
    /\ k \in stopKeys
    /\ stopKeys' = stopKeys \ {k}
    /\ TakeBuffer(k)
    /\ work' = Batch(k)
    /\ UNCHANGED <<published, inbound, cacheVars, fired, hands, at, ctxDone,
                   accepted, delivered>>

StopReturns ==
    /\ at = "stopping" /\ work = <<>> /\ stopKeys = {}
    /\ at' = "stopped"
    /\ UNCHANGED <<published, inbound, cacheVars, bufferVars, fired, hands, work,
                   stopKeys, ctxDone, accepted, delivered>>
-----------------------------------------------------------------------------
(* The timers' goroutines. *)

TimerFires(k) ==
    /\ k \in timer
    /\ timer' = timer \ {k}
    /\ fired' = [fired EXCEPT ![k] = @ + 1]
    /\ UNCHANGED <<published, inbound, cacheVars, buffers, hands, at, work,
                   stopKeys, ctxDone, accepted, delivered>>

\* flushKey takes whatever buffer the key has by now: none, or one that is
\* younger than the timer.
TimerFlush(k) ==
    /\ fired[k] > 0
    /\ fired' = [fired EXCEPT ![k] = @ - 1]
    /\ TakeBuffer(k)
    /\ hands' = hands \cup ToSet(Batch(k))
    /\ UNCHANGED <<published, inbound, cacheVars, at, work, stopKeys, ctxDone,
                   accepted, delivered>>

TimerHandsOn(b) ==
    /\ b \in hands
    /\ hands' = hands \ {b}
    /\ delivered' = delivered \o b
    /\ UNCHANGED <<published, inbound, cacheVars, bufferVars, fired, at, work,
                   stopKeys, ctxDone, accepted>>
-----------------------------------------------------------------------------
ConsumerStep ==
    \/ \E c \in ToSet(inbound) : SkipDuplicate(c) \/ HandleAtOnce(c) \/ PushText(c) \/ PushMedia(c)
    \/ HandOn \/ StopConsuming \/ StopReturns
    \/ \E k \in Keys : StopFlush(k)

TimerStep(k) == TimerFires(k) \/ TimerFlush(k)

Next ==
    \/ \E m \in Messages : Publish(m)
    \/ ConsumerStep \/ Expire \/ Cancel
    \/ \E k \in Keys : TimerStep(k)
    \/ \E b \in hands : TimerHandsOn(b)

Spec == Init /\ [][Next]_vars

\* The consumer's goroutine and the timers' keep running; nobody is obliged
\* to publish, and the context need never be cancelled.
FairSpec ==
    /\ Spec
    /\ WF_vars(ConsumerStep)
    /\ \A k \in Keys : WF_vars(TimerFires(k)) /\ WF_vars(TimerFlush(k))
    /\ WF_vars(\E b \in hands : TimerHandsOn(b))
-----------------------------------------------------------------------------
TypeOK ==
    /\ published \in [Messages -> Nat] /\ \A m \in Messages : published[m] <= MaxCopies[m]
    /\ inbound \in Seq(Copies) /\ Len(inbound) <= BusCap
    /\ seen \in Seq(Messages) /\ Len(seen) <= CacheMax /\ aged \in 0 .. Len(seen)
    /\ buffers \in [Keys -> Seq(Copies)]
    /\ \A k \in timer : k \in Keys /\ buffers[k] # <<>>
    /\ fired \in [Keys -> Nat]
    /\ hands \subseteq Seq(Copies)
    /\ at \in {"recv", "deliver", "stopping", "stopped"}
    /\ work \in Seq(Seq(Copies))
    /\ stopKeys \subseteq Keys /\ ctxDone \in BOOLEAN
    /\ accepted \in Seq(Copies) /\ delivered \in Seq(Copies)
    /\ forgot \in [Messages -> Nat]

\* In how many places a copy is on its way or has arrived.
Places(c) ==
    Cardinality({k \in Keys : c \in ToSet(buffers[k])}) +
    Cardinality({b \in hands : c \in ToSet(b)}) +
    Cardinality({i \in DOMAIN work : c \in ToSet(work[i])}) +
    Cardinality({i \in DOMAIN delivered : delivered[i] = c})

\* The state is well typed.  Nothing that passed the cache is lost or processed
\* twice, whichever of the timer, a message with media and Stop takes a buffer;
\* and a retried message passes the cache again only after its entry expired or
\* was evicted.
DeliveredOnce ==
    /\ TypeOK
    /\ \A c \in ToSet(accepted) : Places(c) = 1
    /\ \A m \in Messages \ NoId :
         Cardinality({i \in DOMAIN accepted : accepted[i][1] = m}) <= 1 + forgot[m]

IndexOf(c) == CHOOSE i \in DOMAIN accepted : accepted[i] = c

\* Messages of one sender are processed in the order of their arrival, but
\* for a batch that a timer's goroutine has in its hands: no message arrives
\* before an earlier one that is still buffered or that the consumer holds.
NoOvertaking ==
    \A c \in ToSet(delivered), d \in ToSet(accepted) :
      /\ KeyOf[c[1]] = KeyOf[d[1]]
      /\ c[1] \notin Commands
      /\ IndexOf(d) < IndexOf(c)
      /\ d \notin ToSet(delivered)
      => \E b \in hands : d \in ToSet(b)

Arrived(n) == Len(accepted) >= n /\ accepted[n] \in ToSet(delivered)

\* A message that passed the cache reaches the scheduler, and when the
\* consumer has stopped none is left in a buffer ("graceful shutdown").
AcceptedIsDelivered ==
    /\ \A n \in 1 .. Cardinality(Copies) :
         Len(accepted) >= n ~> Arrived(n)
    /\ [](at = "stopped" => \A k \in Keys : buffers[k] = <<>>)
=============================================================================
