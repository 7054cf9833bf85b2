------------------------- MODULE EventStreamProofs --------------------------
(***************************************************************************)
(* Theorems about the event streams, for any accounts, requests, streams   *)
(* and filters.                                                            *)
(*                                                                         *)
(* That an event does not appear on a stream more often than it names the  *)
(* account is a matter of counting: what was sent and what is still on its *)
(* way are together no more than the topics the event has been published   *)
(* to (Counted).  It needs every message to be a new one when published,   *)
(* and to be in one place only.                                            *)
(***************************************************************************)
EXTENDS EventStream, FiniteSetTheorems, TLAPS

Msg == [event : Nat, left : Nat]

\* The types of all variables; TypeOK follows with MessagesFresh.
StreamTypes ==
    /\ log \in Seq(Requests) /\ outbox \in Seq(Accounts)
    /\ active \in SUBSET Accounts
    /\ stream \in [Streams -> {"idle", "registered", "subscribed", "open", "leaving", "returned"}]
    /\ ctxDone \in SUBSET Streams /\ subs \in SUBSET Streams
    /\ closed \in BOOLEAN
    /\ \A s \in Streams : Len(channel[s]) <= 1 /\ opened[s] <= Len(log)
    /\ waiting \in [Streams -> SUBSET Msg]
    /\ channel \in [Streams -> Seq(Msg)]
    /\ sent \in [Streams -> Seq(Nat)]
    /\ opened \in [Streams -> Nat]

Topics(n) == eventInvolvedAccounts(log[n])

\* The topics still to be published to are the last ones of the newest event.
OutboxIsRest ==
    outbox # << >> =>
        /\ log # << >>
        /\ HasEvent(log[Len(log)])
        /\ Len(outbox) <= Len(Topics(Len(log)))
        /\ \A k \in 1 .. Len(outbox) :
              outbox[k] = Topics(Len(log))[Len(Topics(Len(log))) - Len(outbox) + k]

InBroker(s)    == waiting[s] \cup Range(channel[s])
OnItsWay(s, n) == {m \in InBroker(s) : m.event = n}
SentAs(s, n)   == {i \in DOMAIN sent[s] : sent[s][i] = n}
Named(s, n)    == {i \in DOMAIN Topics(n) : Topics(n)[i] = Subscriber[s]}
Published(s, n) ==
    {i \in Named(s, n) : n = Len(log) => i <= Len(Topics(n)) - Len(outbox)}

\* A message is of an event there was, older than what is still in the outbox, and
\* either waiting or in the channel; what was sent had been asked for.
MessagesFresh ==
    \A s \in Streams :
        /\ IsFiniteSet(waiting[s])
        /\ channel[s] # << >> => channel[s][1] \notin waiting[s]
        /\ \A m \in InBroker(s) : /\ m.event \in DOMAIN log
                                  /\ HasEvent(log[m.event])
                                  /\ m.event = Len(log) => m.left > Len(outbox)
        /\ \A i \in DOMAIN sent[s] : sent[s][i] \in DOMAIN log /\ Wants(s, sent[s][i])

Counted ==
    \A s \in Streams : \A n \in DOMAIN log :
        Cardinality(SentAs(s, n)) + Cardinality(OnItsWay(s, n)) <= Cardinality(Published(s, n))

EventInv ==
    StreamTypes /\ OneStreamPerAccount /\ OutboxIsRest /\ MessagesFresh /\ Counted

-----------------------------------------------------------------------------
\* A channel holds one message or none.
LEMMA ChannelRange ==
  /\ Range(<< >>) = {}
  /\ \A m : Range(<<m>>) = {m}
  /\ \A q \in Seq(Msg) : Len(q) <= 1 =>
        Range(q) = IF q = << >> THEN {} ELSE {q[1]}
<1>1. Range(<< >>) = {}
  BY DEF Range
<1>2. \A m : Range(<<m>>) = {m}
  BY DEF Range
<1>3. ASSUME NEW q \in Seq(Msg), Len(q) <= 1, q # << >> PROVE Range(q) = {q[1]}
  <2>0. Len(q) \in Nat \ {0}
    BY <1>3
  <2>1. Len(q) = 1 /\ DOMAIN q = 1 .. Len(q)
    BY <1>3, <2>0
  <2>2. DOMAIN q = {1}
    BY <2>1
  <2> QED
    BY <2>2 DEF Range
<1> QED
  BY <1>1, <1>2, <1>3

\* An event has one topic or two.
LEMMA TopicsShape ==
  \A req : /\ Len(eventInvolvedAccounts(req)) \in {1, 2}
           /\ DOMAIN eventInvolvedAccounts(req) = 1 .. Len(eventInvolvedAccounts(req))
<1>1. \A x : Len(<<x>>) = 1 /\ DOMAIN <<x>> = 1 .. 1
  OBVIOUS
<1>2. \A x, y : Len(<<x, y>>) = 2 /\ DOMAIN <<x, y>> = 1 .. 2
  OBVIOUS
<1>3. \A req : \/ \E x : eventInvolvedAccounts(req) = <<x>>
               \/ \E x, y : eventInvolvedAccounts(req) = <<x, y>>
  BY Zenon DEF eventInvolvedAccounts
<1> QED
  BY <1>1, <1>2, <1>3

\* The sets that are counted are finite.
LEMMA CountedFinite ==
  ASSUME EventInv, NEW s \in Streams, NEW n
  PROVE  /\ IsFiniteSet(InBroker(s)) /\ IsFiniteSet(OnItsWay(s, n))
         /\ IsFiniteSet(SentAs(s, n)) /\ IsFiniteSet(Named(s, n)) /\ IsFiniteSet(Published(s, n))
<1>1. IsFiniteSet(Range(channel[s]))
  <2>1. channel[s] \in Seq(Msg) /\ Len(channel[s]) <= 1
    BY DEF EventInv, StreamTypes
  <2>2. CASE channel[s] = << >>
    BY <2>2, ChannelRange, FS_EmptySet
  <2>3. CASE channel[s] # << >>
    <3>1. Range(channel[s]) = {channel[s][1]}
      BY <2>1, <2>3, ChannelRange
    <3> QED
      BY <3>1, FS_Singleton
  <2> QED
    BY <2>2, <2>3
<1>2. IsFiniteSet(InBroker(s))
  BY <1>1, FS_Union DEF EventInv, MessagesFresh, InBroker
<1>3. IsFiniteSet(OnItsWay(s, n))
  BY <1>2, FS_Subset DEF OnItsWay
<1>4. IsFiniteSet(SentAs(s, n))
  <2>1. DOMAIN sent[s] = 1 .. Len(sent[s]) /\ Len(sent[s]) \in Nat
    BY DEF EventInv, StreamTypes
  <2>2. IsFiniteSet(DOMAIN sent[s])
    BY <2>1, FS_Interval
  <2> QED
    BY <2>2, FS_Subset DEF SentAs
<1>5. IsFiniteSet(Named(s, n))
  <2>1. IsFiniteSet(DOMAIN Topics(n))
    BY TopicsShape, FS_Interval DEF Topics
  <2> QED
    BY <2>1, FS_Subset DEF Named
<1>6. IsFiniteSet(Published(s, n))
  BY <1>5, FS_Subset DEF Published
<1> QED
  BY <1>2, <1>3, <1>4, <1>5, <1>6

\* The invariant holds when the virtual app starts.
LEMMA EventInit == Init => EventInv
<1> SUFFICES ASSUME Init PROVE EventInv
  OBVIOUS
<1>1. StreamTypes
  <2>1. << >> \in Seq(Requests) /\ << >> \in Seq(Accounts) /\ << >> \in Seq(Msg) /\ << >> \in Seq(Nat)
        /\ Len(<< >>) = 0
    OBVIOUS
  <2>2. /\ waiting \in [Streams -> SUBSET Msg] /\ channel \in [Streams -> Seq(Msg)]
        /\ sent \in [Streams -> Seq(Nat)] /\ opened \in [Streams -> Nat]
        /\ \A s \in Streams : channel[s] = << >> /\ opened[s] = 0
    BY <2>1 DEF Init
  <2>3. stream \in [Streams -> {"idle", "registered", "subscribed", "open", "leaving", "returned"}]
    BY DEF Init
  <2>4. \A s \in Streams : Len(channel[s]) <= 1 /\ opened[s] <= Len(log)
    BY <2>1, <2>2 DEF Init
  <2>5. /\ log \in Seq(Requests) /\ outbox \in Seq(Accounts) /\ active \in SUBSET Accounts
        /\ ctxDone \in SUBSET Streams /\ subs \in SUBSET Streams /\ closed \in BOOLEAN
    BY <2>1 DEF Init
  <2> QED
    BY <2>2, <2>3, <2>4, <2>5 DEF StreamTypes
<1>2. OneStreamPerAccount
  BY DEF Init, OneStreamPerAccount, Holding
<1>3. OutboxIsRest /\ Counted
  BY DEF Init, OutboxIsRest, Counted
<1>4. MessagesFresh
  BY FS_EmptySet, ChannelRange DEF Init, MessagesFresh, InBroker
<1> QED
  BY <1>1, <1>2, <1>3, <1>4 DEF EventInv

\* An account is registered for the one call that holds it, from the guard of
\* Subscribe to its deferred delete.
LEMMA OneStreamNext ==
  ASSUME StreamTypes, OneStreamPerAccount, [Next]_vars
  PROVE  OneStreamPerAccount'
<1> USE DEF OneStreamPerAccount
<1>1. ASSUME UNCHANGED active, \A s \in Streams : Holding(s)' <=> Holding(s)
      PROVE  OneStreamPerAccount'
  BY <1>1
<1>2. ASSUME NEW s \in Streams, Register(s) PROVE OneStreamPerAccount'
  <2>1. CASE Subscriber[s] \in active
    <3>1. UNCHANGED active /\ stream' = [stream EXCEPT ![s] = "returned"] /\ stream[s] = "idle"
      BY <1>2, <2>1 DEF Register
    <3>2. \A x \in Streams : Holding(x)' <=> Holding(x)
      BY <3>1 DEF StreamTypes, Holding
    <3> QED
      BY <1>1, <3>1, <3>2
  <2>2. CASE Subscriber[s] \notin active
    <3>1. /\ active' = active \cup {Subscriber[s]}
          /\ stream' = [stream EXCEPT ![s] = "registered"] /\ stream[s] = "idle"
      BY <1>2, <2>2 DEF Register
    <3>2. \A x \in Streams : Holding(x)' <=> (x = s \/ Holding(x))
      BY <3>1 DEF StreamTypes, Holding
    <3> QED
      BY <2>2, <3>1, <3>2
  <2> QED
    BY <2>1, <2>2
<1>3. ASSUME NEW s \in Streams, Return(s) PROVE OneStreamPerAccount'
  <2>1. /\ active' = active \ {Subscriber[s]}
        /\ stream' = [stream EXCEPT ![s] = "returned"] /\ stream[s] = "leaving"
    BY <1>3 DEF Return
  <2>2. Holding(s) /\ \A x \in Streams : Holding(x)' <=> (x # s /\ Holding(x))
    BY <2>1 DEF StreamTypes, Holding
  <2> QED
    BY <2>1, <2>2
<1>4. ASSUME NEW s \in Streams, Subscribe(s) \/ Open(s) \/ Forward(s) \/ EndOfStream(s)
      PROVE  OneStreamPerAccount'
  <2>1. /\ UNCHANGED active
        /\ \A x \in Streams : Holding(x)' <=> Holding(x)
    BY <1>4 DEF Subscribe, Open, Forward, EndOfStream, StreamTypes, Holding
  <2> QED
    BY <1>1, <2>1
<1>5. CASE UNCHANGED <<active, stream>>
  BY <1>1, <1>5 DEF Holding
<1> QED
  BY <1>2, <1>3, <1>4, <1>5 DEF Next, Call, Apply, Publish, Disconnect, Deliver, Unsubscribe,
       StopVirtualApp, Finished, streamVars, vars

\* Types.
LEMMA StreamTypesNext ==
  ASSUME StreamTypes, OutboxIsRest, [Next]_vars
  PROVE  StreamTypes'
<1> USE DEF StreamTypes
<1>1. ASSUME NEW req \in Requests, Apply(req) PROVE StreamTypes'
  <2>1. log' \in Seq(Requests) /\ Len(log') = Len(log) + 1 /\ Len(log) \in Nat
    BY <1>1 DEF Apply
  <2>2. outbox' \in Seq(Accounts)
    BY <1>1, PartiesAssumption DEF Apply, HasEvent
  <2>3. UNCHANGED <<streamVars, brokerVars, closed>>
    BY <1>1 DEF Apply
  <2> QED
    BY <2>1, <2>2, <2>3 DEF streamVars, brokerVars
<1>2. CASE Publish
  <2>1. Len(log) \in Nat /\ Len(outbox) \in Nat
    OBVIOUS
  <2>2. Message \in Msg
    BY <2>1 DEF Message, Msg
  <2>3. outbox' \in Seq(Accounts)
    BY <1>2 DEF Publish
  <2>4. waiting' \in [Streams -> SUBSET Msg]
    BY <1>2, <2>2 DEF Publish
  <2> QED
    BY <1>2, <2>3, <2>4 DEF Publish, streamVars
<1>3. ASSUME NEW s \in Streams, Register(s) PROVE StreamTypes'
  <2>1. Subscriber[s] \in Accounts
    BY StreamAssumption
  <2>2. /\ active' \in SUBSET Accounts
        /\ stream' \in [Streams -> {"idle", "registered", "subscribed", "open", "leaving", "returned"}]
    BY <1>3, <2>1 DEF Register
  <2> QED
    BY <1>3, <2>2 DEF Register, serverVars, brokerVars
<1>4. ASSUME NEW s \in Streams, Subscribe(s) PROVE StreamTypes'
  BY <1>4 DEF Subscribe, serverVars
<1>5. ASSUME NEW s \in Streams, Open(s) PROVE StreamTypes'
  <2>1. Len(log) \in Nat
    OBVIOUS
  <2>2. /\ stream' \in [Streams -> {"idle", "registered", "subscribed", "open", "leaving", "returned"}]
        /\ opened' \in [Streams -> Nat]
        /\ \A x \in Streams : opened'[x] <= Len(log)
    <3>1. CASE s \in ctxDone
      BY <1>5, <3>1 DEF Open
    <3>2. CASE s \notin ctxDone
      <4>1. /\ opened' = [opened EXCEPT ![s] = Len(log)]
            /\ stream' = [stream EXCEPT ![s] = "open"]
        BY <1>5, <3>2 DEF Open
      <4>2. \A x \in Streams : opened'[x] \in Nat /\ opened'[x] <= Len(log)
        BY <2>1, <4>1
      <4> QED
        BY <2>1, <4>1, <4>2
    <3> QED
      BY <3>1, <3>2
  <2> QED
    BY <1>5, <2>2 DEF Open, serverVars, brokerVars
<1>6. ASSUME NEW s \in Streams, Forward(s) PROVE StreamTypes'
  <2>1. channel[s] # << >> /\ channel[s] \in Seq(Msg)
    BY <1>6 DEF Forward
  <2>2. Len(channel[s]) \in Nat \ {0}
    BY <2>1
  <2>3. channel[s][1] \in Msg
    BY <2>1, <2>2
  <2>4. channel[s][1].event \in Nat
    BY <2>3 DEF Msg
  <2>5. /\ channel' = channel \/ channel' = [channel EXCEPT ![s] = << >>]
        /\ \/ sent' = sent
           \/ sent' = [sent EXCEPT ![s] = Append(@, channel[s][1].event)]
        /\ stream' = stream \/ stream' = [stream EXCEPT ![s] = "leaving"]
    BY <1>6 DEF Forward
  <2>6. sent' \in [Streams -> Seq(Nat)]
    <3>1. sent[s] \in Seq(Nat)
      OBVIOUS
    <3>2. Append(sent[s], channel[s][1].event) \in Seq(Nat)
      BY <2>4, <3>1
    <3> QED
      BY <2>5, <3>2
  <2>7. /\ channel' \in [Streams -> Seq(Msg)]
        /\ \A x \in Streams : Len(channel'[x]) <= 1
    <3>1. << >> \in Seq(Msg) /\ Len(<< >>) <= 1
      OBVIOUS
    <3>2. CASE channel' = channel
      BY <3>2
    <3>3. CASE channel' = [channel EXCEPT ![s] = << >>]
      BY <3>1, <3>3
    <3> QED
      BY <2>5, <3>2, <3>3
  <2>8. stream' \in [Streams -> {"idle", "registered", "subscribed", "open", "leaving", "returned"}]
    BY <2>5
  <2> QED
    BY <1>6, <2>6, <2>7, <2>8 DEF Forward, serverVars
<1>7. ASSUME NEW s \in Streams, EndOfStream(s) PROVE StreamTypes'
  BY <1>7 DEF EndOfStream, serverVars, brokerVars
<1>8. ASSUME NEW s \in Streams, Return(s) PROVE StreamTypes'
  <2>1. Len(log) \in Nat
    OBVIOUS
  <2>2. /\ channel' \in [Streams -> Seq(Msg)] /\ sent' \in [Streams -> Seq(Nat)]
        /\ \A x \in Streams : Len(channel'[x]) <= 1
    BY <1>8 DEF Return
  <2> QED
    BY <1>8, <2>1, <2>2 DEF Return, serverVars
<1>9. ASSUME NEW s \in Streams, Disconnect(s) PROVE StreamTypes'
  BY <1>9 DEF Disconnect, serverVars, brokerVars
<1>10. ASSUME NEW s \in Streams, Deliver(s) PROVE StreamTypes'
  <2>1. PICK m \in waiting[s] : /\ channel' = [channel EXCEPT ![s] = <<m>>]
                                /\ waiting' = [waiting EXCEPT ![s] = @ \ {m}]
    BY <1>10 DEF Deliver
  <2>2. m \in Msg /\ <<m>> \in Seq(Msg) /\ Len(<<m>>) = 1
    BY <2>1
  <2>3. /\ channel' \in [Streams -> Seq(Msg)] /\ waiting' \in [Streams -> SUBSET Msg]
        /\ \A x \in Streams : Len(channel'[x]) <= 1
    BY <2>1, <2>2
  <2> QED
    BY <1>10, <2>3 DEF Deliver, serverVars, streamVars
<1>11. ASSUME NEW s \in Streams, Unsubscribe(s) PROVE StreamTypes'
  <2>1. /\ channel' \in [Streams -> Seq(Msg)] /\ waiting' \in [Streams -> SUBSET Msg]
        /\ \A x \in Streams : Len(channel'[x]) <= 1
    BY <1>11 DEF Unsubscribe
  <2> QED
    BY <1>11, <2>1 DEF Unsubscribe, serverVars, streamVars
<1>12. CASE StopVirtualApp
  BY <1>12 DEF StopVirtualApp, serverVars, streamVars, brokerVars
<1>13. CASE UNCHANGED vars
  BY <1>13 DEF vars
<1> QED
  BY <1>1, <1>2, <1>3, <1>4, <1>5, <1>6, <1>7, <1>8, <1>9, <1>10, <1>11, <1>12, <1>13
     DEF Next, Call, Finished

\* What holds of a step that neither applies a request nor publishes: no message
\* comes from nowhere, and a stream's history only loses or keeps what it has.
LEMMA Shrink ==
  ASSUME EventInv, StreamTypes', UNCHANGED <<log, outbox>>,
         \A s \in Streams : /\ waiting'[s] \subseteq InBroker(s)
                            /\ InBroker(s)' \subseteq InBroker(s)
                            /\ channel'[s] # << >> => channel'[s][1] \notin waiting'[s]
                            /\ sent'[s] = sent[s] \/ sent'[s] = << >>
  PROVE  MessagesFresh' /\ Counted'
<1>1. ASSUME NEW s \in Streams
      PROVE  /\ IsFiniteSet(waiting'[s])
             /\ \A m \in InBroker(s)' : /\ m.event \in DOMAIN log
                                        /\ HasEvent(log[m.event])
                                        /\ m.event = Len(log) => m.left > Len(outbox)
             /\ \A i \in DOMAIN sent'[s] : sent'[s][i] \in DOMAIN log /\ Wants(s, sent'[s][i])
  <2>1. IsFiniteSet(waiting'[s])
    BY CountedFinite, FS_Subset
  <2>2. \A m \in InBroker(s)' : /\ m.event \in DOMAIN log
                                /\ HasEvent(log[m.event])
                                /\ m.event = Len(log) => m.left > Len(outbox)
    BY DEF EventInv, MessagesFresh
  <2>3. CASE sent'[s] = sent[s]
    BY <2>1, <2>2, <2>3 DEF EventInv, MessagesFresh
  <2>4. CASE sent'[s] = << >>
    BY <2>1, <2>2, <2>4
  <2> QED
    BY <2>3, <2>4
<1>2. MessagesFresh'
  BY <1>1 DEF MessagesFresh, Wants
<1>3. ASSUME NEW s \in Streams, NEW n \in DOMAIN log
      PROVE  Cardinality(SentAs(s, n)') + Cardinality(OnItsWay(s, n)')
               <= Cardinality(Published(s, n)')
  <2>1. Published(s, n)' = Published(s, n)
    BY DEF Published, Named, Topics
  <2>2. OnItsWay(s, n)' \subseteq OnItsWay(s, n)
    BY DEF OnItsWay
  <2>3. SentAs(s, n)' \subseteq SentAs(s, n)
    <3>1. CASE sent'[s] = sent[s]
      BY <3>1 DEF SentAs
    <3>2. CASE sent'[s] = << >>
      BY <3>2 DEF SentAs
    <3> QED
      BY <3>1, <3>2
  <2>4. /\ Cardinality(OnItsWay(s, n)') <= Cardinality(OnItsWay(s, n))
        /\ Cardinality(SentAs(s, n)') <= Cardinality(SentAs(s, n))
        /\ IsFiniteSet(OnItsWay(s, n)') /\ IsFiniteSet(SentAs(s, n)')
    BY <2>2, <2>3, CountedFinite, FS_Subset
  <2>5. /\ Cardinality(OnItsWay(s, n)') \in Nat /\ Cardinality(OnItsWay(s, n)) \in Nat
        /\ Cardinality(SentAs(s, n)') \in Nat /\ Cardinality(SentAs(s, n)) \in Nat
        /\ Cardinality(Published(s, n)) \in Nat
    BY <2>4, CountedFinite, FS_CardinalityType
  <2>6. Cardinality(SentAs(s, n)) + Cardinality(OnItsWay(s, n)) <= Cardinality(Published(s, n))
    BY DEF EventInv, Counted
  <2> QED
    BY <2>1, <2>4, <2>5, <2>6
<1>4. Counted'
  BY <1>3 DEF Counted
<1> QED
  BY <1>2, <1>4

\* A message that is sent is no longer on its way.
LEMMA ForwardSends ==
  ASSUME EventInv, StreamTypes', UNCHANGED <<log, outbox, waiting>>,
         NEW s \in Streams, NEW m, channel[s] # << >>, m = channel[s][1], Passes(s, m),
         sent' = [sent EXCEPT ![s] = Append(@, m.event)],
         channel' = [channel EXCEPT ![s] = << >>]
  PROVE  MessagesFresh' /\ Counted'
<1>1. /\ channel[s] \in Seq(Msg) /\ Len(channel[s]) <= 1 /\ sent[s] \in Seq(Nat)
      /\ Len(sent[s]) \in Nat
  BY DEF EventInv, StreamTypes
<1>2. /\ InBroker(s) = waiting[s] \cup {m} /\ InBroker(s)' = waiting[s]
      /\ m \in InBroker(s) /\ m \notin waiting[s]
  <2>1. channel'[s] = << >>
    BY DEF EventInv, StreamTypes
  <2> QED
    BY <1>1, <2>1, ChannelRange DEF InBroker, EventInv, MessagesFresh
<1>3. \A x \in Streams : x # s => channel'[x] = channel[x] /\ sent'[x] = sent[x] /\ InBroker(x)' = InBroker(x)
  BY DEF EventInv, StreamTypes, InBroker
<1>4. m.event \in DOMAIN log /\ HasEvent(log[m.event]) /\ Wants(s, m.event) /\ m.event \in Nat
  <2>1. m.event \in DOMAIN log /\ HasEvent(log[m.event])
    BY <1>2 DEF EventInv, MessagesFresh
  <2> QED
    BY <2>1 DEF Passes, Wants, EventInv, StreamTypes
<1>5. /\ sent'[s] = Append(sent[s], m.event)
      /\ DOMAIN sent[s] = 1 .. Len(sent[s]) /\ DOMAIN sent'[s] = 1 .. Len(sent[s]) + 1
      /\ \A i \in 1 .. Len(sent[s]) : sent'[s][i] = sent[s][i]
      /\ sent'[s][Len(sent[s]) + 1] = m.event
  <2>1. sent'[s] = Append(sent[s], m.event)
    BY DEF EventInv, StreamTypes
  <2> QED
    BY <1>1, <1>4, <2>1
<1>6. \A i \in DOMAIN sent'[s] : sent'[s][i] \in DOMAIN log /\ Wants(s, sent'[s][i])
  <2>1. \A i \in DOMAIN sent[s] : sent[s][i] \in DOMAIN log /\ Wants(s, sent[s][i])
    BY DEF EventInv, MessagesFresh
  <2>2. \A i \in DOMAIN sent'[s] : i \in DOMAIN sent[s] \/ i = Len(sent[s]) + 1
    BY <1>1, <1>5
  <2> QED
    BY <1>4, <1>5, <2>1, <2>2
<1>7. MessagesFresh'
  <2> SUFFICES ASSUME NEW x \in Streams
               PROVE  /\ IsFiniteSet(waiting[x])
                      /\ channel'[x] # << >> => channel'[x][1] \notin waiting[x]
                      /\ \A k \in InBroker(x)' : /\ k.event \in DOMAIN log
                                                 /\ HasEvent(log[k.event])
                                                 /\ k.event = Len(log) => k.left > Len(outbox)
                      /\ \A i \in DOMAIN sent'[x] : sent'[x][i] \in DOMAIN log /\ Wants(x, sent'[x][i])
    BY DEF MessagesFresh, Wants
  <2>1. CASE x # s
    BY <1>3, <2>1 DEF EventInv, MessagesFresh
  <2>2. CASE x = s
    <3>1. channel'[s] = << >>
      BY DEF EventInv, StreamTypes
    <3> QED
      BY <1>2, <1>6, <2>2, <3>1 DEF EventInv, MessagesFresh
  <2> QED
    BY <2>1, <2>2
<1>8. ASSUME NEW x \in Streams, NEW n \in DOMAIN log
      PROVE  Cardinality(SentAs(x, n)') + Cardinality(OnItsWay(x, n)')
               <= Cardinality(Published(x, n)')
  <2>1. Published(x, n)' = Published(x, n)
    BY DEF Published, Named, Topics
  <2>2. Cardinality(SentAs(x, n)) + Cardinality(OnItsWay(x, n)) <= Cardinality(Published(x, n))
    BY DEF EventInv, Counted
  <2>3. CASE x # s \/ n # m.event
    <3>1. OnItsWay(x, n)' = OnItsWay(x, n)
      BY <1>2, <1>3, <2>3 DEF OnItsWay
    <3>2. SentAs(x, n)' = SentAs(x, n)
      BY <1>1, <1>3, <1>5, <2>3 DEF SentAs
    <3> QED
      BY <2>1, <2>2, <3>1, <3>2
  <2>4. CASE x = s /\ n = m.event
    <3>1. OnItsWay(s, n)' = OnItsWay(s, n) \ {m} /\ m \in OnItsWay(s, n)
      BY <1>2, <2>4 DEF OnItsWay
    <3>2. SentAs(s, n)' = SentAs(s, n) \cup {Len(sent[s]) + 1} /\ Len(sent[s]) + 1 \notin SentAs(s, n)
      BY <1>1, <1>5, <2>4 DEF SentAs
    <3>3. /\ Cardinality(OnItsWay(s, n)') = Cardinality(OnItsWay(s, n)) - 1
          /\ Cardinality(SentAs(s, n)') = Cardinality(SentAs(s, n)) + 1
      <4>1. IsFiniteSet(OnItsWay(s, n)) /\ IsFiniteSet(SentAs(s, n))
        BY CountedFinite
      <4>2. Cardinality(OnItsWay(s, n) \ {m}) = Cardinality(OnItsWay(s, n)) - 1
        BY <3>1, <4>1, FS_RemoveElement
      <4>3. Cardinality(SentAs(s, n) \cup {Len(sent[s]) + 1}) = Cardinality(SentAs(s, n)) + 1
        BY <3>2, <4>1, FS_AddElement
      <4> QED
        BY <3>1, <3>2, <4>2, <4>3
    <3>4. Cardinality(OnItsWay(s, n)) \in Nat /\ Cardinality(SentAs(s, n)) \in Nat
      BY CountedFinite, FS_CardinalityType
    <3> QED
      BY <2>1, <2>2, <2>4, <3>3, <3>4
  <2> QED
    BY <2>3, <2>4
<1>9. Counted'
  BY <1>8 DEF Counted
<1> QED
  BY <1>7, <1>9

\* A new event has been published nowhere and sent nowhere; the one before it has
\* been published to all its topics.
LEMMA ApplyStep ==
  ASSUME EventInv, StreamTypes', NEW req \in Requests, Apply(req)
  PROVE  OutboxIsRest' /\ MessagesFresh' /\ Counted'
<1>1. /\ log \in Seq(Requests) /\ Len(log) \in Nat /\ log' = Append(log, req)
      /\ Len(log') = Len(log) + 1
      /\ DOMAIN log = 1 .. Len(log) /\ DOMAIN log' = 1 .. Len(log) + 1
      /\ \A n \in DOMAIN log : n \in DOMAIN log' /\ log'[n] = log[n] /\ n # Len(log')
      /\ log'[Len(log')] = req
  BY DEF EventInv, StreamTypes, Apply
<1>2. UNCHANGED <<waiting, channel, sent>>
  BY DEF Apply, streamVars, brokerVars
<1>3. OutboxIsRest'
  <2>1. CASE HasEvent(req)
    <3>1. outbox' = eventInvolvedAccounts(req) /\ Topics(Len(log))' = eventInvolvedAccounts(req)
      BY <1>1, <2>1 DEF Apply, Topics
    <3>2. Len(outbox') \in Nat
      BY <3>1, TopicsShape
    <3>3. log' # << >>
      BY <1>1
    <3> QED
      BY <1>1, <2>1, <3>1, <3>2, <3>3 DEF OutboxIsRest
  <2>2. CASE ~HasEvent(req)
    BY <2>2 DEF Apply, OutboxIsRest
  <2> QED
    BY <2>1, <2>2
<1>4. MessagesFresh'
  <2> SUFFICES ASSUME NEW s \in Streams
               PROVE  /\ IsFiniteSet(waiting[s])
                      /\ channel[s] # << >> => channel[s][1] \notin waiting[s]
                      /\ \A m \in InBroker(s) : /\ m.event \in DOMAIN log'
                                                /\ HasEvent(log'[m.event])
                                                /\ m.event # Len(log')
                      /\ \A i \in DOMAIN sent[s] : sent[s][i] \in DOMAIN log' /\ Wants(s, sent[s][i])'
    BY <1>2 DEF MessagesFresh, InBroker
  <2>1. \A n \in DOMAIN log : Wants(s, n)' <=> Wants(s, n)
    BY <1>1 DEF Wants
  <2>2. /\ IsFiniteSet(waiting[s])
        /\ channel[s] # << >> => channel[s][1] \notin waiting[s]
        /\ \A m \in InBroker(s) : m.event \in DOMAIN log /\ HasEvent(log[m.event])
        /\ \A i \in DOMAIN sent[s] : sent[s][i] \in DOMAIN log /\ Wants(s, sent[s][i])
    BY DEF EventInv, MessagesFresh
  <2>3. \A n \in DOMAIN log : n \in DOMAIN log' /\ log'[n] = log[n] /\ n # Len(log')
    BY <1>1
  <2>4. \A i \in DOMAIN sent[s] : sent[s][i] \in DOMAIN log' /\ Wants(s, sent[s][i])'
    BY <1>2, <2>1, <2>2, <2>3
  <2> QED
    BY <2>2, <2>3, <2>4
<1>5. ASSUME NEW s \in Streams, NEW n \in DOMAIN log'
      PROVE  Cardinality(SentAs(s, n)) + Cardinality(OnItsWay(s, n)) <= Cardinality(Published(s, n)')
  <2>1. /\ IsFiniteSet(SentAs(s, n)) /\ IsFiniteSet(OnItsWay(s, n)) /\ IsFiniteSet(Published(s, n))
        /\ IsFiniteSet(Published(s, n)')
    <3>1. IsFiniteSet(DOMAIN Topics(n)')
      BY TopicsShape, FS_Interval DEF Topics
    <3>2. Published(s, n)' \subseteq DOMAIN Topics(n)'
      BY DEF Published, Named
    <3> QED
      BY <3>1, <3>2, CountedFinite, FS_Subset
  <2>2. CASE n \in DOMAIN log
    <3>1. Topics(n)' = Topics(n) /\ n # Len(log')
      BY <1>1, <2>2 DEF Topics
    <3>2. Published(s, n) \subseteq Published(s, n)'
      BY <3>1 DEF Published, Named
    <3>3. /\ Cardinality(Published(s, n)) <= Cardinality(Published(s, n)')
          /\ Cardinality(Published(s, n)) \in Nat /\ Cardinality(Published(s, n)') \in Nat
          /\ Cardinality(SentAs(s, n)) \in Nat /\ Cardinality(OnItsWay(s, n)) \in Nat
      BY <2>1, <3>2, FS_Subset, FS_CardinalityType
    <3>4. Cardinality(SentAs(s, n)) + Cardinality(OnItsWay(s, n)) <= Cardinality(Published(s, n))
      BY <2>2 DEF EventInv, Counted
    <3> QED
      BY <3>3, <3>4
  <2>3. CASE n \notin DOMAIN log
    <3>1. SentAs(s, n) = {} /\ OnItsWay(s, n) = {}
      BY <2>3 DEF SentAs, OnItsWay, EventInv, MessagesFresh
    <3>2. Cardinality(SentAs(s, n)) = 0 /\ Cardinality(OnItsWay(s, n)) = 0
      BY <3>1, FS_EmptySet
    <3>3. Cardinality(Published(s, n)') \in Nat
      BY <2>1, FS_CardinalityType
    <3> QED
      BY <3>2, <3>3
  <2> QED
    BY <2>2, <2>3
<1>6. Counted'
  BY <1>2, <1>5 DEF Counted, SentAs, OnItsWay, InBroker
<1> QED
  BY <1>3, <1>4, <1>6

\* Publishing to a topic puts one new message on its way to that topic's streams.
LEMMA PublishStep ==
  ASSUME EventInv, StreamTypes', Publish
  PROVE  OutboxIsRest' /\ MessagesFresh' /\ Counted'
<1> DEFINE N   == Len(log)
           T   == Topics(N)
           pos == Len(T) - Len(outbox) + 1
           M   == Message
           Gets(s) == ~closed /\ s \in subs /\ Subscriber[s] = Head(outbox)
<1>1. /\ outbox \in Seq(Accounts) /\ outbox # << >> /\ outbox' = Tail(outbox)
      /\ Len(outbox) \in Nat \ {0} /\ Len(outbox') = Len(outbox) - 1
      /\ Head(outbox) = outbox[1]
      /\ \A k \in 1 .. Len(outbox') : outbox'[k] = outbox[k + 1]
      /\ UNCHANGED <<log, channel, sent>>
  <2>1. outbox \in Seq(Accounts) /\ outbox # << >> /\ outbox' = Tail(outbox) /\ UNCHANGED <<log, channel, sent>>
    BY DEF EventInv, StreamTypes, Publish, streamVars
  <2>2. Len(outbox) \in Nat \ {0}
    BY <2>1
  <2> QED
    BY <2>1, <2>2
<1>2. /\ log # << >> /\ HasEvent(log[N]) /\ N \in Nat /\ N \in DOMAIN log /\ DOMAIN log = 1 .. N
      /\ Len(T) \in Nat /\ DOMAIN T = 1 .. Len(T) /\ Len(outbox) <= Len(T)
      /\ \A k \in 1 .. Len(outbox) : outbox[k] = T[Len(T) - Len(outbox) + k]
  <2>1. /\ log # << >> /\ HasEvent(log[N]) /\ Len(outbox) <= Len(T)
        /\ \A k \in 1 .. Len(outbox) : outbox[k] = T[Len(T) - Len(outbox) + k]
    BY <1>1 DEF EventInv, OutboxIsRest
  <2>2. N \in Nat \ {0} /\ DOMAIN log = 1 .. N
    BY <2>1 DEF EventInv, StreamTypes
  <2>3. Len(T) \in Nat /\ DOMAIN T = 1 .. Len(T)
    BY TopicsShape DEF Topics
  <2> QED
    BY <2>1, <2>2, <2>3
<1>3. M.event = N /\ M.left = Len(outbox)
  BY DEF Message
<1>4. \A s \in Streams : /\ waiting'[s] = IF Gets(s) THEN waiting[s] \cup {M} ELSE waiting[s]
                         /\ InBroker(s)' = IF Gets(s) THEN InBroker(s) \cup {M} ELSE InBroker(s)
  <2>1. \A s \in Streams : waiting'[s] = IF Gets(s) THEN waiting[s] \cup {M} ELSE waiting[s]
    BY DEF Publish
  <2> HIDE DEF Gets, M
  <2> QED
    BY <1>1, <2>1 DEF InBroker
<1>5. \A s \in Streams : M \notin InBroker(s)
  BY <1>1, <1>3 DEF EventInv, MessagesFresh
<1>6. T' = T /\ N' = N /\ UNCHANGED log
  BY <1>1 DEF Topics
<1>7. pos \in DOMAIN T /\ T[pos] = Head(outbox) /\ pos \in Nat
  BY <1>1, <1>2
<1> HIDE DEF M, Gets, pos
<1>8. OutboxIsRest'
  <2> SUFFICES ASSUME NEW k \in 1 .. Len(outbox') 
               PROVE  outbox'[k] = T[Len(T) - Len(outbox') + k]
    BY <1>1, <1>2, <1>6 DEF OutboxIsRest
  <2>1. k + 1 \in 1 .. Len(outbox) /\ Len(T) - Len(outbox') + k = Len(T) - Len(outbox) + (k + 1)
    BY <1>1, <1>2
  <2> QED
    BY <1>1, <1>2, <2>1
<1>9. MessagesFresh'
  <2> SUFFICES ASSUME NEW s \in Streams
               PROVE  /\ IsFiniteSet(waiting'[s])
                      /\ channel[s] # << >> => channel[s][1] \notin waiting'[s]
                      /\ \A m \in InBroker(s)' : /\ m.event \in DOMAIN log
                                                 /\ HasEvent(log[m.event])
                                                 /\ m.event = N => m.left > Len(outbox')
                      /\ \A i \in DOMAIN sent[s] : sent[s][i] \in DOMAIN log /\ Wants(s, sent[s][i])
    BY <1>1 DEF MessagesFresh, Wants
  <2>1. /\ IsFiniteSet(waiting[s])
        /\ channel[s] # << >> => channel[s][1] \notin waiting[s]
        /\ \A i \in DOMAIN sent[s] : sent[s][i] \in DOMAIN log /\ Wants(s, sent[s][i])
    BY DEF EventInv, MessagesFresh
  <2>2. IsFiniteSet(waiting'[s])
    <3>1. IsFiniteSet(waiting[s] \cup {M})
      BY <2>1, FS_AddElement
    <3>2. waiting'[s] \in {waiting[s], waiting[s] \cup {M}}
      BY <1>4
    <3> QED
      BY <2>1, <3>1, <3>2
  <2>3. channel[s] # << >> => channel[s][1] \in InBroker(s)
    <3>1. channel[s] \in Seq(Msg) /\ Len(channel[s]) <= 1
      BY DEF EventInv, StreamTypes
    <3> QED
      BY <3>1, ChannelRange DEF InBroker
  <2>4. channel[s] # << >> => channel[s][1] \notin waiting'[s]
    BY <1>4, <1>5, <2>1, <2>3
  <2>5. ASSUME NEW m \in InBroker(s)'
        PROVE  m.event \in DOMAIN log /\ HasEvent(log[m.event]) /\ (m.event = N => m.left > Len(outbox'))
    <3>1. CASE m = M
      BY <1>1, <1>2, <1>3, <3>1
    <3>2. CASE m \in InBroker(s)
      <4>1. m.event \in DOMAIN log /\ HasEvent(log[m.event]) /\ (m.event = N => m.left > Len(outbox))
        BY <3>2 DEF EventInv, MessagesFresh
      <4>2. m.left \in Nat
        <5>1. InBroker(s) \subseteq Msg
          BY ChannelRange DEF InBroker, EventInv, StreamTypes, Range
        <5> QED
          BY <3>2, <5>1 DEF Msg
      <4> QED
        BY <1>1, <4>1, <4>2
    <3> QED
      BY <1>4, <3>1, <3>2
  <2> QED
    BY <2>1, <2>2, <2>4, <2>5
<1>10. ASSUME NEW s \in Streams, NEW n \in DOMAIN log
       PROVE  Cardinality(SentAs(s, n)) + Cardinality(OnItsWay(s, n)') <= Cardinality(Published(s, n)')
  <2>1. /\ IsFiniteSet(SentAs(s, n)) /\ IsFiniteSet(OnItsWay(s, n)) /\ IsFiniteSet(Published(s, n))
    BY CountedFinite
  <2>2. Cardinality(SentAs(s, n)) + Cardinality(OnItsWay(s, n)) <= Cardinality(Published(s, n))
    BY DEF EventInv, Counted
  <2>3. /\ Topics(n)' = Topics(n) /\ Len(log') = N
        /\ Published(s, n)' = {i \in Named(s, n) : n = N => i <= Len(Topics(n)) - Len(outbox')}
    BY <1>1 DEF Published, Named, Topics
  <2>4. CASE n # N
    <3>1. OnItsWay(s, n)' = OnItsWay(s, n)
      BY <1>3, <1>4, <2>4 DEF OnItsWay
    <3>2. Published(s, n)' = Published(s, n)
      BY <2>3, <2>4 DEF Published
    <3> QED
      BY <2>2, <3>1, <3>2
  <2>5. CASE n = N
    <3>1. \A i \in DOMAIN T : i <= Len(T) - Len(outbox') <=> i <= Len(T) - Len(outbox) \/ i = pos
      BY <1>1, <1>2 DEF pos
    <3>2. CASE Gets(s)
      <4>1. OnItsWay(s, n)' = OnItsWay(s, n) \cup {M} /\ M \notin OnItsWay(s, n)
        BY <1>3, <1>4, <1>5, <2>5, <3>2 DEF OnItsWay
      <4>2. pos \in Named(s, n)
        BY <1>7, <2>5, <3>2 DEF Named, Gets
      <4>3. Published(s, n)' = Published(s, n) \cup {pos}
        BY <2>3, <2>5, <3>1, <4>2 DEF Published, Named
      <4>4. pos \notin Published(s, n)
        BY <1>1, <1>2, <2>5 DEF Published, pos
      <4>5. /\ Cardinality(OnItsWay(s, n) \cup {M}) = Cardinality(OnItsWay(s, n)) + 1
            /\ Cardinality(Published(s, n) \cup {pos}) = Cardinality(Published(s, n)) + 1
        BY <2>1, <4>1, <4>4, FS_AddElement
      <4>6. /\ Cardinality(SentAs(s, n)) \in Nat /\ Cardinality(OnItsWay(s, n)) \in Nat
            /\ Cardinality(Published(s, n)) \in Nat
        BY <2>1, FS_CardinalityType
      <4> QED
        BY <2>2, <4>1, <4>3, <4>5, <4>6
    <3>3. CASE ~Gets(s)
      <4>1. OnItsWay(s, n)' = OnItsWay(s, n)
        BY <1>4, <3>3 DEF OnItsWay
      <4>2. Published(s, n) \subseteq Published(s, n)'
        BY <2>3, <2>5, <3>1 DEF Published, Named
      <4>3. IsFiniteSet(Published(s, n)')
        <5>1. IsFiniteSet(Named(s, n)) /\ Published(s, n)' \subseteq Named(s, n)
          BY <2>3, CountedFinite
        <5> QED
          BY <5>1, FS_Subset
      <4>4. /\ Cardinality(Published(s, n)) <= Cardinality(Published(s, n)')
            /\ Cardinality(Published(s, n)) \in Nat /\ Cardinality(Published(s, n)') \in Nat
            /\ Cardinality(SentAs(s, n)) \in Nat /\ Cardinality(OnItsWay(s, n)) \in Nat
        BY <2>1, <4>2, <4>3, FS_Subset, FS_CardinalityType
      <4> QED
        BY <2>2, <4>1, <4>4
    <3> QED
      BY <3>2, <3>3
  <2> QED
    BY <2>4, <2>5
<1>11. Counted'
  BY <1>1, <1>10 DEF Counted, SentAs
<1> QED
  BY <1>8, <1>9, <1>11

\* Every step keeps the invariant.
LEMMA EventNext ==
  ASSUME EventInv, [Next]_vars
  PROVE  EventInv'
<1>1. StreamTypes' /\ OneStreamPerAccount'
  BY StreamTypesNext, OneStreamNext DEF EventInv
<1>2. SUFFICES OutboxIsRest' /\ MessagesFresh' /\ Counted'
  BY <1>1 DEF EventInv
<1>3. ASSUME UNCHANGED <<log, outbox>> PROVE OutboxIsRest'
  BY <1>3 DEF EventInv, OutboxIsRest, Topics
<1>4. ASSUME NEW s \in Streams
      PROVE  /\ channel[s] # << >> => channel[s][1] \notin waiting[s]
             /\ channel[s] \in Seq(Msg) /\ Len(channel[s]) <= 1
             /\ waiting[s] \subseteq InBroker(s) /\ Range(channel[s]) \subseteq InBroker(s)
  BY DEF EventInv, StreamTypes, MessagesFresh, InBroker
<1>5. ASSUME UNCHANGED <<log, outbox, waiting, channel>>,
             \A s \in Streams : sent'[s] = sent[s] \/ sent'[s] = << >>
      PROVE  OutboxIsRest' /\ MessagesFresh' /\ Counted'
  <2>1. \A s \in Streams : InBroker(s)' = InBroker(s)
    BY <1>5 DEF InBroker
  <2> QED
    BY <1>1, <1>3, <1>4, <1>5, <2>1, Shrink
<1>6. ASSUME NEW s \in Streams, UNCHANGED <<log, outbox>>,
             waiting' = waiting \/ waiting' = [waiting EXCEPT ![s] = {}],
             channel' = channel \/ channel' = [channel EXCEPT ![s] = << >>],
             \A x \in Streams : sent'[x] = sent[x] \/ sent'[x] = << >>
      PROVE  OutboxIsRest' /\ MessagesFresh' /\ Counted'
  <2>1. \A x \in Streams : /\ waiting'[x] \subseteq waiting[x]
                           /\ channel'[x] = channel[x] \/ channel'[x] = << >>
    BY <1>6 DEF EventInv, StreamTypes
  <2>2. \A x \in Streams : Range(channel'[x]) \subseteq Range(channel[x])
    BY <2>1, ChannelRange
  <2>3. \A x \in Streams : /\ waiting'[x] \subseteq InBroker(x)
                           /\ InBroker(x)' \subseteq InBroker(x)
                           /\ channel'[x] # << >> => channel'[x][1] \notin waiting'[x]
    BY <1>4, <2>1, <2>2 DEF InBroker
  <2> QED
    BY <1>1, <1>3, <1>6, <2>3, Shrink
<1>7. ASSUME NEW s \in Streams, Register(s) \/ Subscribe(s) \/ Open(s) \/ EndOfStream(s) \/ Disconnect(s)
      PROVE  OutboxIsRest' /\ MessagesFresh' /\ Counted'
  <2>1. UNCHANGED <<log, outbox, waiting, channel, sent>>
    BY <1>7 DEF Register, Subscribe, Open, EndOfStream, Disconnect, serverVars, brokerVars
  <2> QED
    BY <1>5, <2>1
<1>8. ASSUME NEW s \in Streams, Return(s) PROVE OutboxIsRest' /\ MessagesFresh' /\ Counted'
  <2>1. /\ UNCHANGED <<log, outbox, waiting>>
        /\ sent' = [sent EXCEPT ![s] = << >>]
    BY <1>8 DEF Return, serverVars
  <2>2. channel' = channel \/ channel' = [channel EXCEPT ![s] = << >>]
    <3>1. CASE s \in subs
      BY <1>8, <3>1 DEF Return, EventInv, StreamTypes
    <3>2. CASE s \notin subs
      BY <1>8, <3>2 DEF Return
    <3> QED
      BY <3>1, <3>2
  <2>3. \A x \in Streams : sent'[x] = sent[x] \/ sent'[x] = << >>
    BY <2>1 DEF EventInv, StreamTypes
  <2> QED
    BY <1>6, <2>1, <2>2, <2>3
<1>9. ASSUME NEW s \in Streams, Unsubscribe(s) PROVE OutboxIsRest' /\ MessagesFresh' /\ Counted'
  <2>1. /\ UNCHANGED <<log, outbox, sent>>
        /\ waiting' = [waiting EXCEPT ![s] = {}]
    BY <1>9 DEF Unsubscribe, serverVars, streamVars
  <2>2. channel' = channel \/ channel' = [channel EXCEPT ![s] = << >>]
    <3>1. CASE stream[s] # "returned"
      BY <1>9, <3>1 DEF Unsubscribe, EventInv, StreamTypes
    <3>2. CASE stream[s] = "returned"
      BY <1>9, <3>2 DEF Unsubscribe
    <3> QED
      BY <3>1, <3>2
  <2> QED
    BY <1>6, <2>1, <2>2
<1>10. ASSUME NEW s \in Streams, Deliver(s) PROVE OutboxIsRest' /\ MessagesFresh' /\ Counted'
  <2>1. PICK m \in waiting[s] : /\ channel' = [channel EXCEPT ![s] = <<m>>]
                                /\ waiting' = [waiting EXCEPT ![s] = @ \ {m}]
    BY <1>10 DEF Deliver
  <2>2. UNCHANGED <<log, outbox, sent>> /\ channel[s] = << >>
    BY <1>10 DEF Deliver, serverVars, streamVars
  <2>3. /\ channel'[s] = <<m>> /\ waiting'[s] = waiting[s] \ {m}
        /\ \A x \in Streams : x # s => channel'[x] = channel[x] /\ waiting'[x] = waiting[x]
    BY <2>1 DEF EventInv, StreamTypes
  <2>4. /\ <<m>>[1] = m /\ Range(channel'[s]) = {m}
    BY <2>3, ChannelRange
  <2>5. ASSUME NEW x \in Streams
        PROVE  /\ waiting'[x] \subseteq InBroker(x)
               /\ InBroker(x)' \subseteq InBroker(x)
               /\ channel'[x] # << >> => channel'[x][1] \notin waiting'[x]
    <3>1. CASE x = s
      <4>1. waiting'[s] \subseteq waiting[s] /\ InBroker(s)' = waiting'[s] \cup {m}
        BY <2>3, <2>4 DEF InBroker
      <4>2. channel'[s][1] = m /\ m \notin waiting'[s]
        BY <2>3, <2>4
      <4> QED
        BY <1>4, <2>1, <3>1, <4>1, <4>2
    <3>2. CASE x # s
      <4>1. channel'[x] = channel[x] /\ waiting'[x] = waiting[x] /\ InBroker(x)' = InBroker(x)
        BY <2>3, <3>2 DEF InBroker
      <4> QED
        BY <1>4, <4>1
    <3> QED
      BY <3>1, <3>2
  <2> QED
    BY <1>1, <1>3, <2>2, <2>5, Shrink
<1>11. ASSUME NEW s \in Streams, Forward(s) PROVE OutboxIsRest' /\ MessagesFresh' /\ Counted'
  <2>1. UNCHANGED <<log, outbox, waiting>> /\ channel[s] # << >>
    BY <1>11 DEF Forward, serverVars
  <2>2. CASE Passes(s, channel[s][1]) /\ s \in ctxDone
    <3>1. UNCHANGED <<sent, channel>>
      BY <1>11, <2>2 DEF Forward
    <3> QED
      BY <1>5, <2>1, <3>1
  <2>3. CASE Passes(s, channel[s][1]) /\ s \notin ctxDone
    <3>1. /\ sent' = [sent EXCEPT ![s] = Append(@, channel[s][1].event)]
          /\ channel' = [channel EXCEPT ![s] = << >>]
      BY <1>11, <2>3 DEF Forward
    <3>2. MessagesFresh' /\ Counted'
      BY <1>1, <2>1, <2>3, <3>1, ForwardSends
    <3> QED
      BY <1>3, <2>1, <3>2
  <2>4. CASE ~Passes(s, channel[s][1])
    <3>1. sent' = [sent EXCEPT ![s] = @] /\ channel' = [channel EXCEPT ![s] = << >>]
      BY <1>11, <2>4 DEF Forward
    <3>2. \A x \in Streams : sent'[x] = sent[x]
      BY <3>1 DEF EventInv, StreamTypes
    <3> QED
      BY <1>6, <2>1, <3>1, <3>2
  <2> QED
    BY <2>2, <2>3, <2>4
<1>12. CASE StopVirtualApp \/ UNCHANGED vars
  <2>1. UNCHANGED <<log, outbox, waiting, channel, sent>>
    BY <1>12 DEF StopVirtualApp, vars, serverVars, brokerVars, streamVars
  <2> QED
    BY <1>5, <2>1
<1> QED
  BY <1>1, <1>7, <1>8, <1>9, <1>10, <1>11, <1>12, ApplyStep, PublishStep DEF Next, Call, Finished

\* The invariant of the event streams.
THEOREM EventInvariant == Spec => []EventInv
<1>1. EventInv /\ [Next]_vars => EventInv'
  BY EventNext
<1> QED
  BY EventInit, <1>1, PTL DEF Spec

\* Messages and histories refer to events that happened.
THEOREM EventTypeCorrect == Spec => []TypeOK
<1>1. EventInv => TypeOK
  <2> SUFFICES ASSUME EventInv PROVE TypeOK
    OBVIOUS
  <2>1. \A s \in Streams :
          /\ \A m \in waiting[s] \cup Range(channel[s]) : m.event \in DOMAIN log
          /\ \A i \in DOMAIN sent[s] : sent[s][i] \in DOMAIN log
    BY DEF EventInv, MessagesFresh, InBroker
  <2>2. \A s \in Streams : Len(channel[s]) <= 1 /\ opened[s] \in 0 .. Len(log)
    BY DEF EventInv, StreamTypes
  <2> QED
    BY <2>1, <2>2 DEF EventInv, StreamTypes, TypeOK
<1> QED
  BY EventInvariant, <1>1, PTL

\* activeSubscriptions holds exactly the accounts of the calls in progress: every
\* early return of Subscribe after the guard gives the account back, and no account
\* has two streams.
THEOREM OneSubscription == Spec => []OneStreamPerAccount
<1>1. EventInv => OneStreamPerAccount
  BY DEF EventInv
<1> QED
  BY EventInvariant, <1>1, PTL

\* A stream carries an event at most as often as the event names its account, and
\* not at all when the filter excludes it: rejection, redelivery and an old
\* subscription never repeat it, however many streams and events there are.
THEOREM RoutedAtMostOnce == Spec => []RoutedOnce
<1>1. ASSUME EventInv, NEW s \in Streams, NEW n \in DOMAIN log
      PROVE  Cardinality(SentAs(s, n)) <= IF Wants(s, n) THEN Cardinality(Named(s, n)) ELSE 0
  <2>1. /\ Cardinality(SentAs(s, n)) \in Nat /\ Cardinality(OnItsWay(s, n)) \in Nat
        /\ Cardinality(Published(s, n)) \in Nat /\ Cardinality(Named(s, n)) \in Nat
    BY <1>1, CountedFinite, FS_CardinalityType
  <2>2. Cardinality(SentAs(s, n)) + Cardinality(OnItsWay(s, n)) <= Cardinality(Published(s, n))
    BY <1>1 DEF EventInv, Counted
  <2>3. Cardinality(Published(s, n)) <= Cardinality(Named(s, n))
    <3>1. Published(s, n) \subseteq Named(s, n)
      BY DEF Published
    <3> QED
      BY <1>1, <3>1, CountedFinite, FS_Subset
  <2>4. CASE Wants(s, n)
    BY <2>1, <2>2, <2>3, <2>4
  <2>5. CASE ~Wants(s, n)
    <3>1. SentAs(s, n) = {}
      BY <1>1, <2>5 DEF SentAs, EventInv, MessagesFresh
    <3> QED
      BY <2>5, <3>1, FS_EmptySet
  <2> QED
    BY <2>4, <2>5
<1>2. EventInv => RoutedOnce
  BY <1>1 DEF RoutedOnce, SentAs, Named, Topics
<1> QED
  BY EventInvariant, <1>2, PTL
=============================================================================
