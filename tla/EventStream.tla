----------------------------- MODULE EventStream -----------------------------
(***************************************************************************)
(* Events: what the server publishes after an operation (publishEvent,     *)
(* event_builder.go), the in-memory broker of a virtual app                *)
(* (virtual_app.go, Watermill's GoChannel) and the streams of              *)
(* EventService/Subscribe (connect.go).                                    *)
(*                                                                         *)
(* Each virtual app has a broker and a ConnectRPC transport of its own and *)
(* the server publishes the same messages to all of them; one virtual app  *)
(* is modelled.  The broker hands every message to a goroutine per         *)
(* subscriber; the goroutines of one subscriber take turns, in any order,  *)
(* each putting its message in the subscriber's channel and waiting for    *)
(* the acknowledgement.                                                    *)
(***************************************************************************)
EXTENDS Integers, Sequences, FiniteSets, SequencesExt

CONSTANTS
    Accounts,   \* account ids
    Requests,   \* requests the server may apply: [type, from, to]
    Nobody,     \* no account: the empty string
    Streams,    \* calls of Subscribe
    Subscriber, \* [Streams -> Accounts]: the account that signs each call
    Filter,     \* [Streams -> SUBSET EventType]: the types asked for, {} for all
    MaxEvents   \* bound: how many requests are applied

EventType ==
    {"Transfer", "Mint", "MintToken", "TransferToken", "AuthorizeTokenTransfer",
     "UnauthorizeTokenTransfer", "BurnToken", "ClawbackToken", "FreezeToken", "UnfreezeToken"}

ASSUME RequestAssumption ==
    /\ Nobody \notin Accounts
    /\ Requests \subseteq [type : EventType \cup {"AdminMint"},
                           from : Accounts \cup {Nobody}, to : Accounts \cup {Nobody}]
ASSUME StreamAssumption ==
    /\ Subscriber \in [Streams -> Accounts]
    /\ Filter \in [Streams -> SUBSET EventType]
ASSUME MaxEventsAssumption == MaxEvents \in Nat

VARIABLES
    log,        \* the requests applied so far
    outbox,     \* topics the current event still has to be published to
    active,     \* keys of Transport.activeSubscriptions
    stream,     \* where each Subscribe call is
    ctxDone,    \* the calls whose context is done
    subs,       \* the broker's subscribers
    waiting,    \* each subscriber's messages in goroutines waiting their turn
    channel,    \* each subscriber's output channel: a message, or << >>
    sent,       \* history: events sent on each open stream, by their place in the log
    opened,     \* history: how long the log was when the stream was opened
    closed      \* the broker is closed

vars == <<log, outbox, active, stream, ctxDone, subs, waiting, channel, sent, opened, closed>>
serverVars == <<log, outbox>>
brokerVars == <<subs, waiting, channel>>
streamVars == <<active, stream, ctxDone, sent, opened>>

Init ==
    /\ log = << >>
    /\ outbox = << >>
    /\ active = {}
    /\ stream = [s \in Streams |-> "idle"]
    /\ ctxDone = {}
    /\ subs = {}
    /\ waiting = [s \in Streams |-> {}]
    /\ channel = [s \in Streams |-> << >>]
    /\ sent = [s \in Streams |-> << >>]
    /\ opened = [s \in Streams |-> 0]
    /\ closed = FALSE

-----------------------------------------------------------------------------
(***************************************************************************)
(* The server.  extractEventInfo and BuildEvent make an event of every     *)
(* request in EventType and of no other one.                               *)
(***************************************************************************)

\* Mutant of HasEvent: unsigned requests are announced too.
EventForAdmin(req) == TRUE

HasEvent(req) == req.type \in EventType

\* The accounts of the event, in the order they are published to.
eventInvolvedAccounts(req) ==
    IF req.type \in {"Mint", "BurnToken"} THEN <<req.to>>
    ELSE IF req.type = "MintToken" /\ req.to = Nobody THEN <<req.from>>
    ELSE <<req.from, req.to>>

\* The ids of a request that has an event were parsed before it was sent.
ASSUME PartiesAssumption ==
    \A req \in Requests : req.type \in EventType => eventInvolvedAccounts(req) \in Seq(Accounts)

\* A request is handled and publishEvent begins.
Apply(req) ==
    /\ outbox = << >>
    /\ Len(log) < MaxEvents
    /\ log' = Append(log, req)
    /\ outbox' = IF HasEvent(req) THEN eventInvolvedAccounts(req) ELSE << >>
    /\ UNCHANGED <<streamVars, brokerVars, closed>>

\* A message is told apart by its event and how much of the outbox was left.
Message == [event |-> Len(log), left |-> Len(outbox)]

\* Mutant of Publish: every subscriber gets the message.
PublishToAll ==
    /\ outbox # << >>
    /\ outbox' = Tail(outbox)
    /\ waiting' = [s \in Streams |-> IF s \in subs THEN waiting[s] \cup {Message} ELSE waiting[s]]
    /\ UNCHANGED <<log, subs, channel, streamVars, closed>>

\* Publish to one topic; a closed broker returns an error, which is logged.
Publish ==
    /\ outbox # << >>
    /\ outbox' = Tail(outbox)
    /\ waiting' = [s \in Streams |->
                     IF ~closed /\ s \in subs /\ Subscriber[s] = Head(outbox)
                     THEN waiting[s] \cup {Message}
                     ELSE waiting[s]]
    /\ UNCHANGED <<log, subs, channel, streamVars, closed>>

-----------------------------------------------------------------------------
(***************************************************************************)
(* Subscribe.                                                              *)
(***************************************************************************)
\* Mutant of Register: an account may open a second stream.
RegisterAgain(s) ==
    /\ stream[s] = "idle"
    /\ active' = active \cup {Subscriber[s]}
    /\ stream' = [stream EXCEPT ![s] = "registered"]
    /\ UNCHANGED <<serverVars, brokerVars, ctxDone, sent, opened, closed>>

\* The guard: one active subscription per account.
Register(s) ==
    /\ stream[s] = "idle"
    /\ IF Subscriber[s] \in active
       THEN stream' = [stream EXCEPT ![s] = "returned"] /\ UNCHANGED active
       ELSE stream' = [stream EXCEPT ![s] = "registered"] /\ active' = active \cup {Subscriber[s]}
    /\ UNCHANGED <<serverVars, brokerVars, ctxDone, sent, opened, closed>>

\* Mutant of Subscribe: the initial response is sent before the broker knows of
\* the stream.
OpenBeforeSubscribe(s) ==
    \/ /\ stream[s] = "registered" /\ opened[s] = 0
       /\ stream' = [stream EXCEPT ![s] = "open"]
       /\ opened' = [opened EXCEPT ![s] = Len(log)]
       /\ UNCHANGED <<serverVars, brokerVars, active, ctxDone, sent, closed>>
    \/ /\ stream[s] = "open" /\ s \notin subs
       /\ subs' = subs \cup {s}
       /\ UNCHANGED <<serverVars, waiting, channel, streamVars, closed>>

\* wmSubscriber.Subscribe
Subscribe(s) ==
    /\ stream[s] = "registered"
    /\ subs' = IF closed THEN subs ELSE subs \cup {s}
    /\ stream' = [stream EXCEPT ![s] = IF closed THEN "leaving" ELSE "subscribed"]
    /\ UNCHANGED <<serverVars, waiting, channel, active, ctxDone, sent, opened, closed>>

\* The empty initial response; sending fails once the client is gone.
Open(s) ==
    /\ stream[s] = "subscribed"
    /\ IF s \in ctxDone
       THEN stream' = [stream EXCEPT ![s] = "leaving"] /\ UNCHANGED opened
       ELSE stream' = [stream EXCEPT ![s] = "open"] /\ opened' = [opened EXCEPT ![s] = Len(log)]
    /\ UNCHANGED <<serverVars, brokerVars, active, ctxDone, sent, closed>>

Passes(s, m) == Filter[s] = {} \/ log[m.event].type \in Filter[s]

\* A message is taken: filtered out and acknowledged; sent and acknowledged; or,
\* when the client is gone, rejected, and the call returns.
Forward(s) ==
    LET m == channel[s][1]
    IN  /\ stream[s] = "open"
        /\ channel[s] # << >>
        /\ IF Passes(s, m) /\ s \in ctxDone
           THEN stream' = [stream EXCEPT ![s] = "leaving"] /\ UNCHANGED <<sent, channel>>
           ELSE /\ sent' = [sent EXCEPT ![s] = IF Passes(s, m) THEN Append(@, m.event) ELSE @]
                /\ channel' = [channel EXCEPT ![s] = << >>]
                /\ UNCHANGED stream
        /\ UNCHANGED <<serverVars, subs, waiting, active, ctxDone, opened, closed>>

\* Mutant of EndOfStream: a closed channel is not noticed.
EndOnlyByContext(s) ==
    /\ stream[s] = "open"
    /\ s \in ctxDone
    /\ stream' = [stream EXCEPT ![s] = "leaving"]
    /\ UNCHANGED <<serverVars, brokerVars, active, ctxDone, sent, opened, closed>>

\* case <-ctx.Done(), or the channel is closed and empty
EndOfStream(s) ==
    /\ stream[s] = "open"
    /\ s \in ctxDone \/ (s \notin subs /\ channel[s] = << >>)
    /\ stream' = [stream EXCEPT ![s] = "leaving"]
    /\ UNCHANGED <<serverVars, brokerVars, active, ctxDone, sent, opened, closed>>

\* The deferred delete; a call that has returned has its context cancelled.  A
\* channel that neither the call nor the broker knows any more is garbage, and
\* the history of the stream is dropped.
Return(s) ==
    /\ stream[s] = "leaving"
    /\ active' = active \ {Subscriber[s]}
    /\ stream' = [stream EXCEPT ![s] = "returned"]
    /\ ctxDone' = ctxDone \cup {s}
    /\ channel' = [channel EXCEPT ![s] = IF s \in subs THEN @ ELSE << >>]
    /\ sent' = [sent EXCEPT ![s] = << >>]
    /\ opened' = [opened EXCEPT ![s] = 0]
    /\ UNCHANGED <<serverVars, subs, waiting, closed>>

\* The client goes away.
Disconnect(s) ==
    /\ stream[s] \in {"registered", "subscribed", "open"}
    /\ s \notin ctxDone
    /\ ctxDone' = ctxDone \cup {s}
    /\ UNCHANGED <<serverVars, brokerVars, active, stream, sent, opened, closed>>

-----------------------------------------------------------------------------
(***************************************************************************)
(* The broker.                                                             *)
(***************************************************************************)
\* A goroutine whose turn it is puts its message in the subscriber's channel.
\* It gives up its turn when the message is acknowledged; a rejected one is put
\* back, for a stream that reads no more.
Deliver(s) ==
    /\ s \in subs
    /\ channel[s] = << >>
    /\ \E m \in waiting[s] :
          /\ channel' = [channel EXCEPT ![s] = <<m>>]
          /\ waiting' = [waiting EXCEPT ![s] = @ \ {m}]
    /\ UNCHANGED <<serverVars, streamVars, subs, closed>>

\* The context is done or the broker closes: the subscriber is closed and
\* removed and its goroutines give up.  A message in its channel can be read.
Unsubscribe(s) ==
    /\ s \in subs
    /\ s \in ctxDone \/ closed
    /\ subs' = subs \ {s}
    /\ waiting' = [waiting EXCEPT ![s] = {}]
    /\ channel' = [channel EXCEPT ![s] = IF stream[s] = "returned" THEN << >> ELSE @]
    /\ UNCHANGED <<serverVars, streamVars, closed>>

\* VirtualApp.Stop
StopVirtualApp ==
    /\ ~closed
    /\ closed' = TRUE
    /\ UNCHANGED <<serverVars, streamVars, brokerVars>>

\* Everything has been applied and every call has returned.
Finished ==
    /\ Len(log) = MaxEvents
    /\ outbox = << >>
    /\ \A s \in Streams : stream[s] = "returned"
    /\ UNCHANGED vars

Call(s) == Register(s) \/ Subscribe(s) \/ Open(s) \/ Forward(s) \/ EndOfStream(s) \/ Return(s)

Next ==
    \/ \E req \in Requests : Apply(req)
    \/ Publish
    \/ \E s \in Streams : Call(s) \/ Disconnect(s) \/ Deliver(s) \/ Unsubscribe(s)
    \/ StopVirtualApp
    \/ Finished

\* Goroutines that can run do run; no request has to come, no client has to go.
Spec ==
    /\ Init /\ [][Next]_vars
    /\ WF_vars(Publish)
    /\ \A s \in Streams : WF_vars(Call(s)) /\ WF_vars(Deliver(s)) /\ WF_vars(Unsubscribe(s))

-----------------------------------------------------------------------------
\* Every variable keeps its type.
TypeOK ==
    /\ log \in Seq(Requests) /\ outbox \in Seq(Accounts)
    /\ active \in SUBSET Accounts
    /\ stream \in [Streams -> {"idle", "registered", "subscribed", "open", "leaving", "returned"}]
    /\ ctxDone \in SUBSET Streams /\ subs \in SUBSET Streams
    /\ \A s \in Streams :
          /\ \A m \in waiting[s] \cup Range(channel[s]) : m.event \in DOMAIN log
          /\ Len(channel[s]) <= 1
          /\ \A i \in DOMAIN sent[s] : sent[s][i] \in DOMAIN log
          /\ opened[s] \in 0 .. Len(log)
    /\ closed \in BOOLEAN

Holding(s) == stream[s] \in {"registered", "subscribed", "open", "leaving"}

\* activeSubscriptions holds exactly the accounts with a call in progress, and
\* no account has two: a call that was rejected or that failed half way neither
\* keeps the account locked out nor lets a second stream in.
OneStreamPerAccount ==
    /\ active = {Subscriber[s] : s \in {x \in Streams : Holding(x)}}
    /\ \A s, x \in Streams : Holding(s) /\ Holding(x) /\ Subscriber[s] = Subscriber[x] => s = x

Wants(s, n) ==
    /\ HasEvent(log[n])
    /\ Filter[s] = {} \/ log[n].type \in Filter[s]

Involves(s, n) == \E i \in DOMAIN eventInvolvedAccounts(log[n]) :
                     eventInvolvedAccounts(log[n])[i] = Subscriber[s]

\* A stream carries only events of its own account that it asked for, and none
\* more often than the event names the account: a rejected message or an old
\* subscription does not make it appear again.
RoutedOnce ==
    \A s \in Streams : \A n \in DOMAIN log :
        LET times == Cardinality({i \in DOMAIN sent[s] : sent[s][i] = n})
            named == Cardinality({i \in DOMAIN eventInvolvedAccounts(log[n]) :
                                     eventInvolvedAccounts(log[n])[i] = Subscriber[s]})
        IN  times <= IF Wants(s, n) THEN named ELSE 0

\* bench-grpc-report.md, 7.1: the initial response tells the client that it may
\* go on.  An event applied after it reaches the stream, unless the client goes
\* away or the virtual app is stopped.
NothingMissed ==
    \A s \in Streams, n \in 1 .. MaxEvents :
        (/\ stream[s] = "open" /\ n \in DOMAIN log /\ opened[s] < n
         /\ Wants(s, n) /\ Involves(s, n))
        ~> (n \in Range(sent[s]) \/ s \in ctxDone \/ closed)

\* A call that has lost its client or its broker returns, and the account can
\* subscribe again.
StreamEnds == \A s \in Streams : (Holding(s) /\ (s \in ctxDone \/ closed)) ~> stream[s] = "returned"
=============================================================================
