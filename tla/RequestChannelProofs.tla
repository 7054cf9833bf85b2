------------------------ MODULE RequestChannelProofs ------------------------
(***************************************************************************)
(* Theorems about the request channel, for any calls, nonces, capacity and *)
(* any number of run goroutines.                                           *)
(*                                                                         *)
(* What a caller is told can stay true only if its request is in one place *)
(* at a time: in the channel, with one goroutine, or done with.  That is   *)
(* the inductive invariant's core (Placed); the rest (Told, NoncesUsed)    *)
(* says what may be known of a request in each place.                      *)
(***************************************************************************)
EXTENDS RequestChannel, FiniteSetTheorems, TLAPS

Busy(r) == runner[r].at \in {"handling", "replying"}

\* A request is in one slot of the channel or with one goroutine, and only a
\* request that was sent is.
Placed ==
    /\ \A i, j \in 1 .. Len(queue) : queue[i] = queue[j] => i = j
    /\ \A i \in 1 .. Len(queue), r \in Runners : Busy(r) => runner[r].call # queue[i]
    /\ \A r, s \in Runners : Busy(r) /\ Busy(s) /\ runner[r].call = runner[s].call => r = s
    /\ \A r \in Runners : Busy(r) => /\ runner[r].call \in Calls
                                     /\ pc[runner[r].call] \notin {"idle", "sending"}
                                     /\ outcome[runner[r].call] # "unsent"
    /\ \A i \in 1 .. Len(queue) : /\ pc[queue[i]] \notin {"idle", "sending"}
                                  /\ outcome[queue[i]] # "unsent"

\* An answer, on its way or received, says what happened to the request, and
\* nothing more can happen to it.
Answers(c, v) ==
    /\ v = "ok" => c \in applied
    /\ v \in {"error", "shutdown", "unsent"} => c \notin applied
    /\ v \in Responses => /\ \A i \in 1 .. Len(queue) : queue[i] # c
                          /\ \A r \in Runners : Busy(r) => runner[r].call # c

Told ==
    /\ \A c \in Calls : Answers(c, respChan[c].buf) /\ Answers(c, outcome[c])
    /\ \A c \in Calls : pc[c] \in {"idle", "sending"} =>
          c \notin applied /\ outcome[c] = "none" /\ respChan[c].buf = "empty"
    /\ \A r \in Runners : runner[r].at = "handling" => runner[r].call \notin applied
    /\ \A r \in Runners : runner[r].at = "replying" =>
          /\ runner[r].resp \in {"ok", "error"}
          /\ runner[r].resp = "ok" <=> runner[r].call \in applied
    /\ \A i \in 1 .. Len(queue) : queue[i] \notin applied

\* The nonces used are the ones below the account's counter.
NoncesUsed ==
    /\ IsFiniteSet(applied)
    /\ \A c \in applied : Nonce[c] < nonce
    /\ AppliedOnce

ChannelInv ==
    /\ TypeOK
    /\ NoPendingLeak
    /\ Placed
    /\ Told
    /\ NoncesUsed

-----------------------------------------------------------------------------
\* Putting a request in the channel, and taking one out.
LEMMA QueueAppend ==
  ASSUME NEW q \in Seq(Calls), NEW c \in Calls
  PROVE  /\ Append(q, c) \in Seq(Calls)
         /\ Len(Append(q, c)) = Len(q) + 1
         /\ \A i \in 1 .. Len(q) : Append(q, c)[i] = q[i]
         /\ Append(q, c)[Len(q) + 1] = c
  OBVIOUS

\* Taking the oldest request out of the channel moves the others up by one.
LEMMA QueueTail ==
  ASSUME NEW q \in Seq(Calls), q # << >>
  PROVE  /\ Head(q) \in Calls /\ Head(q) = q[1]
         /\ Tail(q) \in Seq(Calls)
         /\ Len(q) \in Nat \ {0}
         /\ Len(Tail(q)) = Len(q) - 1
         /\ \A i \in 1 .. Len(q) - 1 : Tail(q)[i] = q[i + 1]
  OBVIOUS

\* The states of a run goroutine, as TypeOK has them.
RunnerState ==
    [at : {"off", "select", "handling", "replying", "draining", "exited"},
     call : Calls \cup {NoCall}, resp : Responses]

\* What a goroutine takes on, finds out and lets go of leaves its state well typed.
LEMMA RunnerUpdates ==
  ASSUME NEW s \in RunnerState
  PROVE  /\ \A c \in Calls : [s EXCEPT !.at = "handling", !.call = c] \in RunnerState
         /\ \A v \in {"ok", "error"} : [s EXCEPT !.at = "replying", !.resp = v] \in RunnerState
         /\ [s EXCEPT !.at = "select", !.call = NoCall] \in RunnerState
<1>1. \A c \in Calls : [s EXCEPT !.at = "handling", !.call = c] \in RunnerState
  BY DEF RunnerState
<1>2. \A v \in {"ok", "error"} : [s EXCEPT !.at = "replying", !.resp = v] \in RunnerState
  BY DEF RunnerState, Responses
<1>3. [s EXCEPT !.at = "select", !.call = NoCall] \in RunnerState
  BY DEF RunnerState
<1> QED
  BY <1>1, <1>2, <1>3

\* The invariant holds when the client and the server have been created.
LEMMA ChannelInit == Init => ChannelInv
<1> SUFFICES ASSUME Init PROVE ChannelInv
  OBVIOUS
<1>1. TypeOK
  <2>1. [at |-> "off", call |-> NoCall, resp |-> "error"] \in RunnerState
    BY DEF RunnerState, Responses
  <2>2. runner \in [Runners -> RunnerState]
    BY <2>1 DEF Init
  <2>3. respChan \in [Calls -> [buf : {"empty"} \cup Responses, closed : BOOLEAN]]
    BY DEF Init
  <2>4. queue \in Seq(Calls) /\ Len(queue) <= QueueCap
    BY QueueCapacity DEF Init
  <2>5. /\ pc \in [Calls -> {"idle", "sending", "waiting", "leaving", "returned"}]
        /\ outcome \in [Calls -> {"none", "unsent", "unanswered"} \cup Responses]
        /\ pending \in SUBSET Calls /\ applied \in SUBSET Calls
        /\ cancelled \in BOOLEAN /\ nonce \in Nat
    BY DEF Init
  <2> QED
    BY <2>2, <2>3, <2>4, <2>5 DEF TypeOK, RunnerState
<1>2. NoPendingLeak
  BY DEF Init, NoPendingLeak
<1>3. Placed /\ Told
  BY DEF Init, Placed, Told, Answers, Responses, Busy
<1>4. NoncesUsed
  BY FS_EmptySet DEF Init, NoncesUsed, AppliedOnce
<1> QED
  BY <1>1, <1>2, <1>3, <1>4 DEF ChannelInv

\* Types: the channel never holds more than its capacity, and a goroutine that
\* works on a request has one.
LEMMA TypeNext == ChannelInv /\ [Next]_vars => TypeOK'
<1> SUFFICES ASSUME TypeOK, Placed, [Next]_vars PROVE TypeOK'
  BY DEF ChannelInv
<1> USE DEF TypeOK, Responses
<1>0. runner \in [Runners -> RunnerState]
  BY DEF RunnerState
<1>1. ASSUME NEW c \in Calls, sendRequest(c) PROVE TypeOK'
  BY <1>1 DEF sendRequest, serverVars
<1>2. ASSUME NEW c \in Calls, Enqueue(c) PROVE TypeOK'
  <2>1. queue' \in Seq(Calls) /\ Len(queue') <= QueueCap
    BY <1>2, QueueAppend, QueueCapacity DEF Enqueue
  <2> QED
    BY <1>2, <2>1 DEF Enqueue, serverVars
<1>3. ASSUME NEW c \in Calls, GiveUp(c) PROVE TypeOK'
  BY <1>3 DEF GiveUp, serverVars
<1>4. ASSUME NEW c \in Calls, Receive(c) PROVE TypeOK'
  BY <1>4 DEF Receive, serverVars
<1>5. ASSUME NEW c \in Calls, Cleanup(c) PROVE TypeOK'
  BY <1>5 DEF Cleanup, serverVars
<1>6. CASE Stop
  BY <1>6 DEF Stop, clientVars
<1>7. ASSUME NEW r \in Runners, Start(r) PROVE TypeOK'
  BY <1>7 DEF Start, clientVars
<1>8. ASSUME NEW r \in Runners, TakeRequest(r) PROVE TypeOK'
  <2>1. Head(queue) \in Calls /\ queue' \in Seq(Calls) /\ Len(queue') <= QueueCap
    BY <1>8, QueueTail, QueueCapacity DEF TakeRequest
  <2>2. runner' = [runner EXCEPT ![r] = [@ EXCEPT !.at = "handling", !.call = Head(queue)]]
    BY <1>8 DEF TakeRequest
  <2>3. runner' \in [Runners -> RunnerState]
    BY <2>1, <2>2, RunnerUpdates, <1>0
  <2> QED
    BY <1>8, <2>1, <2>3 DEF TakeRequest, clientVars, RunnerState
<1>9. ASSUME NEW r \in Runners, handleRequest(r) PROVE TypeOK'
  <2>1. runner[r].call \in Calls
    BY <1>9 DEF handleRequest, Placed, Busy
  <2>2. PICK v \in {"ok", "error"} :
            runner' = [runner EXCEPT ![r] = [@ EXCEPT !.at = "replying", !.resp = v]]
    BY <1>9 DEF handleRequest
  <2>3. runner' \in [Runners -> RunnerState]
    BY <2>2, RunnerUpdates, <1>0
  <2> QED
    BY <1>9, <2>1, <2>3 DEF handleRequest, clientVars, RunnerState
<1>10. ASSUME NEW r \in Runners, Reply(r) PROVE TypeOK'
  <2>1. runner' = [runner EXCEPT ![r] = [@ EXCEPT !.at = "select", !.call = NoCall]]
    BY <1>10 DEF Reply
  <2>2. runner' \in [Runners -> RunnerState]
    BY <2>1, RunnerUpdates, <1>0
  <2>3. respChan' \in [Calls -> [buf : {"empty"} \cup Responses, closed : BOOLEAN]]
    BY <1>10 DEF Reply, Send, Placed, Busy
  <2> QED
    BY <1>10, <2>2, <2>3 DEF Reply, clientVars, RunnerState
<1>11. ASSUME NEW r \in Runners, CtxDone(r) \/ DrainDone(r) PROVE TypeOK'
  BY <1>11 DEF CtxDone, DrainDone, clientVars
<1>12. ASSUME NEW r \in Runners, Drain(r) PROVE TypeOK'
  <2>1. Head(queue) \in Calls /\ queue' \in Seq(Calls) /\ Len(queue') <= QueueCap
    BY <1>12, QueueTail, QueueCapacity DEF Drain
  <2> QED
    BY <1>12, <2>1 DEF Drain, Send, clientVars, serverVars
<1>13. CASE UNCHANGED vars
  BY <1>13 DEF vars
<1> QED
  BY <1>1, <1>2, <1>3, <1>4, <1>5, <1>6, <1>7, <1>8, <1>9, <1>10, <1>11, <1>12, <1>13
     DEF Next, Serve, Finished

\* The client's bookkeeping: pendingRequests follows the calls.
LEMMA ClientNext == ChannelInv /\ [Next]_vars => NoPendingLeak'
<1> SUFFICES ASSUME TypeOK, NoPendingLeak, [Next]_vars
             PROVE  NoPendingLeak'
  BY DEF ChannelInv
<1> USE DEF NoPendingLeak, TypeOK
<1>1. ASSUME NEW c \in Calls, sendRequest(c) PROVE NoPendingLeak'
  BY <1>1 DEF sendRequest
<1>2. ASSUME NEW c \in Calls, Enqueue(c) \/ GiveUp(c) \/ Receive(c)
      PROVE  NoPendingLeak'
  BY <1>2 DEF Enqueue, GiveUp, Receive
<1>3. ASSUME NEW c \in Calls, Cleanup(c) PROVE NoPendingLeak'
  BY <1>3 DEF Cleanup
<1>4. ASSUME NEW r \in Runners, Start(r) \/ TakeRequest(r) \/ handleRequest(r) \/ CtxDone(r) \/ DrainDone(r)
      PROVE  NoPendingLeak'
  BY <1>4 DEF Start, TakeRequest, handleRequest, CtxDone, DrainDone, clientVars
<1>5. ASSUME NEW c, NEW v, Send(c, v), UNCHANGED clientVars
      PROVE  NoPendingLeak'
  BY <1>5 DEF Send, clientVars
<1>6. CASE Stop \/ UNCHANGED vars
  BY <1>6 DEF Stop, clientVars, vars
<1> QED
  BY <1>1, <1>2, <1>3, <1>4, <1>5, <1>6 DEF Next, Serve, Finished, Reply, Drain

\* A request moves from its caller to the channel, from there to one goroutine,
\* and is nowhere twice.
LEMMA PlacedNext == ChannelInv /\ [Next]_vars => Placed'
<1> SUFFICES ASSUME TypeOK, Placed, Told, [Next]_vars PROVE Placed'
  BY DEF ChannelInv
<1> USE DEF Placed, Busy
<1>1. ASSUME NEW c \in Calls, sendRequest(c) \/ GiveUp(c) \/ Cleanup(c) PROVE Placed'
  BY <1>1 DEF sendRequest, GiveUp, Cleanup, serverVars, TypeOK
<1>2. ASSUME NEW c \in Calls, Enqueue(c) PROVE Placed'
  <2>1. /\ \A i \in 1 .. Len(queue) : queue[i] # c
        /\ \A r \in Runners : Busy(r) => runner[r].call # c
        /\ outcome[c] # "unsent"
    BY <1>2 DEF Enqueue, TypeOK, Told
  <2>2. /\ queue \in Seq(Calls) /\ queue' = Append(queue, c)
        /\ \A d \in Calls : pc'[d] = IF d = c THEN "waiting" ELSE pc[d]
        /\ UNCHANGED <<outcome, runner>>
    BY <1>2 DEF Enqueue, serverVars, TypeOK
  <2>3. \A i \in 1 .. Len(queue') : \/ i \in 1 .. Len(queue) /\ queue'[i] = queue[i]
                                    \/ i = Len(queue) + 1 /\ queue'[i] = c
    BY <2>2, QueueAppend
  <2>4. \A i \in 1 .. Len(queue) : queue[i] \in Calls
    BY <2>2
  <2> QED
    BY <2>1, <2>2, <2>3, <2>4
<1>3. ASSUME NEW c \in Calls, Receive(c) PROVE Placed'
  <2>1. outcome' = [outcome EXCEPT ![c] = respChan[c].buf] /\ respChan[c].buf # "unsent"
    BY <1>3 DEF Receive, TypeOK, Responses
  <2> QED
    BY <1>3, <2>1 DEF Receive, serverVars, TypeOK
<1>4. ASSUME NEW r \in Runners, Start(r) \/ CtxDone(r) \/ DrainDone(r) PROVE Placed'
  <2>1. /\ runner'[r].at \in {"select", "draining", "exited"}
        /\ \A s \in Runners : s # r => runner'[s] = runner[s]
        /\ UNCHANGED <<pc, outcome, queue>>
    BY <1>4 DEF Start, CtxDone, DrainDone, clientVars, TypeOK
  <2> QED
    BY <2>1
<1>5. ASSUME NEW r \in Runners, TakeRequest(r) PROVE Placed'
  <2>1. /\ \A i \in 1 .. Len(queue') : i + 1 \in 1 .. Len(queue) /\ queue'[i] = queue[i + 1]
        /\ 1 \in 1 .. Len(queue)
        /\ queue[1] \in Calls
    BY <1>5, QueueTail DEF TakeRequest, TypeOK
  <2>2. /\ runner'[r].at = "handling" /\ runner'[r].call = queue[1]
        /\ \A s \in Runners : s # r => runner'[s] = runner[s]
        /\ UNCHANGED <<pc, outcome>>
    BY <1>5, QueueTail DEF TakeRequest, TypeOK, clientVars
  <2>3. \A s \in Runners : Busy(s)' =>
            \/ s = r /\ runner'[s].call = queue[1]
            \/ s # r /\ Busy(s) /\ runner'[s].call = runner[s].call
    BY <2>2
  <2>4. \A i \in 1 .. Len(queue') : queue'[i] # queue[1]
    <3>1. \A i \in 1 .. Len(queue') : i + 1 # 1
      OBVIOUS
    <3> QED
      BY <2>1, <3>1
  <2> HIDE DEF Busy
  <2>5. \A i, j \in 1 .. Len(queue') : queue'[i] = queue'[j] => i = j
    BY <2>1, QueueTail, <1>5 DEF TakeRequest, TypeOK
  <2> QED
    BY <2>1, <2>2, <2>3, <2>4, <2>5
<1>6. ASSUME NEW r \in Runners, handleRequest(r) PROVE Placed'
  <2>1. /\ runner'[r].at = "replying" /\ runner'[r].call = runner[r].call
        /\ \A s \in Runners : s # r => runner'[s] = runner[s]
        /\ Busy(r)
        /\ UNCHANGED <<pc, outcome, queue>>
    BY <1>6 DEF handleRequest, TypeOK, clientVars
  <2>2. \A s \in Runners : (Busy(s)' <=> Busy(s)) /\ runner'[s].call = runner[s].call
    BY <2>1
  <2> HIDE DEF Busy
  <2> QED
    BY <2>1, <2>2
<1>7. ASSUME NEW r \in Runners, Reply(r) PROVE Placed'
  <2>1. /\ runner'[r].at = "select"
        /\ \A s \in Runners : s # r => runner'[s] = runner[s]
        /\ UNCHANGED <<pc, outcome, queue>>
    BY <1>7 DEF Reply, TypeOK, clientVars
  <2> QED
    BY <2>1
<1>8. ASSUME NEW r \in Runners, Drain(r) PROVE Placed'
  <2>1. \A i \in 1 .. Len(queue') : i + 1 \in 1 .. Len(queue) /\ queue'[i] = queue[i + 1]
    BY <1>8, QueueTail DEF Drain, TypeOK
  <2> QED
    BY <1>8, <2>1 DEF Drain, clientVars, serverVars
<1>9. CASE Stop \/ UNCHANGED vars
  BY <1>9 DEF Stop, clientVars, vars
<1> QED
  BY <1>1, <1>2, <1>3, <1>4, <1>5, <1>6, <1>7, <1>8, <1>9 DEF Next, Serve, Finished

\* A send that does not block reaches at most the buffer of the request's own
\* channel, and puts there what it was given.
LEMMA SendEffect ==
  ASSUME TypeOK, NEW c \in Calls, NEW v, Send(c, v)
  PROVE  \A d \in Calls : \/ respChan'[d] = respChan[d]
                          \/ d = c /\ respChan'[d].buf = v
BY DEF Send, TypeOK

\* Answers stay true: a request that has been answered is out of the server's
\* reach, and the answer is made from what the handler did.
LEMMA ToldNext == ChannelInv /\ [Next]_vars => Told'
<1> SUFFICES ASSUME TypeOK, Placed, Told, [Next]_vars PROVE Told'
  BY DEF ChannelInv
<1>1. ASSUME NEW c \in Calls, sendRequest(c) \/ Cleanup(c) PROVE Told'
  <2>1. /\ \A d \in Calls : /\ pc'[d] \in {"idle", "sending"} => pc[d] \in {"idle", "sending"}
                            /\ respChan'[d].buf = respChan[d].buf
        /\ UNCHANGED <<outcome, queue, runner, applied>>
    BY <1>1 DEF sendRequest, Cleanup, serverVars, TypeOK
  <2>2. \A d \in Calls : Answers(d, respChan[d].buf)' /\ Answers(d, outcome[d])'
    BY <2>1 DEF Told, Answers, Busy, Responses
  <2> QED
    BY <2>1, <2>2 DEF Told
<1>2. ASSUME NEW c \in Calls, Enqueue(c) PROVE Told'
  <2>1. /\ queue \in Seq(Calls) /\ queue' = Append(queue, c)
        /\ pc[c] = "sending" /\ \A d \in Calls : pc'[d] = IF d = c THEN "waiting" ELSE pc[d]
        /\ UNCHANGED <<outcome, respChan, runner, applied>>
    BY <1>2 DEF Enqueue, serverVars, TypeOK
  <2>2. \A i \in 1 .. Len(queue') : \/ i \in 1 .. Len(queue) /\ queue'[i] = queue[i]
                                    \/ queue'[i] = c
    BY <2>1, QueueAppend
  <2>3. c \notin applied /\ outcome[c] = "none" /\ respChan[c].buf = "empty"
    BY <2>1 DEF Told
  <2>4. \A d \in Calls : Answers(d, respChan[d].buf)' /\ Answers(d, outcome[d])'
    BY <2>1, <2>2, <2>3 DEF Told, Answers, Busy, Responses
  <2> QED
    BY <2>1, <2>2, <2>3, <2>4 DEF Told
<1>3. ASSUME NEW c \in Calls, GiveUp(c) PROVE Told'
  <2>1. /\ \A d \in Calls : d # c => pc'[d] = pc[d] /\ outcome'[d] = outcome[d]
        /\ pc'[c] = "leaving"
        /\ \/ outcome'[c] = "unsent" /\ pc[c] = "sending"
           \/ outcome'[c] = "unanswered"
        /\ UNCHANGED <<respChan, queue, runner, applied>>
    BY <1>3 DEF GiveUp, serverVars, TypeOK
  <2> QED
    BY <2>1 DEF Told, Answers, Busy, Responses
<1>4. ASSUME NEW c \in Calls, Receive(c) PROVE Told'
  <2>1. /\ \A d \in Calls : d # c => /\ pc'[d] = pc[d] /\ outcome'[d] = outcome[d]
                                     /\ respChan'[d] = respChan[d]
        /\ pc'[c] = "leaving"
        /\ outcome'[c] = respChan[c].buf /\ respChan'[c].buf = "empty"
        /\ UNCHANGED <<queue, runner, applied>>
    BY <1>4 DEF Receive, serverVars, TypeOK
  <2> QED
    BY <2>1 DEF Told, Answers, Busy, Responses
<1>5. ASSUME NEW r \in Runners, Start(r) \/ CtxDone(r) \/ DrainDone(r) PROVE Told'
  <2>1. /\ runner'[r].at \in {"select", "draining", "exited"}
        /\ \A s \in Runners : s # r => runner'[s] = runner[s]
        /\ UNCHANGED <<pc, outcome, respChan, queue, applied>>
    BY <1>5 DEF Start, CtxDone, DrainDone, clientVars, TypeOK
  <2> QED
    BY <2>1 DEF Told, Answers, Busy
<1>6. ASSUME NEW r \in Runners, TakeRequest(r) PROVE Told'
  <2>1. /\ \A i \in 1 .. Len(queue') : i + 1 \in 1 .. Len(queue) /\ queue'[i] = queue[i + 1]
        /\ 1 \in 1 .. Len(queue)
    BY <1>6, QueueTail DEF TakeRequest, TypeOK
  <2>2. /\ runner'[r].at = "handling" /\ runner'[r].call = queue[1]
        /\ \A s \in Runners : s # r => runner'[s] = runner[s]
        /\ UNCHANGED <<pc, outcome, respChan, applied>>
    BY <1>6, QueueTail DEF TakeRequest, TypeOK, clientVars
  <2>3. \A d \in Calls : Answers(d, respChan[d].buf)' /\ Answers(d, outcome[d])'
    BY <2>1, <2>2 DEF Told, Answers, Busy
  <2> QED
    BY <2>1, <2>2, <2>3 DEF Told
<1>7. ASSUME NEW r \in Runners, handleRequest(r) PROVE Told'
  <2> DEFINE c == runner[r].call
  <2>1. /\ runner[r].at = "handling" /\ c \in Calls
        /\ runner'[r].at = "replying" /\ runner'[r].call = c
        /\ \A s \in Runners : s # r => runner'[s] = runner[s]
        /\ UNCHANGED <<pc, outcome, respChan, queue>>
    BY <1>7 DEF handleRequest, TypeOK, clientVars, Placed, Busy
  <2>2. \/ applied' = applied \cup {c} /\ runner'[r].resp = "ok"
        \/ applied' = applied /\ runner'[r].resp = "error"
    BY <1>7 DEF handleRequest, TypeOK
  <2>3. \A s \in Runners : (Busy(s)' <=> Busy(s)) /\ runner'[s].call = runner[s].call
    BY <2>1 DEF Busy
  <2>4. /\ Busy(r)
        /\ c \notin applied
        /\ pc[c] \notin {"idle", "sending"}
        /\ outcome[c] \notin Responses \cup {"unsent"}
        /\ respChan[c].buf \notin Responses \cup {"unsent"}
    BY <2>1 DEF Told, Answers, Placed, Busy, TypeOK, Responses
  <2>5. /\ \A i \in 1 .. Len(queue) : queue[i] # c
        /\ \A s \in Runners : s # r /\ Busy(s) => runner[s].call # c
    BY <2>1, <2>4 DEF Placed
  <2> HIDE DEF c
  <2>6. \A d \in Calls : Answers(d, respChan[d].buf)' /\ Answers(d, outcome[d])'
    BY <2>1, <2>2, <2>3, <2>4 DEF Told, Answers, Responses
  <2>7. \A s \in Runners : runner'[s].at = "handling" => runner'[s].call \notin applied'
    BY <2>1, <2>2, <2>5 DEF Told, Busy
  <2>8. \A s \in Runners : runner'[s].at = "replying" =>
            /\ runner'[s].resp \in {"ok", "error"}
            /\ runner'[s].resp = "ok" <=> runner'[s].call \in applied'
    BY <2>1, <2>2, <2>4, <2>5 DEF Told, Busy
  <2> QED
    BY <2>1, <2>2, <2>4, <2>5, <2>6, <2>7, <2>8 DEF Told
<1>8. ASSUME NEW r \in Runners, Reply(r) PROVE Told'
  <2> DEFINE c == runner[r].call
             v == runner[r].resp
  <2>1. /\ runner[r].at = "replying" /\ Busy(r)
        /\ runner'[r].at = "select"
        /\ \A s \in Runners : s # r => runner'[s] = runner[s]
        /\ c \in Calls
        /\ Send(c, v)
        /\ UNCHANGED <<pc, outcome, queue, applied>>
    BY <1>8 DEF Reply, TypeOK, clientVars, Placed, Busy
  <2>2. /\ v \in {"ok", "error"} /\ v = "ok" <=> c \in applied
        /\ pc[c] \notin {"idle", "sending"}
        /\ \A i \in 1 .. Len(queue) : queue[i] # c
        /\ \A s \in Runners : s # r /\ Busy(s) => runner[s].call # c
    BY <2>1 DEF Told, Placed
  <2>3. \A d \in Calls : \/ respChan'[d] = respChan[d]
                         \/ d = c /\ respChan'[d].buf = v
    BY <2>1, SendEffect
  <2> HIDE DEF c, v
  <2>4. \A s \in Runners : Busy(s)' => s # r /\ Busy(s) /\ runner'[s].call = runner[s].call
    BY <2>1 DEF Busy
  <2>5. \A d \in Calls : Answers(d, respChan[d].buf)' /\ Answers(d, outcome[d])'
    BY <2>1, <2>2, <2>3, <2>4 DEF Told, Answers, Responses
  <2> QED
    BY <2>1, <2>2, <2>3, <2>5 DEF Told
<1>9. ASSUME NEW r \in Runners, Drain(r) PROVE Told'
  <2>1. PICK c \in Calls : c = queue[1] /\ Send(c, "shutdown")
    BY <1>9, QueueTail DEF Drain, TypeOK
  <2>2. /\ \A i \in 1 .. Len(queue') : i + 1 \in 1 .. Len(queue) /\ queue'[i] = queue[i + 1]
        /\ \A i \in 1 .. Len(queue') : i + 1 # 1
        /\ 1 \in 1 .. Len(queue)
        /\ UNCHANGED <<pc, outcome, runner, applied>>
    BY <1>9, QueueTail DEF Drain, TypeOK, clientVars, serverVars
  <2>3. /\ c \notin applied
        /\ pc[c] \notin {"idle", "sending"}
        /\ \A i \in 1 .. Len(queue') : queue'[i] # c
        /\ \A s \in Runners : Busy(s) => runner[s].call # c
    BY <2>1, <2>2 DEF Told, Placed
  <2>4. \A d \in Calls : \/ respChan'[d] = respChan[d]
                         \/ d = c /\ respChan'[d].buf = "shutdown"
    BY <2>1, SendEffect
  <2>5. \A d \in Calls : Answers(d, respChan[d].buf)' /\ Answers(d, outcome[d])'
    BY <2>2, <2>3, <2>4 DEF Told, Answers, Responses, Busy
  <2> QED
    BY <2>2, <2>3, <2>4, <2>5 DEF Told
<1>10. CASE Stop \/ UNCHANGED vars
  BY <1>10 DEF Stop, clientVars, vars, Told, Answers, Busy
<1> QED
  BY <1>1, <1>2, <1>3, <1>4, <1>5, <1>6, <1>7, <1>8, <1>9, <1>10 DEF Next, Serve, Finished

\* The handler applies the next nonce only, so every nonce is used once and the
\* counter counts the requests applied.
LEMMA NoncesNext == ChannelInv /\ [Next]_vars => NoncesUsed'
<1> SUFFICES ASSUME TypeOK, Placed, Told, NoncesUsed, [Next]_vars PROVE NoncesUsed'
  BY DEF ChannelInv
<1>1. ASSUME NEW r \in Runners, handleRequest(r) PROVE NoncesUsed'
  <2> DEFINE c == runner[r].call
  <2>1. c \in Calls /\ c \notin applied
    BY <1>1 DEF handleRequest, Placed, Busy, Told
  <2>2. CASE Nonce[c] = nonce
    <3>1. nonce' = nonce + 1 /\ applied' = applied \cup {c} /\ nonce \in Nat
      BY <1>1, <2>2 DEF handleRequest, TypeOK
    <3>2. /\ IsFiniteSet(applied')
          /\ Cardinality(applied') = Cardinality(applied) + 1
      BY <2>1, <3>1, FS_AddElement DEF NoncesUsed
    <3>3. \A d \in applied : d \in Calls /\ Nonce[d] < nonce /\ Nonce[d] \in Nat
      BY RequestNonces DEF NoncesUsed, TypeOK
    <3>4. \A d, e \in applied' : Nonce[d] = Nonce[e] => d = e
      BY <2>2, <3>1, <3>3 DEF NoncesUsed, AppliedOnce
    <3> QED
      BY <2>2, <3>1, <3>2, <3>3, <3>4 DEF NoncesUsed, AppliedOnce
  <2>3. CASE Nonce[c] # nonce
    BY <1>1, <2>3 DEF handleRequest, NoncesUsed, AppliedOnce
  <2> QED
    BY <2>2, <2>3
<1>2. CASE UNCHANGED <<nonce, applied>>
  BY <1>2 DEF NoncesUsed, AppliedOnce
<1> QED
  BY <1>1, <1>2 DEF Next, Serve, Finished, sendRequest, Enqueue, GiveUp, Receive, Cleanup, Stop,
       Start, TakeRequest, Reply, CtxDone, Drain, DrainDone, serverVars, vars

\* The inductive invariant holds in every state.
THEOREM ChannelInvariant == Spec => []ChannelInv
<1>1. ChannelInv /\ [Next]_vars => ChannelInv'
  BY TypeNext, ClientNext, PlacedNext, ToldNext, NoncesNext DEF ChannelInv
<1> QED
  BY <1>1, ChannelInit, PTL DEF Spec

\* The client's and the server's variables keep their types (TypeOK); the
\* channel never holds more requests than its capacity.
THEOREM ChannelTypeCorrect == Spec => []TypeOK
<1>1. ChannelInv => TypeOK
  BY DEF ChannelInv
<1> QED
  BY <1>1, ChannelInvariant, PTL

\* What sendRequest tells its caller stays true (OutcomeTruthful), however many
\* goroutines serve the channel and whoever gives up, retries or stops when.
THEOREM TellsTheTruth == Spec => []OutcomeTruthful
<1>1. ChannelInv => OutcomeTruthful
  BY DEF ChannelInv, Told, Answers, OutcomeTruthful
<1> QED
  BY <1>1, ChannelInvariant, PTL

\* A retry that is answered late, twice or never is applied at most once
\* (AppliedOnce).
THEOREM RetriesAreSafe == Spec => []AppliedOnce
<1>1. ChannelInv => AppliedOnce
  BY DEF ChannelInv, NoncesUsed
<1> QED
  BY <1>1, ChannelInvariant, PTL

\* pendingRequests holds the calls in progress and no other (NoPendingLeak).
THEOREM PendingExact == Spec => []NoPendingLeak
<1>1. ChannelInv => NoPendingLeak
  BY DEF ChannelInv
<1> QED
  BY <1>1, ChannelInvariant, PTL
=============================================================================
