--------------------------- MODULE RequestChannel ---------------------------
(***************************************************************************)
(* Requests between the transports' clients and the server goroutine:      *)
(* Client.sendRequest (client.go) and Server.Start, run, drainRequests,    *)
(* handleRequest and Stop (server.go).                                     *)
(*                                                                         *)
(* A call owns a response channel of capacity one, puts its request in the *)
(* shared bounded channel and waits; either wait may be given up because   *)
(* its context is cancelled or its 30 s timer fires, at any moment.  What  *)
(* a request does to the ledger is reduced to what makes repeating it      *)
(* safe: it carries a nonce and is applied only if that is the account's   *)
(* next one.  Calls with the same nonce are retries of one signed request. *)
(***************************************************************************)
EXTENDS Integers, Sequences, FiniteSets

CONSTANTS
    Calls,      \* calls of Client.sendRequest
    Nonce,      \* [Calls -> Nat]: the nonce in each call's signed request
    Timed,      \* the calls whose timers are sure to fire while others wait
    Runners,    \* bound: how often Server.Start is called (once, in main)
    QueueCap    \* capacity of requestChan (1000 in NewWithCA)

ASSUME RequestNonces == Nonce \in [Calls -> Nat]
ASSUME TimedCalls    == Timed \subseteq Calls
ASSUME QueueCapacity == QueueCap \in Nat \ {0}

VARIABLES
    pc,         \* where each call is
    outcome,    \* what sendRequest returned to its caller
    respChan,   \* each call's ResponseChan: its buffer, and whether it is closed
    pending,    \* keys of Client.pendingRequests
    queue,      \* Server.requestChan
    runner,     \* each run goroutine: where it is, its request, its response
    cancelled,  \* Server.ctx is done
    nonce,      \* outgoingTxCount of the account that signs
    applied     \* history: the calls whose request changed the ledger

clientVars == <<pc, outcome, pending>>
serverVars == <<runner, cancelled, nonce, applied>>
vars == <<pc, outcome, respChan, pending, queue, runner, cancelled, nonce, applied>>

NoCall    == "no call"
Responses == {"ok", "error", "shutdown"}

Init ==
    /\ pc = [c \in Calls |-> "idle"]
    /\ outcome = [c \in Calls |-> "none"]
    /\ respChan = [c \in Calls |-> [buf |-> "empty", closed |-> FALSE]]
    /\ pending = {}
    /\ queue = << >>
    /\ runner = [r \in Runners |-> [at |-> "off", call |-> NoCall, resp |-> "error"]]
    /\ cancelled = FALSE
    /\ nonce = 0
    /\ applied = {}

-----------------------------------------------------------------------------
(***************************************************************************)
(* Client.sendRequest                                                      *)
(***************************************************************************)
sendRequest(c) ==
    /\ pc[c] = "idle"
    /\ pc' = [pc EXCEPT ![c] = "sending"]
    /\ pending' = pending \cup {c}
    /\ UNCHANGED <<outcome, respChan, queue, serverVars>>

\* Mutant of Enqueue: the channel has no capacity.
EnqueueUnbounded(c) ==
    /\ pc[c] = "sending"
    /\ queue' = Append(queue, c)
    /\ pc' = [pc EXCEPT ![c] = "waiting"]
    /\ UNCHANGED <<outcome, respChan, pending, serverVars>>

\* case c.requestChan <- req
Enqueue(c) ==
    /\ pc[c] = "sending"
    /\ Len(queue) < QueueCap
    /\ queue' = Append(queue, c)
    /\ pc' = [pc EXCEPT ![c] = "waiting"]
    /\ UNCHANGED <<outcome, respChan, pending, serverVars>>

\* Mutant of GiveUp: the timer's case does not return, the call waits on.
GiveUpAndWaitOn(c) ==
    /\ pc[c] \in {"sending", "waiting"}
    /\ UNCHANGED vars

\* case <-ctx.Done() or <-time.After(c.timeout), in the first or second select
GiveUp(c) ==
    /\ pc[c] \in {"sending", "waiting"}
    /\ outcome' = [outcome EXCEPT ![c] = IF pc[c] = "sending" THEN "unsent" ELSE "unanswered"]
    /\ pc' = [pc EXCEPT ![c] = "leaving"]
    /\ UNCHANGED <<respChan, pending, queue, serverVars>>

\* case resp := <-respChan
Receive(c) ==
    /\ pc[c] = "waiting"
    /\ respChan[c].buf # "empty"
    /\ outcome' = [outcome EXCEPT ![c] = respChan[c].buf]
    /\ respChan' = [respChan EXCEPT ![c].buf = "empty"]
    /\ pc' = [pc EXCEPT ![c] = "leaving"]
    /\ UNCHANGED <<pending, queue, serverVars>>

\* Mutant of Cleanup: the entry stays in pendingRequests.
CleanupWithoutDelete(c) ==
    /\ pc[c] = "leaving"
    /\ respChan' = [respChan EXCEPT ![c].closed = TRUE]
    /\ pc' = [pc EXCEPT ![c] = "returned"]
    /\ UNCHANGED <<outcome, pending, queue, serverVars>>

\* The deferred cleanup.
Cleanup(c) ==
    /\ pc[c] = "leaving"
    /\ pending' = pending \ {c}
    /\ respChan' = [respChan EXCEPT ![c].closed = TRUE]
    /\ pc' = [pc EXCEPT ![c] = "returned"]
    /\ UNCHANGED <<outcome, queue, serverVars>>

-----------------------------------------------------------------------------
(***************************************************************************)
(* The server                                                              *)
(***************************************************************************)
\* Server.Start launches one more run goroutine each time it is called.
Start(r) ==
    /\ runner[r].at = "off"
    /\ runner' = [runner EXCEPT ![r].at = "select"]
    /\ UNCHANGED <<clientVars, respChan, queue, cancelled, nonce, applied>>

\* Server.Stop cancels the context and waits for the goroutines.
Stop ==
    /\ ~cancelled
    /\ cancelled' = TRUE
    /\ UNCHANGED <<clientVars, respChan, queue, runner, nonce, applied>>

\* run: case req := <-s.requestChan
TakeRequest(r) ==
    /\ runner[r].at = "select"
    /\ queue # << >>
    /\ queue' = Tail(queue)
    /\ runner' = [runner EXCEPT ![r].at = "handling", ![r].call = Head(queue)]
    /\ UNCHANGED <<clientVars, respChan, cancelled, nonce, applied>>

\* Mutants of handleRequest: the nonce is not compared; a refusal is reported as
\* a success.
HandleAnyNonce(r) ==
    /\ runner[r].at = "handling"
    /\ nonce' = nonce + 1
    /\ applied' = applied \cup {runner[r].call}
    /\ runner' = [runner EXCEPT ![r].at = "replying", ![r].resp = "ok"]
    /\ UNCHANGED <<clientVars, respChan, queue, cancelled>>

HandleWithoutError(r) ==
    LET c  == runner[r].call
        ok == Nonce[c] = nonce
    IN  /\ runner[r].at = "handling"
        /\ nonce' = IF ok THEN nonce + 1 ELSE nonce
        /\ applied' = IF ok THEN applied \cup {c} ELSE applied
        /\ runner' = [runner EXCEPT ![r].at = "replying", ![r].resp = "ok"]
        /\ UNCHANGED <<clientVars, respChan, queue, cancelled>>

\* handleRequest: a nonce that is not the account's next one is refused.
handleRequest(r) ==
    LET c  == runner[r].call
        ok == Nonce[c] = nonce
    IN  /\ runner[r].at = "handling"
        /\ nonce' = IF ok THEN nonce + 1 ELSE nonce
        /\ applied' = IF ok THEN applied \cup {c} ELSE applied
        /\ runner' = [runner EXCEPT ![r].at = "replying",
                                    ![r].resp = IF ok THEN "ok" ELSE "error"]
        /\ UNCHANGED <<clientVars, respChan, queue, cancelled>>

\* A send that does not block; on a closed channel it panics and is recovered.
Send(c, resp) ==
    respChan' = IF respChan[c].closed \/ respChan[c].buf # "empty"
                THEN respChan
                ELSE [respChan EXCEPT ![c].buf = resp]

\* Mutant of Reply: only a success is sent.
ReplyOnlySuccess(r) ==
    /\ runner[r].at = "replying"
    /\ IF runner[r].resp = "ok" THEN Send(runner[r].call, "ok") ELSE UNCHANGED respChan
    /\ runner' = [runner EXCEPT ![r].at = "select", ![r].call = NoCall]
    /\ UNCHANGED <<clientVars, queue, cancelled, nonce, applied>>

Reply(r) ==
    /\ runner[r].at = "replying"
    /\ Send(runner[r].call, runner[r].resp)
    /\ runner' = [runner EXCEPT ![r].at = "select", ![r].call = NoCall]
    /\ UNCHANGED <<clientVars, queue, cancelled, nonce, applied>>

\* Mutant of CtxDone: the case breaks out of the select but not of the loop.
CtxDoneWithoutReturn(r) ==
    /\ runner[r].at = "select"
    /\ cancelled
    /\ UNCHANGED vars

\* run: case <-s.ctx.Done()
CtxDone(r) ==
    /\ runner[r].at = "select"
    /\ cancelled
    /\ runner' = [runner EXCEPT ![r].at = "draining"]
    /\ UNCHANGED <<clientVars, respChan, queue, cancelled, nonce, applied>>

\* drainRequests: answer what is in the channel ...
Drain(r) ==
    /\ runner[r].at = "draining"
    /\ queue # << >>
    /\ queue' = Tail(queue)
    /\ Send(Head(queue), "shutdown")
    /\ UNCHANGED <<clientVars, serverVars>>

\* Mutant of DrainDone: it returns with requests still in the channel.
DrainDoneEarly(r) ==
    /\ runner[r].at = "draining"
    /\ runner' = [runner EXCEPT ![r].at = "exited"]
    /\ UNCHANGED <<clientVars, respChan, queue, cancelled, nonce, applied>>

\* ... and return as soon as it is empty.
DrainDone(r) ==
    /\ runner[r].at = "draining"
    /\ queue = << >>
    /\ runner' = [runner EXCEPT ![r].at = "exited"]
    /\ UNCHANGED <<clientVars, respChan, queue, cancelled, nonce, applied>>

\* All calls have returned and the server has stopped: nothing is left to do.
Finished ==
    /\ \A c \in Calls : pc[c] = "returned"
    /\ \A r \in Runners : runner[r].at = "exited"
    /\ UNCHANGED vars

Serve(r) == TakeRequest(r) \/ handleRequest(r) \/ Reply(r) \/ Drain(r) \/ DrainDone(r)

Next ==
    \/ \E c \in Calls : sendRequest(c) \/ Enqueue(c) \/ GiveUp(c) \/ Receive(c) \/ Cleanup(c)
    \/ Stop
    \/ \E r \in Runners : Start(r) \/ Serve(r) \/ CtxDone(r)
    \/ Finished

(***************************************************************************)
(* Goroutines that can run do run.  A select with several ready cases      *)
(* picks one at random, so a case that is ready again and again is taken:  *)
(* strong fairness for <-ctx.Done().  Any call may give up at any moment;  *)
(* only those in Timed are sure to, so that the others show what the       *)
(* server does for a caller that is ready to wait.                         *)
(***************************************************************************)
Scheduling ==
    /\ \A r \in Runners : WF_vars(Start(r)) /\ WF_vars(Serve(r)) /\ SF_vars(CtxDone(r))
    /\ \A c \in Calls : WF_vars(Enqueue(c)) /\ WF_vars(Receive(c)) /\ WF_vars(Cleanup(c))
    /\ \A c \in Timed : WF_vars(GiveUp(c))

Spec == Init /\ [][Next]_vars /\ Scheduling

-----------------------------------------------------------------------------
\* Every variable keeps its type.
TypeOK ==
    /\ pc \in [Calls -> {"idle", "sending", "waiting", "leaving", "returned"}]
    /\ outcome \in [Calls -> {"none", "unsent", "unanswered"} \cup Responses]
    /\ respChan \in [Calls -> [buf : {"empty"} \cup Responses, closed : BOOLEAN]]
    /\ pending \in SUBSET Calls
    /\ queue \in Seq(Calls) /\ Len(queue) <= QueueCap
    /\ runner \in [Runners ->
          [at : {"off", "select", "handling", "replying", "draining", "exited"},
           call : Calls \cup {NoCall}, resp : Responses]]
    /\ cancelled \in BOOLEAN
    /\ nonce \in Nat
    /\ applied \in SUBSET Calls

\* What a caller is told is true for good: "ok" means applied, a shutdown error,
\* a refusal or a request that was never sent means not applied, now or later.
\* Only an unanswered request may be either.
OutcomeTruthful ==
    \A c \in Calls :
        /\ outcome[c] = "ok" => c \in applied
        /\ outcome[c] \in {"error", "shutdown", "unsent"} => c \notin applied

\* A signed request is applied at most once however often a caller that got no
\* answer retries it, and requests are applied in the order of their nonces.
AppliedOnce ==
    /\ \A c, d \in applied : Nonce[c] = Nonce[d] => c = d
    /\ nonce = Cardinality(applied)

\* pendingRequests holds exactly the calls that have not returned, so a late or
\* missing answer leaves no entry behind.
NoPendingLeak == pending = {c \in Calls : pc[c] \in {"sending", "waiting", "leaving"}}

\* Every call whose timer fires returns, also one that finds the server stopped.
CallReturns == \A c \in Timed : pc[c] = "sending" ~> pc[c] = "returned"

\* The server comes to rest after Stop.
StopCompletes == \A r \in Runners : cancelled ~> runner[r].at = "exited"

\* While the server has not been stopped, a request that is in the channel gets
\* its answer without help from the caller's timer.
Answered == \A c \in Calls : pc[c] = "waiting" ~> (pc[c] = "returned" \/ cancelled)

\* Stopping the server strands nobody it can still see: a call whose request is
\* in the channel before the server goroutine has left ends, by an answer or by
\* the shutdown error, without help from its timer.
QueuedIsAnswered ==
    \A c \in Calls :
        (\E i \in DOMAIN queue : queue[i] = c) /\ (\E r \in Runners : runner[r].at # "exited")
        ~> pc[c] \in {"leaving", "returned"}
=============================================================================
