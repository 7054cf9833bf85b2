----------------------------- MODULE VirtualApps -----------------------------
(***************************************************************************)
(* The process: main (cmd/app/main.go) creates virtual apps, registers and *)
(* starts them, waits for a signal and stops everything; each app's        *)
(* transport runs in a goroutine of its own.                               *)
(*                                                                         *)
(* External: net/http as the transports use it (Shutdown closes the        *)
(* listener at once, no ListenAndServe of that server succeeds after it,   *)
(* and it returns when the requests being handled are done or five seconds *)
(* are over), Bubble Tea (catches SIGINT and SIGTERM while it runs), the   *)
(* system's signals, ports and random ids.                                 *)
(***************************************************************************)
EXTENDS Integers, SequencesExt

CONSTANTS
    Plans,      \* command lines: the transports to create, in order, "tui" last
    IdBits,     \* bits of an id (20 bytes of 8 in the code)
    RandomIds,  \* ids NewScalegraphId may draw
    None

\* An id is its bits, byte after byte, the highest bit of a byte first.
ScalegraphId == [1 .. IdBits -> {0, 1}]

ASSUME IdAssumption == IdBits \in Nat /\ RandomIds \subseteq ScalegraphId
ASSUME PlanAssumption ==
    /\ Plans \subseteq Seq({"rest", "grpc", "tui"})
    /\ \A p \in Plans : \A v \in DOMAIN p : p[v] = "tui" => v = Len(p)

VARIABLES
    plan,      \* the command line
    pc,        \* where main is
    next,      \* main: the next app to create
    stopping,  \* main: the app being stopped, or None
    listed,    \* Server.Stop has listed the registered apps
    toStop,    \* Server.Stop: the listed apps not stopped yet
    id,        \* per app, its id, or None when it has none
    byID,      \* Registry.byID: the registered apps
    ctx,       \* per app, whether its context is still live
    start,     \* per app, where Transport.Start is
    http,      \* per app, its http.Server
    loop,      \* Server.run: running, cancelled, done
    mcp,       \* the MCP server: off, new, serving, failed, shut
    notified,  \* main has called signal.Notify
    signalled  \* sigChan holds a signal

appVars  == <<id, ctx, start, http>>
mainVars == <<pc, next, stopping, listed, toStop>>
vars     == <<plan, pc, next, stopping, listed, toStop, id, byID, ctx, start, http, loop, mcp,
              notified, signalled>>

Apps    == DOMAIN plan
UsesTUI == plan # << >> /\ Last(plan) = "tui"

Init ==
    /\ plan \in Plans
    /\ pc = "create"
    /\ next = 1
    /\ stopping = None
    /\ listed = FALSE
    /\ toStop = {}
    /\ id = [v \in Apps |-> None]
    /\ byID = {}
    /\ ctx = [v \in Apps |-> TRUE]
    /\ start = [v \in Apps |-> "idle"]
    /\ http = [v \in Apps |-> "nil"]
    /\ loop = "running"
    /\ mcp = "off"
    /\ notified = FALSE
    /\ signalled = FALSE

-----------------------------------------------------------------------------
(***************************************************************************)
(* The registry's distance: registry.go.                                   *)
(***************************************************************************)
\* Mutant of SetBytes: the last bit counts most.
SetBytesReversed(xor) ==
    LET value[n \in 0 .. IdBits] == IF n = 0 THEN 0 ELSE 2 * value[n - 1] + xor[IdBits + 1 - n]
    IN  value[IdBits]

\* big.Int.SetBytes: the bytes are one big-endian number.
SetBytes(xor) ==
    LET value[n \in 0 .. IdBits] == IF n = 0 THEN 0 ELSE 2 * value[n - 1] + xor[n]
    IN  value[IdBits]

xorDistance(a, b) == SetBytes([i \in 1 .. IdBits |-> (a[i] + b[i]) % 2])

\* sort.Slice: the elements of S, smallest key first.
Sorted(S, key) ==
    CHOOSE s \in [1 .. Cardinality(S) -> S] : \A i, j \in DOMAIN s : i < j => key[s[i]] < key[s[j]]

\* The ids of the k registered apps closest to target, closest first; an error,
\* None, for k <= 0.
GetKClosest(target, k) ==
    LET ids    == {id[v] : v \in byID}
        sorted == Sorted(ids, [x \in ids |-> xorDistance(target, x)])
    IN  IF k <= 0 THEN None ELSE SubSeq(sorted, 1, Min({k, Len(sorted)}))

-----------------------------------------------------------------------------
(***************************************************************************)
(* Transports.                                                             *)
(***************************************************************************)
Screen(v)  == plan[v] = "tui" /\ start[v] = "running"
ScreenOpen == \E v \in Apps : Screen(v)

\* Transport.Start up to `<-ctx.Done()': the http.Server is there, its
\* ListenAndServe is a goroutine's.  The validator of ConnectRPC may fail.
TransportStart(v) ==
    /\ start[v] = "begin"
    /\ \/ /\ start' = [start EXCEPT ![v] = "running"]
          /\ http' = [http EXCEPT ![v] = IF plan[v] = "tui" THEN "nil" ELSE "new"]
       \/ /\ plan[v] = "grpc"
          /\ start' = [start EXCEPT ![v] = "done"]
          /\ UNCHANGED http
    /\ UNCHANGED <<id, ctx>>

\* The port may be in use; Start goes on waiting then.
ListenAndServe(v) ==
    /\ http[v] = "new"
    /\ \E outcome \in {"serving", "failed"} : http' = [http EXCEPT ![v] = outcome]
    /\ UNCHANGED <<id, ctx, start>>

\* Mutant of ContextDone: Start does not look at its context, as the TUI's.
NeverDone(v) == FALSE /\ UNCHANGED appVars

\* Start calls Stop itself: Shutdown of whatever server it has made.
ContextDone(v) ==
    /\ start[v] = "running"
    /\ plan[v] # "tui"
    /\ ~ctx[v]
    /\ start' = [start EXCEPT ![v] = "leaving"]
    /\ http' = [http EXCEPT ![v] = "shut"]
    /\ UNCHANGED <<id, ctx>>

\* Shutdown returns: nothing is being handled, or five seconds are over.
Leave(v) ==
    /\ start[v] = "leaving"
    /\ start' = [start EXCEPT ![v] = "done"]
    /\ UNCHANGED <<id, ctx, http>>

\* The user quits, or the UI panics; Run returns and with it Start.
UserQuits(v) ==
    /\ Screen(v)
    /\ start' = [start EXCEPT ![v] = "done"]
    /\ UNCHANGED <<id, ctx, http>>

\* The goroutine of Start.
StartGoroutine(v) == TransportStart(v) \/ ContextDone(v) \/ Leave(v)

OthersUnchanged == UNCHANGED <<plan, mainVars, byID, loop, mcp, notified, signalled>>

TransportStep(v) ==
    /\ \/ StartGoroutine(v)
       \/ ListenAndServe(v)
       \/ UserQuits(v)
    /\ OthersUnchanged

-----------------------------------------------------------------------------
(***************************************************************************)
(* main.                                                                   *)
(***************************************************************************)
\* Refused, leaving the registry alone, when the id is taken.
Register(v, drawn) ==
    /\ \A w \in byID : id[w] # drawn
    /\ id' = [id EXCEPT ![v] = drawn]
    /\ byID' = byID \cup {v}

\* Create, register, add the transport, start: a goroutine for the transport.
CreateVirtualApp ==
    /\ pc = "create" /\ next \in Apps
    /\ \E drawn \in RandomIds : Register(next, drawn)
    /\ start' = [start EXCEPT ![next] = "begin"]
    /\ next' = next + 1
    /\ UNCHANGED <<plan, pc, stopping, listed, toStop, ctx, http, loop, mcp, notified, signalled>>

\* No id, or one that is taken.  Without its TUI the process exits on the spot.
CreateFails ==
    /\ pc = "create" /\ next \in Apps
    /\ pc' = IF plan[next] = "tui" THEN "exited" ELSE "create"
    /\ next' = next + 1
    /\ UNCHANGED <<plan, stopping, listed, toStop, appVars, byID, loop, mcp, notified, signalled>>

\* After REST and gRPC, before the TUI.
StartMCP ==
    /\ pc = "create" /\ mcp = "off"
    /\ next = IF UsesTUI THEN Len(plan) ELSE Len(plan) + 1
    /\ mcp' = "new"
    /\ UNCHANGED <<plan, mainVars, appVars, byID, loop, notified, signalled>>

\* signal.Notify, in runHeadless after a request for the number of accounts.
Notify ==
    /\ pc = "create" /\ next \notin Apps
    /\ pc' = "wait"
    /\ notified' = TRUE
    /\ UNCHANGED <<plan, next, stopping, listed, toStop, appVars, byID, loop, mcp, signalled>>

\* `<-sigChan'.  With a TUI its app is stopped, then, either way, the server.
SignalReceived ==
    /\ pc = "wait" /\ signalled
    /\ signalled' = FALSE
    /\ IF UsesTUI THEN pc' = "stop" /\ stopping' = Len(plan)
                  ELSE pc' = "stopServer" /\ UNCHANGED stopping
    /\ UNCHANGED <<plan, next, listed, toStop, appVars, byID, loop, mcp, notified>>

\* Server.Stop: list the apps, stop them in the order of a map, cancel the loop.
ServerStop ==
    /\ pc = "stopServer"
    /\ \/ /\ ~listed
          /\ listed' = TRUE
          /\ toStop' = byID
          /\ UNCHANGED <<pc, stopping, loop>>
       \/ /\ listed
          /\ \E v \in toStop : pc' = "stop" /\ stopping' = v /\ toStop' = toStop \ {v}
          /\ UNCHANGED <<listed, loop>>
       \/ /\ listed /\ toStop = {}
          /\ loop' = "cancelled"
          /\ pc' = "join"
          /\ UNCHANGED <<listed, stopping, toStop>>
    /\ UNCHANGED <<plan, next, appVars, byID, mcp, notified, signalled>>

\* VirtualApp.Stop: cancel the context and close the broker, ...
StopCancels ==
    /\ pc = "stop"
    /\ ctx' = [ctx EXCEPT ![stopping] = FALSE]
    /\ pc' = "stopTransport"
    /\ UNCHANGED <<plan, next, stopping, listed, toStop, id, start, http, byID, loop, mcp, notified, signalled>>

\* ... call the transport's Stop, which takes at most five seconds, and does
\* nothing when Start has not made a server yet or, as no lock is held, its
\* assignment is not seen, ...
StopTransport ==
    /\ pc = "stopTransport"
    /\ \/ http' = [http EXCEPT ![stopping] = IF @ = "nil" THEN "nil" ELSE "shut"]
       \/ UNCHANGED http
    /\ pc' = "stopWait"
    /\ UNCHANGED <<plan, next, stopping, listed, toStop, id, ctx, start, byID, loop, mcp, notified, signalled>>

\* Mutant of StopWaits: it does not wait.
StopReturns ==
    /\ pc = "stopWait"
    /\ pc' = "stopServer"
    /\ stopping' = None
    /\ UNCHANGED <<plan, next, listed, toStop, appVars, byID, loop, mcp, notified, signalled>>

\* ... and wait for the transport's Start to return.
StopWaits ==
    /\ pc = "stopWait"
    /\ start[stopping] = "done"
    /\ pc' = "stopServer"
    /\ stopping' = None
    /\ UNCHANGED <<plan, next, listed, toStop, appVars, byID, loop, mcp, notified, signalled>>

\* The loop has left; main's deferred cancel is last, and nobody waits for MCP.
Exit ==
    /\ \/ pc = "join" /\ loop = "done" /\ pc' = "cancelMCP"
       \/ pc = "cancelMCP" /\ pc' = "exited"
    /\ UNCHANGED <<plan, next, stopping, listed, toStop, appVars, byID, loop, mcp, notified, signalled>>

Main ==
    \/ CreateVirtualApp \/ CreateFails \/ StartMCP \/ Notify
    \/ SignalReceived
    \/ ServerStop
    \/ StopCancels \/ StopTransport \/ StopWaits
    \/ Exit

-----------------------------------------------------------------------------
\* Server.run leaves when its context is cancelled (see RequestChannel).
LoopLeaves ==
    /\ loop = "cancelled"
    /\ loop' = "done"
    /\ UNCHANGED <<plan, mainVars, appVars, byID, mcp, notified, signalled>>

\* RunHTTPServer, and its goroutine that waits for main's context.
RunHTTPServer ==
    /\ \/ mcp = "new" /\ mcp' \in {"serving", "failed"}
       \/ mcp = "serving" /\ pc = "cancelMCP" /\ mcp' = "shut"
    /\ UNCHANGED <<plan, mainVars, appVars, byID, loop, notified, signalled>>

\* SIGINT or SIGTERM.  Bubble Tea quits if it runs.  Before main's Notify, and
\* with no Bubble Tea to catch it, the signal kills the process.
Signal ==
    /\ start' = [v \in Apps |-> IF Screen(v) THEN "done" ELSE start[v]]
    /\ signalled' = notified
    /\ pc' = IF notified \/ ScreenOpen THEN pc ELSE "exited"
    /\ UNCHANGED <<plan, next, stopping, listed, toStop, id, ctx, http, byID, loop, mcp, notified>>

Next ==
    /\ pc # "exited"
    /\ \/ Main
       \/ \E v \in Apps : TransportStep(v)
       \/ LoopLeaves
       \/ RunHTTPServer
       \/ Signal

\* Goroutines that can run do run; no signal, request or user has to come.
Fairness ==
    /\ WF_vars(pc # "exited" /\ Main)
    /\ WF_vars(pc # "exited" /\ LoopLeaves)
    /\ \A v \in UNION {DOMAIN p : p \in Plans} :
          WF_vars(pc # "exited" /\ v \in Apps /\ StartGoroutine(v) /\ OthersUnchanged)

Spec == Init /\ [][Next]_vars /\ Fairness

-----------------------------------------------------------------------------
\* A transport takes requests only while the server's loop is there to answer
\* them: whatever Start and Stop are racing for, no listener opens or stays open
\* once Server.Stop has stopped the apps (MCP, which is nobody's app, apart).
ServedWhileRunning ==
    pc # "exited" => \A v \in Apps : http[v] = "serving" => loop = "running" /\ v \in byID

\* Once main has its signal the process ends, unless a user stays on the TUI's
\* screen for ever: Transport.Start of the TUI does not look at its context.
ShutdownCompletes ==
    []<>~ScreenOpen => (pc \in {"stop", "stopServer"} ~> pc = "exited")

\* x is closer to target than y when it agrees with target in the first bit, from
\* the left, in which x and y differ.
Closer(target, x, y) ==
    \E i \in 1 .. IdBits :
        /\ x[i] # y[i]
        /\ x[i] = target[i]
        /\ \A j \in 1 .. i - 1 : x[j] = y[j]

\* GetKClosest gives the registered ids closest to target in the order of
\* Kademlia, nearest first, as many as asked for or there are.  (The registry
\* changes only while apps are created.)
ClosestAgree ==
    pc = "create" => \A target \in ScalegraphId, k \in 1 .. Len(plan) + 1 :
        LET found == GetKClosest(target, k)
            ids   == {id[v] : v \in byID}
        IN  /\ Len(found) = Min({k, Cardinality(byID)})
            /\ \A i, j \in DOMAIN found : i < j => Closer(target, found[i], found[j])
            /\ \A x \in Range(found), y \in ids \ Range(found) : Closer(target, x, y)
=============================================================================
