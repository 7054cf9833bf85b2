-------------------------- MODULE VirtualAppsProofs --------------------------
(***************************************************************************)
(* Theorems about the process, for any command lines and any ids: no       *)
(* listener outlives the server's loop, and GetKClosest finds the closest  *)
(* apps.                                                                   *)
(***************************************************************************)
EXTENDS VirtualApps, FiniteSetTheorems, WellFoundedInduction, TLAPS

MainSteps   == {"create", "wait", "stop", "stopTransport", "stopWait", "stopServer", "join", "cancelMCP", "exited"}
StartStates == {"idle", "begin", "running", "leaving", "done"}
HttpStates  == {"nil", "new", "serving", "failed", "shut"}

Types ==
    /\ plan \in Plans
    /\ pc \in MainSteps
    /\ next \in 1 .. Len(plan) + 1
    /\ byID \in SUBSET (1 .. next - 1)
    /\ toStop \in SUBSET byID
    /\ listed \in BOOLEAN
    /\ id \in [Apps -> RandomIds \cup {None}]
    /\ ctx \in [Apps -> BOOLEAN]
    /\ start \in [Apps -> StartStates]
    /\ http \in [Apps -> HttpStates]
    /\ loop \in {"running", "cancelled", "done"}

\* A Start that has not begun has no http.Server, and one that is about to
\* return, or has returned, has none that listens or may still listen.  The
\* TUI's never has one.
ServerOfStart ==
    \A v \in Apps :
        /\ start[v] \in {"idle", "begin"} => http[v] = "nil"
        /\ start[v] \in {"leaving", "done"} => http[v] \in {"nil", "shut"}
        /\ plan[v] = "tui" => http[v] = "nil"

\* Only registered apps are started, and they have ids of their own.
Registered ==
    /\ \A v \in Apps \ byID : start[v] = "idle"
    /\ \A v \in byID : id[v] \in RandomIds
    /\ \A v, w \in byID : id[v] = id[w] => v = w

Stopping == pc \in {"stop", "stopTransport", "stopWait"}

\* How far Server.Stop is: every app it has listed is still to be stopped, is
\* being stopped, or its Start has returned; the loop is cancelled after that.
Progress ==
    /\ pc \in {"create", "wait"} => ~listed
    /\ Stopping => stopping \in Apps
    /\ listed => \A v \in byID : v \in toStop \/ (Stopping /\ v = stopping) \/ start[v] = "done"
    /\ pc \in {"join", "cancelMCP"} => listed /\ toStop = {}
    /\ loop # "running" => pc \in {"join", "cancelMCP", "exited"}

\* It holds until the process is gone.
ProcessInv == pc # "exited" => Types /\ ServerOfStart /\ Registered /\ Progress

LEMMA AppsAreNumbers == plan \in Plans => Apps = 1 .. Len(plan) /\ Len(plan) \in Nat
BY PlanAssumption DEF Apps

\* Nothing has started at first.
LEMMA ProcessInit == Init => ProcessInv
<1> SUFFICES ASSUME Init PROVE Types /\ ServerOfStart /\ Registered /\ Progress
  BY DEF ProcessInv
<1>1. Apps = 1 .. Len(plan) /\ Len(plan) \in Nat
  BY AppsAreNumbers DEF Init
<1>2. Types
  <2>1. next \in 1 .. Len(plan) + 1 /\ byID = {} /\ toStop = {}
    BY <1>1 DEF Init
  <2>2. id \in [Apps -> RandomIds \cup {None}] /\ ctx \in [Apps -> BOOLEAN]
    BY DEF Init
  <2>3. start \in [Apps -> StartStates] /\ http \in [Apps -> HttpStates]
    BY DEF Init, StartStates, HttpStates
  <2> QED
    BY <2>1, <2>2, <2>3 DEF Init, Types, MainSteps
<1> QED
  BY <1>2 DEF Init, ServerOfStart, Registered, Progress, Stopping

\* A step of a transport.
LEMMA TransportKeeps ==
  ASSUME ProcessInv, pc # "exited", NEW v \in Apps, TransportStep(v)
  PROVE  ProcessInv'
<1>1. Types /\ ServerOfStart /\ Registered /\ Progress
  BY DEF ProcessInv
<1>2. /\ UNCHANGED <<plan, pc, next, stopping, listed, toStop, byID, loop>>
      /\ UNCHANGED <<id, ctx>>
      /\ Apps' = Apps
  BY DEF TransportStep, OthersUnchanged, mainVars, StartGoroutine, TransportStart, ContextDone, Leave,
         ListenAndServe, UserQuits, Apps
<1>3. /\ start' \in [Apps -> StartStates] /\ http' \in [Apps -> HttpStates]
      /\ \A w \in Apps \ {v} : start'[w] = start[w] /\ http'[w] = http[w]
      /\ start[v] # "idle" /\ start'[v] # "idle"
      /\ start[v] = "done" => start'[v] = "done"
      /\ start'[v] # "begin" \/ http'[v] = "nil"
      /\ start'[v] \in {"leaving", "done"} => http'[v] \in {"nil", "shut"}
      /\ plan[v] = "tui" => http'[v] = "nil"
  <2> USE <1>1 DEF Types, StartStates, HttpStates
  <2>1. CASE TransportStart(v)
    BY <2>1 DEF TransportStart, ServerOfStart
  <2>2. CASE ContextDone(v)
    BY <2>2 DEF ContextDone
  <2>3. CASE Leave(v)
    BY <2>3 DEF Leave, ServerOfStart
  <2>4. CASE ListenAndServe(v)
    BY <2>4 DEF ListenAndServe, ServerOfStart
  <2>5. CASE UserQuits(v)
    BY <2>5 DEF UserQuits, Screen, ServerOfStart
  <2> QED
    BY <2>1, <2>2, <2>3, <2>4, <2>5 DEF TransportStep, StartGoroutine
<1>4. Types'
  BY <1>1, <1>2, <1>3 DEF Types
<1>5. ServerOfStart'
  BY <1>1, <1>2, <1>3 DEF ServerOfStart
<1>6. Registered'
  BY <1>1, <1>2, <1>3 DEF Registered
<1>7. Progress'
  <2>1. byID \subseteq Apps
    BY <1>1, AppsAreNumbers DEF Types
  <2>2. \A w \in byID : start[w] = "done" => start'[w] = "done"
    BY <1>3, <2>1
  <2> QED
    BY <1>1, <1>2, <2>2 DEF Progress, Stopping
<1> QED
  BY <1>4, <1>5, <1>6, <1>7 DEF ProcessInv

\* Server.Stop or VirtualApp.Stop moves on.
LEMMA StopKeeps ==
  ASSUME ProcessInv, pc # "exited", ServerStop \/ StopCancels \/ StopTransport \/ StopWaits
  PROVE  ProcessInv'
<1>1. Types /\ ServerOfStart /\ Registered /\ Progress
  BY DEF ProcessInv
<1>2. UNCHANGED <<plan, next, id, start, byID>> /\ Apps' = Apps
  BY DEF ServerStop, StopCancels, StopTransport, StopWaits, appVars, Apps
<1>3. byID \subseteq Apps
  BY <1>1, AppsAreNumbers DEF Types
<1>4. /\ http' \in [Apps -> HttpStates]
      /\ \A v \in Apps : http'[v] = http[v] \/ (http[v] # "nil" /\ http'[v] = "shut")
  BY <1>1 DEF ServerStop, StopCancels, StopTransport, StopWaits, appVars, Types, HttpStates
<1>5. ServerOfStart'
  BY <1>1, <1>2, <1>4 DEF ServerOfStart
<1>6. Registered'
  BY <1>1, <1>2 DEF Registered
<1>7. /\ pc' \in MainSteps /\ toStop' \in SUBSET byID /\ listed' \in BOOLEAN
      /\ loop' \in {"running", "cancelled", "done"}
      /\ ctx' \in [Apps -> BOOLEAN]
  BY <1>1 DEF ServerStop, StopCancels, StopTransport, StopWaits, appVars, Types, MainSteps
<1>8. Types'
  BY <1>1, <1>2, <1>4, <1>7 DEF Types
<1>9. Progress'
  <2> USE <1>1, <1>2, <1>3 DEF Progress, Stopping
  <2>1. CASE ServerStop
    BY <2>1 DEF ServerStop, Types
  <2>2. CASE StopCancels
    BY <2>2 DEF StopCancels, Types
  <2>3. CASE StopTransport
    BY <2>3 DEF StopTransport, Types
  <2>4. CASE StopWaits
    BY <2>4 DEF StopWaits, Types
  <2> QED
    BY <2>1, <2>2, <2>3, <2>4
<1> QED
  BY <1>5, <1>6, <1>8, <1>9 DEF ProcessInv

\* An app is created, with an id no other has.
LEMMA CreateKeeps ==
  ASSUME ProcessInv, pc # "exited", CreateVirtualApp
  PROVE  ProcessInv'
<1>1. Types /\ ServerOfStart /\ Registered /\ Progress
  BY DEF ProcessInv
<1>2. PICK drawn \in RandomIds : Register(next, drawn)
  BY DEF CreateVirtualApp
<1>3. /\ UNCHANGED <<plan, pc, stopping, listed, toStop, ctx, http, loop>>
      /\ Apps' = Apps /\ pc = "create" /\ next \in Apps
      /\ start' = [start EXCEPT ![next] = "begin"]
      /\ next' = next + 1
      /\ id' = [id EXCEPT ![next] = drawn]
      /\ byID' = byID \cup {next}
      /\ \A w \in byID : id[w] # drawn
  BY <1>2 DEF CreateVirtualApp, Register, Apps
<1>4. Apps = 1 .. Len(plan) /\ Len(plan) \in Nat /\ next \in 1 .. Len(plan)
  BY <1>1, <1>3, AppsAreNumbers DEF Types
<1>5. next \notin byID /\ byID \subseteq Apps
  BY <1>1, <1>4 DEF Types
<1>6. start[next] = "idle" /\ http[next] = "nil"
  BY <1>1, <1>3, <1>5 DEF Registered, ServerOfStart
<1>7. Types'
  <2>1. next' \in 1 .. Len(plan') + 1 /\ byID' \in SUBSET (1 .. next' - 1)
    BY <1>1, <1>3, <1>4 DEF Types
  <2>2. id' \in [Apps -> RandomIds \cup {None}]
    BY <1>1, <1>3 DEF Types
  <2>3. start' \in [Apps -> StartStates]
    BY <1>1, <1>3 DEF Types, StartStates
  <2> QED
    BY <1>1, <1>3, <2>1, <2>2, <2>3 DEF Types
<1>8. ServerOfStart'
  BY <1>1, <1>3, <1>6 DEF ServerOfStart, Types
<1>9. Registered'
  BY <1>1, <1>3, <1>5 DEF Registered, Types
<1>10. Progress'
  BY <1>1, <1>3 DEF Progress, Stopping
<1> QED
  BY <1>7, <1>8, <1>9, <1>10 DEF ProcessInv

\* The other steps of main, and those of the loop, MCP and signals.
LEMMA OtherKeeps ==
  ASSUME ProcessInv, pc # "exited",
         CreateFails \/ StartMCP \/ Notify \/ SignalReceived \/ Exit \/ LoopLeaves \/ RunHTTPServer
  PROVE  ProcessInv'
<1>1. Types /\ ServerOfStart /\ Registered /\ Progress
  BY DEF ProcessInv
<1>2. UNCHANGED <<plan, listed, toStop, id, ctx, start, http, byID>> /\ Apps' = Apps
  BY DEF CreateFails, StartMCP, Notify, SignalReceived, Exit, LoopLeaves, RunHTTPServer, appVars, mainVars, Apps
<1>3. Apps = 1 .. Len(plan) /\ Len(plan) \in Nat /\ byID \subseteq Apps
  BY <1>1, AppsAreNumbers DEF Types
<1>4. ServerOfStart' /\ Registered'
  BY <1>1, <1>2 DEF ServerOfStart, Registered
<1>5. next' = next \/ (next \in Apps /\ next' = next + 1)
  BY DEF CreateFails, StartMCP, Notify, SignalReceived, Exit, LoopLeaves, RunHTTPServer, mainVars
<1>6. next' \in 1 .. Len(plan) + 1 /\ byID \in SUBSET (1 .. next' - 1)
  BY <1>1, <1>3, <1>5 DEF Types
<1>7. pc' \in MainSteps /\ loop' \in {"running", "cancelled", "done"}
  BY <1>1 DEF CreateFails, StartMCP, Notify, SignalReceived, Exit, LoopLeaves, RunHTTPServer, mainVars,
              Types, MainSteps
<1>8. Types'
  BY <1>1, <1>2, <1>6, <1>7 DEF Types
<1>9. pc' # "exited" => Progress'
  <2> USE <1>1, <1>2, <1>3 DEF Progress, Stopping
  <2>1. CASE CreateFails
    BY <2>1 DEF CreateFails
  <2>2. CASE StartMCP \/ LoopLeaves \/ RunHTTPServer
    BY <2>2 DEF StartMCP, LoopLeaves, RunHTTPServer, mainVars, Types
  <2>3. CASE Notify
    BY <2>3 DEF Notify
  <2>4. CASE SignalReceived
    <3>1. UsesTUI => Len(plan) \in Apps
      BY <1>3, PlanAssumption DEF UsesTUI, Types
    <3> QED
      BY <2>4, <3>1 DEF SignalReceived
  <2>5. CASE Exit
    BY <2>5 DEF Exit
  <2> QED
    BY <2>1, <2>2, <2>3, <2>4, <2>5
<1> QED
  BY <1>4, <1>8, <1>9 DEF ProcessInv

\* A signal ends the TUI's screen, and the process if main does not expect it.
LEMMA SignalKeeps ==
  ASSUME ProcessInv, pc # "exited", Signal
  PROVE  ProcessInv'
<1>1. Types /\ ServerOfStart /\ Registered /\ Progress
  BY DEF ProcessInv
<1>2. /\ UNCHANGED <<plan, next, stopping, listed, toStop, id, ctx, http, byID, loop>> /\ Apps' = Apps
      /\ start' = [v \in Apps |-> IF Screen(v) THEN "done" ELSE start[v]]
      /\ pc' \in {pc, "exited"}
  BY DEF Signal, Apps
<1>3. byID \subseteq Apps
  BY <1>1, AppsAreNumbers DEF Types
<1>4. \A v \in Apps : start'[v] = start[v] \/ (start[v] = "running" /\ plan[v] = "tui" /\ start'[v] = "done")
  BY <1>2 DEF Screen
<1>5. Types'
  <2>1. start' \in [Apps -> StartStates]
    BY <1>1, <1>2 DEF Types, StartStates
  <2> QED
    BY <1>1, <1>2, <2>1 DEF Types, MainSteps
<1>6. ServerOfStart'
  BY <1>1, <1>2, <1>4 DEF ServerOfStart
<1>7. Registered'
  BY <1>1, <1>2, <1>4 DEF Registered
<1>8. pc' # "exited" => Progress'
  BY <1>1, <1>2, <1>3, <1>4 DEF Progress, Stopping
<1> QED
  BY <1>5, <1>6, <1>7, <1>8 DEF ProcessInv

\* Types, ServerOfStart, Registered and Progress hold until the process is gone.
THEOREM ProcessInvariant == Spec => []ProcessInv
<1>1. ProcessInv /\ [Next]_vars => ProcessInv'
  <2> SUFFICES ASSUME ProcessInv, [Next]_vars PROVE ProcessInv'
    OBVIOUS
  <2>1. CASE UNCHANGED vars
    BY <2>1 DEF vars, ProcessInv, Types, ServerOfStart, Registered, Progress, Stopping, Apps
  <2>2. CASE Next
    BY <2>2, TransportKeeps, StopKeeps, CreateKeeps, OtherKeeps, SignalKeeps DEF Next, Main
  <2> QED
    BY <2>1, <2>2
<1> QED
  BY <1>1, ProcessInit, PTL DEF Spec

\* No listener is open while the server's loop is told to stop or gone, and no
\* app that is not registered has one: VirtualApp.Stop waits for Start to return,
\* and Start does not return with a server that listens or may still listen.
THEOREM NoListenerOutlivesTheLoop == Spec => []ServedWhileRunning
<1>1. ProcessInv => ServedWhileRunning
  <2> SUFFICES ASSUME ProcessInv, pc # "exited", NEW v \in Apps, http[v] = "serving"
               PROVE  loop = "running" /\ v \in byID
    BY DEF ServedWhileRunning
  <2>1. start[v] \notin {"idle", "done"}
    BY DEF ProcessInv, ServerOfStart
  <2>2. v \in byID
    BY <2>1 DEF ProcessInv, Registered
  <2>3. loop = "running"
    BY <2>1, <2>2 DEF ProcessInv, Progress, Stopping
  <2> QED
    BY <2>2, <2>3
<1> QED
  BY <1>1, ProcessInvariant, PTL

-----------------------------------------------------------------------------
(***************************************************************************)
(* Induction.  It is over sets of numbers, {n : P(n)}, because the library *)
(* states it over predicates, which the provers do not instantiate.        *)
(***************************************************************************)
\* A non-empty set of natural numbers has a least one.
LEMMA Least ==
  ASSUME NEW T, T \subseteq Nat, T # {}
  PROVE  \E n \in T : \A i \in T : n <= i
<1>1. PICK n \in T : \A i \in T : ~(<<i, n>> \in OpToRel(<, Nat))
  BY NatLessThanWellFounded, WFMin
<1>2. \A i \in T : ~(i < n)
  BY <1>1 DEF OpToRel
<1> QED
  BY <1>2

\* Induction from low to high.
LEMMA Induction ==
  ASSUME NEW T, NEW low \in Nat, NEW high \in Nat, low \in T,
         \A n \in low .. high - 1 : n \in T => n + 1 \in T
  PROVE  \A n \in low .. high : n \in T
<1> SUFFICES ASSUME NEW k \in low .. high, k \notin T PROVE FALSE
  OBVIOUS
<1> DEFINE U == (low .. high) \ T
<1>1. PICK n \in U : \A i \in U : n <= i
  <2>1. U \subseteq Nat /\ U # {}
    OBVIOUS
  <2> QED
    BY <2>1, Least
<1>2. n # low /\ n \in low .. high
  OBVIOUS
<1>3. n - 1 \in low .. high - 1 /\ n - 1 \notin U
  BY <1>1, <1>2
<1>4. n - 1 \in T /\ (n - 1) + 1 = n
  BY <1>2, <1>3
<1> QED
  BY <1>3, <1>4

-----------------------------------------------------------------------------
(***************************************************************************)
(* Sorting.                                                                *)
(***************************************************************************)
Ascending(s, n, key) == \A i, j \in 1 .. n : i < j => key[s[i]] < key[s[j]]

\* A finite set whose elements have different keys can be sorted.
LEMMA CanSort ==
  ASSUME NEW S, IsFiniteSet(S), NEW key, \A x \in S : key[x] \in Nat,
         \A x, y \in S : key[x] = key[y] => x = y
  PROVE  \E s \in [1 .. Cardinality(S) -> S] : Ascending(s, Cardinality(S), key)
<1> DEFINE Sortable(A, n) == \E s \in [1 .. n -> A] : Ascending(s, n, key)
           T == {n \in Nat : \A A \in SUBSET S : Cardinality(A) = n => Sortable(A, n)}
<1>1. 0 \in T
  <2> SUFFICES ASSUME NEW A \in SUBSET S PROVE Sortable(A, 0)
    OBVIOUS
  <2> DEFINE e == [i \in 1 .. 0 |-> CHOOSE x \in A : TRUE]
  <2>1. e \in [1 .. 0 -> A] /\ Ascending(e, 0, key)
    BY DEF Ascending
  <2> QED
    BY <2>1
<1>2. ASSUME NEW n \in Nat, n \in T
      PROVE  n + 1 \in T
  <2> SUFFICES ASSUME NEW A \in SUBSET S, Cardinality(A) = n + 1 PROVE Sortable(A, n + 1)
    OBVIOUS
  <2>1. IsFiniteSet(A) /\ A # {}
    BY FS_Subset, FS_EmptySet
  <2>2. PICK x \in A : \A y \in A : key[x] <= key[y]
    <3> DEFINE K == {key[y] : y \in A}
    <3>1. K \subseteq Nat /\ K # {}
      BY <2>1
    <3>2. PICK k \in K : \A i \in K : k <= i
      BY <3>1, Least
    <3> QED
      BY <3>2
  <2>3. Cardinality(A \ {x}) = n /\ A \ {x} \in SUBSET S
    <3>1. Cardinality(A \ {x}) = Cardinality(A) - 1
      BY <2>1, <2>2, FS_RemoveElement
    <3>2. Cardinality(A) - 1 = n
      OBVIOUS
    <3> QED
      BY <3>1, <3>2
  <2>4. PICK s \in [1 .. n -> A \ {x}] : Ascending(s, n, key)
    BY <1>2, <2>3
  <2> DEFINE r == [i \in 1 .. n + 1 |-> IF i = 1 THEN x ELSE s[i - 1]]
  <2>5. r \in [1 .. n + 1 -> A]
    BY <2>2, <2>4
  <2>6. \A j \in 2 .. n + 1 : j - 1 \in 1 .. n /\ r[j] = s[j - 1] /\ r[j] \in A \ {x}
    BY <2>4
  <2>7. \A y \in A \ {x} : key[x] < key[y]
    BY <2>2
  <2>8. Ascending(r, n + 1, key)
    <3> SUFFICES ASSUME NEW i \in 1 .. n + 1, NEW j \in 1 .. n + 1, i < j PROVE key[r[i]] < key[r[j]]
      BY DEF Ascending
    <3>1. j \in 2 .. n + 1
      OBVIOUS
    <3>2. CASE i = 1
      <4>1. r[i] = x
        BY <3>2
      <4> HIDE DEF r
      <4> QED
        BY <2>6, <2>7, <3>1, <4>1
    <3>3. CASE i # 1
      <4>1. i \in 2 .. n + 1 /\ i - 1 < j - 1
        BY <3>3
      <4> HIDE DEF r
      <4> QED
        BY <2>4, <2>6, <3>1, <4>1 DEF Ascending
    <3> QED
      BY <3>2, <3>3
  <2> QED
    BY <2>5, <2>8
<1>3. Cardinality(S) \in Nat
  BY FS_CardinalityType
<1>4. Cardinality(S) \in T
  <2> HIDE DEF T
  <2> QED
    BY <1>1, <1>2, <1>3, Induction
<1> QED
  BY <1>4

\* The sorted sequence has every element once.
LEMMA SortedWorks ==
  ASSUME NEW S, IsFiniteSet(S), NEW key, \A x \in S : key[x] \in Nat,
         \A x, y \in S : key[x] = key[y] => x = y
  PROVE  /\ Cardinality(S) \in Nat
         /\ Sorted(S, key) \in [1 .. Cardinality(S) -> S]
         /\ Ascending(Sorted(S, key), Cardinality(S), key)
         /\ \A x \in S : \E i \in 1 .. Cardinality(S) : Sorted(S, key)[i] = x
<1> DEFINE n == Cardinality(S)
           s == Sorted(S, key)
<1>1. n \in Nat
  BY FS_CardinalityType
<1>2. s \in [1 .. n -> S] /\ Ascending(s, n, key)
  <2>1. \E r \in [1 .. n -> S] : \A i, j \in DOMAIN r : i < j => key[r[i]] < key[r[j]]
    BY CanSort DEF Ascending
  <2>2. s \in [1 .. n -> S] /\ \A i, j \in DOMAIN s : i < j => key[s[i]] < key[s[j]]
    BY <2>1 DEF Sorted
  <2> QED
    BY <2>2 DEF Ascending
<1>3. s \in Injection(1 .. n, S)
  <2> HIDE DEF s
  <2>1. \A i, j \in 1 .. n : s[i] = s[j] => i = j
    BY <1>1, <1>2 DEF Ascending
  <2> QED
    BY <1>2, <2>1 DEF Injection, IsInjective
<1>4. Cardinality(1 .. n) = n
  BY <1>1, FS_Interval
<1>5. s \in Surjection(1 .. n, S)
  BY <1>3, <1>4, FS_Injection
<1> QED
  BY <1>1, <1>2, <1>5 DEF Surjection

-----------------------------------------------------------------------------
(***************************************************************************)
(* Distances.                                                              *)
(***************************************************************************)
\* value is what SetBytes computes: value[n] is the number made of n bits.
Reads(bits, value) ==
    /\ value \in [0 .. IdBits -> Nat]
    /\ value[0] = 0
    /\ \A n \in 1 .. IdBits : value[n] = 2 * value[n - 1] + bits[n]

\* The same for the first k bits.
ReadsTo(bits, k, value) ==
    /\ value \in [0 .. k -> Nat]
    /\ value[0] = 0
    /\ \A n \in 1 .. k : value[n] = 2 * value[n - 1] + bits[n]

\* The recursion in SetBytes has a solution.
LEMMA CanRead ==
  ASSUME NEW bits \in [1 .. IdBits -> {0, 1}]
  PROVE  \E value : Reads(bits, value)
<1> DEFINE T == {k \in Nat : \E value : ReadsTo(bits, k, value)}
<1>0. IdBits \in Nat
  BY IdAssumption
<1>1. 0 \in T
  <2> DEFINE z == [i \in 0 .. 0 |-> 0]
  <2>1. ReadsTo(bits, 0, z)
    BY DEF ReadsTo
  <2> QED
    BY <2>1
<1>2. ASSUME NEW k \in 0 .. IdBits - 1, k \in T
      PROVE  k + 1 \in T
  <2>1. PICK value : ReadsTo(bits, k, value)
    BY <1>2
  <2>2. bits[k + 1] \in {0, 1} /\ k \in Nat /\ value[k] \in Nat
    BY <1>0, <2>1 DEF ReadsTo
  <2> DEFINE r == [i \in 0 .. k + 1 |-> IF i <= k THEN value[i] ELSE 2 * value[k] + bits[k + 1]]
  <2>3. \A i \in 0 .. k : r[i] = value[i] /\ value[i] \in Nat
    BY <2>1, <2>2 DEF ReadsTo
  <2>4. r[k + 1] = 2 * value[k] + bits[k + 1] /\ 2 * value[k] + bits[k + 1] \in Nat
    BY <2>2
  <2>5. DOMAIN r = 0 .. k + 1 /\ r = [i \in 0 .. k + 1 |-> r[i]]
    OBVIOUS
  <2>6. \A i \in 0 .. k + 1 : i \in 0 .. k \/ i = k + 1
    BY <2>2
  <2> HIDE DEF r
  <2>7. r \in [0 .. k + 1 -> Nat]
    BY <2>3, <2>4, <2>5, <2>6
  <2>8. r[0] = 0
    BY <2>1, <2>2, <2>3 DEF ReadsTo
  <2>9. ASSUME NEW n \in 1 .. k + 1 PROVE r[n] = 2 * r[n - 1] + bits[n]
    <3>1. n - 1 \in 0 .. k
      BY <2>2
    <3>2. CASE n = k + 1
      BY <2>2, <2>3, <2>4, <3>1, <3>2
    <3>3. CASE n \in 1 .. k
      BY <2>1, <2>3, <3>1, <3>3 DEF ReadsTo
    <3> QED
      BY <2>2, <3>2, <3>3
  <2>10. ReadsTo(bits, k + 1, r)
    BY <2>7, <2>8, <2>9 DEF ReadsTo
  <2> QED
    BY <2>2, <2>10
<1>3. IdBits \in T
  <2> HIDE DEF T
  <2>1. \A n \in 0 .. IdBits : n \in T
    BY <1>0, <1>1, <1>2, Induction
  <2> QED
    BY <1>0, <2>1
<1> QED
  BY <1>3 DEF Reads, ReadsTo

\* SetBytes gives the number of all bits.
LEMMA SetBytesReads ==
  ASSUME NEW bits \in [1 .. IdBits -> {0, 1}]
  PROVE  \E value : Reads(bits, value) /\ SetBytes(bits) = value[IdBits]
<1> DEFINE Step(f) == [n \in 0 .. IdBits |-> IF n = 0 THEN 0 ELSE 2 * f[n - 1] + bits[n]]
           v == CHOOSE f : f = Step(f)
           T == {n \in Nat : v[n] \in Nat}
<1>0. IdBits \in Nat
  BY IdAssumption
<1>1. SetBytes(bits) = v[IdBits]
  BY DEF SetBytes
<1>2. PICK f : Reads(bits, f)
  BY CanRead
<1>3. f = Step(f)
  <2>1. \A n \in 0 .. IdBits : f[n] = IF n = 0 THEN 0 ELSE 2 * f[n - 1] + bits[n]
    BY <1>0, <1>2 DEF Reads
  <2>2. f = [n \in 0 .. IdBits |-> f[n]]
    BY <1>2 DEF Reads
  <2> QED
    BY <2>1, <2>2
<1>4. v = Step(v)
  BY <1>3
<1>5. v[0] = 0 /\ \A n \in 1 .. IdBits : v[n] = 2 * v[n - 1] + bits[n]
  <2> HIDE DEF v
  <2> QED
    BY <1>0, <1>4
<1>6. DOMAIN v = 0 .. IdBits /\ v = [n \in 0 .. IdBits |-> v[n]]
  <2>1. \E g : v = [n \in 0 .. IdBits |-> g[n]]
    <3> DEFINE w == Step(v)
    <3>1. w = [n \in 0 .. IdBits |-> w[n]]
      OBVIOUS
    <3>2. v = w
      BY <1>4
    <3> HIDE DEF v, w
    <3> QED
      BY <3>1, <3>2
  <2> HIDE DEF v
  <2> QED
    BY <2>1
<1> HIDE DEF v
<1>7. 0 \in T /\ \A n \in 0 .. IdBits - 1 : n \in T => n + 1 \in T
  <2>1. 0 \in T
    BY <1>5
  <2>2. ASSUME NEW n \in 0 .. IdBits - 1, v[n] \in Nat PROVE v[n + 1] \in Nat
    <3>1. n + 1 \in 1 .. IdBits /\ (n + 1) - 1 = n
      BY <1>0
    <3>2. v[n + 1] = 2 * v[n] + bits[n + 1] /\ bits[n + 1] \in {0, 1}
      BY <1>5, <3>1
    <3> QED
      BY <2>2, <3>2
  <2> QED
    BY <2>1, <2>2
<1>8. \A n \in 0 .. IdBits : n \in T
  <2> HIDE DEF T
  <2> QED
    BY <1>0, <1>7, Induction
<1>9. Reads(bits, v)
  BY <1>5, <1>6, <1>8 DEF Reads
<1> QED
  BY <1>1, <1>9

Agree(a, b, h) == \A j \in 1 .. h : a[j] = b[j]

\* The same first bits make the same number.
LEMMA SameStart ==
  ASSUME NEW a, NEW b, NEW v, NEW w, Reads(a, v), Reads(b, w),
         NEW h \in 0 .. IdBits, Agree(a, b, h)
  PROVE  v[h] = w[h]
<1> DEFINE T == {n \in Nat : v[n] = w[n]}
<1>0. IdBits \in Nat /\ h \in Nat
  BY IdAssumption
<1>1. 0 \in T
  BY DEF Reads
<1>2. ASSUME NEW n \in 0 .. h - 1, n \in T PROVE n + 1 \in T
  <2>1. n + 1 \in 1 .. IdBits /\ n + 1 \in 1 .. h /\ (n + 1) - 1 = n
    BY <1>0
  <2>2. v[n + 1] = 2 * v[n] + a[n + 1] /\ w[n + 1] = 2 * w[n] + b[n + 1] /\ a[n + 1] = b[n + 1]
    BY <2>1 DEF Reads, Agree
  <2> QED
    BY <1>2, <2>1, <2>2
<1>3. \A n \in 0 .. h : n \in T
  <2> HIDE DEF T
  <2> QED
    BY <1>0, <1>1, <1>2, Induction
<1> QED
  BY <1>0, <1>3

\* Of two ids the one that is smaller where they first differ is the smaller number.
LEMMA FirstBitDecides ==
  ASSUME NEW a \in [1 .. IdBits -> {0, 1}], NEW b \in [1 .. IdBits -> {0, 1}],
         NEW i \in 1 .. IdBits, \A j \in 1 .. i - 1 : a[j] = b[j], a[i] = 0, b[i] = 1
  PROVE  SetBytes(a) < SetBytes(b)
<1>0. IdBits \in Nat
  BY IdAssumption
<1>1. PICK v : Reads(a, v) /\ SetBytes(a) = v[IdBits]
  BY SetBytesReads
<1>2. PICK w : Reads(b, w) /\ SetBytes(b) = w[IdBits]
  BY SetBytesReads
<1> DEFINE U == {n \in Nat : v[n] < w[n]}
<1>4. v[i - 1] = w[i - 1]
  <2>1. PICK h \in 0 .. IdBits : h = i - 1
    BY <1>0
  <2>2. Agree(a, b, h)
    BY <2>1 DEF Agree
  <2>3. v[h] = w[h]
    BY <1>1, <1>2, <2>2, SameStart
  <2> QED
    BY <2>1, <2>3
<1>5. i \in U
  <2>1. v[i] = 2 * v[i - 1] + 0 /\ w[i] = 2 * w[i - 1] + 1 /\ v[i - 1] \in Nat
    BY <1>0, <1>1, <1>2 DEF Reads
  <2> QED
    BY <1>0, <1>4, <2>1
<1>6. ASSUME NEW n \in i .. IdBits - 1, n \in U PROVE n + 1 \in U
  <2>1. n \in 0 .. IdBits /\ n + 1 \in 1 .. IdBits /\ (n + 1) - 1 = n
    BY <1>0
  <2>2. v[n + 1] = 2 * v[n] + a[n + 1] /\ w[n + 1] = 2 * w[n] + b[n + 1] /\ v[n] \in Nat /\ w[n] \in Nat
    BY <1>1, <1>2, <2>1 DEF Reads
  <2>3. a[n + 1] \in {0, 1} /\ b[n + 1] \in {0, 1}
    BY <2>1
  <2>4. v[n] + 1 <= w[n]
    BY <1>6, <2>2
  <2> QED
    BY <2>1, <2>2, <2>3, <2>4
<1>7. IdBits \in U
  <2> HIDE DEF U
  <2>1. i \in Nat
    BY <1>0
  <2>2. \A n \in i .. IdBits : n \in U
    BY <1>0, <1>5, <1>6, <2>1, Induction
  <2> QED
    BY <1>0, <2>2
<1> QED
  BY <1>1, <1>2, <1>7

XorBits(target, x) == [i \in 1 .. IdBits |-> (target[i] + x[i]) % 2]

\* The closer of two ids has the smaller distance.
LEMMA CloserIsSmaller ==
  ASSUME NEW target \in ScalegraphId, NEW x \in ScalegraphId, NEW y \in ScalegraphId,
         Closer(target, x, y)
  PROVE  xorDistance(target, x) < xorDistance(target, y)
<1> DEFINE a == XorBits(target, x)
           b == XorBits(target, y)
<1>1. PICK i \in 1 .. IdBits : x[i] # y[i] /\ x[i] = target[i] /\ \A j \in 1 .. i - 1 : x[j] = y[j]
  BY DEF Closer
<1>2. IdBits \in Nat
  BY IdAssumption
<1>3. a \in [1 .. IdBits -> {0, 1}] /\ b \in [1 .. IdBits -> {0, 1}]
  BY DEF XorBits, ScalegraphId
<1>4. a[i] = 0 /\ b[i] = 1
  <2>1. x[i] \in {0, 1} /\ y[i] \in {0, 1} /\ target[i] \in {0, 1}
    BY DEF ScalegraphId
  <2>2. a[i] = (target[i] + x[i]) % 2 /\ b[i] = (target[i] + y[i]) % 2
    BY DEF XorBits
  <2> HIDE DEF a, b
  <2> QED
    BY <1>1, <2>1, <2>2
<1>5. \A j \in 1 .. i - 1 : a[j] = b[j]
  BY <1>1, <1>2 DEF XorBits
<1>6. SetBytes(a) < SetBytes(b)
  <2> HIDE DEF a, b
  <2> QED
    BY <1>3, <1>4, <1>5, FirstBitDecides
<1> QED
  BY <1>6 DEF xorDistance, XorBits

\* Of two different ids one is closer.
LEMMA OneIsCloser ==
  ASSUME NEW target \in ScalegraphId, NEW x \in ScalegraphId, NEW y \in ScalegraphId, x # y
  PROVE  Closer(target, x, y) \/ Closer(target, y, x)
<1> DEFINE T == {i \in 1 .. IdBits : x[i] # y[i]}
<1>1. IdBits \in Nat
  BY IdAssumption
<1>2. T # {} /\ T \subseteq Nat
  BY <1>1 DEF ScalegraphId
<1>3. PICK i \in T : \A j \in T : i <= j
  <2> HIDE DEF T
  <2> QED
    BY <1>2, Least
<1>4. \A j \in 1 .. i - 1 : x[j] = y[j]
  BY <1>1, <1>3
<1>5. x[i] \in {0, 1} /\ y[i] \in {0, 1} /\ target[i] \in {0, 1} /\ x[i] # y[i]
  BY <1>3 DEF ScalegraphId
<1>6. x[i] = target[i] \/ y[i] = target[i]
  BY <1>5
<1> QED
  BY <1>3, <1>4, <1>5, <1>6 DEF Closer

\* Distances to target order ids as Closer does.
LEMMA DistanceWorks ==
  ASSUME NEW target \in ScalegraphId, NEW x \in ScalegraphId
  PROVE  /\ xorDistance(target, x) \in Nat
         /\ \A y \in ScalegraphId : xorDistance(target, x) = xorDistance(target, y) => x = y
         /\ \A y \in ScalegraphId : xorDistance(target, x) < xorDistance(target, y) => Closer(target, x, y)
<1> DEFINE d(y) == xorDistance(target, y)
<1>1. ASSUME NEW y \in ScalegraphId PROVE d(y) \in Nat
  <2>1. XorBits(target, y) \in [1 .. IdBits -> {0, 1}]
    BY DEF XorBits, ScalegraphId
  <2>2. PICK value : Reads(XorBits(target, y), value) /\ SetBytes(XorBits(target, y)) = value[IdBits]
    BY <2>1, SetBytesReads
  <2>3. d(y) = value[IdBits]
    BY <2>2 DEF xorDistance, XorBits
  <2> QED
    BY <2>2, <2>3, IdAssumption DEF Reads
<1>2. ASSUME NEW y \in ScalegraphId, x # y PROVE d(x) # d(y) /\ (d(x) < d(y) => Closer(target, x, y))
  <2>1. (Closer(target, x, y) => d(x) < d(y)) /\ (Closer(target, y, x) => d(y) < d(x))
    BY CloserIsSmaller
  <2>2. d(x) \in Nat /\ d(y) \in Nat
    BY <1>1
  <2> HIDE DEF d
  <2> QED
    BY <1>2, <2>1, <2>2, OneIsCloser
<1>3. ~(d(x) < d(x)) /\ d(x) \in Nat
  BY <1>1
<1> QED
  BY <1>2, <1>3

-----------------------------------------------------------------------------
\* The smaller of two numbers.
LEMMA MinOfTwo ==
  ASSUME NEW a \in Nat, NEW b \in Nat
  PROVE  Min({a, b}) = IF a <= b THEN a ELSE b
<1> DEFINE c == IF a <= b THEN a ELSE b
<1>1. c \in {a, b} /\ \A y \in {a, b} : c <= y
  OBVIOUS
<1>2. \A x \in {a, b} : (\A y \in {a, b} : x <= y) => x = c
  OBVIOUS
<1> QED
  BY <1>1, <1>2 DEF Min

\* The ids of the registered apps are as many as the apps.
LEMMA IdsOfApps ==
  ASSUME ProcessInv, pc # "exited"
  PROVE  LET ids == {id[v] : v \in byID}
         IN  ids \subseteq ScalegraphId /\ IsFiniteSet(ids) /\ Cardinality(ids) = Cardinality(byID)
<1> DEFINE ids == {id[v] : v \in byID}
           f == [v \in byID |-> id[v]]
<1>1. Types /\ Registered
  BY DEF ProcessInv
<1>2. IsFiniteSet(byID)
  <2>1. next - 1 \in Int /\ byID \in SUBSET (1 .. next - 1)
    BY <1>1, AppsAreNumbers DEF Types
  <2>2. IsFiniteSet(1 .. next - 1)
    BY <2>1, FS_Interval
  <2> QED
    BY <2>1, <2>2, FS_Subset
<1>3. f \in Surjection(byID, ids)
  BY DEF Surjection
<1>4. f \in Injection(byID, ids)
  BY <1>1 DEF Injection, IsInjective, Registered
<1>5. IsFiniteSet(ids) /\ Cardinality(ids) = Cardinality(byID)
  BY <1>2, <1>3, <1>4, FS_Surjection
<1>6. ids \subseteq ScalegraphId
  BY <1>1, IdAssumption DEF Registered
<1> QED
  BY <1>5, <1>6

\* In every state in which the registry may be asked, whoever is registered, the
\* answer of GetKClosest is the k closest in the sense of Kademlia, nearest first.
THEOREM ClosestAreFound == Spec => []ClosestAgree
<1>1. ProcessInv => ClosestAgree
  <2> SUFFICES ASSUME ProcessInv, pc = "create", NEW target \in ScalegraphId, NEW k \in 1 .. Len(plan) + 1
               PROVE  LET found == GetKClosest(target, k)
                          ids   == {id[v] : v \in byID}
                      IN  /\ Len(found) = Min({k, Cardinality(byID)})
                          /\ \A i, j \in DOMAIN found : i < j => Closer(target, found[i], found[j])
                          /\ \A x \in Range(found), y \in ids \ Range(found) : Closer(target, x, y)
    BY DEF ClosestAgree
  <2> DEFINE found == GetKClosest(target, k)
  <2>1. PICK ids : ids = {id[v] : v \in byID}
    OBVIOUS
  <2>2. ids \subseteq ScalegraphId /\ IsFiniteSet(ids) /\ Cardinality(ids) = Cardinality(byID)
    BY <2>1, IdsOfApps
  <2>3. PICK key : key = [x \in ids |-> xorDistance(target, x)]
    OBVIOUS
  <2>4. PICK s : s = Sorted(ids, key)
    OBVIOUS
  <2>5. PICK n : n = Cardinality(ids)
    OBVIOUS
  <2>6. /\ \A x \in ids : key[x] \in Nat
        /\ \A x, y \in ids : key[x] = key[y] => x = y
        /\ \A x, y \in ids : key[x] < key[y] => Closer(target, x, y)
    BY <2>2, <2>3, DistanceWorks
  <2>7. /\ n \in Nat /\ s \in [1 .. n -> ids] /\ Ascending(s, n, key)
        /\ \A x \in ids : \E i \in 1 .. n : s[i] = x
    BY <2>2, <2>4, <2>5, <2>6, SortedWorks
  <2>8. \A i, j \in 1 .. n : i < j => Closer(target, s[i], s[j])
    BY <2>6, <2>7 DEF Ascending
  <2>9. k \in Nat /\ k > 0
    BY AppsAreNumbers DEF ProcessInv, Types
  <2>10. s \in Seq(ids) /\ Len(s) = n
    BY <2>7
  <2>11. PICK c : c = Min({k, n})
    OBVIOUS
  <2>12. c \in 0 .. n /\ c \in Nat
    BY <2>7, <2>9, <2>11, MinOfTwo
  <2>13. found = SubSeq(s, 1, c)
    <3>1. ~(k <= 0)
      BY <2>9
    <3>2. found = SubSeq(s, 1, Min({k, Len(s)}))
      BY <2>1, <2>3, <2>4, <3>1, Zenon DEF GetKClosest
    <3> QED
      BY <2>10, <2>11, <3>2
  <2>14. Len(found) = c /\ DOMAIN found = 1 .. c /\ \A i \in 1 .. c : found[i] = s[i]
    <3> HIDE DEF found
    <3> QED
      BY <2>10, <2>12, <2>13
  <2> HIDE DEF found
  <2>15. \A i, j \in DOMAIN found : i < j => Closer(target, found[i], found[j])
    <3> SUFFICES ASSUME NEW i \in 1 .. c, NEW j \in 1 .. c, i < j PROVE Closer(target, found[i], found[j])
      BY <2>14
    <3>1. i \in 1 .. n /\ j \in 1 .. n
      BY <2>7, <2>12
    <3>2. Closer(target, s[i], s[j])
      BY <2>8, <3>1
    <3> QED
      BY <2>14, <3>2, Zenon
  <2>16. ASSUME NEW x \in Range(found), NEW y \in ids \ Range(found) PROVE Closer(target, x, y)
    <3>1. PICK i \in 1 .. c : x = s[i]
      BY <2>14 DEF Range
    <3>2. PICK j \in 1 .. n : y = s[j]
      BY <2>7
    <3>3. j \notin 1 .. c
      BY <2>14, <3>2 DEF Range
    <3>4. i < j
      BY <2>12, <3>3
    <3> QED
      <4>1. i \in 1 .. n
        BY <2>7, <2>12
      <4>2. Closer(target, s[i], s[j])
        BY <2>8, <3>4, <4>1
      <4> QED
        BY <3>1, <3>2, <4>2, Zenon
  <2>17. Len(found) = Min({k, Cardinality(byID)})
    BY <2>2, <2>5, <2>11, <2>14
  <2> QED
    BY <2>1, <2>15, <2>16, <2>17 DEF found
<1> QED
  BY <1>1, ProcessInvariant, PTL
=============================================================================
