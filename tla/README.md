# Verification of sg-emulator

TLA+ specifications of the ledger emulator in this repository, the TLC runs that
check them on small instances, and TLAPS proofs that hold for every instance.
`PROJECT.json` lists components, runs, mutants, findings, hazards and theorems
and maps every definition to the lines it models.

## The system

| Part | State | Operations | Works with |
|---|---|---|---|
| Account (`scalegraph/account.go`, `token.go`, `transaction.go`) | balance, MBR (minimum balance requirement), nonce, token store, chain, a lock | eleven transaction handlers, eleven rollback handlers, `appendTransaction`, `rollbacklatestTransaction` | called by the ledger, read by transports |
| Blockchain (`blockchain.go`, `block.go`) | head, tail, length, a lock | `append`, `removeLatestBlock`, `Tail`, `GetBlocks` | written by its account, walked by REST and the TUI |
| Ledger (`app.go`) | the map of accounts | create, mint, transfer, and the token operations: mint, burn, authorize, unauthorize, transfer, claw back, freeze, unfreeze | called by the server goroutine |
| Server and client (`server.go`, `client.go`) | a channel of 1000 requests, one goroutine, each client's pending calls | `sendRequest`, `run`, `handleRequest`, `drainRequests`, `Start`, `Stop` | every transport has a client; the goroutine calls the ledger and publishes events |
| Event stream (`event_builder.go`, `virtual_app.go`, `connect.go`) | a broker per virtual app, active subscriptions | `publishEvent`, `Subscribe`, the end of a stream | fed by the server goroutine, read by ConnectRPC clients |
| Verification (`verifier.go`, `verifiable.go`, `requests.go`) | none of its own | certificate, signature, timestamp and signer checks | between channel and ledger |
| Certificate authority (`ca/`) | key and certificate files, accounts' credentials | bootstrap, load, issue | at start and when accounts are created |
| Virtual apps and registry (`virtual_app.go`, `registry.go`) | apps by id; each app's context, broker and transports | create and register, `Start`, `Stop`, list, `GetKClosest` | created by `main`, stopped by `main` and `Server.Stop` |
| Transports REST, ConnectRPC, MCP | an HTTP server each | `Start`, `Stop`; one client call per request | each in a goroutine of its virtual app, MCP in one of `main` |
| Terminal UI (`internal/tui`) | the `Model`: current screen, cursors, steps, lists of accounts and tokens | one update function per screen, one view function per screen | reads live accounts, signs with the accounts' credentials, calls its client |
| Entry point (`cmd/app/main.go`) | none | creates everything, waits for a signal, stops everything | |

What is hard here:

* one goroutine writes, but transports hold pointers to live accounts and read
  them at any moment, also between the two steps of an operation;
* an operation on two accounts is two appends and, when the second is refused,
  a rollback that must undo every field the first one changed;
* the MBR couples operations that look independent: whether a transfer of money
  is allowed depends on every slot, token and freeze the account has paid for, and
  nothing in the ledger looks at the sign of an amount;
* callers time out while their request is queued or being served, and retry;
* subscriptions race with publication, disconnection and shutdown;
* two read-write locks, one of them taken recursively;
* transports start and stop in goroutines of their own, without a lock, while
  `main` creates apps or shuts down and signals arrive;
* the TUI turns positions in lists it read some keys ago into signed requests;
* who has to sign a request differs from one to the next, a signature stays good
  for five minutes, and a restart forgets the ledger but not the keys.

## Modules

| Module | Models |
|---|---|
| `Account` | one account as pure operators: a handler returns whether it succeeds and the account it leaves. Money is in tenths. |
| `App` | the ledger: `Init`, an action per operation, the second append, the rollback |
| `AppProperties` | what the ledger promises |
| `TokenLedger` | the abstract ledger: every operation happens at once or not at all |
| `AppRefinement` | `App` implements `TokenLedger`: the refinement mapping |
| `AppProofs` | lemmas about `App`: what each handler and each whole operation does to the accounts |
| `AppTokenProofs` | theorems about `App`: types, the refinement of `TokenLedger`, tokens, MBR, rollbacks, freezes, what the chains say of nonces, balances and MBR and of each other, solvency |
| `Blockchain` | an account and its chain under their two locks, the server goroutine writing, transports reading |
| `RequestChannel` | client calls, the bounded channel, the run goroutine, shutdown |
| `EventStream` | publication, the broker, subscriptions |
| `BlockchainProofs`, `RequestChannelProofs`, `EventStreamProofs`, `SignedRequestsProofs`, `VirtualAppsProofs`, `TUIProofs` | theorems about these modules |
| `CertificateAuthority` | the CA's files, a start of the process, its death at any step, account credentials |
| `SignedRequests` | on top of it: envelopes, every `Verify` method, the nonce check, clients, MCP tools |
| `VirtualApps` | the process: `main`, the registry, the virtual apps' transports, signals, shutdown |
| `TUI` | the terminal UI: one action per update function, what each view function shows |
| `MCApp`, `MCBlockchain`, `MCRequestChannel`, `MCEventStream`, `MCSignedRequests`, `MCVirtualApps`, `MCTUI` | instances for TLC |

**Account and App.** `accounts[id]` is the `Account` struct; `store[t]` says
what `tokenStore` has for a token: nothing, the `&Token{}` placeholder of an
authorized slot, the token, or the token frozen. A token's id is the minter's
deterministic signature over the mint payload, so it stands for minter, nonce
and terms (clawback and freeze address). `op` is the operation in flight:
`First` is the append to the first account, `SecondLeg` the append to the
second, `Rollback` the undoing. These are separate steps because readers can see
the states between them. `before` is a history variable: the accounts when the
operation began. A request refused before anything is written is a stuttering
step. A clawback of a token that has no clawback address ends the process
(`ClawbackPanics`); nothing is stored, so a new process starts empty (`Restart`).
Amounts are integers of either sign. Only ConnectRPC's validation rule
(`currency.proto:11`) asks for a positive one; a transfer through REST, a mint
through MCP and the ledger itself do not look at the sign. `Burn` (of money) has handlers but no operation of the ledger sends it.

**TokenLedger and AppRefinement.** The abstract ledger has money, holders of
tokens, slots, frozen tokens and the number of signed operations per account, and
neither halves nor rollbacks nor chains nor MBR. While an operation of `App` is in
flight the mapping shows the accounts as they were `before`, so an accepted
operation is one abstract step, taken when the second account agrees, and a refused
one is none. One abstract action is there for the code's sake only: `Lapse`, the
slot that disappears when a repeated authorization is undone. `Fail` is the panic.

**Blockchain.** Blocks never change and point backwards, so a pointer to a block
is the path to it. The Go `RWMutex` is modelled as its documentation describes
it: a read lock is not granted while a writer waits. A reader follows REST's
`handleGetMyAccount`: `GetBlocks`, then `Balance`.

**RequestChannel.** A call registers, sends (or gives up), waits (or gives up),
and cleans up. What a request does is reduced to its nonce: it is applied if it
carries the account's next one. Calls with the same nonce are retries of one
signed request.

**EventStream.** The broker is Watermill's GoChannel as `virtual_app.go`
configures it: a goroutine per message and subscriber, taking turns in any
order, waiting for the acknowledgement. Virtual apps share nothing but the
server that publishes to them, so one is modelled.

**CertificateAuthority and SignedRequests.** A key pair of the CA is named by its
generation, an account's by the account (an id is the hash of the key). Each file
is missing, empty or complete, because `os.WriteFile` creates or truncates before
it writes. An envelope is a payload (kind, its first and second account field,
nonce) and a signature (the id written into it, the key that made it, its age).
Whatever clients do before a request is served, signing, keeping, sending again,
through REST or ConnectRPC, comes down to which envelope arrives, so envelopes are
not part of the state: `Clients` serves any envelope that a key holder can make,
with any ids in it. `Execute` is `handleRequest` as far as identity goes: it
advances the nonce of the account that pays. What else the ledger may object to is
the subject of `App`. A refused request changes nothing in the end, but five
operations advance the sender's nonce in their first append and give it back when
the second is refused (`Begin`, `Undo`; `flight` is the account). When both accounts
are the same, the second append takes the sender's branch again and the refusal is a
nonce mismatch (`SelfParty`). This matters to the MCP tools, which read nonces in
their own goroutine. A tool is three steps: `getAccountNonce` asks the server for the
account, signed; `GetNonce` reads the nonce through the pointer it was given, also in
the middle of an operation; then it signs and sends. Others run in between. Requests
that only read are verified and change nothing: an account and its events are for its
own key, a token lookup (`VerifyLookupToken`) is for any account, and `get_accounts`
needs no signature, so nothing is claimed about who may see what. `applied`, `total`,
`raced` and `established` are history variables.

**VirtualApps.** `plan` is the command line: which apps `main` creates, in order.
`start[v]` is where the goroutine of `Transport.Start` is, `http[v]` the state of
its HTTP server, `ctx[v]` whether the app's context is live. `VirtualApp.Stop` is
three steps (cancel, the transport's `Stop`, wait) because `Start` runs meanwhile;
the transport's `Stop` may or may not see the server `Start` has made, since no lock
orders them. From `net/http` is taken that `Shutdown` closes the listener at once
and that no `ListenAndServe` of that server succeeds afterwards. A signal ends
Bubble Tea if it runs, is kept for `main` after `signal.Notify`, and otherwise kills
the process. An id is a sequence of `IdBits` bits; the distance is the code's: the
XOR of two ids, read as one big-endian number (`SetBytes`).

**TUI.** `m` is the `Model`, without sizes and texts. An action is an update
function with its key; `Show` is the redraw that follows, and fails like the view
function would if it reads a list beyond its end. `View` says which accounts and
which token a screen names or marks. What `GetTokens` and `GetBlocks` return at a
key press is any set and any length, because other transports change tokens and
chains at any moment; accounts only appear. `request` (what the last key sent) and
`origin` (whose tokens the list holds) are history variables. An answer of the
server may be an error at every call. A sent request may be refused or accepted:
what it does is the subject of `App`. Account and token ids are numbers, because
all that is done with them is to compare and to sort them (`Sorted`).

## Runs

| Run | Shows | Bounds |
|---|---|---|
| `tokens` | tokens are not lost or duplicated, frozen ones stay, MBR is not released while owed, a refused operation leaves no trace | three accounts, one minter, tokens without terms and with terms naming `c`, three outgoing transactions each, balances 0 and 2.1 |
| `audit` | nonce, balance and MBR can be recomputed from the chains; chains agree; an account's own transactions and rollbacks never take it below its MBR, only negative amounts it receives do; `App` implements `TokenLedger` | two accounts, one mints tokens with terms naming the other, balances 0 and 1.6, transfers and mints of 0.6 and -0.6, chains kept in full |
| `reads` | a listed chain is the chain; whoever gets the account's lock finds balance and chain in agreement | two readers, three blocks |
| `calls` | answers are true, retries are harmless, calls return, the server stops, and what is queued when it stops is answered | three calls, one a retry, channel of two |
| `events` | nothing applied after the handshake is missed, nothing misrouted, one stream per account, streams end | two subscriptions of one account, two requests |
| `signed` | only the key of the account that pays changes the ledger, no signature counts twice, the CA is the one first completed, a tool is told of a nonce mismatch only if another request of its account came in between or its account was both parties | two accounts, two CA key pairs, two operations, one tool call, signatures two minutes ahead, five and six minutes old |
| `tui` | with two accounts or more no position is used beyond its list; tokens offered belong to the account and authority on the screen; what is signed is what was shown | four accounts appearing at any time, three tokens of different authorities, three transactions |
| `lifecycle` | no listener is open once the server's loop is told to stop; a shutdown that has begun ends; `GetKClosest` agrees with the bitwise definition of closeness | REST with ConnectRPC, REST with the TUI, all three; four ids of four bits; signals at any moment |
| `minimum_balance`, `clawback_nil`, `self_held_frozen`, `getblocks_deadlock` | the code does not do what a comment, test or document says (below) | as above |

Bounds. `MaxNonce` bounds the transactions an account sends, `Minters` the
accounts that mint, `MaxMints` how often an account is given money by `Mint`. Two or
three transactions per account suffice to authorize, transfer, freeze and claw
back the same token, to repeat an authorization, and to undo each of them; 2.1 is
enough for two tokens but not for two tokens and a slot, 1.6 for a token and a
slot or a transfer, so every guard on the balance goes both ways; 0.6 and -0.6 are
enough to make an account unable to pay for a slot, or to leave it below its MBR.
`QueueCap` is 2
instead of 1000 so that three calls fill it. `Runners` is 1: `main` calls `Start`
once, and one step for the handler is right only for one goroutine. `MaxBlocks`
and `MaxEvents` bound the length of the histories; properties relate at most two
blocks or events. `MaxGen` is 2, so a start may be cut short once and the next
one makes a new key pair; the last pair is always saved. `MaxTotal` is 2: two
requests suffice to race, or to be one request sent twice. The ages lie on both
sides of the verifier's window. `Kinds` in `signed` has a request for every
different rule about its signer; the others differ only in their names.

In `tui` four accounts leave a row above, between and below two chosen ones, and
three tokens are enough for a filtered list shorter than the one it was made from.
With all four accounts made, no more can be created; the screen for it has been
reached before. In `lifecycle` three apps give a first, a middle and a last one to
stop; the ids differ in the first half, in the second and in both, and there are
collisions. Longer ids repeat the same comparison.

`LedgerView` (runs on three accounts) leaves the chains out of the state that TLC
compares. Sound: an operation reads a chain only to compare its last block with
the transaction it undoes, and that comparison is part of the view. The step
properties of those runs look at no block older than the last one.

`ScreenView` (`tui`) leaves out fields that the current screen does not read. Sound:
each of them is assigned on the way to a screen that reads it (the menus reset
them). The properties read only fields of the view; what a step sends is a function
of the state before it.

Deadlock is checked everywhere but in the runs of `Blockchain`, where the code
really can stop, in `tui`, which ends when the user quits, and in `lifecycle`, which
ends with the process.

Fairness. Goroutines that can run do run: weak fairness. A `select` with several
ready cases picks at random, so `<-ctx.Done()` is taken if it is ready again and
again: strong fairness, also for a reader waiting for a lock that is free again
and again. Timers are sure to fire only for the calls in `Timed`. No request has
to come and no client has to leave. In `VirtualApps` `main`, the server's loop and
the goroutines of `Start` run; no signal has to come and no user to quit, so
`ShutdownCompletes` speaks of behaviours in which the TUI's screen does not stay
open for ever. `App`, `TokenLedger` and `TUI` have no fairness: their properties are
safety.

## Findings

* `minimum_balance`: a transfer or mint of a negative amount debits its receiver,
  whose MBR nobody looks at, and leaves it with less than is locked.
* `clawback_nil`: a clawback of a token without clawback address dereferences
  nil in the server goroutine.
* `self_held_frozen`: an authority that claws back a token it froze cannot
  unfreeze it: as both parties of the transaction it takes the sender's branch
  twice.
* `getblocks_deadlock`: `GetBlocks` takes the chain's read lock recursively; with
  a writer in between, the server goroutine stops for good.

Seen while modelling, without a run:

* the MCP tool `transfer` ("Transfer funds from one account to another", mcp.go:311)
  leaves `From` out of the payload it signs (mcp.go:329), and the client, which parses
  it, refuses: in `signed` a call of this tool always ends `unparsable`;
* burning a token leaves the slots other accounts authorized for it, and the MBR
  locked for them, behind for ever, although account.go:54 says the MBR "will
  unfreeze when the unauthorize token transfer transaction is executed or the token
  is received"; burning a frozen token strands the freeze authority's MBR in the
  same way, which is why `MBRCovers` is an inequality;
* a repeated authorization costs nothing, but when it is undone the slot of the
  first one disappears and its MBR is released (`Lapse`; `RollbackRestores` holds
  for every other operation);
* with fewer than two accounts Send Money says "Need at least 2 accounts to send
  money." and still goes through its steps; the last one indexes beyond the list and
  the UI panics. Mint Token does so without accounts, Transfer Token with one;
* the token menu draws ten items and lets the cursor reach eight: Unfreeze Token
  and Lookup Token cannot be opened;
* `transactionOffset` never changes, so an older transaction can be selected without
  being on the screen; the token list scrolls by another number of rows than it
  draws; the transaction screens have no case for freeze and unfreeze;
* when the user leaves the TUI, `main` goes on waiting for a signal, although its
  comment says "Wait for TUI virtual app to finish (blocks until user exits TUI)";
* `Transport.Start` of the TUI does not look at its context: a signal that only
  `main` gets leaves `Stop` waiting for the user;
* the MCP server is told to shut down last, after the server's loop has gone, and
  nobody waits for it: a tool called in between waits for its timer.

And: a token minted with the minter as clawback
address is published twice to the minter's topic, and its stream carries the event
twice; a CA file that was created but not written (the process died in
`os.WriteFile`) counts for `CAExists` and makes every later start fail;
`MintTokenRequest.Verify` and `LookupTokenRequest.Verify` read the signer out of
an envelope before anything has looked whether there is one (REST and the
converters do); the example that `create_signed_request` prints for `get_account`
has the key `signed_envelope`, like every other, and REST reads `signed_request`;
`rollbackTransferTokenTx` would subtract the wrong amount on the receiver's side,
which the ledger never undoes; a request sent after `drainRequests` found the channel empty waits
for its own timer.

## Proofs

Every theorem holds for any value of the constants that satisfies the named
assumptions of its module; TLC evaluates those assumptions in every run. A theorem
`Spec => []P` comes from an inductive invariant: it holds initially, every step
keeps it, it implies `P`.

**Assumptions.** Accounts do not contain `None`, minters are accounts, terms name
accounts, amounts are integers (`Account`, `App`). There are finitely many
readers (`ReadersAssumption`: goroutines). Clients and tools send requests of the
kinds that have a `Verify` method (`KindsAssumption`), and the empty string is no id. The accounts of a request
that has an event were parsed when it was made (`PartiesAssumption`). The TUI, if
there is one, is the last app of the command line, and ids have `IdBits` bits
(`PlanAssumption`, `IdAssumption`). In `TUI` accounts and tokens are finitely many
numbers, `None` and `OutOfRange` are not among them, and terms name accounts. The
rest are bounds that are numbers.

**Atomicity and tokens (`AppTokenProofs`).** `AppProofs` has the lemmas by handler
and `TypesInv`, the types of accounts and of the operation in flight, without bounds.

* `Atomic`: `Spec => ImplementsTokenLedger`, the refinement.
* `TokensHaveOneHolder` (`SingleHolder`), `LockedIsCovered` (`MBRCovers`).
* `RollbacksRestore` (`RollbackRestores`), `TokensAreKept` (`NoTokenLost`),
  `FrozenTokensStay` (`FrozenStays`): action properties.

`TokenInv` speaks of the accounts as they are outside of an operation (`Settled`:
`before` while one is in flight). Its parts:

* `Halfway`: an operation in flight is exactly the sender's append on the settled
  accounts, after the checks of its `app.go` function (`Asked`). With it a second
  append is the whole operation on `Settled` (`Both`), and a rollback is the inverse
  of a known step: `Undone` shows, handler by handler, that it gives back the same
  record, the repeated authorization excepted (`Lapsed`).
* `OneHolder`: needs that a token is not minted while it exists, hence
* `NumberSpent`: a token that exists has a nonce its minter has left behind.
* `Covered`: the MBR is at least the cost of tokens, slots and freezes, as a sum of
  cardinalities. It is kept by counting one token at a time (`Share`): an operation
  touches one token, and what it adds to or takes from the sum it adds to or takes
  from the MBR.

So a step either leaves `Settled` alone or does one operation to it
(`EveryStepSettles`), which is the step of `TokenLedger` and keeps the rest. The
action properties follow with what the two halves do to a store (`FirstHalf`,
`SecondHalf`).

**Audit (`AppTokenProofs`).** `NonceIsTheCount` (`NonceCountsChain`),
`BalanceIsTheSum` (`BalanceAudit`), `MBRIsTheSum` (`MBRAudit`): what an account keeps
can be recomputed from its chain. `AuditInv` says it of `accounts` and of `before`,
to which a rollback returns; any other step appends one block to one account, and
the handler moves the nonce, the balance and the MBR by what that block is worth.
That is false for a rollback on its own, so the invariant rests on `TokenInv`: with
`Halfway`, undoing gives back the record as it was before, chain included.

`ChainsTellTheSame` (`ChainsAgree`): the chains of two accounts hold the same
transactions between them, in the same order. `AgreeInv` says it of `Settled`, where a
block is on both chains or on none; an append either leaves the common part alone
(`Retold`) or adds one block at its end (`Continued`), so no rank changes.

**Solvency (`AppTokenProofs`).** `AlwaysSolvent` (`Solvent`), `RollbackAffordable`
(`ReleaseCovered`) and `TypeCorrect` (`TypeOK`; that the unsigned nonce never falls below
zero comes from the audit). Amounts have either sign, so an account can be below its MBR; the claim is
that only negative amounts it received put it there. `Means` is what it could spend
without them: balance less MBR, plus what such blocks of its chain took (`Takings`). `Solvent` is
not inductive: a rollback adds MBR without looking at the balance. It is right because
undoing gives back the record as it was before (`Halfway`), so `FundedAt` is kept for
`accounts` and for `before` side by side, as in the audit. An append adds one block,
whose effect on `Means` is read off the handler: a debit or a lock that passed the guard on
balance less MBR (`Afforded`), or a credit, or a negative amount that `Takings` makes
up for. That the released MBR is still there follows from the same fact about `before`.

Sums are recursive functions, and the library's induction takes an operator, which
the provers cannot instantiate. Where a fact about all numbers up to a length is
needed, the proofs take the set of numbers for which it fails and its least element
(`Least`, `Induction`).

**Request channel (`RequestChannelProofs`).** `TellsTheTruth` (`OutcomeTruthful`),
`RetriesAreSafe` (`AppliedOnce`), `PendingExact` (`NoPendingLeak`),
`ChannelTypeCorrect`: for any number of calls
and of run goroutines. An answer can stay true only if the request is in one place
at a time, in the channel, with one goroutine, or done with (`Placed`); `Told` says
what is known of it in each, `NoncesUsed` that what was applied has a used nonce.

**Chain (`BlockchainProofs`).** `WalksAreStable` (`ReadStable`), `LocksProtect`
(`LockedConsistent`), `ChainTypeCorrect`. The lock's counter is the number of readers
inside (in `TypeOK`, a cardinality), so a writer that sees zero is alone;
`ServerLocks` and `InStep` say which locks the server holds where, and by how much
the balance is then ahead of the chain.

**Signed requests (`SignedRequestsProofs`).** `OnlyTheKeyHolderSpends` (`Authentic`),
`NoReplay` (`OncePerSignature`), `CAIsKept` (`CAKept`), `MismatchHasAReason`
(`MismatchExplained`). `CAFiles` follows the writes of `SaveCA` through every crash;
`Spent` follows nonces through every restart, without what an operation in flight has
added (`Settled`). The ledger forgets its nonces at a restart; a replay is refused all
the same because the account's id is taken on disk, and no new account gets it.
`NonceRead`: a tool call that no other request of its account has overtaken holds the
account's nonce, and no operation of that account is in flight.

**Event streams (`EventStreamProofs`).** `OneSubscription` (`OneStreamPerAccount`),
`RoutedAtMostOnce` (`RoutedOnce`), `EventTypeCorrect`. The argument counts: for each
stream and event, what was sent and what is on its way are no more than the topics
published so far that name the stream's account (`Counted`). It needs each message to
be new and in one place (`MessagesFresh`) and the outbox to be the rest of the newest
event's topics (`OutboxIsRest`).

**Process (`VirtualAppsProofs`).** `NoListenerOutlivesTheLoop` (`ServedWhileRunning`)
and `ClosestAreFound` (`ClosestAgree`), for any command lines and ids of any length.
`ProcessInv` joins what a `Start` has made of its HTTP server at each of its steps
(`ServerOfStart`: one that has returned has none that listens), which apps are
registered, under which ids (`Registered`), and how far `Server.Stop` is
(`Progress`: every app it listed is still to be stopped, is being stopped, or its
`Start` has returned). A transport's `Stop` that saw no server may be followed by a
`Start` that opens one; it is the wait for `Start` to return, with `ServerOfStart`,
that leaves nothing listening. The second theorem needs that
sorting a finite set of different numbers gives each of them once, in order, and that
of two numbers read from bits the one with 0 at the first difference is smaller
(`FirstBitDecides`).

**Terminal UI (`TUIProofs`).** `NoPositionBeyond` (`NoIndexPanic`), `SignsWhatIsShown`
(`SubmitsWhatIsShown`, an action property) and `TokensAreOfTheSource`
(`ListedFromSource`), for any accounts that appear and tokens that come and go at any
key. That the position used by this key is inside its list says nothing about the next
key, so `ScreenInv` says for each screen and each of its steps which positions fit
which list (`Within`), which cursor has stepped over the account already chosen
(`Other`), and that tokens on offer were read from the account the screen names
(`Offered`). There is one lemma per update function. A refresh replaces the account
list under the cursors; `Fresh` says that a model fits whatever accounts there are by
then.

**Only model-checked.** Liveness, which is out of the prover's reach: `CallReturns`,
`StopCompletes`, `Answered`, `QueuedIsAnswered`, `NothingMissed`, `StreamEnds`, `ShutdownCompletes`. Every
other property of a passing run is a theorem.

## Plan

Every part that carries logic of its own is modelled, and every safety property that
a run checks is proved.

Not modelled: X.509, signatures and PEM (out of reach, taken as sound), and when
certificates expire; HTTP, JSON, protobuf and its validation rules (conversion
around one client call); what REST and ConnectRPC combine in one answer from reads
made one by one (nothing promises that they belong together); the TUI's layout,
scrolling and texts; flags and logging; the test and benchmark client, which is
outside the system; generated code and mocks; floating point (`0.1` is not exact, so
the MBR may drift after many freezes).
