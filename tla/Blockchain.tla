----------------------------- MODULE Blockchain -----------------------------
(***************************************************************************)
(* One account and its chain under their two locks: Blockchain's methods   *)
(* (blockchain.go), the locking of appendTransaction and                   *)
(* rollbacklatestTransaction (account.go), and the transport goroutines    *)
(* that read a live account, in the order of REST's handleGetMyAccount:    *)
(* GetBlocks, then Balance.                                                *)
(*                                                                         *)
(* Blocks never change and point backwards, so a pointer to a block is the *)
(* path to it: the sequence of block numbers after the genesis block.      *)
(* What a transaction does is reduced to crediting one unit.               *)
(***************************************************************************)
EXTENDS Integers, Sequences, FiniteSets, SequencesExt

CONSTANTS
    Readers,    \* transport goroutines that read the account
    MaxBlocks   \* bound: how many blocks are ever created

ASSUME ReadersAssumption   == IsFiniteSet(Readers)
ASSUME MaxBlocksAssumption == MaxBlocks \in Nat

VARIABLES
    tail,       \* Blockchain.tail, as the path to it
    length,     \* Blockchain.length
    blocks,     \* how many blocks have been created
    balance,    \* Account.balance
    acctMu,     \* Account.mu
    chainMu,    \* Blockchain.mu
    server,     \* where the server goroutine is
    reader      \* each reader: where it is, and what it has read

locks == <<acctMu, chainMu>>
vars  == <<tail, length, blocks, balance, acctMu, chainMu, server, reader>>

(***************************************************************************)
(* sync.RWMutex: `readers' counts read locks, `writer' is set from the     *)
(* moment Lock is called.  A read lock is not granted while a writer waits *)
(* or holds, whoever asks for it; a writer goes on when no read lock is    *)
(* left.                                                                   *)
(***************************************************************************)
Unlocked    == [readers |-> 0, writer |-> FALSE]
CanRLock(m) == ~m.writer
RLock(m)    == [m EXCEPT !.readers = @ + 1]
RUnlock(m)  == [m EXCEPT !.readers = @ - 1]
CallLock(m) == [m EXCEPT !.writer = TRUE]
Locked(m)   == m.writer /\ m.readers = 0
Unlock(m)   == [m EXCEPT !.writer = FALSE]

NoRead == [at |-> "idle", tail |-> << >>, balance |-> 0]

\* newBlockchain, newAccountWithPublicKey
Init ==
    /\ tail = << >>
    /\ length = 1
    /\ blocks = 0
    /\ balance = 0
    /\ acctMu = Unlocked
    /\ chainMu = Unlocked
    /\ server = "idle"
    /\ reader = [r \in Readers |-> NoRead]

-----------------------------------------------------------------------------
(***************************************************************************)
(* The server goroutine: appendTransaction, and rollbacklatestTransaction  *)
(* of the transaction appended last.                                       *)
(***************************************************************************)
\* a.mu.Lock()
CallAppend ==
    /\ server = "idle"
    /\ blocks < MaxBlocks
    /\ acctMu' = CallLock(acctMu)
    /\ server' = "handle"
    /\ UNCHANGED <<tail, length, blocks, balance, chainMu, reader>>

\* Mutant of Handle: the account is unlocked before the block is added.
HandleAndUnlock ==
    /\ server = "handle"
    /\ Locked(acctMu)
    /\ balance' = balance + 1
    /\ acctMu' = Unlock(acctMu)
    /\ chainMu' = CallLock(chainMu)
    /\ server' = "append"
    /\ UNCHANGED <<tail, length, blocks, reader>>

\* The handler runs; then bc.mu.Lock() in append.
Handle ==
    /\ server = "handle"
    /\ Locked(acctMu)
    /\ balance' = balance + 1
    /\ chainMu' = CallLock(chainMu)
    /\ server' = "append"
    /\ UNCHANGED <<tail, length, blocks, acctMu, reader>>

\* Mutant of append: it does not wait for the readers.
AppendAtOnce ==
    /\ server = "append"
    /\ tail' = Append(tail, blocks + 1)
    /\ blocks' = blocks + 1
    /\ length' = length + 1
    /\ chainMu' = Unlock(chainMu)
    /\ acctMu' = Unlock(acctMu)
    /\ server' = "appended"
    /\ UNCHANGED <<balance, reader>>

append ==
    /\ server = "append"
    /\ Locked(chainMu)
    /\ tail' = Append(tail, blocks + 1)
    /\ blocks' = blocks + 1
    /\ length' = length + 1
    /\ chainMu' = Unlock(chainMu)
    /\ acctMu' = Unlock(acctMu)
    /\ server' = "appended"
    /\ UNCHANGED <<balance, reader>>

\* The other account accepts and the operation ends ...
Accepted ==
    /\ server = "appended"
    /\ server' = "idle"
    /\ UNCHANGED <<tail, length, blocks, balance, locks, reader>>

\* ... or refuses, and the append is undone: a.mu.Lock()
CallRollback ==
    /\ server = "appended"
    /\ acctMu' = CallLock(acctMu)
    /\ server' = "check"
    /\ UNCHANGED <<tail, length, blocks, balance, chainMu, reader>>

\* Tail's block is the one to undo; then bc.mu.Lock() in removeLatestBlock.
CheckLatest ==
    /\ server = "check"
    /\ Locked(acctMu)
    /\ CanRLock(chainMu)
    /\ chainMu' = CallLock(chainMu)
    /\ server' = "remove"
    /\ UNCHANGED <<tail, length, blocks, balance, acctMu, reader>>

\* removeLatestBlock, which keeps the genesis block, and the rollback handler.
removeLatestBlock ==
    /\ server = "remove"
    /\ Locked(chainMu)
    /\ IF length <= 1 THEN UNCHANGED <<tail, length>>
                      ELSE tail' = Front(tail) /\ length' = length - 1
    /\ balance' = balance - 1
    /\ chainMu' = Unlock(chainMu)
    /\ acctMu' = Unlock(acctMu)
    /\ server' = "idle"
    /\ UNCHANGED <<blocks, reader>>

-----------------------------------------------------------------------------
(***************************************************************************)
(* A reader: GetBlocks takes the read lock and, holding it, calls Tail,    *)
(* which takes it again.                                                   *)
(***************************************************************************)
GetBlocks(r) ==
    /\ reader[r].at = "idle"
    /\ CanRLock(chainMu)
    /\ chainMu' = RLock(chainMu)
    /\ reader' = [reader EXCEPT ![r].at = "locked"]
    /\ UNCHANGED <<tail, length, blocks, balance, acctMu, server>>

Tail_(r) ==
    /\ reader[r].at = "locked"
    /\ CanRLock(chainMu)
    /\ chainMu' = RUnlock(RLock(chainMu))
    /\ reader' = [reader EXCEPT ![r].at = "walking", ![r].tail = tail]
    /\ UNCHANGED <<tail, length, blocks, balance, acctMu, server>>

\* Mutant of Walked: the read lock is not given back.
WalkedKeepingLock(r) ==
    /\ reader[r].at = "walking"
    /\ reader' = [reader EXCEPT ![r].at = "listed"]
    /\ UNCHANGED <<tail, length, blocks, balance, locks, server>>

\* The walk to the genesis block is done; the deferred RUnlock.
Walked(r) ==
    /\ reader[r].at = "walking"
    /\ chainMu' = RUnlock(chainMu)
    /\ reader' = [reader EXCEPT ![r].at = "listed"]
    /\ UNCHANGED <<tail, length, blocks, balance, acctMu, server>>

Balance(r) ==
    /\ reader[r].at = "listed"
    /\ CanRLock(acctMu)
    /\ reader' = [reader EXCEPT ![r].at = "answered", ![r].balance = balance]
    /\ UNCHANGED <<tail, length, blocks, balance, locks, server>>

\* The response is written; the goroutine may serve another request.
Respond(r) ==
    /\ reader[r].at = "answered"
    /\ reader' = [reader EXCEPT ![r] = NoRead]
    /\ UNCHANGED <<tail, length, blocks, balance, locks, server>>

Server == CallAppend \/ Handle \/ append \/ Accepted \/ CallRollback \/ CheckLatest \/ removeLatestBlock

Read(r) == GetBlocks(r) \/ Tail_(r) \/ Walked(r) \/ Balance(r) \/ Respond(r)

Next == Server \/ \E r \in Readers : Read(r)

\* Every goroutine that can go on does, and a reader that waits for a lock gets
\* it if it is free again and again.
Spec ==
    /\ Init /\ [][Next]_vars
    /\ WF_vars(Server)
    /\ \A r \in Readers : SF_vars(Read(r))

-----------------------------------------------------------------------------
\* Every variable keeps its type; the chain's read locks are those that a
\* GetBlocks still holds, and a finished read of the account holds none.
TypeOK ==
    /\ tail \in Seq(1 .. MaxBlocks)
    /\ length \in Nat
    /\ blocks \in 0 .. MaxBlocks
    /\ balance \in Int
    /\ acctMu \in [readers : {0}, writer : BOOLEAN]
    /\ chainMu \in [readers : {Cardinality({r \in Readers : reader[r].at \in {"locked", "walking"}})},
                   writer : BOOLEAN]
    /\ server \in {"idle", "handle", "append", "appended", "check", "remove"}
    /\ reader \in [Readers ->
          [at : {"idle", "locked", "walking", "listed", "answered"},
           tail : Seq(1 .. MaxBlocks), balance : Int]]

\* The blocks GetBlocks walks are the chain, and stay the chain until it
\* returns: no block is added or removed under a reader's feet.
ReadStable == \A r \in Readers : reader[r].at = "walking" => reader[r].tail = tail

\* Whoever gets the account's lock finds balance and chain in agreement: the
\* handler and its block, or their undoing, are one step to the lock's users.
\* The cached length always counts the blocks from the tail back to the genesis
\* block, which is never removed.
LockedConsistent ==
    /\ length = Len(tail) + 1
    /\ ~acctMu.writer => balance = Len(tail)

\* README.md: "Run multiple transports simultaneously": whatever they read, the
\* server gets on with the operation it has begun.
AppendCompletes == server = "append" ~> server = "appended"
=============================================================================
