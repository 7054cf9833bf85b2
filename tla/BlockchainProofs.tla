-------------------------- MODULE BlockchainProofs --------------------------
(***************************************************************************)
(* Theorems about an account and its chain under their locks, for any      *)
(* finite set of readers and any number of blocks.                         *)
(*                                                                         *)
(* Balance and chain differ while the server is between handler and block; *)
(* the invariant ties each place of the server to the locks it holds then, *)
(* and the count of read locks to the readers that hold one.               *)
(***************************************************************************)
EXTENDS Blockchain, FiniteSetTheorems, SequenceTheorems, TLAPS

Holding == {r \in Readers : reader[r].at \in {"locked", "walking"}}

\* The server holds the account's lock from the handler to the block, and the
\* chain's while it links or unlinks one.
ServerLocks ==
    /\ acctMu.writer <=> server \in {"handle", "append", "check", "remove"}
    /\ chainMu.writer <=> server \in {"append", "remove"}

\* The balance is ahead of the chain only between handler and block.
InStep ==
    /\ length = Len(tail) + 1
    /\ balance = IF server = "append" THEN Len(tail) + 1 ELSE Len(tail)
    /\ server \in {"handle", "append"} => blocks < MaxBlocks
    /\ server \in {"appended", "check", "remove"} => tail # << >>

ChainInv == TypeOK /\ ServerLocks /\ InStep /\ ReadStable

-----------------------------------------------------------------------------
\* A lock with a known number of read locks.
Lock(n) == [readers : {n}, writer : BOOLEAN]

\* What the operations of the lock do to its two fields.
LEMMA LockOps ==
  ASSUME NEW n \in Nat, NEW m \in Lock(n)
  PROVE  /\ RLock(m) \in Lock(n + 1) /\ RLock(m).writer = m.writer
         /\ RUnlock(m) \in Lock(n - 1) /\ RUnlock(m).writer = m.writer
         /\ RUnlock(RLock(m)) \in Lock(n) /\ RUnlock(RLock(m)).writer = m.writer
         /\ CallLock(m) \in Lock(n) /\ CallLock(m).writer
         /\ Unlock(m) \in Lock(n) /\ ~Unlock(m).writer
<1>1. \A k \in Nat : \A l \in Lock(k) : RLock(l) \in Lock(k + 1) /\ RLock(l).writer = l.writer
  BY DEF RLock, Lock
<1>2. \A k \in Nat : \A l \in Lock(k) : RUnlock(l) \in Lock(k - 1) /\ RUnlock(l).writer = l.writer
  BY DEF RUnlock, Lock
<1>3. RUnlock(RLock(m)) \in Lock(n) /\ RUnlock(RLock(m)).writer = m.writer
  <2>1. n + 1 \in Nat /\ (n + 1) - 1 = n
    OBVIOUS
  <2> QED
    BY <1>1, <1>2, <2>1
<1>4. CallLock(m) \in Lock(n) /\ CallLock(m).writer
  BY DEF CallLock, Lock
<1>5. Unlock(m) \in Lock(n) /\ ~Unlock(m).writer
  BY DEF Unlock, Lock
<1> QED
  BY <1>1, <1>2, <1>3, <1>4, <1>5

\* Linking a block to the tail, and going back to the one before it.
LEMMA PathUpdates ==
  ASSUME NEW S, NEW p \in Seq(S)
  PROVE  /\ \A b \in S : /\ Append(p, b) \in Seq(S)
                         /\ Len(Append(p, b)) = Len(p) + 1 /\ Append(p, b) # << >>
         /\ p # << >> => Front(p) \in Seq(S) /\ Len(Front(p)) = Len(p) - 1
         /\ p # << >> => Len(p) \in Nat \ {0}
<1>1. \A b \in S : /\ Append(p, b) \in Seq(S)
                   /\ Len(Append(p, b)) = Len(p) + 1 /\ Append(p, b) # << >>
  OBVIOUS
<1>2. p # << >> => Len(p) \in Nat \ {0}
  OBVIOUS
<1>3. ASSUME p # << >>
      PROVE  Front(p) \in Seq(S) /\ Len(Front(p)) = Len(p) - 1
  <2>1. Len(p) - 1 \in 0 .. Len(p) /\ \A i \in 1 .. Len(p) - 1 : p[i] \in S
    BY <1>2, <1>3
  <2>2. PICK k \in Nat : k = Len(p) - 1
    BY <1>2, <1>3
  <2>3. \A i \in 1 .. k : p[i] \in S
    BY <2>1, <2>2
  <2>4. SubSeq(p, 1, k) \in Seq(S) /\ Len(SubSeq(p, 1, k)) = IF 1 <= k THEN k - 1 + 1 ELSE 0
    BY <2>3, SubSeqProperties, 1 \in Int, k \in Int
  <2> QED
    BY <2>2, <2>4 DEF Front
<1> QED
  BY <1>1, <1>2, <1>3

\* The read locks are those of the readers in GetBlocks: the writer that holds
\* the lock has none of them inside.
LEMMA ReadLocks ==
  ASSUME TypeOK
  PROVE  /\ IsFiniteSet(Holding)
         /\ chainMu \in Lock(Cardinality(Holding))
         /\ Cardinality(Holding) \in Nat
         /\ Locked(chainMu) => Holding = {}
<1>1. IsFiniteSet(Holding)
  BY ReadersAssumption, FS_Subset DEF Holding
<1>2. chainMu \in Lock(Cardinality(Holding))
  BY DEF TypeOK, Holding, Lock
<1>3. Cardinality(Holding) \in Nat
  BY <1>1, FS_CardinalityType
<1>4. Locked(chainMu) => Holding = {}
  BY <1>1, <1>2, FS_EmptySet DEF Locked, Lock
<1> QED
  BY <1>1, <1>2, <1>3, <1>4

\* The invariant holds of a new account.
LEMMA ChainInit == Init => ChainInv
<1> SUFFICES ASSUME Init PROVE ChainInv
  OBVIOUS
<1>1. Holding = {}
  BY DEF Init, Holding, NoRead
<1>2. Cardinality(Holding) = 0
  BY <1>1, FS_EmptySet
<1>3. reader \in [Readers -> [at : {"idle", "locked", "walking", "listed", "answered"},
                              tail : Seq(1 .. MaxBlocks), balance : Int]]
  BY DEF Init, NoRead
<1>4. TypeOK
  BY <1>2, <1>3, MaxBlocksAssumption DEF Init, TypeOK, Holding, Unlocked
<1>5. ServerLocks /\ InStep /\ ReadStable
  BY DEF Init, ServerLocks, InStep, ReadStable, Unlocked, NoRead
<1> QED
  BY <1>4, <1>5 DEF ChainInv

\* A step of the server keeps the invariant: it changes the chain only when no
\* reader is inside.
LEMMA ServerStep == ChainInv /\ Server => ChainInv'
<1> SUFFICES ASSUME ChainInv, Server PROVE ChainInv'
  OBVIOUS
<1>0. TypeOK /\ ServerLocks /\ InStep /\ ReadStable
  BY DEF ChainInv
<1> DEFINE n == Cardinality(Holding)
<1>1. /\ reader' = reader
      /\ Holding' = Holding
  BY DEF Server, CallAppend, Handle, append, Accepted, CallRollback, CheckLatest,
         removeLatestBlock, Holding
<1>2. /\ n \in Nat /\ n' = n
      /\ chainMu \in Lock(n) /\ acctMu \in Lock(0)
      /\ Locked(chainMu) => \A r \in Readers : reader[r].at # "walking"
  BY <1>0, <1>1, ReadLocks DEF TypeOK, Holding, Lock
<1> HIDE DEF n
<1>3. ASSUME /\ tail' \in Seq(1 .. MaxBlocks) /\ length' \in Nat /\ blocks' \in 0 .. MaxBlocks
             /\ balance' \in Int
             /\ server' \in {"idle", "handle", "append", "appended", "check", "remove"}
             /\ acctMu' \in Lock(0) /\ chainMu' \in Lock(n)
      PROVE  TypeOK'
  BY <1>0, <1>1, <1>2, <1>3 DEF TypeOK, Holding, Lock, n
<1>4. CASE CallAppend \/ CallRollback
  <2>0. acctMu' \in Lock(0) /\ acctMu'.writer
    BY <1>2, <1>4, LockOps DEF CallAppend, CallRollback
  <2>1. TypeOK'
    BY <1>0, <1>2, <1>3, <1>4, <2>0 DEF CallAppend, CallRollback, TypeOK
  <2>2. ServerLocks' /\ InStep' /\ ReadStable'
    BY <1>0, <1>1, <1>4, <2>0
       DEF CallAppend, CallRollback, ServerLocks, InStep, ReadStable
  <2> QED
    BY <2>1, <2>2 DEF ChainInv
<1>5. CASE Handle
  <2>0. chainMu' \in Lock(n) /\ chainMu'.writer
    BY <1>2, <1>5, LockOps DEF Handle
  <2>1. TypeOK'
    BY <1>0, <1>2, <1>3, <1>5, <2>0 DEF Handle, TypeOK
  <2>2. ServerLocks' /\ InStep' /\ ReadStable'
    BY <1>0, <1>1, <1>5, <2>0 DEF Handle, ServerLocks, InStep, ReadStable, TypeOK
  <2> QED
    BY <2>1, <2>2 DEF ChainInv
<1>6. CASE append
  <2>0. /\ acctMu' \in Lock(0) /\ ~acctMu'.writer
        /\ chainMu' \in Lock(n) /\ ~chainMu'.writer
    BY <1>2, <1>6, LockOps DEF append
  <2>1. blocks + 1 \in 1 .. MaxBlocks
    BY <1>0, <1>6, MaxBlocksAssumption DEF append, InStep, TypeOK
  <2>2. /\ tail' \in Seq(1 .. MaxBlocks) /\ Len(tail') = Len(tail) + 1 /\ tail' # << >>
        /\ Len(tail) \in Nat
    BY <1>0, <1>6, <2>1, PathUpdates, Len(tail) \in Nat DEF append, TypeOK
  <2>3. TypeOK'
    BY <1>0, <1>3, <1>6, <2>0, <2>1, <2>2 DEF append, TypeOK
  <2>4. ServerLocks' /\ InStep'
    BY <1>0, <1>6, <2>0, <2>2 DEF append, ServerLocks, InStep
  <2>5. ReadStable'
    BY <1>1, <1>2, <1>6 DEF append, ReadStable
  <2> QED
    BY <2>3, <2>4, <2>5 DEF ChainInv
<1>7. CASE Accepted
  <2>1. TypeOK'
    BY <1>0, <1>2, <1>3, <1>7 DEF Accepted, TypeOK, locks
  <2>2. ServerLocks' /\ InStep' /\ ReadStable'
    BY <1>0, <1>7 DEF Accepted, ServerLocks, InStep, ReadStable, locks
  <2> QED
    BY <2>1, <2>2 DEF ChainInv
<1>8. CASE CheckLatest
  <2>0. chainMu' \in Lock(n) /\ chainMu'.writer
    BY <1>2, <1>8, LockOps DEF CheckLatest
  <2>1. TypeOK'
    BY <1>0, <1>2, <1>3, <1>8, <2>0 DEF CheckLatest, TypeOK
  <2>2. ServerLocks' /\ InStep' /\ ReadStable'
    BY <1>0, <1>1, <1>8, <2>0 DEF CheckLatest, ServerLocks, InStep, ReadStable
  <2> QED
    BY <2>1, <2>2 DEF ChainInv
<1>9. CASE removeLatestBlock
  <2>0. /\ acctMu' \in Lock(0) /\ ~acctMu'.writer
        /\ chainMu' \in Lock(n) /\ ~chainMu'.writer
    BY <1>2, <1>9, LockOps DEF removeLatestBlock
  <2>1. tail # << >> /\ length = Len(tail) + 1 /\ tail \in Seq(1 .. MaxBlocks)
    BY <1>0, <1>9 DEF removeLatestBlock, InStep, TypeOK
  <2>2. /\ tail' = Front(tail) /\ length' = length - 1
        /\ tail' \in Seq(1 .. MaxBlocks) /\ Len(tail') = Len(tail) - 1
        /\ Len(tail) \in Nat \ {0}
    BY <1>9, <2>1, PathUpdates DEF removeLatestBlock
  <2>3. TypeOK'
    BY <1>0, <1>3, <1>9, <2>0, <2>1, <2>2 DEF removeLatestBlock, TypeOK
  <2>4. ServerLocks' /\ InStep'
    BY <1>0, <1>9, <2>0, <2>1, <2>2 DEF removeLatestBlock, ServerLocks, InStep
  <2>5. ReadStable'
    BY <1>1, <1>2, <1>9 DEF removeLatestBlock, ReadStable
  <2> QED
    BY <2>3, <2>4, <2>5 DEF ChainInv
<1> QED
  BY <1>4, <1>5, <1>6, <1>7, <1>8, <1>9 DEF Server

\* A step of a reader keeps the invariant: it counts its read lock in and out,
\* and starts its walk at the tail.
LEMMA ReaderStep == ASSUME ChainInv, NEW r \in Readers, Read(r) PROVE ChainInv'
<1>0. TypeOK /\ ServerLocks /\ InStep /\ ReadStable
  BY DEF ChainInv
<1> DEFINE n == Cardinality(Holding)
           ReaderState == [at : {"idle", "locked", "walking", "listed", "answered"},
                           tail : Seq(1 .. MaxBlocks), balance : Int]
<1>1. /\ UNCHANGED <<tail, length, blocks, balance, acctMu, server>>
      /\ InStep'
  BY <1>0 DEF Read, GetBlocks, Tail_, Walked, Balance, Respond, locks, InStep
<1>2. /\ n \in Nat /\ IsFiniteSet(Holding)
      /\ chainMu \in Lock(n)
  BY <1>0, ReadLocks
<1>3. ASSUME reader' \in [Readers -> ReaderState],
             chainMu' \in Lock(n') /\ chainMu'.writer = chainMu.writer
      PROVE  TypeOK' /\ ServerLocks'
  BY <1>0, <1>1, <1>2, <1>3 DEF TypeOK, ServerLocks, Holding, Lock
<1>4. reader \in [Readers -> ReaderState] /\ tail \in Seq(1 .. MaxBlocks) /\ balance \in Int
  BY <1>0 DEF TypeOK
<1>5. CASE GetBlocks(r)
  <2>1. r \notin Holding /\ Holding' = Holding \cup {r}
    BY <1>4, <1>5 DEF GetBlocks, Holding
  <2>2. n' = n + 1
    BY <1>2, <2>1, FS_AddElement
  <2>3. chainMu' \in Lock(n') /\ chainMu'.writer = chainMu.writer
    BY <1>2, <1>5, <2>2, LockOps DEF GetBlocks
  <2>4. reader' \in [Readers -> ReaderState] /\ ReadStable'
    BY <1>0, <1>1, <1>4, <1>5 DEF GetBlocks, ReadStable
  <2> QED
    BY <1>1, <1>3, <2>3, <2>4 DEF ChainInv
<1>6. CASE Tail_(r)
  <2>1. /\ reader' = [reader EXCEPT ![r] = [@ EXCEPT !.at = "walking", !.tail = tail]]
        /\ [reader[r] EXCEPT !.at = "walking", !.tail = tail] \in ReaderState
        /\ [reader[r] EXCEPT !.at = "walking", !.tail = tail].at = "walking"
        /\ [reader[r] EXCEPT !.at = "walking", !.tail = tail].tail = tail
    BY <1>4, <1>6 DEF Tail_
  <2>2. Holding' = Holding
    BY <1>4, <1>6, <2>1 DEF Tail_, Holding
  <2>3. chainMu' \in Lock(n') /\ chainMu'.writer = chainMu.writer
    BY <1>2, <1>6, <2>2, LockOps DEF Tail_
  <2>4. reader' \in [Readers -> ReaderState] /\ ReadStable'
    BY <1>0, <1>1, <1>4, <2>1 DEF ReadStable
  <2> QED
    BY <1>1, <1>3, <2>3, <2>4 DEF ChainInv
<1>7. CASE Walked(r)
  <2>1. r \in Holding /\ Holding' = Holding \ {r}
    BY <1>4, <1>7 DEF Walked, Holding
  <2>2. n' = n - 1
    BY <1>2, <2>1, FS_RemoveElement
  <2>3. chainMu' \in Lock(n') /\ chainMu'.writer = chainMu.writer
    BY <1>2, <1>7, <2>2, LockOps DEF Walked
  <2>4. reader' \in [Readers -> ReaderState] /\ ReadStable'
    BY <1>0, <1>1, <1>4, <1>7 DEF Walked, ReadStable
  <2> QED
    BY <1>1, <1>3, <2>3, <2>4 DEF ChainInv
<1>8. CASE Balance(r)
  <2>1. /\ reader' = [reader EXCEPT ![r] = [@ EXCEPT !.at = "answered", !.balance = balance]]
        /\ [reader[r] EXCEPT !.at = "answered", !.balance = balance] \in ReaderState
        /\ [reader[r] EXCEPT !.at = "answered", !.balance = balance].at = "answered"
    BY <1>4, <1>8 DEF Balance
  <2>2. Holding' = Holding
    BY <1>4, <1>8, <2>1 DEF Balance, Holding
  <2>3. chainMu' \in Lock(n') /\ chainMu'.writer = chainMu.writer
    BY <1>2, <1>8, <2>2 DEF Balance, locks
  <2>4. reader' \in [Readers -> ReaderState] /\ ReadStable'
    BY <1>0, <1>1, <1>4, <2>1 DEF ReadStable
  <2> QED
    BY <1>1, <1>3, <2>3, <2>4 DEF ChainInv
<1>9. CASE Respond(r)
  <2>1. NoRead \in ReaderState /\ NoRead.at = "idle"
    BY DEF NoRead
  <2>2. Holding' = Holding
    BY <1>4, <1>9, <2>1 DEF Respond, Holding
  <2>3. chainMu' \in Lock(n') /\ chainMu'.writer = chainMu.writer
    BY <1>2, <1>9, <2>2 DEF Respond, locks
  <2>4. reader' \in [Readers -> ReaderState] /\ ReadStable'
    BY <1>0, <1>1, <1>4, <1>9, <2>1 DEF Respond, ReadStable
  <2> QED
    BY <1>1, <1>3, <2>3, <2>4 DEF ChainInv
<1> QED
  BY <1>5, <1>6, <1>7, <1>8, <1>9 DEF Read

\* The inductive invariant holds in every state.
THEOREM ChainInvariant == Spec => []ChainInv
<1>1. ChainInv /\ UNCHANGED vars => ChainInv'
  BY DEF ChainInv, TypeOK, ServerLocks, InStep, ReadStable, vars
<1>2. ChainInv /\ [Next]_vars => ChainInv'
  BY <1>1, ServerStep, ReaderStep DEF Next
<1> QED
  BY <1>2, ChainInit, PTL DEF Spec

\* Types, and the count of the chain's read locks (TypeOK).
THEOREM ChainTypeCorrect == Spec => []TypeOK
<1>1. ChainInv => TypeOK
  BY DEF ChainInv
<1> QED
  BY <1>1, ChainInvariant, PTL

\* However many readers walk the chain, none sees it change under its feet
\* (ReadStable): append and removeLatestBlock wait for all of them.
THEOREM WalksAreStable == Spec => []ReadStable
<1>1. ChainInv => ReadStable
  BY DEF ChainInv
<1> QED
  BY <1>1, ChainInvariant, PTL

\* Whoever holds the account's lock sees balance and chain agree, and the cached
\* length is right (LockedConsistent).
THEOREM LocksProtect == Spec => []LockedConsistent
<1>1. ChainInv => LockedConsistent
  BY DEF ChainInv, ServerLocks, InStep, LockedConsistent
<1> QED
  BY <1>1, ChainInvariant, PTL
=============================================================================
