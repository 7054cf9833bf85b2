------------------------------ MODULE AppProofs ------------------------------
(***************************************************************************)
(* Lemmas about the ledger, for any accounts, terms, amounts and bounds.   *)
(*                                                                         *)
(* The handlers are composed of five assignments (SetSlot, AddBalance,     *)
(* AddMBR, AddNonce, AddBlock), so the proofs go in three layers: what an  *)
(* assignment does to an account record, what each handler and rollback    *)
(* handler does to an account, what each action does to the ledger.  Then  *)
(* come the facts about whole operations that AppTokenProofs uses.         *)
(***************************************************************************)
EXTENDS AppProperties, AppRefinement, FiniteSetTheorems, TLAPS

(***************************************************************************)
(* Assignments.                                                            *)
(***************************************************************************)
\* Every assignment a handler makes yields an account record again.
LEMMA UpdateTypes ==
  \A acc \in AccountState :
    /\ \A t \in TokenIds, s \in SlotStates : SetSlot(acc, t, s) \in AccountState
    /\ \A x \in Int : /\ AddMBR(acc, x) \in AccountState
                      /\ AddNonce(acc, x) \in AccountState
                      /\ AddBalance(acc, x) \in AccountState
<1> SUFFICES ASSUME NEW acc \in AccountState
             PROVE  /\ \A t \in TokenIds, s \in SlotStates : SetSlot(acc, t, s) \in AccountState
                    /\ \A x \in Int : /\ AddMBR(acc, x) \in AccountState
                                      /\ AddNonce(acc, x) \in AccountState
                                      /\ AddBalance(acc, x) \in AccountState
  OBVIOUS
<1>1. \A t \in TokenIds, s \in SlotStates : SetSlot(acc, t, s) \in AccountState
  BY DEF SetSlot, AccountState
<1>2. \A x \in Int : AddMBR(acc, x) \in AccountState
  BY DEF AddMBR, AccountState
<1>3. \A x \in Int : AddNonce(acc, x) \in AccountState
  BY DEF AddNonce, AccountState
<1>4. \A x \in Int : AddBalance(acc, x) \in AccountState
  BY DEF AddBalance, AccountState
<1> QED
  BY <1>1, <1>2, <1>3, <1>4

\* Replacing an account's chain leaves the rest of the record alone.
LEMMA ChainUpdate ==
  ASSUME NEW acc \in AccountState, NEW ch \in Seq(Transaction)
  PROVE  LET r == [acc EXCEPT !.chain = ch]
         IN  /\ r \in AccountState
             /\ r.balance = acc.balance /\ r.mbr = acc.mbr
             /\ r.nonce = acc.nonce /\ r.store = acc.store
BY DEF AccountState

\* Adding a block keeps the record and everything but its chain.
LEMMA AddBlockEffect ==
  ASSUME NEW acc \in AccountState, NEW trx \in Transaction
  PROVE  LET r == AddBlock(acc, trx)
         IN  /\ r \in AccountState
             /\ r.balance = acc.balance /\ r.mbr = acc.mbr
             /\ r.nonce = acc.nonce /\ r.store = acc.store
<1>1. acc.chain \in Seq(Transaction)
  BY DEF AccountState
<1>2. Append(acc.chain, trx) \in Seq(Transaction)
  BY <1>1
<1> QED
  BY <1>2, ChainUpdate DEF AddBlock

\* Removing the latest block, when there is one, keeps everything but the chain.
LEMMA RemoveBlockEffect ==
  ASSUME NEW acc \in AccountState, acc.chain # << >>
  PROVE  LET r == removeLatestBlock(acc)
         IN  /\ r \in AccountState
             /\ r.balance = acc.balance /\ r.mbr = acc.mbr
             /\ r.nonce = acc.nonce /\ r.store = acc.store
<1>1. acc.chain \in Seq(Transaction)
  BY DEF AccountState
<1>2. SubSeq(acc.chain, 1, Len(acc.chain) - 1) \in Seq(Transaction)
  BY <1>1
<1> QED
  BY <1>2, ChainUpdate DEF removeLatestBlock

\* The integers and slot states the handlers write.
LEMMA WrittenValues ==
  /\ {MBR_TOKEN_COST, -MBR_TOKEN_COST, MBR_SLOT_COST, -MBR_SLOT_COST, MBR_FREEZE_COST,
      -MBR_FREEZE_COST, MBR_UNFREEZE_COST, -MBR_UNFREEZE_COST, 1, -1} \subseteq Int
  /\ {"absent", "placeholder", "held", "frozen"} \subseteq SlotStates
BY DEF MBR_TOKEN_COST, MBR_SLOT_COST, MBR_FREEZE_COST, MBR_UNFREEZE_COST, SlotStates

-----------------------------------------------------------------------------
(***************************************************************************)
(* Handlers.                                                               *)
(***************************************************************************)
\* A transaction as App builds them: one about a token names a token.
ValidTx(trx) ==
    /\ trx \in Transaction
    /\ trx.type \notin {"Mint", "Transfer", "Burn"} => trx.token \in TokenIds

\* The fields of a valid transaction.
LEMMA ValidTxFields ==
  ASSUME NEW trx, ValidTx(trx)
  PROVE  /\ trx.type \in TransactionType
         /\ trx.amount \in Int /\ -trx.amount \in Int
         /\ trx.slot \in SlotStates
         /\ trx.type \notin {"Mint", "Transfer", "Burn"} => trx.token \in TokenIds
BY DEF ValidTx, Transaction

\* Whatever a handler decides, the account it returns is an account record.
LEMMA HandlerTypes ==
  ASSUME NEW self, NEW acc \in AccountState, NEW trx, ValidTx(trx)
  PROVE  txHandlers(self, acc, trx).acc \in AccountState
<1> USE ValidTxFields, UpdateTypes, WrittenValues DEF Result
<1>a. CASE trx.type = "Mint"
  BY <1>a DEF txHandlers, handleMintTx
<1>b. CASE trx.type = "Transfer"
  <2>1. txHandlers(self, acc, trx) = handleTransferTx(self, acc, trx)
    BY <1>b DEF txHandlers
  <2>2. /\ AddNonce(AddBalance(acc, -trx.amount), 1) \in AccountState
        /\ AddBalance(acc, trx.amount) \in AccountState
        /\ AddBalance(AddNonce(AddBalance(acc, -trx.amount), 1), trx.amount) \in AccountState
    OBVIOUS
  <2>3. CASE trx.sender = self
    BY <2>1, <2>2, <2>3 DEF handleTransferTx
  <2>4. CASE trx.sender # self
    BY <2>1, <2>2, <2>4 DEF handleTransferTx
  <2> QED
    BY <2>3, <2>4
<1>c. CASE trx.type = "Burn"
  BY <1>c DEF txHandlers, handleBurnTx
<1>d. CASE trx.type = "MintToken"
  BY <1>d DEF txHandlers, handleMintTokenTx, mintToken, Expecting
<1>e. CASE trx.type = "TransferToken"
  BY <1>e DEF txHandlers, handleTransferTokenTx, removeToken, addTokenFromTransfer, Expecting
<1>f. CASE trx.type = "AuthorizeTokenTransfer"
  BY <1>f DEF txHandlers, handleAuthorizeTokenTransferTx, Expecting
<1>g. CASE trx.type = "UnauthorizeTokenTransfer"
  BY <1>g DEF txHandlers, handleUnauthorizeTokenTransferTx, Expecting
<1>h. CASE trx.type = "BurnToken"
  BY <1>h DEF txHandlers, handleBurnTokenTx, burnToken, Expecting
<1>i. CASE trx.type = "ClawbackTokenTransfer"
  BY <1>i DEF txHandlers, handleClawbackTokenTx, removeToken, addToken, Expecting
<1>j. CASE trx.type = "FreezeToken"
  BY <1>j DEF txHandlers, handleFreezeTokenTx, Expecting
<1>k. CASE trx.type = "UnfreezeToken"
  BY <1>k DEF txHandlers, handleUnfreezeTokenTx, Expecting
<1> QED
  BY <1>a, <1>b, <1>c, <1>d, <1>e, <1>f, <1>g, <1>h, <1>i, <1>j, <1>k DEF TransactionType

\* Appending a transaction to an account yields an account record.
LEMMA AppendTypes ==
  ASSUME NEW self, NEW acc \in AccountState, NEW trx, ValidTx(trx)
  PROVE  appendTransaction(self, acc, trx).acc \in AccountState
<1> DEFINE h == txHandlers(self, acc, trx)
<1>1. appendTransaction(self, acc, trx).acc = AddBlock(h.acc, trx)
  BY DEF appendTransaction, Result
<1>2. h.acc \in AccountState /\ trx \in Transaction
  BY HandlerTypes DEF ValidTx
<1> HIDE DEF h
<1> QED
  BY <1>1, <1>2, AddBlockEffect

-----------------------------------------------------------------------------
(***************************************************************************)
(* Rollback handlers, for the transactions App may undo.                   *)
(***************************************************************************)
\* Undoing a transaction at its sender yields an account record again.
LEMMA RollbackTypes ==
  ASSUME NEW self, NEW acc \in AccountState, NEW trx, ValidTx(trx),
         trx.type \in TwoParty, trx.sender = self
  PROVE  txRollbackHandlers(self, acc, trx) \in AccountState
<1> USE ValidTxFields, UpdateTypes, WrittenValues
<1>b. CASE trx.type = "Transfer"
  BY <1>b DEF txRollbackHandlers, rollbackTransferTx
<1>e. CASE trx.type = "TransferToken"
  BY <1>e DEF txRollbackHandlers, rollbackTransferTokenTx
<1>f. CASE trx.type = "AuthorizeTokenTransfer"
  BY <1>f DEF txRollbackHandlers, rollbackAuthorizeTokenTransferTx
<1>g. CASE trx.type = "UnauthorizeTokenTransfer"
  BY <1>g DEF txRollbackHandlers, rollbackUnauthorizeTokenTransferTx
<1>i. CASE trx.type = "ClawbackTokenTransfer"
  BY <1>i DEF txRollbackHandlers, rollbackClawbackTokenTx, addToken, removeToken, Result
<1>j. CASE trx.type = "FreezeToken"
  BY <1>j DEF txRollbackHandlers, rollbackFreezeTokenTx
<1>k. CASE trx.type = "UnfreezeToken"
  BY <1>k DEF txRollbackHandlers, rollbackUnfreezeTokenTx
<1> QED
  BY <1>b, <1>e, <1>f, <1>g, <1>i, <1>j, <1>k DEF TwoParty

-----------------------------------------------------------------------------
(***************************************************************************)
(* The ledger's types.  The handlers below need the transaction in flight  *)
(* to be one on two accounts, which InFlightOK records.                    *)
(***************************************************************************)
TypesInv == Typed /\ InFlightOK

\* The transactions App builds are valid.
LEMMA NewMoneyTx ==
  ASSUME NEW x \in Ids \cup {None}, NEW y \in Ids \cup {None}, NEW amount \in Int,
         NEW type \in {"Mint", "Transfer", "Burn"}
  PROVE  ValidTx(MoneyTx(type, x, y, amount))
<1> 0 \in Nonces
  BY NonceAssumption DEF Nonces
<1> QED
  BY DEF MoneyTx, ValidTx, Transaction, TransactionType, SlotStates

\* So are those about a token.
LEMMA NewTokenTx ==
  ASSUME NEW x \in Ids \cup {None}, NEW y \in Ids \cup {None}, NEW t \in TokenIds,
         NEW slot \in SlotStates, NEW n \in Nonces,
         NEW type \in TransactionType
  PROVE  ValidTx(TokenTx(type, x, y, t, slot, n))
BY DEF TokenTx, ValidTx, Transaction

\* A new account is an empty account record.
LEMMA FreshTypes ==
  /\ newAccountWithPublicKey \in AccountState
  /\ Fresh \in [Ids -> AccountState]
  /\ Idle \in [phase : Phases, trx : Transaction]
<1>1. newAccountWithPublicKey \in AccountState
  BY DEF newAccountWithPublicKey, AccountState, SlotStates
<1>3. Fresh \in [Ids -> AccountState]
  BY <1>1 DEF Fresh
<1>4. newMintTransaction(None, 0) \in Transaction
  BY NewMoneyTx DEF newMintTransaction, ValidTx
<1>5. Idle \in [phase : Phases, trx : Transaction]
  BY <1>4 DEF Idle, Phases
<1> QED
  BY <1>1, <1>3, <1>5

\* A completed append to one account keeps the invariant.
LEMMA SingleStep ==
  ASSUME TypesInv, op.phase = "idle", NEW id \in Ids, NEW trx, ValidTx(trx), Single(id, trx)
  PROVE  TypesInv'
<1> DEFINE r == appendTransaction(id, accounts[id], trx)
<1>1. accounts[id] \in AccountState
  BY DEF TypesInv, Typed
<1>2. r.ok
  BY DEF Single
<1>3. r.acc \in AccountState
  BY <1>1, <1>2, AppendTypes
<1>4. /\ accounts' = [accounts EXCEPT ![id] = r.acc]
      /\ UNCHANGED <<created, op, before>>
  BY DEF Single
<1> HIDE DEF r
<1>5. Typed'
  BY <1>3, <1>4 DEF TypesInv, Typed
<1>6. ~InFlight'
  BY <1>4 DEF InFlight
<1> QED
  BY <1>5, <1>6 DEF TypesInv, InFlightOK

\* Appending to the sender keeps the invariant.
LEMMA FirstStep ==
  ASSUME TypesInv, NEW trx, ValidTx(trx), trx.type \in TwoParty,
         trx.sender \in Ids, trx.receiver \in Ids, First(trx)
  PROVE  TypesInv'
<1> DEFINE id == trx.sender
           r  == appendTransaction(id, accounts[id], trx)
<1>1. accounts[id] \in AccountState
  BY DEF TypesInv, Typed
<1>2. r.ok
  BY DEF First
<1>3. r.acc \in AccountState
  BY <1>1, <1>2, AppendTypes
<1>5. /\ accounts' = [accounts EXCEPT ![id] = r.acc]
      /\ op' = [phase |-> "second", trx |-> trx]
      /\ before' = accounts
      /\ created' = created
  BY DEF First
<1> HIDE DEF r
<1>6. Typed'
  BY <1>3, <1>5 DEF TypesInv, Typed, Phases, ValidTx
<1>8. InFlightOK'
  BY <1>5 DEF InFlightOK, ValidTx, TwoParty
<1> QED
  BY <1>6, <1>8 DEF TypesInv

\* The transaction in flight is valid.
LEMMA InFlightValid ==
  ASSUME TypesInv, InFlight
  PROVE  ValidTx(op.trx) /\ op.trx.type \in TwoParty /\ op.trx.sender \in Ids /\ op.trx.receiver \in Ids
BY DEF TypesInv, Typed, InFlightOK, ValidTx, TwoParty

\* The receiver's append, accepted or refused, keeps the invariant.
LEMMA SecondStep ==
  ASSUME TypesInv, SecondLeg
  PROVE  TypesInv'
<1> DEFINE id == op.trx.receiver
           r  == appendTransaction(id, accounts[id], op.trx)
<1>0. op.phase = "second" /\ InFlight
  BY DEF SecondLeg, InFlight
<1>1. ValidTx(op.trx) /\ id \in Ids
  BY <1>0, InFlightValid
<1>2. accounts[id] \in AccountState
  BY <1>1 DEF TypesInv, Typed
<1>3. r.ok => r.acc \in AccountState
  BY <1>1, <1>2, AppendTypes
<1>4. /\ accounts' = IF r.ok THEN [accounts EXCEPT ![id] = r.acc] ELSE accounts
      /\ IF r.ok \/ op.trx.type = "Transfer"
         THEN op' = Idle /\ before' = Fresh
         ELSE op' = [op EXCEPT !.phase = "rollback"] /\ before' = before
      /\ created' = created
  BY DEF SecondLeg
<1> HIDE DEF r
<1>5. accounts' \in [Ids -> AccountState]
  BY <1>3, <1>4 DEF TypesInv, Typed
<1>6. CASE r.ok \/ op.trx.type = "Transfer"
  <2>1. op' = Idle /\ before' = Fresh /\ created' = created
    BY <1>4, <1>6
  <2>2. Typed'
    BY <1>5, <2>1, FreshTypes DEF TypesInv, Typed
  <2>3. ~InFlight'
    BY <2>1 DEF InFlight, Idle
  <2> QED
    BY <1>5, <2>2, <2>3 DEF TypesInv, InFlightOK
<1>7. CASE ~(r.ok \/ op.trx.type = "Transfer")
  <2>1. /\ accounts' = accounts /\ before' = before /\ created' = created
        /\ op' = [op EXCEPT !.phase = "rollback"]
    BY <1>4, <1>7
  <2>2. Typed'
    BY <2>1 DEF TypesInv, Typed, Phases
  <2>3. op'.trx = op.trx
    BY <2>1 DEF TypesInv, Typed
  <2>4. InFlightOK'
    BY <1>0, <1>7, <2>3 DEF TypesInv, InFlightOK
  <2> QED
    BY <2>2, <2>4 DEF TypesInv
<1> QED
  BY <1>6, <1>7

\* Undoing the sender's append keeps the invariant.
LEMMA RollbackStep ==
  ASSUME TypesInv, Rollback
  PROVE  TypesInv'
<1> DEFINE id  == op.trx.sender
           acc == accounts[id]
           r   == rollbacklatestTransaction(id, acc, op.trx)
<1>0. InFlight
  BY DEF Rollback, InFlight
<1>1. ValidTx(op.trx) /\ op.trx.type \in TwoParty \ {"Transfer"} /\ id \in Ids
  BY <1>0, InFlightValid DEF TypesInv, InFlightOK, Rollback
<1>2. acc \in AccountState
  BY <1>1 DEF TypesInv, Typed
<1>4. r \in AccountState
  <2>1. CASE ~IsLatest(acc, op.trx)
    BY <1>2, <2>1 DEF rollbacklatestTransaction
  <2>2. CASE IsLatest(acc, op.trx)
    <3> DEFINE cut == removeLatestBlock(acc)
    <3>1. r = txRollbackHandlers(id, cut, op.trx) /\ acc.chain # << >>
      BY <2>2 DEF rollbacklatestTransaction, IsLatest
    <3>2. cut \in AccountState
      BY <1>2, <3>1, RemoveBlockEffect
    <3> HIDE DEF cut
    <3>3. txRollbackHandlers(id, cut, op.trx) \in AccountState
      BY <1>1, <3>2, RollbackTypes
    <3> QED
      BY <3>1, <3>3
  <2> QED
    BY <2>1, <2>2
<1>5. /\ accounts' = [accounts EXCEPT ![id] = r]
      /\ op' = Idle /\ before' = Fresh /\ created' = created
  BY DEF Rollback
<1> HIDE DEF r
<1>6. Typed'
  BY <1>4, <1>5, FreshTypes DEF TypesInv, Typed
<1>7. ~InFlight'
  BY <1>5 DEF InFlight, Idle
<1> QED
  BY <1>6, <1>7 DEF TypesInv, InFlightOK

\* The token a MintToken request asks for is one of TokenIds.
LEMMA MintedTokenId ==
  ASSUME NEW id \in Minters, NEW terms \in Terms, NEW n \in Nonces, n < MaxNonce
  PROVE  [minter |-> id, nonce |-> n, terms |-> terms] \in TokenIds
<1> n \in 0 .. (MaxNonce - 1)
  BY NonceAssumption DEF Nonces
<1> QED
  BY DEF TokenIds

\* What an account's store says of a token is a slot state.
LEMMA SlotType ==
  ASSUME TypesInv, NEW id \in Ids, NEW t \in TokenIds
  PROVE  accounts[id].store[t] \in SlotStates
BY DEF TypesInv, Typed, AccountState

\* The invariant holds when the ledger is created.
LEMMA TypesInit == Init => TypesInv
<1> SUFFICES ASSUME Init PROVE TypesInv
  OBVIOUS
<1>1. Typed
  BY FreshTypes DEF Init, Typed
<1>3. ~InFlight
  BY DEF Init, InFlight, Idle
<1> QED
  BY <1>1, <1>3 DEF TypesInv, InFlightOK

\* Every step of the ledger keeps the invariant.
LEMMA TypesNext == TypesInv /\ [Next]_vars => TypesInv'
<1> SUFFICES ASSUME TypesInv, [Next]_vars PROVE TypesInv'
  OBVIOUS
<1> USE MinterAssumption, AmountsAssumption
<1>1. ASSUME NEW id \in Ids, NEW x \in InitialBalances, CreateAccountWithKeys(id, x)
      PROVE  TypesInv'
  <2> DEFINE trx == newMintTransaction(id, x)
             r   == appendTransaction(id, accounts[id], trx)
  <2>1. ValidTx(trx)
    BY NewMoneyTx DEF newMintTransaction
  <2>2. accounts[id] \in AccountState
    BY DEF TypesInv, Typed
  <2>3. r.ok
    BY DEF appendTransaction, txHandlers, handleMintTx, newMintTransaction, MoneyTx, Result
  <2>4. r.acc \in AccountState
    BY <2>1, <2>2, <2>3, AppendTypes
  <2>5. /\ accounts' = IF x > 0 THEN [accounts EXCEPT ![id] = r.acc] ELSE accounts
        /\ created' = created \cup {id} /\ op' = op /\ before' = before /\ op.phase = "idle"
    BY <1>1 DEF CreateAccountWithKeys
  <2> HIDE DEF r
  <2>6. Typed'
    BY <2>4, <2>5 DEF TypesInv, Typed
  <2>7. ~InFlight'
    BY <2>5 DEF InFlight
  <2> QED
    BY <2>6, <2>7 DEF TypesInv, InFlightOK
<1>2. ASSUME NEW id \in Ids, NEW x \in Amounts, Mint(id, x)
      PROVE  TypesInv'
  <2>1. ValidTx(newMintTransaction(id, x))
    BY NewMoneyTx DEF newMintTransaction
  <2> QED
    BY <1>2, <2>1, SingleStep DEF Mint
<1>3. ASSUME NEW id \in Minters, NEW terms \in Terms, NEW n \in Nonces, MintToken(id, terms, n)
      PROVE  TypesInv'
  <2> DEFINE t == [minter |-> id, nonce |-> n, terms |-> terms]
  <2>1. t \in TokenIds
    BY <1>3, MintedTokenId DEF MintToken, Ready
  <2>2. ValidTx(newMintTokenTransaction(id, t))
    BY <2>1, NewTokenTx DEF newMintTokenTransaction, TransactionType, SlotStates
  <2> QED
    BY <1>3, <2>2, SingleStep DEF MintToken, Ready
<1>4. ASSUME NEW id \in Ids, NEW t \in TokenIds, NEW n \in Nonces, BurnToken(id, t, n)
      PROVE  TypesInv'
  <2>1. ValidTx(newBurnTokenTransaction(id, t, n))
    BY NewTokenTx DEF newBurnTokenTransaction, TransactionType, SlotStates
  <2> QED
    BY <1>4, <2>1, SingleStep DEF BurnToken, Ready
<1>5. ASSUME NEW x \in Ids, NEW y \in Ids, NEW amount \in Amounts, NEW n \in Nonces,
             Transfer(x, y, amount, n)
      PROVE  TypesInv'
  <2> DEFINE trx == newTransferTransaction(x, y, amount)
  <2>1. ValidTx(trx)
    BY NewMoneyTx DEF newTransferTransaction
  <2>2. trx.sender = x /\ trx.receiver = y /\ trx.type \in TwoParty
    BY DEF newTransferTransaction, MoneyTx, TwoParty
  <2>3. First(trx)
    BY <1>5 DEF Transfer
  <2> HIDE DEF trx
  <2> QED
    BY <2>1, <2>2, <2>3, FirstStep
<1>6. ASSUME NEW x \in Ids, NEW y \in Ids, NEW t \in TokenIds, NEW n \in Nonces,
             \/ TransferToken(x, y, t, n)
             \/ AuthorizeTokenTransfer(x, y, t, n)
             \/ UnauthorizeTokenTransfer(x, y, t, n)
             \/ ClawbackToken(x, y, t, n)
             \/ FreezeToken(x, y, t, n)
             \/ UnfreezeToken(x, y, t, n)
      PROVE  TypesInv'
  <2>1. PICK type \in TwoParty \ {"Transfer"}, slot \in SlotStates :
               First(TokenTx(type, x, y, t, slot, n))
    <3>1. accounts[x].store[t] \in SlotStates /\ "absent" \in SlotStates
      BY SlotType DEF SlotStates
    <3> QED
      BY <1>6, <3>1
         DEF TransferToken, AuthorizeTokenTransfer, UnauthorizeTokenTransfer, ClawbackToken,
             FreezeToken, UnfreezeToken, newTransferTokenTransaction,
             newAuthorizeTokenTransferTransaction, newUnauthorizeTokenTransferTransaction,
             newClawbackTokenTransaction, newFreezeTokenTransaction,
             newUnfreezeTokenTransaction, TwoParty
  <2> DEFINE trx == TokenTx(type, x, y, t, slot, n)
  <2>2. ValidTx(trx)
    BY NewTokenTx DEF TransactionType, TwoParty
  <2>3. trx.sender = x /\ trx.receiver = y /\ trx.type \in TwoParty
    BY DEF TokenTx
  <2> HIDE DEF trx
  <2> QED
    BY <2>1, <2>2, <2>3, FirstStep DEF trx
<1>7. ASSUME NEW x \in Ids, NEW y \in Ids, NEW t \in TokenIds, ClawbackPanics(x, y, t)
      PROVE  TypesInv'
  <2>1. op' = [op EXCEPT !.phase = "panicked"] /\ UNCHANGED <<created, accounts, before>>
    BY <1>7 DEF ClawbackPanics
  <2>2. Typed' /\ ~InFlight'
    BY <2>1 DEF TypesInv, Typed, InFlight, Phases
  <2> QED
    BY <2>2 DEF TypesInv, InFlightOK
<1>8. CASE SecondLeg
  BY <1>8, SecondStep
<1>9. CASE Rollback
  BY <1>9, RollbackStep
<1>10. CASE Restart
  <2>1. Typed'
    BY <1>10, FreshTypes DEF Restart, Typed, Fresh
  <2>2. ~InFlight'
    BY <1>10 DEF Restart, InFlight, Idle
  <2> QED
    BY <2>1, <2>2 DEF TypesInv, InFlightOK
<1>11. CASE UNCHANGED vars
  BY <1>11 DEF vars, TypesInv, Typed, InFlightOK, InFlight
<1>12. CASE ServeRequest
  BY <1>12, <1>1, <1>2, <1>3, <1>4, <1>5, <1>6, <1>7, <1>11 DEF ServeRequest, Refuse
<1> QED
  BY <1>8, <1>9, <1>10, <1>11, <1>12 DEF Next

-----------------------------------------------------------------------------
(***************************************************************************)
(* Whole operations.  They are stated about the accounts as they are       *)
(* outside of an operation (Settled).  An operation in flight is known     *)
(* exactly: it is the sender's append on those accounts (Halfway).         *)
(***************************************************************************)
\* What an operation looked at before its first append.
Asked(S, trx) ==
    /\ {trx.sender, trx.receiver} \subseteq created
    /\ trx.type = "Transfer" => trx.sender # trx.receiver /\ trx.amount \in Amounts
    /\ trx.type \in {"TransferToken", "ClawbackTokenTransfer"} =>
          /\ trx.slot = S[trx.sender].store[trx.token]
          /\ Real(trx.slot)
    /\ trx.type = "ClawbackTokenTransfer" => trx.receiver = ClawbackAddress(trx.token)
    /\ trx.type \in {"FreezeToken", "UnfreezeToken"} => trx.sender = FreezeAddress(trx.token)

\* An operation in flight has done its first append and nothing else.
Halfway ==
    InFlight =>
        LET r == appendTransaction(op.trx.sender, before[op.trx.sender], op.trx)
        IN  /\ Asked(before, op.trx)
            /\ r.ok
            /\ accounts = [before EXCEPT ![op.trx.sender] = r.acc]

\* A token is in one store at most.
OneHolder(S) ==
    \A t \in TokenIds : \A x, y \in Ids :
        Real(S[x].store[t]) /\ Real(S[y].store[t]) => x = y

\* A token that exists has used up its number, so it is not minted again.
NumberSpent(S) ==
    \A t \in TokenIds, x \in Ids : Real(S[x].store[t]) => t.nonce < S[t.minter].nonce

MintedIn(S, id) == {t \in TokenIds : t.minter = id /\ \E x \in Ids : Real(S[x].store[t])}
SlotsIn(S, id)  == {t \in TokenIds : S[id].store[t] = "placeholder"}
FrozenIn(S, id) == {t \in TokenIds : FreezeAddress(t) = id /\ \E x \in Ids : S[x].store[t] = "frozen"}

\* An account's mbr covers what is locked for it.
Covered(S) ==
    \A id \in Ids :
        /\ IsFiniteSet(MintedIn(S, id)) /\ IsFiniteSet(SlotsIn(S, id)) /\ IsFiniteSet(FrozenIn(S, id))
        /\ S[id].mbr >= MBR_TOKEN_COST * Cardinality(MintedIn(S, id))
                        + MBR_SLOT_COST * Cardinality(SlotsIn(S, id))
                        + MBR_FREEZE_COST * Cardinality(FrozenIn(S, id))

TokenInv ==
    /\ TypesInv
    /\ Halfway
    /\ OneHolder(Settled)
    /\ NumberSpent(Settled)
    /\ Covered(Settled)

-----------------------------------------------------------------------------
(***************************************************************************)
(* What the two halves of an operation do to an account record.            *)
(***************************************************************************)
\* An account record, field by field.
Fields(r, balance, mbr, nonce, store, chain) ==
    /\ r \in AccountState
    /\ r.balance = balance /\ r.mbr = mbr /\ r.nonce = nonce
    /\ r.store = store /\ r.chain = chain

\* Each assignment changes one field.
LEMMA AssignmentFields ==
  ASSUME NEW acc \in AccountState
  PROVE  /\ \A t \in TokenIds, slot \in SlotStates :
              Fields(SetSlot(acc, t, slot),
                     acc.balance, acc.mbr, acc.nonce, [acc.store EXCEPT ![t] = slot], acc.chain)
         /\ \A x \in Int :
              /\ Fields(AddBalance(acc, x), acc.balance + x, acc.mbr, acc.nonce, acc.store, acc.chain)
              /\ Fields(AddMBR(acc, x), acc.balance, acc.mbr + x, acc.nonce, acc.store, acc.chain)
              /\ Fields(AddNonce(acc, x), acc.balance, acc.mbr, acc.nonce + x, acc.store, acc.chain)
         /\ \A trx \in Transaction :
              Fields(AddBlock(acc, trx),
                     acc.balance, acc.mbr, acc.nonce, acc.store, Append(acc.chain, trx))
<1>1. \A t \in TokenIds, slot \in SlotStates :
        Fields(SetSlot(acc, t, slot),
               acc.balance, acc.mbr, acc.nonce, [acc.store EXCEPT ![t] = slot], acc.chain)
  BY DEF Fields, SetSlot, AccountState
<1>2. \A x \in Int : Fields(AddBalance(acc, x), acc.balance + x, acc.mbr, acc.nonce, acc.store, acc.chain)
  BY DEF Fields, AddBalance, AccountState
<1>3. \A x \in Int : Fields(AddMBR(acc, x), acc.balance, acc.mbr + x, acc.nonce, acc.store, acc.chain)
  BY DEF Fields, AddMBR, AccountState
<1>4. \A x \in Int : Fields(AddNonce(acc, x), acc.balance, acc.mbr, acc.nonce + x, acc.store, acc.chain)
  BY DEF Fields, AddNonce, AccountState
<1>5. ASSUME NEW trx \in Transaction
      PROVE  Fields(AddBlock(acc, trx),
                    acc.balance, acc.mbr, acc.nonce, acc.store, Append(acc.chain, trx))
  <2>1. acc.chain \in Seq(Transaction)
    BY DEF AccountState
  <2>2. Append(acc.chain, trx) \in Seq(Transaction)
    BY <2>1
  <2> QED
    BY <2>2 DEF Fields, AddBlock, AccountState
<1> QED
  BY <1>1, <1>2, <1>3, <1>4, <1>5

\* The assignments handlers make together.
LEMMA ComposedFields ==
  ASSUME NEW acc \in AccountState, NEW x \in Int, NEW y \in Int
  PROVE  /\ Fields(AddNonce(AddBalance(acc, x), y),
                   acc.balance + x, acc.mbr, acc.nonce + y, acc.store, acc.chain)
         /\ Fields(AddNonce(AddMBR(acc, x), y),
                   acc.balance, acc.mbr + x, acc.nonce + y, acc.store, acc.chain)
         /\ \A t \in TokenIds, slot \in SlotStates :
              LET st == [acc.store EXCEPT ![t] = slot]
              IN  /\ Fields(AddMBR(SetSlot(acc, t, slot), x),
                            acc.balance, acc.mbr + x, acc.nonce, st, acc.chain)
                  /\ Fields(AddNonce(SetSlot(acc, t, slot), y),
                            acc.balance, acc.mbr, acc.nonce + y, st, acc.chain)
                  /\ Fields(AddNonce(AddMBR(SetSlot(acc, t, slot), x), y),
                            acc.balance, acc.mbr + x, acc.nonce + y, st, acc.chain)
<1>1. Fields(AddNonce(AddBalance(acc, x), y),
             acc.balance + x, acc.mbr, acc.nonce + y, acc.store, acc.chain)
  <2>1. PICK r : r = AddBalance(acc, x)
    OBVIOUS
  <2>2. Fields(r, acc.balance + x, acc.mbr, acc.nonce, acc.store, acc.chain)
    BY <2>1, AssignmentFields
  <2>3. r \in AccountState
    BY <2>2 DEF Fields
  <2>4. Fields(AddNonce(r, y), r.balance, r.mbr, r.nonce + y, r.store, r.chain)
    BY <2>3, AssignmentFields
  <2> QED
    BY <2>1, <2>2, <2>4 DEF Fields
<1>2. Fields(AddNonce(AddMBR(acc, x), y),
             acc.balance, acc.mbr + x, acc.nonce + y, acc.store, acc.chain)
  <2>1. PICK r : r = AddMBR(acc, x)
    OBVIOUS
  <2>2. Fields(r, acc.balance, acc.mbr + x, acc.nonce, acc.store, acc.chain)
    BY <2>1, AssignmentFields
  <2>3. r \in AccountState
    BY <2>2 DEF Fields
  <2>4. Fields(AddNonce(r, y), r.balance, r.mbr, r.nonce + y, r.store, r.chain)
    BY <2>3, AssignmentFields
  <2> QED
    BY <2>1, <2>2, <2>4 DEF Fields
<1>3. ASSUME NEW t \in TokenIds, NEW slot \in SlotStates, NEW st, st = [acc.store EXCEPT ![t] = slot]
      PROVE  /\ Fields(AddMBR(SetSlot(acc, t, slot), x),
                       acc.balance, acc.mbr + x, acc.nonce, st, acc.chain)
             /\ Fields(AddNonce(SetSlot(acc, t, slot), y),
                       acc.balance, acc.mbr, acc.nonce + y, st, acc.chain)
             /\ Fields(AddNonce(AddMBR(SetSlot(acc, t, slot), x), y),
                       acc.balance, acc.mbr + x, acc.nonce + y, st, acc.chain)
  <2>1. PICK r : r = SetSlot(acc, t, slot)
    OBVIOUS
  <2>2. Fields(r, acc.balance, acc.mbr, acc.nonce, st, acc.chain)
    BY <1>3, <2>1, AssignmentFields
  <2>3. r \in AccountState
    BY <2>2 DEF Fields
  <2>4. /\ Fields(AddNonce(r, y), r.balance, r.mbr, r.nonce + y, r.store, r.chain)
        /\ Fields(AddMBR(r, x), r.balance, r.mbr + x, r.nonce, r.store, r.chain)
    BY <2>3, AssignmentFields
  <2>5. PICK q : q = AddMBR(r, x)
    OBVIOUS
  <2>6. q \in AccountState
    BY <2>4, <2>5 DEF Fields
  <2>7. Fields(AddNonce(q, y), q.balance, q.mbr, q.nonce + y, q.store, q.chain)
    BY <2>6, AssignmentFields
  <2> QED
    BY <2>1, <2>2, <2>4, <2>5, <2>7 DEF Fields
<1> QED
  BY <1>1, <1>2, <1>3

\* An append that succeeds is its handler and a block.
LEMMA AppendFields ==
  ASSUME NEW self, NEW acc \in AccountState, NEW trx, ValidTx(trx), NEW b, NEW m, NEW n, NEW st,
         Fields(txHandlers(self, acc, trx).acc, b, m, n, st, acc.chain)
  PROVE  Fields(appendTransaction(self, acc, trx).acc, b, m, n, st, Append(acc.chain, trx))
<1> DEFINE h == txHandlers(self, acc, trx).acc
<1>1. appendTransaction(self, acc, trx).acc = AddBlock(h, trx)
  BY DEF appendTransaction, Result
<1>2. trx \in Transaction /\ h \in AccountState
  BY DEF ValidTx, Fields
<1> HIDE DEF h
<1>3. Fields(AddBlock(h, trx), h.balance, h.mbr, h.nonce, h.store, Append(h.chain, trx))
  BY <1>2, AssignmentFields
<1>4. h.balance = b /\ h.mbr = m /\ h.nonce = n /\ h.store = st /\ h.chain = acc.chain
  BY DEF h, Fields
<1> QED
  BY <1>1, <1>3, <1>4

\* The sender's half.
FirstHalf(acc, trx, r) ==
    LET slot == acc.store[trx.token]
        next == Append(acc.chain, trx)
        With(s) == [acc.store EXCEPT ![trx.token] = s]
    IN  /\ trx.type = "Transfer" =>
              /\ acc.balance - acc.mbr >= trx.amount
              /\ Fields(r, acc.balance - trx.amount, acc.mbr, acc.nonce + 1, acc.store, next)
        /\ trx.type # "Transfer" /\ trx.type # "ClawbackTokenTransfer" => trx.nonce = acc.nonce
        /\ trx.type = "TransferToken" =>
              /\ slot \notin {"frozen", "absent"}
              /\ Fields(r, acc.balance, acc.mbr, acc.nonce + 1, With("absent"), next)
        /\ trx.type = "AuthorizeTokenTransfer" =>
              \/ /\ slot = "absent"
                 /\ Fields(r, acc.balance, acc.mbr + MBR_SLOT_COST, acc.nonce + 1, With("placeholder"), next)
              \/ /\ slot = "placeholder"
                 /\ Fields(r, acc.balance, acc.mbr, acc.nonce + 1, acc.store, next)
        /\ trx.type = "UnauthorizeTokenTransfer" =>
              /\ slot = "placeholder"
              /\ Fields(r, acc.balance, acc.mbr - MBR_SLOT_COST, acc.nonce + 1, With("absent"), next)
        /\ trx.type = "ClawbackTokenTransfer" =>
              /\ slot # "absent"
              /\ Fields(r, acc.balance, acc.mbr, acc.nonce, With("absent"), next)
        /\ trx.type = "FreezeToken" =>
              Fields(r, acc.balance, acc.mbr + MBR_FREEZE_COST, acc.nonce + 1, acc.store, next)
        /\ trx.type = "UnfreezeToken" =>
              Fields(r, acc.balance, acc.mbr - MBR_UNFREEZE_COST, acc.nonce + 1, acc.store, next)

\* What a handler does for the account that sends the transaction.
LEMMA FirstHalfEffect ==
  ASSUME NEW self, NEW acc \in AccountState, NEW trx, ValidTx(trx), trx.type \in TwoParty,
         trx.sender = self, trx.type = "Transfer" => trx.receiver # self,
         appendTransaction(self, acc, trx).ok
  PROVE  FirstHalf(acc, trx, appendTransaction(self, acc, trx).acc)
<1> DEFINE h == txHandlers(self, acc, trx)
           t == trx.token
<1> USE ValidTxFields, WrittenValues
<1>0. h.ok
  BY DEF appendTransaction, Result
<1>n. /\ acc.balance \in Int /\ acc.mbr \in Int /\ acc.nonce \in Int
      /\ acc.balance + (-trx.amount) = acc.balance - trx.amount
      /\ acc.mbr + (-MBR_SLOT_COST) = acc.mbr - MBR_SLOT_COST
      /\ acc.mbr + (-MBR_UNFREEZE_COST) = acc.mbr - MBR_UNFREEZE_COST
  BY DEF AccountState, MBR_SLOT_COST, MBR_UNFREEZE_COST
<1>w. /\ "absent" \in SlotStates /\ "placeholder" \in SlotStates
      /\ 1 \in Int /\ 0 \in Int /\ MBR_SLOT_COST \in Int /\ -MBR_SLOT_COST \in Int
  BY WrittenValues DEF MBR_SLOT_COST
<1>t. trx.type \notin {"Mint", "Transfer", "Burn"} => t \in TokenIds
  BY ValidTxFields
<1>b. CASE trx.type = "Transfer"
  <2>1. /\ h.acc = AddNonce(AddBalance(acc, -trx.amount), 1)
        /\ acc.balance - acc.mbr >= trx.amount
    BY <1>0, <1>b DEF txHandlers, handleTransferTx, Result, Available
  <2>2. Fields(h.acc, acc.balance - trx.amount, acc.mbr, acc.nonce + 1, acc.store, acc.chain)
    BY <1>n, <2>1, ComposedFields
  <2> QED
    BY <1>b, <2>1, <2>2, AppendFields DEF FirstHalf
<1>e. CASE trx.type = "TransferToken"
  <2>1. /\ h.acc = AddNonce(SetSlot(acc, t, "absent"), 1)
        /\ trx.nonce = acc.nonce /\ acc.store[t] \notin {"frozen", "absent"}
    BY <1>0, <1>e DEF txHandlers, handleTransferTokenTx, removeToken, Expecting, Result
  <2>2. Fields(h.acc, acc.balance, acc.mbr, acc.nonce + 1, [acc.store EXCEPT ![t] = "absent"], acc.chain)
    BY <1>e, <1>n, <1>t, <1>w, <2>1, ComposedFields
  <2> QED
    BY <1>e, <2>1, <2>2, AppendFields DEF FirstHalf
<1>f. CASE trx.type = "AuthorizeTokenTransfer"
  <2>0. trx.nonce = acc.nonce /\ acc.store[t] \in {"absent", "placeholder"}
    BY <1>0, <1>f DEF txHandlers, handleAuthorizeTokenTransferTx, Expecting, Result
  <2>1. CASE acc.store[t] = "absent"
    <3>1. h.acc = AddNonce(AddMBR(SetSlot(acc, t, "placeholder"), MBR_SLOT_COST), 1)
      BY <1>0, <1>f, <2>1 DEF txHandlers, handleAuthorizeTokenTransferTx, Expecting, Result
    <3>2. Fields(h.acc, acc.balance, acc.mbr + MBR_SLOT_COST, acc.nonce + 1,
                 [acc.store EXCEPT ![t] = "placeholder"], acc.chain)
      <4>1. t \in TokenIds
        BY <1>f, <1>t
      <4> HIDE DEF t
      <4>2. Fields(AddNonce(AddMBR(SetSlot(acc, t, "placeholder"), MBR_SLOT_COST), 1), acc.balance,
                   acc.mbr + MBR_SLOT_COST, acc.nonce + 1, [acc.store EXCEPT ![t] = "placeholder"], acc.chain)
        BY <1>w, <4>1, ComposedFields
      <4> QED
        BY <3>1, <4>2
    <3> QED
      BY <1>f, <2>0, <2>1, <3>2, AppendFields DEF FirstHalf
  <2>2. CASE acc.store[t] = "placeholder"
    <3>1. h.acc = AddNonce(acc, 1)
      BY <1>0, <1>f, <2>2 DEF txHandlers, handleAuthorizeTokenTransferTx, Expecting, Result
    <3>2. Fields(h.acc, acc.balance, acc.mbr, acc.nonce + 1, acc.store, acc.chain)
      BY <1>n, <3>1, AssignmentFields
    <3> QED
      BY <1>f, <2>0, <2>2, <3>2, AppendFields DEF FirstHalf
  <2> QED
    BY <2>0, <2>1, <2>2
<1>g. CASE trx.type = "UnauthorizeTokenTransfer"
  <2>1. /\ h.acc = AddNonce(AddMBR(SetSlot(acc, t, "absent"), -MBR_SLOT_COST), 1)
        /\ trx.nonce = acc.nonce /\ acc.store[t] = "placeholder"
    BY <1>0, <1>g DEF txHandlers, handleUnauthorizeTokenTransferTx, Expecting, Result
  <2>2. Fields(h.acc, acc.balance, acc.mbr - MBR_SLOT_COST, acc.nonce + 1,
               [acc.store EXCEPT ![t] = "absent"], acc.chain)
    <3>1. t \in TokenIds
      BY <1>g, <1>t
    <3> HIDE DEF t
    <3>2. Fields(AddNonce(AddMBR(SetSlot(acc, t, "absent"), -MBR_SLOT_COST), 1), acc.balance,
                 acc.mbr + (-MBR_SLOT_COST), acc.nonce + 1, [acc.store EXCEPT ![t] = "absent"], acc.chain)
      BY <1>w, <3>1, ComposedFields
    <3> QED
      BY <1>n, <2>1, <3>2
  <2> QED
    BY <1>g, <2>1, <2>2, AppendFields DEF FirstHalf
<1>i. CASE trx.type = "ClawbackTokenTransfer"
  <2>1. h.acc = SetSlot(acc, t, "absent") /\ acc.store[t] # "absent"
    BY <1>0, <1>i DEF txHandlers, handleClawbackTokenTx, removeToken, Result
  <2>2. Fields(h.acc, acc.balance, acc.mbr, acc.nonce, [acc.store EXCEPT ![t] = "absent"], acc.chain)
    BY <1>i, <2>1, AssignmentFields
  <2> QED
    BY <1>i, <2>1, <2>2, AppendFields DEF FirstHalf
<1>j. CASE trx.type = "FreezeToken"
  <2>1. h.acc = AddNonce(AddMBR(acc, MBR_FREEZE_COST), 1) /\ trx.nonce = acc.nonce
    BY <1>0, <1>j DEF txHandlers, handleFreezeTokenTx, Expecting, Result
  <2>2. Fields(h.acc, acc.balance, acc.mbr + MBR_FREEZE_COST, acc.nonce + 1, acc.store, acc.chain)
    BY <1>n, <2>1, ComposedFields
  <2> QED
    BY <1>j, <2>1, <2>2, AppendFields DEF FirstHalf
<1>k. CASE trx.type = "UnfreezeToken"
  <2>1. h.acc = AddNonce(AddMBR(acc, -MBR_UNFREEZE_COST), 1) /\ trx.nonce = acc.nonce
    BY <1>0, <1>k DEF txHandlers, handleUnfreezeTokenTx, Expecting, Result
  <2>2. Fields(h.acc, acc.balance, acc.mbr - MBR_UNFREEZE_COST, acc.nonce + 1, acc.store, acc.chain)
    BY <1>n, <2>1, ComposedFields
  <2> QED
    BY <1>k, <2>1, <2>2, AppendFields DEF FirstHalf
<1> QED
  BY <1>b, <1>e, <1>f, <1>g, <1>i, <1>j, <1>k DEF TwoParty

\* The receiver's half, when it is not also the sender.
SecondHalf(acc, trx, r) ==
    LET slot == acc.store[trx.token]
        next == Append(acc.chain, trx)
        With(s) == [acc.store EXCEPT ![trx.token] = s]
    IN  /\ trx.type = "Transfer" =>
              Fields(r, acc.balance + trx.amount, acc.mbr, acc.nonce, acc.store, next)
        /\ trx.type = "TransferToken" =>
              /\ slot = "placeholder"
              /\ Fields(r, acc.balance, acc.mbr - MBR_SLOT_COST, acc.nonce, With(trx.slot), next)
        /\ trx.type \in {"AuthorizeTokenTransfer", "UnauthorizeTokenTransfer"} =>
              /\ Real(slot)
              /\ Fields(r, acc.balance, acc.mbr, acc.nonce, acc.store, next)
        /\ trx.type = "ClawbackTokenTransfer" =>
              /\ slot = "absent" /\ trx.nonce = acc.nonce
              /\ Fields(r, acc.balance, acc.mbr, acc.nonce + 1, With(trx.slot), next)
        /\ trx.type = "FreezeToken" =>
              /\ slot = "held"
              /\ Fields(r, acc.balance, acc.mbr, acc.nonce, With("frozen"), next)
        /\ trx.type = "UnfreezeToken" =>
              /\ slot = "frozen"
              /\ Fields(r, acc.balance, acc.mbr, acc.nonce, With("held"), next)

\* What a handler does for the account that receives the transaction.
LEMMA SecondHalfEffect ==
  ASSUME NEW self, NEW acc \in AccountState, NEW trx, ValidTx(trx), trx.type \in TwoParty,
         trx.receiver = self, trx.sender # self, appendTransaction(self, acc, trx).ok
  PROVE  SecondHalf(acc, trx, appendTransaction(self, acc, trx).acc)
<1> DEFINE h == txHandlers(self, acc, trx)
           t == trx.token
<1> USE ValidTxFields
<1>0. h.ok
  BY DEF appendTransaction, Result
<1>n. acc.mbr + (-MBR_SLOT_COST) = acc.mbr - MBR_SLOT_COST
  BY DEF AccountState, MBR_SLOT_COST
<1>w. /\ {"held", "frozen"} \subseteq SlotStates
      /\ 1 \in Int /\ 0 \in Int /\ -MBR_SLOT_COST \in Int
  BY DEF MBR_SLOT_COST, SlotStates
<1>s. trx.slot \in SlotStates
  OBVIOUS
<1>t. trx.type # "Transfer" => t \in TokenIds
  BY DEF TwoParty
<1>b. CASE trx.type = "Transfer"
  <2>1. h.acc = AddBalance(acc, trx.amount)
    BY <1>0, <1>b DEF txHandlers, handleTransferTx, Result
  <2>2. Fields(h.acc, acc.balance + trx.amount, acc.mbr, acc.nonce, acc.store, acc.chain)
    BY <2>1, AssignmentFields
  <2> QED
    BY <1>b, <2>2, AppendFields DEF SecondHalf
<1>e. CASE trx.type = "TransferToken"
  <2>1. h.acc = AddMBR(SetSlot(acc, t, trx.slot), -MBR_SLOT_COST) /\ acc.store[t] = "placeholder"
    BY <1>0, <1>e DEF txHandlers, handleTransferTokenTx, addTokenFromTransfer, Result
  <2>2. Fields(h.acc, acc.balance, acc.mbr - MBR_SLOT_COST, acc.nonce,
               [acc.store EXCEPT ![t] = trx.slot], acc.chain)
    <3>1. t \in TokenIds
      BY <1>e, <1>t
    <3> HIDE DEF t
    <3>2. Fields(AddMBR(SetSlot(acc, t, trx.slot), -MBR_SLOT_COST), acc.balance,
                 acc.mbr + (-MBR_SLOT_COST), acc.nonce, [acc.store EXCEPT ![t] = trx.slot], acc.chain)
      BY <1>s, <1>w, <3>1, ComposedFields
    <3> QED
      BY <1>n, <2>1, <3>2
  <2> QED
    BY <1>e, <2>1, <2>2, AppendFields DEF SecondHalf
<1>f. CASE trx.type \in {"AuthorizeTokenTransfer", "UnauthorizeTokenTransfer"}
  <2>1. h.acc = acc /\ Real(acc.store[t])
    BY <1>0, <1>f DEF txHandlers, handleAuthorizeTokenTransferTx, handleUnauthorizeTokenTransferTx, Result
  <2>2. Fields(h.acc, acc.balance, acc.mbr, acc.nonce, acc.store, acc.chain)
    BY <2>1 DEF Fields
  <2> QED
    BY <1>f, <2>1, <2>2, AppendFields DEF SecondHalf
<1>i. CASE trx.type = "ClawbackTokenTransfer"
  <2>1. /\ h.acc = AddNonce(SetSlot(acc, t, trx.slot), 1)
        /\ acc.store[t] = "absent" /\ trx.nonce = acc.nonce
    BY <1>0, <1>i DEF txHandlers, handleClawbackTokenTx, addToken, Expecting, Result
  <2>2. Fields(h.acc, acc.balance, acc.mbr, acc.nonce + 1, [acc.store EXCEPT ![t] = trx.slot], acc.chain)
    <3>1. t \in TokenIds
      BY <1>i, <1>t
    <3> HIDE DEF t
    <3> QED
      BY <1>s, <1>w, <2>1, <3>1, ComposedFields
  <2> QED
    BY <1>i, <2>1, <2>2, AppendFields DEF SecondHalf
<1>j. CASE trx.type = "FreezeToken"
  <2>1. h.acc = SetSlot(acc, t, "frozen") /\ acc.store[t] = "held"
    BY <1>0, <1>j DEF txHandlers, handleFreezeTokenTx, Result
  <2>2. Fields(h.acc, acc.balance, acc.mbr, acc.nonce, [acc.store EXCEPT ![t] = "frozen"], acc.chain)
    BY <1>j, <1>t, <1>w, <2>1, AssignmentFields
  <2> QED
    BY <1>j, <2>1, <2>2, AppendFields DEF SecondHalf
<1>k. CASE trx.type = "UnfreezeToken"
  <2>1. h.acc = SetSlot(acc, t, "held") /\ acc.store[t] = "frozen"
    BY <1>0, <1>k DEF txHandlers, handleUnfreezeTokenTx, Result
  <2>2. Fields(h.acc, acc.balance, acc.mbr, acc.nonce, [acc.store EXCEPT ![t] = "held"], acc.chain)
    BY <1>k, <1>t, <1>w, <2>1, AssignmentFields
  <2> QED
    BY <1>k, <2>1, <2>2, AppendFields DEF SecondHalf
<1> QED
  BY <1>b, <1>e, <1>f, <1>i, <1>j, <1>k DEF TwoParty

\* An operation on an account and itself is refused by its second append: the
\* number is used up, or the token is gone.
LEMMA SelfRefused ==
  ASSUME NEW self, NEW acc \in AccountState, NEW trx, ValidTx(trx),
         trx.type \in TwoParty \ {"Transfer"}, trx.sender = self,
         NEW r, FirstHalf(acc, trx, r)
  PROVE  ~appendTransaction(self, r, trx).ok
<1> DEFINE h == txHandlers(self, r, trx)
<1> SUFFICES ~h.ok
  BY DEF appendTransaction, Result
<1>n. acc.nonce \in Int /\ acc.nonce # acc.nonce + 1
  BY DEF AccountState
<1>1. CASE trx.type = "ClawbackTokenTransfer"
  <2>1. r.store[trx.token] = "absent"
    <3>1. r.store = [acc.store EXCEPT ![trx.token] = "absent"] /\ trx.token \in TokenIds
      BY <1>1, ValidTxFields DEF FirstHalf, Fields
    <3> QED
      BY <3>1 DEF AccountState
  <2> QED
    BY <1>1, <2>1 DEF txHandlers, handleClawbackTokenTx, removeToken, Result
<1>2. CASE trx.type # "ClawbackTokenTransfer"
  <2>1. trx.nonce = acc.nonce /\ r.nonce = acc.nonce + 1
    BY <1>2 DEF FirstHalf, Fields, TwoParty
  <2>2. trx.nonce # r.nonce
    BY <1>n, <2>1
  <2> QED
    BY <1>2, <2>2 DEF TwoParty, txHandlers, handleTransferTokenTx, handleAuthorizeTokenTransferTx,
         handleUnauthorizeTokenTransferTx, handleFreezeTokenTx, handleUnfreezeTokenTx, Expecting, Result
<1> QED
  BY <1>1, <1>2

\* Account records with the same fields are the same.
LEMMA SameFields ==
  ASSUME NEW p \in AccountState, NEW q \in AccountState,
         p.balance = q.balance, p.mbr = q.mbr, p.nonce = q.nonce, p.store = q.store, p.chain = q.chain
  PROVE  p = q
BY DEF AccountState

\* Removing the block that was just added gives the chain back.
LEMMA CutBlock ==
  ASSUME NEW acc \in AccountState, NEW trx \in Transaction,
         NEW r \in AccountState, r.chain = Append(acc.chain, trx)
  PROVE  /\ IsLatest(r, trx)
         /\ Fields(removeLatestBlock(r), r.balance, r.mbr, r.nonce, r.store, acc.chain)
<1>1. acc.chain \in Seq(Transaction) /\ Len(acc.chain) \in Nat
  BY DEF AccountState
<1>2. /\ r.chain # << >> /\ Len(r.chain) = Len(acc.chain) + 1
      /\ r.chain[Len(r.chain)] = trx
      /\ \A i \in 1 .. Len(acc.chain) : r.chain[i] = acc.chain[i]
  BY <1>1
<1>3. SubSeq(r.chain, 1, Len(r.chain) - 1) = acc.chain
  BY <1>1, <1>2
<1>4. removeLatestBlock(r) = [r EXCEPT !.chain = acc.chain]
  BY <1>3 DEF removeLatestBlock
<1>5. Fields([r EXCEPT !.chain = acc.chain], r.balance, r.mbr, r.nonce, r.store, acc.chain)
  BY <1>1 DEF AccountState, Fields
<1> QED
  BY <1>2, <1>4, <1>5 DEF IsLatest

\* The account acc with its slot for t closed.
Lapsed(acc, t, q) ==
    Fields(q, acc.balance, acc.mbr - MBR_SLOT_COST, acc.nonce, [acc.store EXCEPT ![t] = "absent"], acc.chain)

\* Undoing the sender's half gives the account back, except that undoing an
\* authorization of a slot that was open before closes it.
LEMMA Undone ==
  ASSUME NEW self, NEW acc \in AccountState, NEW trx, ValidTx(trx),
         trx.type \in TwoParty \ {"Transfer"}, trx.sender = self,
         trx.type \in {"TransferToken", "ClawbackTokenTransfer"} => trx.slot = acc.store[trx.token],
         NEW r, FirstHalf(acc, trx, r)
  PROVE  LET q == rollbacklatestTransaction(self, r, trx)
         IN  IF trx.type = "AuthorizeTokenTransfer" /\ acc.store[trx.token] = "placeholder"
             THEN Lapsed(acc, trx.token, q)
             ELSE q = acc
<1> DEFINE q == rollbacklatestTransaction(self, r, trx)
           t == trx.token
<1>0. /\ trx \in Transaction /\ t \in TokenIds /\ trx.slot \in SlotStates
      /\ acc.store \in [TokenIds -> SlotStates]
      /\ acc.balance \in Int /\ acc.mbr \in Int /\ acc.nonce \in Int
  BY ValidTxFields DEF ValidTx, TwoParty, AccountState
<1>w. /\ {"absent", "placeholder"} \subseteq SlotStates
      /\ -1 \in Int /\ 0 \in Int /\ {MBR_SLOT_COST, -MBR_SLOT_COST, MBR_FREEZE_COST, -MBR_FREEZE_COST,
                         MBR_UNFREEZE_COST, -MBR_UNFREEZE_COST} \subseteq Int
  BY WrittenValues
<1>1. r \in AccountState /\ r.chain = Append(acc.chain, trx)
  BY DEF FirstHalf, Fields, TwoParty
<1>2. PICK cut : cut = removeLatestBlock(r)
  OBVIOUS
<1>3. /\ q = txRollbackHandlers(self, cut, trx)
      /\ cut \in AccountState /\ cut.chain = acc.chain
      /\ cut.balance = r.balance /\ cut.mbr = r.mbr /\ cut.nonce = r.nonce /\ cut.store = r.store
  BY <1>0, <1>1, <1>2, CutBlock DEF rollbacklatestTransaction, Fields
<1>s. \A s \in SlotStates : [[acc.store EXCEPT ![t] = s] EXCEPT ![t] = acc.store[t]] = acc.store
  BY <1>0
<1> HIDE DEF q, t
<1>e. CASE trx.type = "TransferToken"
  <2>1. q = AddNonce(SetSlot(cut, t, acc.store[t]), -1)
    BY <1>3, <1>e DEF txRollbackHandlers, rollbackTransferTokenTx, t
  <2>2. Fields(q, cut.balance, cut.mbr, cut.nonce + (-1), [cut.store EXCEPT ![t] = acc.store[t]], cut.chain)
    <3>1. acc.store[t] \in SlotStates /\ 0 \in Int /\ -1 \in Int
      BY <1>0, <1>w
    <3> QED
      BY <1>0, <1>3, <2>1, <3>1, ComposedFields
  <2>3. Fields(r, acc.balance, acc.mbr, acc.nonce + 1, [acc.store EXCEPT ![t] = "absent"], Append(acc.chain, trx))
    BY <1>e DEF FirstHalf, t
  <2>4. q = acc
    <3>1. [cut.store EXCEPT ![t] = acc.store[t]] = acc.store
      BY <1>0, <1>3, <1>s, <1>w, <2>3 DEF Fields
    <3> QED
      BY <1>0, <1>3, <2>2, <2>3, <3>1, SameFields DEF Fields
  <2> QED
    BY <1>e, <2>4 DEF q
<1>f. CASE trx.type = "AuthorizeTokenTransfer"
  <2>1. q = AddNonce(AddMBR(SetSlot(cut, t, "absent"), -MBR_SLOT_COST), -1)
    BY <1>3, <1>f DEF txRollbackHandlers, rollbackAuthorizeTokenTransferTx, t
  <2>2. Fields(q, cut.balance, cut.mbr + (-MBR_SLOT_COST), cut.nonce + (-1),
               [cut.store EXCEPT ![t] = "absent"], cut.chain)
    <3>1. "absent" \in SlotStates /\ -MBR_SLOT_COST \in Int /\ -1 \in Int
      BY <1>w
    <3> QED
      BY <1>0, <1>3, <2>1, <3>1, ComposedFields
  <2>3. CASE acc.store[t] = "absent"
    <3>1. Fields(r, acc.balance, acc.mbr + MBR_SLOT_COST, acc.nonce + 1,
                 [acc.store EXCEPT ![t] = "placeholder"], Append(acc.chain, trx))
      BY <1>f, <2>3 DEF FirstHalf, t
    <3>2. [cut.store EXCEPT ![t] = "absent"] = acc.store
      BY <1>0, <1>3, <1>s, <1>w, <2>3, <3>1 DEF Fields
    <3>3. q = acc
      BY <1>0, <1>3, <1>w, <2>2, <3>1, <3>2, SameFields DEF Fields, MBR_SLOT_COST
    <3> QED
      BY <2>3, <3>3 DEF q, t
  <2>4. CASE acc.store[t] = "placeholder"
    <3>1. Fields(r, acc.balance, acc.mbr, acc.nonce + 1, acc.store, Append(acc.chain, trx))
      BY <1>f, <2>4 DEF FirstHalf, t
    <3>2. Fields(q, acc.balance, acc.mbr - MBR_SLOT_COST, acc.nonce, [acc.store EXCEPT ![t] = "absent"], acc.chain)
      BY <1>0, <1>3, <2>2, <3>1 DEF Fields, MBR_SLOT_COST
    <3> QED
      BY <1>f, <2>4, <3>2 DEF q, t, Lapsed
  <2> QED
    BY <1>f, <2>3, <2>4 DEF FirstHalf, t
<1>g. CASE trx.type = "UnauthorizeTokenTransfer"
  <2>1. q = AddNonce(AddMBR(SetSlot(cut, t, "placeholder"), MBR_SLOT_COST), -1)
    BY <1>3, <1>g DEF txRollbackHandlers, rollbackUnauthorizeTokenTransferTx, t
  <2>2. Fields(q, cut.balance, cut.mbr + MBR_SLOT_COST, cut.nonce + (-1),
               [cut.store EXCEPT ![t] = "placeholder"], cut.chain)
    <3>1. "placeholder" \in SlotStates /\ MBR_SLOT_COST \in Int /\ -1 \in Int
      BY <1>w
    <3> QED
      BY <1>0, <1>3, <2>1, <3>1, ComposedFields
  <2>3. /\ Fields(r, acc.balance, acc.mbr - MBR_SLOT_COST, acc.nonce + 1,
                  [acc.store EXCEPT ![t] = "absent"], Append(acc.chain, trx))
        /\ acc.store[t] = "placeholder"
    BY <1>g DEF FirstHalf, t
  <2>4. [cut.store EXCEPT ![t] = "placeholder"] = acc.store
    BY <1>0, <1>3, <1>s, <1>w, <2>3 DEF Fields
  <2>5. q = acc
    BY <1>0, <1>3, <1>w, <2>2, <2>3, <2>4, SameFields DEF Fields, MBR_SLOT_COST
  <2> QED
    BY <1>g, <2>5 DEF q
<1>i. CASE trx.type = "ClawbackTokenTransfer"
  <2>1. Fields(r, acc.balance, acc.mbr, acc.nonce, [acc.store EXCEPT ![t] = "absent"], Append(acc.chain, trx))
    BY <1>i DEF FirstHalf, t
  <2>2. cut.store[t] = "absent"
    BY <1>0, <1>3, <2>1 DEF Fields
  <2>3. q = SetSlot(cut, t, acc.store[t])
    BY <1>3, <1>i, <2>2 DEF txRollbackHandlers, rollbackClawbackTokenTx, addToken, Result, t
  <2>4. Fields(q, cut.balance, cut.mbr, cut.nonce, [cut.store EXCEPT ![t] = acc.store[t]], cut.chain)
    BY <1>0, <1>3, <2>3, AssignmentFields
  <2>5. q = acc
    BY <1>0, <1>3, <1>s, <1>w, <2>1, <2>4, SameFields DEF Fields
  <2> QED
    BY <1>i, <2>5 DEF q
<1>j. CASE trx.type = "FreezeToken"
  <2>1. q = AddNonce(AddMBR(cut, -MBR_FREEZE_COST), -1)
    BY <1>3, <1>j DEF txRollbackHandlers, rollbackFreezeTokenTx
  <2>2. Fields(q, cut.balance, cut.mbr + (-MBR_FREEZE_COST), cut.nonce + (-1), cut.store, cut.chain)
    <3>1. -MBR_FREEZE_COST \in Int /\ -1 \in Int
      BY <1>w
    <3> QED
      BY <1>3, <2>1, <3>1, ComposedFields
  <2>3. Fields(r, acc.balance, acc.mbr + MBR_FREEZE_COST, acc.nonce + 1, acc.store, Append(acc.chain, trx))
    BY <1>j DEF FirstHalf
  <2>4. q = acc
    BY <1>0, <1>3, <2>2, <2>3, SameFields DEF Fields, MBR_FREEZE_COST
  <2> QED
    BY <1>j, <2>4 DEF q
<1>k. CASE trx.type = "UnfreezeToken"
  <2>1. q = AddNonce(AddMBR(cut, MBR_UNFREEZE_COST), -1)
    BY <1>3, <1>k DEF txRollbackHandlers, rollbackUnfreezeTokenTx
  <2>2. Fields(q, cut.balance, cut.mbr + MBR_UNFREEZE_COST, cut.nonce + (-1), cut.store, cut.chain)
    <3>1. MBR_UNFREEZE_COST \in Int /\ -1 \in Int
      BY <1>w
    <3> QED
      BY <1>3, <2>1, <3>1, ComposedFields
  <2>3. Fields(r, acc.balance, acc.mbr - MBR_UNFREEZE_COST, acc.nonce + 1, acc.store, Append(acc.chain, trx))
    BY <1>k DEF FirstHalf
  <2>4. q = acc
    BY <1>0, <1>3, <2>2, <2>3, SameFields DEF Fields, MBR_UNFREEZE_COST
  <2> QED
    BY <1>k, <2>4 DEF q
<1> QED
  BY <1>e, <1>f, <1>g, <1>i, <1>j, <1>k DEF TwoParty

-----------------------------------------------------------------------------
(***************************************************************************)
(* What a whole operation on token t does to the accounts.                 *)
(***************************************************************************)
Good(S) == OneHolder(S) /\ NumberSpent(S) /\ Covered(S)

Bit(p) == IF p THEN 1 ELSE 0

\* What is locked of id's balance because of t.
Share(S, id, t) ==
    MBR_TOKEN_COST * Bit(t \in MintedIn(S, id)) + MBR_SLOT_COST * Bit(t \in SlotsIn(S, id))
      + MBR_FREEZE_COST * Bit(t \in FrozenIn(S, id))

\* Only t is touched, and no number is given back.
Touches(S, T, t) ==
    /\ \A x \in Ids, u \in TokenIds : u # t => T[x].store[u] = S[x].store[u]
    /\ \A x \in Ids : T[x].nonce >= S[x].nonce

\* Two sets that differ in t at most differ by t's membership in their size.
LEMMA CountOne ==
  ASSUME NEW A, NEW B, NEW t, IsFiniteSet(A), A \ {t} = B \ {t}
  PROVE  /\ IsFiniteSet(B) /\ Cardinality(A) \in Nat /\ Cardinality(B) \in Nat
         /\ Cardinality(B) = Cardinality(A) + Bit(t \in B) - Bit(t \in A)
<1> DEFINE C == A \ {t}
<1>1. IsFiniteSet(C) /\ t \notin C
  BY FS_Subset
<1>2. IsFiniteSet(C \cup {t}) /\ Cardinality(C \cup {t}) = Cardinality(C) + 1 /\ Cardinality(C) \in Nat
  BY <1>1, FS_AddElement, FS_CardinalityType
<1>3. (t \in A => A = C \cup {t}) /\ (t \notin A => A = C)
  OBVIOUS
<1>4. (t \in B => B = C \cup {t}) /\ (t \notin B => B = C)
  OBVIOUS
<1> HIDE DEF C
<1>5. Cardinality(A) = Cardinality(C) + Bit(t \in A)
  BY <1>2, <1>3 DEF Bit
<1>6. Cardinality(B) = Cardinality(C) + Bit(t \in B) /\ IsFiniteSet(B)
  <2>1. CASE t \in B
    BY <1>2, <1>4, <2>1 DEF Bit
  <2>2. CASE t \notin B
    <3>1. B = C
      BY <1>4, <2>2
    <3>2. IsFiniteSet(B)
      BY <1>1, <3>1
    <3>3. Cardinality(B) = Cardinality(C) + Bit(t \in B)
      BY <1>2, <2>2, <3>1 DEF Bit
    <3> QED
      BY <3>2, <3>3
  <2> QED
    BY <2>1, <2>2
<1>7. Bit(t \in A) \in 0 .. 1 /\ Bit(t \in B) \in 0 .. 1
  BY DEF Bit
<1> QED
  BY <1>2, <1>5, <1>6, <1>7

\* An operation that keeps a token in one place, and that locks and releases MBR
\* as the token's share changes, keeps the accounts good.
LEMMA GoodStep ==
  ASSUME NEW S \in [Ids -> AccountState], NEW T \in [Ids -> AccountState], NEW t \in TokenIds,
         Good(S), Touches(S, T, t),
         \A x, y \in Ids : Real(T[x].store[t]) /\ Real(T[y].store[t]) => x = y,
         \A x \in Ids : Real(T[x].store[t]) => t.nonce < T[t.minter].nonce,
         \A id \in Ids : T[id].mbr - S[id].mbr >= Share(T, id, t) - Share(S, id, t)
  PROVE  Good(T)
<1>1. OneHolder(T)
  BY DEF OneHolder, Good, Touches
<1>2. NumberSpent(T)
  <2> SUFFICES ASSUME NEW u \in TokenIds, NEW x \in Ids, Real(T[x].store[u])
               PROVE  u.nonce < T[u.minter].nonce
    BY DEF NumberSpent
  <2>1. CASE u = t
    BY <2>1
  <2>2. CASE u # t
    <3>1. u.minter \in Ids /\ u.nonce \in Int
      BY MinterAssumption, NonceAssumption DEF TokenIds
    <3>2. S[u.minter].nonce \in Int /\ T[u.minter].nonce \in Int
      BY <3>1 DEF AccountState
    <3>3. u.nonce < S[u.minter].nonce /\ T[u.minter].nonce >= S[u.minter].nonce
      BY <2>2, <3>1 DEF Touches, Good, NumberSpent
    <3> QED
      BY <3>1, <3>2, <3>3
  <2> QED
    BY <2>1, <2>2
<1>3. Covered(T)
  <2> SUFFICES ASSUME NEW id \in Ids
               PROVE  /\ IsFiniteSet(MintedIn(T, id)) /\ IsFiniteSet(SlotsIn(T, id)) /\ IsFiniteSet(FrozenIn(T, id))
                      /\ T[id].mbr >= MBR_TOKEN_COST * Cardinality(MintedIn(T, id))
                                      + MBR_SLOT_COST * Cardinality(SlotsIn(T, id))
                                      + MBR_FREEZE_COST * Cardinality(FrozenIn(T, id))
    BY DEF Covered
  <2>1. MintedIn(S, id) \ {t} = MintedIn(T, id) \ {t}
    BY DEF MintedIn, Touches
  <2>2. SlotsIn(S, id) \ {t} = SlotsIn(T, id) \ {t}
    BY DEF SlotsIn, Touches
  <2>3. FrozenIn(S, id) \ {t} = FrozenIn(T, id) \ {t}
    BY DEF FrozenIn, Touches
  <2>4. /\ IsFiniteSet(MintedIn(S, id)) /\ IsFiniteSet(SlotsIn(S, id)) /\ IsFiniteSet(FrozenIn(S, id))
        /\ S[id].mbr >= MBR_TOKEN_COST * Cardinality(MintedIn(S, id))
                        + MBR_SLOT_COST * Cardinality(SlotsIn(S, id))
                        + MBR_FREEZE_COST * Cardinality(FrozenIn(S, id))
    BY DEF Good, Covered
  <2> DEFINE m == Cardinality(MintedIn(S, id))   mm == Cardinality(MintedIn(T, id))
             s == Cardinality(SlotsIn(S, id))    ss == Cardinality(SlotsIn(T, id))
             f == Cardinality(FrozenIn(S, id))   ff == Cardinality(FrozenIn(T, id))
             bm == Bit(t \in MintedIn(S, id))    bbm == Bit(t \in MintedIn(T, id))
             bs == Bit(t \in SlotsIn(S, id))     bbs == Bit(t \in SlotsIn(T, id))
             bf == Bit(t \in FrozenIn(S, id))    bbf == Bit(t \in FrozenIn(T, id))
  <2>5. IsFiniteSet(MintedIn(T, id)) /\ m \in Nat /\ mm \in Nat /\ mm = m + bbm - bm
    BY <2>1, <2>4, CountOne
  <2>6. IsFiniteSet(SlotsIn(T, id)) /\ s \in Nat /\ ss \in Nat /\ ss = s + bbs - bs
    BY <2>2, <2>4, CountOne
  <2>7. IsFiniteSet(FrozenIn(T, id)) /\ f \in Nat /\ ff \in Nat /\ ff = f + bbf - bf
    BY <2>3, <2>4, CountOne
  <2>8. {bm, bbm, bs, bbs, bf, bbf} \subseteq {0, 1}
    BY DEF Bit
  <2>9. T[id].mbr - S[id].mbr >= (10 * bbm + 5 * bbs + 1 * bbf) - (10 * bm + 5 * bs + 1 * bf)
    BY DEF Share, MBR_TOKEN_COST, MBR_SLOT_COST, MBR_FREEZE_COST
  <2>10. S[id].mbr >= 10 * m + 5 * s + 1 * f
    BY <2>4 DEF MBR_TOKEN_COST, MBR_SLOT_COST, MBR_FREEZE_COST
  <2>11. S[id].mbr \in Int /\ T[id].mbr \in Int
    BY DEF AccountState
  <2> HIDE DEF m, mm, s, ss, f, ff, bm, bbm, bs, bbs, bf, bbf
  <2>12. T[id].mbr >= 10 * mm + 5 * ss + 1 * ff
    BY <2>5, <2>6, <2>7, <2>8, <2>9, <2>10, <2>11
  <2> QED
    BY <2>5, <2>6, <2>7, <2>12 DEF mm, ss, ff, MBR_TOKEN_COST, MBR_SLOT_COST, MBR_FREEZE_COST
<1> QED
  BY <1>1, <1>2, <1>3 DEF Good

\* An operation on money leaves the tokens alone.
LEMMA GoodMoney ==
  ASSUME NEW S \in [Ids -> AccountState], NEW T \in [Ids -> AccountState], Good(S),
         \A x \in Ids : /\ T[x].store = S[x].store /\ T[x].mbr = S[x].mbr
                        /\ T[x].nonce >= S[x].nonce
  PROVE  Good(T)
<1>1. OneHolder(T)
  BY DEF OneHolder, Good
<1>2. NumberSpent(T)
  <2> SUFFICES ASSUME NEW u \in TokenIds, NEW x \in Ids, Real(T[x].store[u])
               PROVE  u.nonce < T[u.minter].nonce
    BY DEF NumberSpent
  <2>1. u.minter \in Ids /\ u.nonce \in Int
    BY MinterAssumption, NonceAssumption DEF TokenIds
  <2>2. S[u.minter].nonce \in Int /\ T[u.minter].nonce \in Int
    BY <2>1 DEF AccountState
  <2>3. u.nonce < S[u.minter].nonce /\ T[u.minter].nonce >= S[u.minter].nonce
    BY <2>1 DEF Good, NumberSpent
  <2> QED
    BY <2>1, <2>2, <2>3
<1>3. \A id \in Ids : /\ MintedIn(T, id) = MintedIn(S, id) /\ SlotsIn(T, id) = SlotsIn(S, id)
                      /\ FrozenIn(T, id) = FrozenIn(S, id)
  BY DEF MintedIn, SlotsIn, FrozenIn
<1>4. Covered(T)
  BY <1>3 DEF Covered, Good
<1> QED
  BY <1>1, <1>2, <1>4 DEF Good

\* A slot that was authorized and is not used.
Vacant(slot) == slot = "placeholder"

\* Membership in what TokenLedger sees.
LEMMA InViews ==
  ASSUME NEW S
  PROVE  /\ \A x \in Ids, u \in TokenIds : <<x, u>> \in Owned(S) <=> Real(S[x].store[u])
         /\ \A x \in Ids, u \in TokenIds : <<x, u>> \in Open(S) <=> Vacant(S[x].store[u])
         /\ \A u \in TokenIds : u \in Frozen(S) <=> \E x \in Ids : S[x].store[u] = "frozen"
BY DEF Owned, Open, Frozen, Vacant

\* Sets of pairs are equal if they have the same pairs.
LEMMA SamePairs ==
  ASSUME NEW A \in SUBSET (Ids \X TokenIds), NEW B \in SUBSET (Ids \X TokenIds),
         \A x \in Ids, u \in TokenIds : <<x, u>> \in A <=> <<x, u>> \in B
  PROVE  A = B
OBVIOUS

\* A has the tokens held, or the slots, of T for t and of S for the others.
HeldIn(A, S, T, t) ==
    /\ \A x \in Ids : <<x, t>> \in A <=> Real(T[x].store[t])
    /\ \A x \in Ids, u \in TokenIds : u # t => (<<x, u>> \in A <=> Real(S[x].store[u]))

VacantIn(A, S, T, t) ==
    /\ \A x \in Ids : <<x, t>> \in A <=> Vacant(T[x].store[t])
    /\ \A x \in Ids, u \in TokenIds : u # t => (<<x, u>> \in A <=> Vacant(S[x].store[u]))

\* What TokenLedger sees after an operation on t: tokens held, slots, freezes.
LEMMA OwnedStep ==
  ASSUME NEW S \in [Ids -> AccountState], NEW T \in [Ids -> AccountState], NEW t \in TokenIds,
         Touches(S, T, t), NEW A \in SUBSET (Ids \X TokenIds), HeldIn(A, S, T, t)
  PROVE  Owned(T) = A
<1>1. Owned(T) \in SUBSET (Ids \X TokenIds)
  BY DEF Owned
<1>2. \A x \in Ids, u \in TokenIds : <<x, u>> \in Owned(T) <=> <<x, u>> \in A
  <2>1. \A x \in Ids, u \in TokenIds : <<x, u>> \in Owned(T) <=> Real(T[x].store[u])
    BY InViews
  <2>2. \A x \in Ids, u \in TokenIds : u # t => T[x].store[u] = S[x].store[u]
    BY DEF Touches
  <2>3. ASSUME NEW x \in Ids, NEW u \in TokenIds PROVE <<x, u>> \in A <=> Real(T[x].store[u])
    BY <2>2 DEF HeldIn
  <2> QED
    BY <2>1, <2>3
<1> QED
  BY <1>1, <1>2, SamePairs

\* And which slots are open.
LEMMA OpenStep ==
  ASSUME NEW S \in [Ids -> AccountState], NEW T \in [Ids -> AccountState], NEW t \in TokenIds,
         Touches(S, T, t), NEW A \in SUBSET (Ids \X TokenIds), VacantIn(A, S, T, t)
  PROVE  Open(T) = A
<1>1. Open(T) \in SUBSET (Ids \X TokenIds)
  BY DEF Open
<1>2. \A x \in Ids, u \in TokenIds : <<x, u>> \in Open(T) <=> <<x, u>> \in A
  <2>1. \A x \in Ids, u \in TokenIds : <<x, u>> \in Open(T) <=> Vacant(T[x].store[u])
    BY InViews
  <2>2. \A x \in Ids, u \in TokenIds : u # t => T[x].store[u] = S[x].store[u]
    BY DEF Touches
  <2>3. ASSUME NEW x \in Ids, NEW u \in TokenIds PROVE <<x, u>> \in A <=> Vacant(T[x].store[u])
    BY <2>2 DEF VacantIn
  <2> QED
    BY <2>1, <2>3
<1> QED
  BY <1>1, <1>2, SamePairs

\* And which tokens are frozen.
LEMMA FrozenStep ==
  ASSUME NEW S \in [Ids -> AccountState], NEW T \in [Ids -> AccountState], NEW t \in TokenIds,
         Touches(S, T, t), NEW F \in SUBSET TokenIds,
         t \in F <=> \E x \in Ids : T[x].store[t] = "frozen",
         \A u \in TokenIds : u # t => (u \in F <=> u \in Frozen(S))
  PROVE  Frozen(T) = F
BY DEF Frozen, Touches

\* Both halves of an operation have been done on S, and give T.
Both(S, T, trx) ==
    /\ S \in [Ids -> AccountState] /\ T \in [Ids -> AccountState]
    /\ ValidTx(trx) /\ trx.type \in TwoParty
    /\ trx.sender \in Ids /\ trx.receiver \in Ids /\ trx.sender # trx.receiver
    /\ Asked(S, trx)
    /\ FirstHalf(S[trx.sender], trx, T[trx.sender])
    /\ SecondHalf(S[trx.receiver], trx, T[trx.receiver])
    /\ \A x \in Ids \ {trx.sender, trx.receiver} : T[x] = S[x]

\* The stores and numbers after an operation on token t of x, which spends a
\* number of id.
Leaves(S, T, id, t, st) ==
    /\ \A x \in Ids, u \in TokenIds : u # t => T[x].store[u] = S[x].store[u]
    /\ \A x \in Ids : T[x].store[t] = st[x]
    /\ \A x \in Ids : T[x].nonce = IF x = id THEN S[x].nonce + 1 ELSE S[x].nonce
    /\ \A x \in Ids : T[x].balance = S[x].balance

\* One number of id is used up.
Spends(S, T, id) == Sent(T) = [Sent(S) EXCEPT ![id] = @ + 1]

\* Such an operation moves no money.
LEMMA LeavesViews ==
  ASSUME NEW S \in [Ids -> AccountState], NEW T \in [Ids -> AccountState], NEW id \in Ids,
         NEW t \in TokenIds, NEW st, Leaves(S, T, id, t, st)
  PROVE  Touches(S, T, t) /\ Money(T) = Money(S) /\ Spends(S, T, id)
<1>1. \A x \in Ids : S[x].nonce \in Int
  BY DEF AccountState
<1>2. Touches(S, T, t)
  BY <1>1 DEF Leaves, Touches
<1>3. Money(T) = Money(S)
  BY DEF Leaves, Money
<1>4. Spends(S, T, id)
  BY DEF Leaves, Spends, Sent
<1> QED
  BY <1>2, <1>3, <1>4

\* The stores' entries for t when x's is v, y's is w and the others' are as in S.
After(S, t, x, v, y, w) ==
    [id \in Ids |-> IF id = x THEN v ELSE IF id = y THEN w ELSE S[id].store[t]]

\* The mbr of x grows by dx, that of y by dy.
Locks(S, T, x, dx, y, dy) ==
    \A id \in Ids : T[id].mbr = IF id = x THEN S[id].mbr + dx
                                ELSE IF id = y THEN S[id].mbr + dy ELSE S[id].mbr

\* The operations on tokens.
TokenEffect(S, T, trx) ==
    LET s == trx.sender
        r == trx.receiver
        t == trx.token
        ofS == S[s].store[t]
        ofR == S[r].store[t]
    IN  /\ trx.type = "TransferToken" =>
              /\ ofS = "held" /\ ofR = "placeholder"
              /\ Leaves(S, T, s, t, After(S, t, s, "absent", r, "held"))
              /\ Locks(S, T, s, 0, r, -5)
        /\ trx.type = "AuthorizeTokenTransfer" =>
              /\ ofS \in {"absent", "placeholder"} /\ Real(ofR)
              /\ Leaves(S, T, s, t, After(S, t, s, "placeholder", r, ofR))
              /\ Locks(S, T, s, IF ofS = "absent" THEN 5 ELSE 0, r, 0)
        /\ trx.type = "UnauthorizeTokenTransfer" =>
              /\ ofS = "placeholder" /\ Real(ofR)
              /\ Leaves(S, T, s, t, After(S, t, s, "absent", r, ofR))
              /\ Locks(S, T, s, -5, r, 0)
        /\ trx.type = "ClawbackTokenTransfer" =>
              /\ Real(ofS) /\ ofR = "absent" /\ ClawbackAddress(t) = r
              /\ Leaves(S, T, r, t, After(S, t, s, "absent", r, ofS))
              /\ Locks(S, T, s, 0, r, 0)
        /\ trx.type = "FreezeToken" =>
              /\ ofR = "held" /\ FreezeAddress(t) = s
              /\ Leaves(S, T, s, t, After(S, t, s, ofS, r, "frozen"))
              /\ Locks(S, T, s, 1, r, 0)
        /\ trx.type = "UnfreezeToken" =>
              /\ ofR = "frozen" /\ FreezeAddress(t) = s
              /\ Leaves(S, T, s, t, After(S, t, s, ofS, r, "held"))
              /\ Locks(S, T, s, -1, r, 0)

\* The two halves together.
LEMMA BothEffect ==
  ASSUME NEW S, NEW T, NEW trx, Both(S, T, trx), trx.type # "Transfer"
  PROVE  TokenEffect(S, T, trx)
<1> DEFINE s == trx.sender
           r == trx.receiver
           t == trx.token
<1>0. /\ s \in Ids /\ r \in Ids /\ s # r /\ t \in TokenIds
      /\ S \in [Ids -> AccountState] /\ T \in [Ids -> AccountState]
      /\ \A x \in Ids : x # s /\ x # r => T[x] = S[x]
  BY ValidTxFields DEF Both, TwoParty
<1>1. \A x \in Ids : /\ S[x].store \in [TokenIds -> SlotStates] /\ S[x].nonce \in Int /\ S[x].mbr \in Int
                     /\ T[x].store \in [TokenIds -> SlotStates]
  BY <1>0 DEF AccountState
<1>2. FirstHalf(S[s], trx, T[s]) /\ SecondHalf(S[r], trx, T[r]) /\ Asked(S, trx)
  BY DEF Both
<1> HIDE DEF s, r, t
<1>3. ASSUME NEW v, NEW w, NEW ns, NEW nr, NEW id \in {s, r},
             T[s].store = [S[s].store EXCEPT ![t] = v], T[r].store = [S[r].store EXCEPT ![t] = w],
             T[s].balance = S[s].balance, T[r].balance = S[r].balance,
             T[s].nonce = S[s].nonce + ns, T[r].nonce = S[r].nonce + nr,
             ns = IF id = s THEN 1 ELSE 0, nr = IF id = r THEN 1 ELSE 0
      PROVE  Leaves(S, T, id, t, After(S, t, s, v, r, w))
  <2>1. \A x \in Ids, u \in TokenIds : u # t => T[x].store[u] = S[x].store[u]
    BY <1>0, <1>1, <1>3
  <2>2. \A x \in Ids : T[x].store[t] = After(S, t, s, v, r, w)[x]
    BY <1>0, <1>1, <1>3 DEF After
  <2>3. \A x \in Ids : T[x].nonce = IF x = id THEN S[x].nonce + 1 ELSE S[x].nonce
    <3>1. CASE id = s
      <4>1. T[s].nonce = S[s].nonce + 1 /\ T[r].nonce = S[r].nonce
        BY <1>0, <1>1, <1>3, <3>1
      <4> QED
        BY <1>0, <3>1, <4>1
    <3>2. CASE id = r
      <4>1. T[r].nonce = S[r].nonce + 1 /\ T[s].nonce = S[s].nonce
        BY <1>0, <1>1, <1>3, <3>2
      <4> QED
        BY <1>0, <3>2, <4>1
    <3> QED
      BY <3>1, <3>2
  <2>4. \A x \in Ids : T[x].balance = S[x].balance
    BY <1>0, <1>3
  <2> QED
    BY <2>1, <2>2, <2>3, <2>4 DEF Leaves
<1>4. ASSUME NEW ds \in Int, NEW dr \in Int, T[s].mbr = S[s].mbr + ds, T[r].mbr = S[r].mbr + dr
      PROVE  Locks(S, T, s, ds, r, dr)
  BY <1>0, <1>4 DEF Locks
<1>5. /\ S[s].store = [S[s].store EXCEPT ![t] = S[s].store[t]]
      /\ S[r].store = [S[r].store EXCEPT ![t] = S[r].store[t]]
  BY <1>0, <1>1
<1>6. /\ S[s].nonce + 0 = S[s].nonce /\ S[r].nonce + 0 = S[r].nonce
      /\ S[s].mbr + 0 = S[s].mbr /\ S[r].mbr + 0 = S[r].mbr
      /\ S[s].mbr - MBR_SLOT_COST = S[s].mbr + (-5) /\ S[r].mbr - MBR_SLOT_COST = S[r].mbr + (-5)
      /\ S[s].mbr + MBR_SLOT_COST = S[s].mbr + 5
      /\ S[s].mbr + MBR_FREEZE_COST = S[s].mbr + 1 /\ S[s].mbr - MBR_UNFREEZE_COST = S[s].mbr + (-1)
  BY <1>0, <1>1 DEF MBR_SLOT_COST, MBR_FREEZE_COST, MBR_UNFREEZE_COST
<1>e. CASE trx.type = "TransferToken"
  <2>1. /\ trx.slot = "held" /\ S[s].store[t] = "held" /\ S[r].store[t] = "placeholder"
    BY <1>2, <1>e DEF FirstHalf, SecondHalf, Asked, Real, s, r, t
  <2>2. /\ Fields(T[s], S[s].balance, S[s].mbr, S[s].nonce + 1, [S[s].store EXCEPT ![t] = "absent"],
                  Append(S[s].chain, trx))
        /\ Fields(T[r], S[r].balance, S[r].mbr - MBR_SLOT_COST, S[r].nonce,
                  [S[r].store EXCEPT ![t] = "held"], Append(S[r].chain, trx))
    BY <1>2, <1>e, <2>1 DEF FirstHalf, SecondHalf, t
  <2>3. Leaves(S, T, s, t, After(S, t, s, "absent", r, "held"))
    BY <1>0, <1>3, <1>6, <2>2 DEF Fields
  <2>4. Locks(S, T, s, 0, r, -5)
    BY <1>4, <1>6, <2>2 DEF Fields
  <2> QED
    BY <1>e, <2>1, <2>3, <2>4 DEF TokenEffect, s, r, t
<1>f. CASE trx.type = "AuthorizeTokenTransfer"
  <2>1. /\ Real(S[r].store[t])
        /\ Fields(T[r], S[r].balance, S[r].mbr, S[r].nonce, S[r].store, Append(S[r].chain, trx))
    BY <1>2, <1>f DEF SecondHalf, t
  <2>2. \/ /\ S[s].store[t] = "absent"
           /\ Fields(T[s], S[s].balance, S[s].mbr + MBR_SLOT_COST, S[s].nonce + 1,
                     [S[s].store EXCEPT ![t] = "placeholder"], Append(S[s].chain, trx))
        \/ /\ S[s].store[t] = "placeholder"
           /\ Fields(T[s], S[s].balance, S[s].mbr, S[s].nonce + 1, S[s].store, Append(S[s].chain, trx))
    BY <1>2, <1>f DEF FirstHalf, t
  <2>3. T[s].store = [S[s].store EXCEPT ![t] = "placeholder"]
    BY <1>5, <2>2 DEF Fields
  <2>4. Leaves(S, T, s, t, After(S, t, s, "placeholder", r, S[r].store[t]))
    BY <1>0, <1>3, <1>5, <1>6, <2>1, <2>2, <2>3 DEF Fields
  <2>5. Locks(S, T, s, IF S[s].store[t] = "absent" THEN 5 ELSE 0, r, 0)
    BY <1>4, <1>6, <2>1, <2>2 DEF Fields
  <2> QED
    BY <1>f, <2>1, <2>2, <2>4, <2>5 DEF TokenEffect, s, r, t
<1>g. CASE trx.type = "UnauthorizeTokenTransfer"
  <2>1. /\ Real(S[r].store[t])
        /\ Fields(T[r], S[r].balance, S[r].mbr, S[r].nonce, S[r].store, Append(S[r].chain, trx))
    BY <1>2, <1>g DEF SecondHalf, t
  <2>2. /\ S[s].store[t] = "placeholder"
        /\ Fields(T[s], S[s].balance, S[s].mbr - MBR_SLOT_COST, S[s].nonce + 1,
                  [S[s].store EXCEPT ![t] = "absent"], Append(S[s].chain, trx))
    BY <1>2, <1>g DEF FirstHalf, t
  <2>3. Leaves(S, T, s, t, After(S, t, s, "absent", r, S[r].store[t]))
    BY <1>0, <1>3, <1>5, <1>6, <2>1, <2>2 DEF Fields
  <2>4. Locks(S, T, s, -5, r, 0)
    BY <1>4, <1>6, <2>1, <2>2 DEF Fields
  <2> QED
    BY <1>g, <2>1, <2>2, <2>3, <2>4 DEF TokenEffect, s, r, t
<1>i. CASE trx.type = "ClawbackTokenTransfer"
  <2>1. trx.slot = S[s].store[t] /\ Real(S[s].store[t]) /\ S[r].store[t] = "absent" /\ ClawbackAddress(t) = r
    BY <1>2, <1>i DEF SecondHalf, Asked, s, r, t
  <2>2. /\ Fields(T[s], S[s].balance, S[s].mbr, S[s].nonce, [S[s].store EXCEPT ![t] = "absent"],
                  Append(S[s].chain, trx))
        /\ Fields(T[r], S[r].balance, S[r].mbr, S[r].nonce + 1,
                  [S[r].store EXCEPT ![t] = S[s].store[t]], Append(S[r].chain, trx))
    BY <1>2, <1>i, <2>1 DEF FirstHalf, SecondHalf, t
  <2>3. Leaves(S, T, r, t, After(S, t, s, "absent", r, S[s].store[t]))
    BY <1>0, <1>3, <1>6, <2>2 DEF Fields
  <2>4. Locks(S, T, s, 0, r, 0)
    BY <1>4, <1>6, <2>2 DEF Fields
  <2> QED
    BY <1>i, <2>1, <2>3, <2>4 DEF TokenEffect, s, r, t
<1>j. CASE trx.type = "FreezeToken"
  <2>1. S[r].store[t] = "held" /\ FreezeAddress(t) = s
    BY <1>2, <1>j DEF SecondHalf, Asked, s, r, t
  <2>2. /\ Fields(T[s], S[s].balance, S[s].mbr + MBR_FREEZE_COST, S[s].nonce + 1, S[s].store,
                  Append(S[s].chain, trx))
        /\ Fields(T[r], S[r].balance, S[r].mbr, S[r].nonce,
                  [S[r].store EXCEPT ![t] = "frozen"], Append(S[r].chain, trx))
    BY <1>2, <1>j DEF FirstHalf, SecondHalf, t
  <2>3. Leaves(S, T, s, t, After(S, t, s, S[s].store[t], r, "frozen"))
    BY <1>0, <1>3, <1>5, <1>6, <2>2 DEF Fields
  <2>4. Locks(S, T, s, 1, r, 0)
    <3>1. T[s].mbr = S[s].mbr + 1 /\ T[r].mbr = S[r].mbr + 0 /\ 1 \in Int /\ 0 \in Int
      BY <1>6, <2>2 DEF Fields
    <3> QED
      BY <1>4, <3>1
  <2> QED
    BY <1>j, <2>1, <2>3, <2>4 DEF TokenEffect, s, r, t
<1>k. CASE trx.type = "UnfreezeToken"
  <2>1. S[r].store[t] = "frozen" /\ FreezeAddress(t) = s
    BY <1>2, <1>k DEF SecondHalf, Asked, s, r, t
  <2>2. /\ Fields(T[s], S[s].balance, S[s].mbr - MBR_UNFREEZE_COST, S[s].nonce + 1, S[s].store,
                  Append(S[s].chain, trx))
        /\ Fields(T[r], S[r].balance, S[r].mbr, S[r].nonce,
                  [S[r].store EXCEPT ![t] = "held"], Append(S[r].chain, trx))
    BY <1>2, <1>k DEF FirstHalf, SecondHalf, t
  <2>3. Leaves(S, T, s, t, After(S, t, s, S[s].store[t], r, "held"))
    BY <1>0, <1>3, <1>5, <1>6, <2>2 DEF Fields
  <2>4. Locks(S, T, s, -1, r, 0)
    BY <1>4, <1>6, <2>2 DEF Fields
  <2> QED
    BY <1>k, <2>1, <2>3, <2>4 DEF TokenEffect, s, r, t
<1> QED
  BY <1>e, <1>f, <1>g, <1>i, <1>j, <1>k DEF Both, TwoParty

\* Some account holds t; some account holds it frozen.
Exists(S, t)   == \E x \in Ids : Real(S[x].store[t])
IsFrozen(S, t) == \E x \in Ids : S[x].store[t] = "frozen"

\* The share of t in what is locked, in numbers.
LEMMA ShareValue ==
  ASSUME NEW S, NEW id \in Ids, NEW t \in TokenIds
  PROVE  Share(S, id, t) = (IF Exists(S, t) /\ t.minter = id THEN 10 ELSE 0)
                           + (IF S[id].store[t] = "placeholder" THEN 5 ELSE 0)
                           + (IF IsFrozen(S, t) /\ FreezeAddress(t) = id THEN 1 ELSE 0)
<1>1. t \in MintedIn(S, id) <=> Exists(S, t) /\ t.minter = id
  BY DEF MintedIn, Exists
<1>2. t \in SlotsIn(S, id) <=> S[id].store[t] = "placeholder"
  BY DEF SlotsIn
<1>3. t \in FrozenIn(S, id) <=> IsFrozen(S, t) /\ FreezeAddress(t) = id
  BY DEF FrozenIn, IsFrozen
<1> QED
  BY <1>1, <1>2, <1>3 DEF Share, Bit, MBR_TOKEN_COST, MBR_SLOT_COST, MBR_FREEZE_COST

\* The share of a token that exists, before and after.
LEMMA ShareStep ==
  ASSUME NEW S, NEW T, NEW x \in Ids, NEW t \in TokenIds, Exists(T, t) => Exists(S, t),
         S[x].mbr \in Int, T[x].mbr \in Int,
         T[x].mbr - S[x].mbr >=
           (IF T[x].store[t] = "placeholder" THEN 5 ELSE 0)
             + (IF IsFrozen(T, t) /\ FreezeAddress(t) = x THEN 1 ELSE 0)
             - (IF S[x].store[t] = "placeholder" THEN 5 ELSE 0)
             - (IF IsFrozen(S, t) /\ FreezeAddress(t) = x THEN 1 ELSE 0)
  PROVE  T[x].mbr - S[x].mbr >= Share(T, x, t) - Share(S, x, t)
<1> DEFINE m(U) == IF Exists(U, t) /\ t.minter = x THEN 10 ELSE 0
           p(U) == IF U[x].store[t] = "placeholder" THEN 5 ELSE 0
           f(U) == IF IsFrozen(U, t) /\ FreezeAddress(t) = x THEN 1 ELSE 0
<1>1. Share(T, x, t) = m(T) + p(T) + f(T) /\ Share(S, x, t) = m(S) + p(S) + f(S)
  BY ShareValue
<1>2. m(T) <= m(S) /\ {m(T), m(S), p(T), p(S), f(T), f(S)} \subseteq Int
  OBVIOUS
<1>3. T[x].mbr - S[x].mbr >= p(T) + f(T) - p(S) - f(S)
  OBVIOUS
<1> HIDE DEF m, p, f
<1> QED
  BY <1>1, <1>2, <1>3

\* GoodStep for an operation that spends a number of id.
LEMMA GoodLeaves ==
  ASSUME NEW S \in [Ids -> AccountState], NEW T \in [Ids -> AccountState], NEW t \in TokenIds,
         NEW id \in Ids, NEW st, Leaves(S, T, id, t, st), Good(S),
         Exists(S, t) \/ (t.minter = id /\ t.nonce = S[id].nonce) \/ ~Exists(T, t),
         \A x, y \in Ids : Real(st[x]) /\ Real(st[y]) => x = y,
         \A x \in Ids : T[x].mbr - S[x].mbr >= Share(T, x, t) - Share(S, x, t)
  PROVE  Good(T)
<1>1. Touches(S, T, t)
  BY LeavesViews
<1>2. \A x \in Ids : T[x].store[t] = st[x]
  BY DEF Leaves
<1>3. ASSUME NEW x \in Ids, Real(T[x].store[t]) PROVE t.nonce < T[t.minter].nonce
  <2>1. t.minter \in Ids /\ t.nonce \in Int
    BY MinterAssumption, NonceAssumption DEF TokenIds
  <2>2. S[t.minter].nonce \in Int /\ T[t.minter].nonce \in Int
    BY <2>1 DEF AccountState
  <2>3. T[t.minter].nonce = IF t.minter = id THEN S[t.minter].nonce + 1 ELSE S[t.minter].nonce
    BY <2>1 DEF Leaves
  <2>4. CASE Exists(S, t)
    BY <2>1, <2>2, <2>3, <2>4 DEF Exists, Good, NumberSpent
  <2>5. CASE t.minter = id /\ t.nonce = S[id].nonce
    BY <2>1, <2>2, <2>3, <2>5
  <2>6. Exists(T, t)
    BY <1>3 DEF Exists
  <2> QED
    BY <2>4, <2>5, <2>6
<1> QED
  BY <1>1, <1>2, <1>3, GoodStep

\* An operation on a token keeps the accounts good.
LEMMA GoodToken ==
  ASSUME NEW S, NEW T, NEW trx, Both(S, T, trx), trx.type # "Transfer", Good(S)
  PROVE  Good(T)
<1> DEFINE s == trx.sender
           r == trx.receiver
           t == trx.token
<1>0. /\ s \in Ids /\ r \in Ids /\ s # r /\ t \in TokenIds
      /\ S \in [Ids -> AccountState] /\ T \in [Ids -> AccountState]
  BY ValidTxFields DEF Both, TwoParty
<1>1. TokenEffect(S, T, trx)
  BY BothEffect
<1>2. \A x, y \in Ids : Real(S[x].store[t]) /\ Real(S[y].store[t]) => x = y
  BY <1>0 DEF Good, OneHolder
<1>3. \A x \in Ids : S[x].mbr \in Int /\ T[x].mbr \in Int
  BY <1>0 DEF AccountState
<1> HIDE DEF s, r, t
<1>e. CASE trx.type = "TransferToken"
  <2> DEFINE st == After(S, t, s, "absent", r, "held")
  <2>1. /\ S[s].store[t] = "held" /\ S[r].store[t] = "placeholder"
        /\ Leaves(S, T, s, t, st) /\ Locks(S, T, s, 0, r, -5)
    BY <1>1, <1>e DEF TokenEffect, s, r, t
  <2>2. \A x \in Ids : st[x] = IF x = s THEN "absent" ELSE IF x = r THEN "held" ELSE S[x].store[t]
    BY DEF After
  <2>3. \A x \in Ids : T[x].store[t] = st[x]
    BY <2>1 DEF Leaves
  <2> HIDE DEF st
  <2>4. Exists(S, t) /\ ~IsFrozen(S, t) /\ ~IsFrozen(T, t)
    BY <1>0, <1>2, <2>1, <2>2, <2>3 DEF Exists, IsFrozen, Real
  <2>5. ASSUME NEW x \in Ids PROVE T[x].mbr - S[x].mbr >= Share(T, x, t) - Share(S, x, t)
    <3>1. S[x].mbr \in Int /\ T[x].mbr \in Int
      BY <1>3
    <3>2. T[x].mbr = IF x = s THEN S[x].mbr + (0) ELSE IF x = r THEN S[x].mbr + (-5) ELSE S[x].mbr
      BY <2>1 DEF Locks
    <3>3. T[x].store[t] = IF x = s THEN "absent" ELSE IF x = r THEN "held" ELSE S[x].store[t]
      BY <2>2, <2>3
    <3>4. T[x].mbr - S[x].mbr >=
            (IF T[x].store[t] = "placeholder" THEN 5 ELSE 0)
              + (IF IsFrozen(T, t) /\ FreezeAddress(t) = x THEN 1 ELSE 0)
              - (IF S[x].store[t] = "placeholder" THEN 5 ELSE 0)
              - (IF IsFrozen(S, t) /\ FreezeAddress(t) = x THEN 1 ELSE 0)
      BY <1>0, <2>1, <2>4, <3>1, <3>2, <3>3 DEF Real
    <3> QED
      BY <1>0, <2>4, <3>1, <3>4, ShareStep
  <2>6. \A x, y \in Ids : Real(st[x]) /\ Real(st[y]) => x = y
    BY <1>0, <1>2, <2>1, <2>2 DEF Real
  <2> QED
    BY <1>0, <2>1, <2>4, <2>5, <2>6, GoodLeaves
<1>f. CASE trx.type = "AuthorizeTokenTransfer"
  <2> DEFINE st == After(S, t, s, "placeholder", r, S[r].store[t])
             d  == IF S[s].store[t] = "absent" THEN 5 ELSE 0
  <2>1. /\ S[s].store[t] \in {"absent", "placeholder"} /\ Real(S[r].store[t])
        /\ Leaves(S, T, s, t, st) /\ Locks(S, T, s, d, r, 0)
    BY <1>1, <1>f DEF TokenEffect, s, r, t
  <2>2. \A x \in Ids : st[x] = IF x = s THEN "placeholder" ELSE S[x].store[t]
    BY DEF After
  <2>3. \A x \in Ids : T[x].store[t] = st[x]
    BY <2>1 DEF Leaves
  <2> HIDE DEF st
  <2>4. Exists(S, t) /\ Exists(T, t) /\ (IsFrozen(S, t) <=> IsFrozen(T, t))
    BY <1>0, <2>1, <2>2, <2>3 DEF Exists, IsFrozen, Real
  <2>5. ASSUME NEW x \in Ids PROVE T[x].mbr - S[x].mbr >= Share(T, x, t) - Share(S, x, t)
    <3>1. S[x].mbr \in Int /\ T[x].mbr \in Int
      BY <1>3
    <3>2. T[x].mbr = IF x = s THEN S[x].mbr + (d) ELSE IF x = r THEN S[x].mbr + (0) ELSE S[x].mbr
      BY <2>1 DEF Locks
    <3>3. T[x].store[t] = IF x = s THEN "placeholder" ELSE S[x].store[t]
      BY <2>2, <2>3
    <3>4. T[x].mbr - S[x].mbr >=
            (IF T[x].store[t] = "placeholder" THEN 5 ELSE 0)
              + (IF IsFrozen(T, t) /\ FreezeAddress(t) = x THEN 1 ELSE 0)
              - (IF S[x].store[t] = "placeholder" THEN 5 ELSE 0)
              - (IF IsFrozen(S, t) /\ FreezeAddress(t) = x THEN 1 ELSE 0)
      BY <1>0, <2>1, <2>4, <3>1, <3>2, <3>3 DEF Real
    <3> QED
      BY <1>0, <2>4, <3>1, <3>4, ShareStep
  <2>6. \A x, y \in Ids : Real(st[x]) /\ Real(st[y]) => x = y
    BY <1>0, <1>2, <2>1, <2>2 DEF Real
  <2> QED
    BY <1>0, <2>1, <2>4, <2>5, <2>6, GoodLeaves
<1>g. CASE trx.type = "UnauthorizeTokenTransfer"
  <2> DEFINE st == After(S, t, s, "absent", r, S[r].store[t])
  <2>1. /\ S[s].store[t] = "placeholder" /\ Real(S[r].store[t])
        /\ Leaves(S, T, s, t, st) /\ Locks(S, T, s, -5, r, 0)
    BY <1>1, <1>g DEF TokenEffect, s, r, t
  <2>2. \A x \in Ids : st[x] = IF x = s THEN "absent" ELSE S[x].store[t]
    BY DEF After
  <2>3. \A x \in Ids : T[x].store[t] = st[x]
    BY <2>1 DEF Leaves
  <2> HIDE DEF st
  <2>4. Exists(S, t) /\ Exists(T, t) /\ (IsFrozen(S, t) <=> IsFrozen(T, t))
    BY <1>0, <2>1, <2>2, <2>3 DEF Exists, IsFrozen, Real
  <2>5. ASSUME NEW x \in Ids PROVE T[x].mbr - S[x].mbr >= Share(T, x, t) - Share(S, x, t)
    <3>1. S[x].mbr \in Int /\ T[x].mbr \in Int
      BY <1>3
    <3>2. T[x].mbr = IF x = s THEN S[x].mbr + (-5) ELSE IF x = r THEN S[x].mbr + (0) ELSE S[x].mbr
      BY <2>1 DEF Locks
    <3>3. T[x].store[t] = IF x = s THEN "absent" ELSE S[x].store[t]
      BY <2>2, <2>3
    <3>4. T[x].mbr - S[x].mbr >=
            (IF T[x].store[t] = "placeholder" THEN 5 ELSE 0)
              + (IF IsFrozen(T, t) /\ FreezeAddress(t) = x THEN 1 ELSE 0)
              - (IF S[x].store[t] = "placeholder" THEN 5 ELSE 0)
              - (IF IsFrozen(S, t) /\ FreezeAddress(t) = x THEN 1 ELSE 0)
      BY <1>0, <2>1, <2>4, <3>1, <3>2, <3>3 DEF Real
    <3> QED
      BY <1>0, <2>4, <3>1, <3>4, ShareStep
  <2>6. \A x, y \in Ids : Real(st[x]) /\ Real(st[y]) => x = y
    BY <1>0, <1>2, <2>1, <2>2 DEF Real
  <2> QED
    BY <1>0, <2>1, <2>4, <2>5, <2>6, GoodLeaves
<1>i. CASE trx.type = "ClawbackTokenTransfer"
  <2> DEFINE st == After(S, t, s, "absent", r, S[s].store[t])
  <2>1. /\ Real(S[s].store[t]) /\ S[r].store[t] = "absent"
        /\ Leaves(S, T, r, t, st) /\ Locks(S, T, s, 0, r, 0)
    BY <1>1, <1>i DEF TokenEffect, s, r, t
  <2>2. \A x \in Ids : st[x] = IF x = s THEN "absent" ELSE IF x = r THEN S[s].store[t] ELSE S[x].store[t]
    BY DEF After
  <2>3. \A x \in Ids : T[x].store[t] = st[x]
    BY <2>1 DEF Leaves
  <2> HIDE DEF st
  <2>4. Exists(S, t) /\ Exists(T, t) /\ (IsFrozen(S, t) <=> IsFrozen(T, t))
    BY <1>0, <2>1, <2>2, <2>3 DEF Exists, IsFrozen, Real
  <2>5. ASSUME NEW x \in Ids PROVE T[x].mbr - S[x].mbr >= Share(T, x, t) - Share(S, x, t)
    <3>1. S[x].mbr \in Int /\ T[x].mbr \in Int
      BY <1>3
    <3>2. T[x].mbr = IF x = s THEN S[x].mbr + (0) ELSE IF x = r THEN S[x].mbr + (0) ELSE S[x].mbr
      BY <2>1 DEF Locks
    <3>3. T[x].store[t] = IF x = s THEN "absent" ELSE IF x = r THEN S[s].store[t] ELSE S[x].store[t]
      BY <2>2, <2>3
    <3>4. T[x].mbr - S[x].mbr >=
            (IF T[x].store[t] = "placeholder" THEN 5 ELSE 0)
              + (IF IsFrozen(T, t) /\ FreezeAddress(t) = x THEN 1 ELSE 0)
              - (IF S[x].store[t] = "placeholder" THEN 5 ELSE 0)
              - (IF IsFrozen(S, t) /\ FreezeAddress(t) = x THEN 1 ELSE 0)
      BY <1>0, <2>1, <2>4, <3>1, <3>2, <3>3 DEF Real
    <3> QED
      BY <1>0, <2>4, <3>1, <3>4, ShareStep
  <2>6. \A x, y \in Ids : Real(st[x]) /\ Real(st[y]) => x = y
    BY <1>0, <1>2, <2>1, <2>2 DEF Real
  <2> QED
    BY <1>0, <2>1, <2>4, <2>5, <2>6, GoodLeaves
<1>j. CASE trx.type = "FreezeToken"
  <2> DEFINE st == After(S, t, s, S[s].store[t], r, "frozen")
  <2>1. /\ S[r].store[t] = "held" /\ FreezeAddress(t) = s
        /\ Leaves(S, T, s, t, st) /\ Locks(S, T, s, 1, r, 0)
    BY <1>1, <1>j DEF TokenEffect, s, r, t
  <2>2. \A x \in Ids : st[x] = IF x = r THEN "frozen" ELSE S[x].store[t]
    BY <1>0 DEF After
  <2>3. \A x \in Ids : T[x].store[t] = st[x]
    BY <2>1 DEF Leaves
  <2> HIDE DEF st
  <2>4. Exists(S, t) /\ Exists(T, t) /\ ~IsFrozen(S, t) /\ IsFrozen(T, t)
    BY <1>0, <1>2, <2>1, <2>2, <2>3 DEF Exists, IsFrozen, Real
  <2>5. ASSUME NEW x \in Ids PROVE T[x].mbr - S[x].mbr >= Share(T, x, t) - Share(S, x, t)
    <3>1. S[x].mbr \in Int /\ T[x].mbr \in Int
      BY <1>3
    <3>2. T[x].mbr = IF x = s THEN S[x].mbr + (1) ELSE IF x = r THEN S[x].mbr + (0) ELSE S[x].mbr
      BY <2>1 DEF Locks
    <3>3. T[x].store[t] = IF x = r THEN "frozen" ELSE S[x].store[t]
      BY <2>2, <2>3
    <3>4. T[x].mbr - S[x].mbr >=
            (IF T[x].store[t] = "placeholder" THEN 5 ELSE 0)
              + (IF IsFrozen(T, t) /\ FreezeAddress(t) = x THEN 1 ELSE 0)
              - (IF S[x].store[t] = "placeholder" THEN 5 ELSE 0)
              - (IF IsFrozen(S, t) /\ FreezeAddress(t) = x THEN 1 ELSE 0)
      BY <1>0, <2>1, <2>4, <3>1, <3>2, <3>3 DEF Real
    <3> QED
      BY <1>0, <2>4, <3>1, <3>4, ShareStep
  <2>6. \A x, y \in Ids : Real(st[x]) /\ Real(st[y]) => x = y
    BY <1>0, <1>2, <2>1, <2>2 DEF Real
  <2> QED
    BY <1>0, <2>1, <2>4, <2>5, <2>6, GoodLeaves
<1>k. CASE trx.type = "UnfreezeToken"
  <2> DEFINE st == After(S, t, s, S[s].store[t], r, "held")
  <2>1. /\ S[r].store[t] = "frozen" /\ FreezeAddress(t) = s
        /\ Leaves(S, T, s, t, st) /\ Locks(S, T, s, -1, r, 0)
    BY <1>1, <1>k DEF TokenEffect, s, r, t
  <2>2. \A x \in Ids : st[x] = IF x = r THEN "held" ELSE S[x].store[t]
    BY <1>0 DEF After
  <2>3. \A x \in Ids : T[x].store[t] = st[x]
    BY <2>1 DEF Leaves
  <2> HIDE DEF st
  <2>4. Exists(S, t) /\ Exists(T, t) /\ IsFrozen(S, t) /\ ~IsFrozen(T, t)
    BY <1>0, <1>2, <2>1, <2>2, <2>3 DEF Exists, IsFrozen, Real
  <2>5. ASSUME NEW x \in Ids PROVE T[x].mbr - S[x].mbr >= Share(T, x, t) - Share(S, x, t)
    <3>1. S[x].mbr \in Int /\ T[x].mbr \in Int
      BY <1>3
    <3>2. T[x].mbr = IF x = s THEN S[x].mbr + (-1) ELSE IF x = r THEN S[x].mbr + (0) ELSE S[x].mbr
      BY <2>1 DEF Locks
    <3>3. T[x].store[t] = IF x = r THEN "held" ELSE S[x].store[t]
      BY <2>2, <2>3
    <3>4. T[x].mbr - S[x].mbr >=
            (IF T[x].store[t] = "placeholder" THEN 5 ELSE 0)
              + (IF IsFrozen(T, t) /\ FreezeAddress(t) = x THEN 1 ELSE 0)
              - (IF S[x].store[t] = "placeholder" THEN 5 ELSE 0)
              - (IF IsFrozen(S, t) /\ FreezeAddress(t) = x THEN 1 ELSE 0)
      BY <1>0, <2>1, <2>4, <3>1, <3>2, <3>3 DEF Real
    <3> QED
      BY <1>0, <2>4, <3>1, <3>4, ShareStep
  <2>6. \A x, y \in Ids : Real(st[x]) /\ Real(st[y]) => x = y
    BY <1>0, <1>2, <2>1, <2>2 DEF Real
  <2> QED
    BY <1>0, <2>1, <2>4, <2>5, <2>6, GoodLeaves
<1> QED
  BY <1>e, <1>f, <1>g, <1>i, <1>j, <1>k DEF Both, TwoParty

-----------------------------------------------------------------------------
(***************************************************************************)
(* Whole operations are steps of TokenLedger.                              *)
(***************************************************************************)
\* What TokenLedger sees of the settled accounts, before and after a step.
LEMMA SettledViews ==
  ASSUME NEW S, NEW T, S = Settled, T = Settled'
  PROVE  /\ Money(Settled) = Money(S) /\ Money(Settled)' = Money(T)
         /\ Owned(Settled) = Owned(S) /\ Owned(Settled)' = Owned(T)
         /\ Open(Settled) = Open(S) /\ Open(Settled)' = Open(T)
         /\ Frozen(Settled) = Frozen(S) /\ Frozen(Settled)' = Frozen(T)
         /\ Sent(Settled) = Sent(S) /\ Sent(Settled)' = Sent(T)
BY DEF Money, Owned, Open, Frozen, Sent

\* The operations on tokens, as TokenLedger sees them.
LEMMA TokenViews ==
  ASSUME NEW S, NEW T, NEW trx, Both(S, T, trx), trx.type # "Transfer", Good(S)
  PROVE  LET s == trx.sender
             r == trx.receiver
             t == trx.token
         IN  /\ Money(T) = Money(S)
             /\ Spends(S, T, IF trx.type = "ClawbackTokenTransfer" THEN r ELSE s)
             /\ trx.type = "TransferToken" =>
                   /\ <<s, t>> \in Owned(S) /\ t \notin Frozen(S) /\ <<r, t>> \in Open(S)
                   /\ Owned(T) = (Owned(S) \ {<<s, t>>}) \cup {<<r, t>>}
                   /\ Open(T) = Open(S) \ {<<r, t>>}
                   /\ Frozen(T) = Frozen(S)
             /\ trx.type = "AuthorizeTokenTransfer" =>
                   /\ <<r, t>> \in Owned(S)
                   /\ Owned(T) = Owned(S) /\ Frozen(T) = Frozen(S)
                   /\ Open(T) = Open(S) \cup {<<s, t>>}
             /\ trx.type = "UnauthorizeTokenTransfer" =>
                   /\ <<r, t>> \in Owned(S) /\ <<s, t>> \in Open(S)
                   /\ Owned(T) = Owned(S) /\ Frozen(T) = Frozen(S)
                   /\ Open(T) = Open(S) \ {<<s, t>>}
             /\ trx.type = "ClawbackTokenTransfer" =>
                   /\ t.terms.clawback = r /\ <<s, t>> \in Owned(S) /\ <<r, t>> \notin Open(S)
                   /\ Owned(T) = (Owned(S) \ {<<s, t>>}) \cup {<<r, t>>}
                   /\ Open(T) = Open(S) /\ Frozen(T) = Frozen(S)
             /\ trx.type = "FreezeToken" =>
                   /\ t.terms.freeze = s /\ t \notin Frozen(S) /\ <<r, t>> \in Owned(S)
                   /\ Frozen(T) = Frozen(S) \cup {t}
                   /\ Owned(T) = Owned(S) /\ Open(T) = Open(S)
             /\ trx.type = "UnfreezeToken" =>
                   /\ t.terms.freeze = s /\ t \in Frozen(S) /\ <<r, t>> \in Owned(S)
                   /\ Frozen(T) = Frozen(S) \ {t}
                   /\ Owned(T) = Owned(S) /\ Open(T) = Open(S)
<1> DEFINE s == trx.sender
           r == trx.receiver
           t == trx.token
<1>0. /\ s \in Ids /\ r \in Ids /\ s # r /\ t \in TokenIds
      /\ S \in [Ids -> AccountState] /\ T \in [Ids -> AccountState]
  BY ValidTxFields DEF Both, TwoParty
<1>1. TokenEffect(S, T, trx)
  BY BothEffect
<1>2. \A x, y \in Ids : Real(S[x].store[t]) /\ Real(S[y].store[t]) => x = y
  BY <1>0 DEF Good, OneHolder
<1>3. /\ \A x \in Ids, u \in TokenIds : <<x, u>> \in Owned(S) <=> Real(S[x].store[u])
      /\ \A x \in Ids, u \in TokenIds : <<x, u>> \in Open(S) <=> Vacant(S[x].store[u])
      /\ \A u \in TokenIds : u \in Frozen(S) <=> \E x \in Ids : S[x].store[u] = "frozen"
      /\ Owned(S) \subseteq Ids \X TokenIds /\ Open(S) \subseteq Ids \X TokenIds
      /\ Frozen(S) \subseteq TokenIds
  BY InViews DEF Owned, Open, Frozen
<1> HIDE DEF s, r, t
<1>4. ASSUME Touches(S, T, t), NEW O \in SUBSET (Ids \X TokenIds), NEW P \in SUBSET (Ids \X TokenIds),
             NEW F \in SUBSET TokenIds,
             \A x \in Ids : <<x, t>> \in O <=> Real(T[x].store[t]),
             \A x \in Ids, u \in TokenIds : u # t => (<<x, u>> \in O <=> <<x, u>> \in Owned(S)),
             \A x \in Ids : <<x, t>> \in P <=> Vacant(T[x].store[t]),
             \A x \in Ids, u \in TokenIds : u # t => (<<x, u>> \in P <=> <<x, u>> \in Open(S)),
             t \in F <=> \E x \in Ids : T[x].store[t] = "frozen",
             \A u \in TokenIds : u # t => (u \in F <=> u \in Frozen(S))
      PROVE  Owned(T) = O /\ Open(T) = P /\ Frozen(T) = F
  <2>1. Owned(T) = O
    <3>1. \A x \in Ids, u \in TokenIds : u # t => (<<x, u>> \in O <=> Real(S[x].store[u]))
      BY <1>3, <1>4
    <3>2. HeldIn(O, S, T, t)
      BY <1>4, <3>1 DEF HeldIn
    <3> QED
      BY <1>0, <1>4, <3>2, OwnedStep
  <2>2. Open(T) = P
    <3>1. \A x \in Ids, u \in TokenIds : u # t => (<<x, u>> \in P <=> Vacant(S[x].store[u]))
      BY <1>3, <1>4
    <3>2. VacantIn(P, S, T, t)
      BY <1>4, <3>1 DEF VacantIn
    <3> QED
      BY <1>0, <1>4, <3>2, OpenStep
  <2>3. Frozen(T) = F
    BY <1>0, <1>4, FrozenStep
  <2> QED
    BY <2>1, <2>2, <2>3
<1>e. CASE trx.type = "TransferToken"
  <2> DEFINE st == After(S, t, s, "absent", r, "held")
  <2>1. /\ S[s].store[t] = "held" /\ S[r].store[t] = "placeholder" /\ Leaves(S, T, s, t, st)
    BY <1>1, <1>e DEF TokenEffect, s, r, t
  <2>2. \A x \in Ids : T[x].store[t] = IF x = s THEN "absent" ELSE IF x = r THEN "held" ELSE S[x].store[t]
    BY <2>1 DEF Leaves, After
  <2> HIDE DEF st
  <2>3. Money(T) = Money(S) /\ Spends(S, T, s) /\ Touches(S, T, t)
    BY <1>0, <2>1, LeavesViews
  <2>4. <<s, t>> \in Owned(S) /\ t \notin Frozen(S) /\ <<r, t>> \in Open(S)
    BY <1>0, <1>2, <1>3, <2>1 DEF Real, Vacant
  <2>5. /\ Owned(T) = (Owned(S) \ {<<s, t>>}) \cup {<<r, t>>}
        /\ Open(T) = Open(S) \ {<<r, t>>} /\ Frozen(T) = Frozen(S)
    <3> DEFINE O == (Owned(S) \ {<<s, t>>}) \cup {<<r, t>>}
               P == Open(S) \ {<<r, t>>}
    <3>1. O \in SUBSET (Ids \X TokenIds) /\ P \in SUBSET (Ids \X TokenIds)
      BY <1>0, <1>3
    <3>2. \A x \in Ids : <<x, t>> \in O <=> Real(T[x].store[t])
      BY <1>0, <1>2, <1>3, <2>1, <2>2 DEF Real
    <3>3. \A x \in Ids : <<x, t>> \in P <=> Vacant(T[x].store[t])
      <4>1. \A x \in Ids : Vacant(T[x].store[t]) <=> x # r /\ Vacant(S[x].store[t])
        BY <1>0, <2>1, <2>2 DEF Real, Vacant
      <4> QED
        BY <1>0, <1>3, <4>1
    <3>4. ~ \E x \in Ids : T[x].store[t] = "frozen"
      BY <1>0, <1>2, <2>1, <2>2 DEF Real
    <3>5. \A x \in Ids, u \in TokenIds : u # t => /\ <<x, u>> \in O <=> <<x, u>> \in Owned(S)
                                                  /\ <<x, u>> \in P <=> <<x, u>> \in Open(S)
      OBVIOUS
    <3> HIDE DEF O, P
    <3>6. Owned(T) = O /\ Open(T) = P /\ Frozen(T) = Frozen(S)
      BY <1>3, <1>4, <2>3, <2>4, <3>1, <3>2, <3>3, <3>4, <3>5
    <3> QED
      BY <3>6 DEF O, P
  <2> QED
    BY <1>e, <2>3, <2>4, <2>5 DEF s, r, t
<1>f. CASE trx.type = "AuthorizeTokenTransfer"
  <2> DEFINE st == After(S, t, s, "placeholder", r, S[r].store[t])
  <2>1. S[s].store[t] \in {"absent", "placeholder"} /\ Real(S[r].store[t]) /\ Leaves(S, T, s, t, st)
    BY <1>1, <1>f DEF TokenEffect, s, r, t
  <2>2. \A x \in Ids : T[x].store[t] = IF x = s THEN "placeholder" ELSE S[x].store[t]
    BY <1>0, <2>1 DEF Leaves, After
  <2> HIDE DEF st
  <2>3. Money(T) = Money(S) /\ Spends(S, T, s) /\ Touches(S, T, t)
    BY <1>0, <2>1, LeavesViews
  <2>4. <<r, t>> \in Owned(S)
    BY <1>0, <1>2, <1>3, <2>1 DEF Real, Vacant, ClawbackAddress, FreezeAddress
  <2>5. Owned(T) = Owned(S) /\ Open(T) = Open(S) \cup {<<s, t>>} /\ Frozen(T) = Frozen(S)
    <3> DEFINE P == Open(S) \cup {<<s, t>>}
    <3>1. P \in SUBSET (Ids \X TokenIds)
      BY <1>0, <1>3
    <3>2. \A x \in Ids : <<x, t>> \in Owned(S) <=> Real(T[x].store[t])
      BY <1>0, <1>2, <1>3, <2>1, <2>2 DEF Real
    <3>3. \A x \in Ids : <<x, t>> \in P <=> Vacant(T[x].store[t])
      <4>1. \A x \in Ids : Vacant(T[x].store[t]) <=> x = s \/ Vacant(S[x].store[t])
        BY <1>0, <2>1, <2>2 DEF Real, Vacant
      <4> QED
        BY <1>0, <1>3, <4>1
    <3>4. t \in Frozen(S) <=> \E x \in Ids : T[x].store[t] = "frozen"
      BY <1>0, <1>2, <1>3, <2>1, <2>2 DEF Real
    <3>5. \A x \in Ids, u \in TokenIds : u # t => (<<x, u>> \in P <=> <<x, u>> \in Open(S))
      OBVIOUS
    <3> HIDE DEF P
    <3>6. Owned(T) = Owned(S) /\ Open(T) = P /\ Frozen(T) = Frozen(S)
      BY <1>3, <1>4, <2>3, <3>1, <3>2, <3>3, <3>4, <3>5
    <3> QED
      BY <3>6 DEF P
  <2> QED
    BY <1>f, <2>3, <2>4, <2>5 DEF s, r, t
<1>g. CASE trx.type = "UnauthorizeTokenTransfer"
  <2> DEFINE st == After(S, t, s, "absent", r, S[r].store[t])
  <2>1. S[s].store[t] = "placeholder" /\ Real(S[r].store[t]) /\ Leaves(S, T, s, t, st)
    BY <1>1, <1>g DEF TokenEffect, s, r, t
  <2>2. \A x \in Ids : T[x].store[t] = IF x = s THEN "absent" ELSE S[x].store[t]
    BY <1>0, <2>1 DEF Leaves, After
  <2> HIDE DEF st
  <2>3. Money(T) = Money(S) /\ Spends(S, T, s) /\ Touches(S, T, t)
    BY <1>0, <2>1, LeavesViews
  <2>4. <<r, t>> \in Owned(S) /\ <<s, t>> \in Open(S)
    BY <1>0, <1>2, <1>3, <2>1 DEF Real, Vacant, ClawbackAddress, FreezeAddress
  <2>5. Owned(T) = Owned(S) /\ Open(T) = Open(S) \ {<<s, t>>} /\ Frozen(T) = Frozen(S)
    <3> DEFINE P == Open(S) \ {<<s, t>>}
    <3>1. P \in SUBSET (Ids \X TokenIds)
      BY <1>0, <1>3
    <3>2. \A x \in Ids : <<x, t>> \in Owned(S) <=> Real(T[x].store[t])
      BY <1>0, <1>2, <1>3, <2>1, <2>2 DEF Real
    <3>3. \A x \in Ids : <<x, t>> \in P <=> Vacant(T[x].store[t])
      <4>1. \A x \in Ids : Vacant(T[x].store[t]) <=> x # s /\ Vacant(S[x].store[t])
        BY <1>0, <2>1, <2>2 DEF Real, Vacant
      <4> QED
        BY <1>0, <1>3, <4>1
    <3>4. t \in Frozen(S) <=> \E x \in Ids : T[x].store[t] = "frozen"
      BY <1>0, <1>2, <1>3, <2>1, <2>2 DEF Real
    <3>5. \A x \in Ids, u \in TokenIds : u # t => (<<x, u>> \in P <=> <<x, u>> \in Open(S))
      OBVIOUS
    <3> HIDE DEF P
    <3>6. Owned(T) = Owned(S) /\ Open(T) = P /\ Frozen(T) = Frozen(S)
      BY <1>3, <1>4, <2>3, <3>1, <3>2, <3>3, <3>4, <3>5
    <3> QED
      BY <3>6 DEF P
  <2> QED
    BY <1>g, <2>3, <2>4, <2>5 DEF s, r, t
<1>i. CASE trx.type = "ClawbackTokenTransfer"
  <2> DEFINE st == After(S, t, s, "absent", r, S[s].store[t])
  <2>1. Real(S[s].store[t]) /\ S[r].store[t] = "absent" /\ ClawbackAddress(t) = r /\ Leaves(S, T, r, t, st)
    BY <1>1, <1>i DEF TokenEffect, s, r, t
  <2>2. \A x \in Ids : T[x].store[t] = IF x = s THEN "absent" ELSE IF x = r THEN S[s].store[t] ELSE S[x].store[t]
    BY <1>0, <2>1 DEF Leaves, After
  <2> HIDE DEF st
  <2>3. Money(T) = Money(S) /\ Spends(S, T, r) /\ Touches(S, T, t)
    BY <1>0, <2>1, LeavesViews
  <2>4. t.terms.clawback = r /\ <<s, t>> \in Owned(S) /\ <<r, t>> \notin Open(S)
    BY <1>0, <1>2, <1>3, <2>1 DEF Real, Vacant, ClawbackAddress, FreezeAddress
  <2>5. Owned(T) = (Owned(S) \ {<<s, t>>}) \cup {<<r, t>>} /\ Open(T) = Open(S) /\ Frozen(T) = Frozen(S)
    <3> DEFINE O == (Owned(S) \ {<<s, t>>}) \cup {<<r, t>>}
    <3>1. O \in SUBSET (Ids \X TokenIds)
      BY <1>0, <1>3
    <3>2. \A x \in Ids : <<x, t>> \in O <=> Real(T[x].store[t])
      BY <1>0, <1>2, <1>3, <2>1, <2>2 DEF Real
    <3>3. \A x \in Ids : <<x, t>> \in Open(S) <=> Vacant(T[x].store[t])
      <4>1. \A x \in Ids : Vacant(T[x].store[t]) <=> Vacant(S[x].store[t])
        BY <1>0, <2>1, <2>2 DEF Real, Vacant
      <4> QED
        BY <1>0, <1>3, <4>1
    <3>4. t \in Frozen(S) <=> \E x \in Ids : T[x].store[t] = "frozen"
      BY <1>0, <1>2, <1>3, <2>1, <2>2 DEF Real
    <3>5. \A x \in Ids, u \in TokenIds : u # t => (<<x, u>> \in O <=> <<x, u>> \in Owned(S))
      OBVIOUS
    <3> HIDE DEF O
    <3>6. Owned(T) = O /\ Open(T) = Open(S) /\ Frozen(T) = Frozen(S)
      BY <1>3, <1>4, <2>3, <3>1, <3>2, <3>3, <3>4, <3>5
    <3> QED
      BY <3>6 DEF O
  <2> QED
    BY <1>i, <2>3, <2>4, <2>5 DEF s, r, t
<1>j. CASE trx.type = "FreezeToken"
  <2> DEFINE st == After(S, t, s, S[s].store[t], r, "frozen")
  <2>1. S[r].store[t] = "held" /\ FreezeAddress(t) = s /\ Leaves(S, T, s, t, st)
    BY <1>1, <1>j DEF TokenEffect, s, r, t
  <2>2. \A x \in Ids : T[x].store[t] = IF x = r THEN "frozen" ELSE S[x].store[t]
    BY <1>0, <2>1 DEF Leaves, After
  <2> HIDE DEF st
  <2>3. Money(T) = Money(S) /\ Spends(S, T, s) /\ Touches(S, T, t)
    BY <1>0, <2>1, LeavesViews
  <2>4. t.terms.freeze = s /\ t \notin Frozen(S) /\ <<r, t>> \in Owned(S)
    BY <1>0, <1>2, <1>3, <2>1 DEF Real, Vacant, ClawbackAddress, FreezeAddress
  <2>5. Owned(T) = Owned(S) /\ Open(T) = Open(S) /\ Frozen(T) = Frozen(S) \cup {t}
    <3> DEFINE F == Frozen(S) \cup {t}
    <3>1. F \in SUBSET TokenIds
      BY <1>0, <1>3
    <3>2. \A x \in Ids : <<x, t>> \in Owned(S) <=> Real(T[x].store[t])
      BY <1>0, <1>2, <1>3, <2>1, <2>2 DEF Real
    <3>3. \A x \in Ids : <<x, t>> \in Open(S) <=> Vacant(T[x].store[t])
      <4>1. \A x \in Ids : Vacant(T[x].store[t]) <=> Vacant(S[x].store[t])
        BY <1>0, <2>1, <2>2 DEF Real, Vacant
      <4> QED
        BY <1>0, <1>3, <4>1
    <3>4. t \in F <=> \E x \in Ids : T[x].store[t] = "frozen"
      BY <1>0, <1>2, <1>3, <2>1, <2>2 DEF Real
    <3>5. \A u \in TokenIds : u # t => (u \in F <=> u \in Frozen(S))
      OBVIOUS
    <3> HIDE DEF F
    <3>6. Owned(S) \in SUBSET (Ids \X TokenIds) /\ Open(S) \in SUBSET (Ids \X TokenIds)
      BY <1>3
    <3>7. Owned(T) = Owned(S) /\ Open(T) = Open(S) /\ Frozen(T) = F
      BY <1>4, <2>3, <3>1, <3>2, <3>3, <3>4, <3>5, <3>6
    <3> QED
      BY <3>7 DEF F
  <2> QED
    BY <1>j, <2>3, <2>4, <2>5 DEF s, r, t
<1>k. CASE trx.type = "UnfreezeToken"
  <2> DEFINE st == After(S, t, s, S[s].store[t], r, "held")
  <2>1. S[r].store[t] = "frozen" /\ FreezeAddress(t) = s /\ Leaves(S, T, s, t, st)
    BY <1>1, <1>k DEF TokenEffect, s, r, t
  <2>2. \A x \in Ids : T[x].store[t] = IF x = r THEN "held" ELSE S[x].store[t]
    BY <1>0, <2>1 DEF Leaves, After
  <2> HIDE DEF st
  <2>3. Money(T) = Money(S) /\ Spends(S, T, s) /\ Touches(S, T, t)
    BY <1>0, <2>1, LeavesViews
  <2>4. t.terms.freeze = s /\ t \in Frozen(S) /\ <<r, t>> \in Owned(S)
    BY <1>0, <1>2, <1>3, <2>1 DEF Real, Vacant, ClawbackAddress, FreezeAddress
  <2>5. Owned(T) = Owned(S) /\ Open(T) = Open(S) /\ Frozen(T) = Frozen(S) \ {t}
    <3> DEFINE F == Frozen(S) \ {t}
    <3>1. F \in SUBSET TokenIds
      BY <1>0, <1>3
    <3>2. \A x \in Ids : <<x, t>> \in Owned(S) <=> Real(T[x].store[t])
      BY <1>0, <1>2, <1>3, <2>1, <2>2 DEF Real
    <3>3. \A x \in Ids : <<x, t>> \in Open(S) <=> Vacant(T[x].store[t])
      <4>1. \A x \in Ids : Vacant(T[x].store[t]) <=> Vacant(S[x].store[t])
        BY <1>0, <2>1, <2>2 DEF Real, Vacant
      <4> QED
        BY <1>0, <1>3, <4>1
    <3>4. t \in F <=> \E x \in Ids : T[x].store[t] = "frozen"
      BY <1>0, <1>2, <1>3, <2>1, <2>2 DEF Real
    <3>5. \A u \in TokenIds : u # t => (u \in F <=> u \in Frozen(S))
      OBVIOUS
    <3> HIDE DEF F
    <3>6. Owned(S) \in SUBSET (Ids \X TokenIds) /\ Open(S) \in SUBSET (Ids \X TokenIds)
      BY <1>3
    <3>7. Owned(T) = Owned(S) /\ Open(T) = Open(S) /\ Frozen(T) = F
      BY <1>4, <2>3, <3>1, <3>2, <3>3, <3>4, <3>5, <3>6
    <3> QED
      BY <3>7 DEF F
  <2> QED
    BY <1>k, <2>3, <2>4, <2>5 DEF s, r, t
<1> QED
  BY <1>e, <1>f, <1>g, <1>i, <1>j, <1>k DEF Both, TwoParty

\* An operation on a token is one of TokenLedger's.
LEMMA TokenIsSigned ==
  ASSUME NEW S, NEW T, S = Settled, T = Settled', created' = created,
         NEW trx, Both(S, T, trx), trx.type # "Transfer", Good(S)
  PROVE  \E id \in Ids : Abstract!Signed(id)
<1> DEFINE s == trx.sender
           r == trx.receiver
           t == trx.token
           id == IF trx.type = "ClawbackTokenTransfer" THEN r ELSE s
<1>0. s \in Ids /\ r \in Ids /\ s # r /\ t \in TokenIds /\ {s, r} \subseteq created /\ id \in created
  BY ValidTxFields DEF Both, TwoParty, Asked
<1>1. /\ Money(Settled) = Money(S) /\ Money(Settled)' = Money(T)
      /\ Owned(Settled) = Owned(S) /\ Owned(Settled)' = Owned(T)
      /\ Open(Settled) = Open(S) /\ Open(Settled)' = Open(T)
      /\ Frozen(Settled) = Frozen(S) /\ Frozen(Settled)' = Frozen(T)
      /\ Sent(Settled) = Sent(S) /\ Sent(Settled)' = Sent(T)
  BY SettledViews
<1>2. Money(Settled)' = Money(Settled) /\ Sent(Settled)' = [Sent(Settled) EXCEPT ![id] = @ + 1]
  <2>1. Money(T) = Money(S) /\ Spends(S, T, id)
    BY TokenViews
  <2> HIDE DEF id
  <2> QED
    BY <1>1, <2>1 DEF Spends
<1>3. SUFFICES \E other \in Ids :
                 \/ Abstract!Grant(id, t) \/ Abstract!Revoke(id, t)
                 \/ Abstract!Freeze(id, t) \/ Abstract!Thaw(id, t)
                 \/ Abstract!Move(id, other, t) \/ Abstract!Seize(id, other, t)
  <2> HIDE DEF s, r, t, id
  <2>1. id \in Ids
    BY <1>0 DEF id
  <2> QED
    BY <1>0, <1>2, <2>1 DEF Abstract!Signed
<1>e. CASE trx.type = "TransferToken"
  <2>1. /\ <<s, t>> \in Owned(S) /\ t \notin Frozen(S) /\ <<r, t>> \in Open(S)
        /\ Owned(T) = (Owned(S) \ {<<s, t>>}) \cup {<<r, t>>}
        /\ Open(T) = Open(S) \ {<<r, t>>}
        /\ Frozen(T) = Frozen(S)
    BY <1>e, TokenViews
  <2>2. id = s
    BY <1>e
  <2> HIDE DEF s, r, t, id
  <2>3. Abstract!Move(s, r, t)
    BY <1>1, <1>2, <2>1 DEF Abstract!Move
  <2> QED
    BY <1>0, <2>2, <2>3
<1>f. CASE trx.type = "AuthorizeTokenTransfer"
  <2>1. /\ <<r, t>> \in Owned(S)
        /\ Owned(T) = Owned(S) /\ Frozen(T) = Frozen(S)
        /\ Open(T) = Open(S) \cup {<<s, t>>}
    BY <1>f, TokenViews
  <2>2. id = s
    BY <1>f
  <2> HIDE DEF s, r, t, id
  <2>3. Abstract!Grant(s, t)
    BY <1>0, <1>1, <1>2, <2>1 DEF Abstract!Grant, Abstract!HeldByAnother
  <2> QED
    BY <1>0, <2>2, <2>3
<1>g. CASE trx.type = "UnauthorizeTokenTransfer"
  <2>1. /\ <<r, t>> \in Owned(S) /\ <<s, t>> \in Open(S)
        /\ Owned(T) = Owned(S) /\ Frozen(T) = Frozen(S)
        /\ Open(T) = Open(S) \ {<<s, t>>}
    BY <1>g, TokenViews
  <2>2. id = s
    BY <1>g
  <2> HIDE DEF s, r, t, id
  <2>3. Abstract!Revoke(s, t)
    BY <1>0, <1>1, <1>2, <2>1 DEF Abstract!Revoke, Abstract!HeldByAnother
  <2> QED
    BY <1>0, <2>2, <2>3
<1>i. CASE trx.type = "ClawbackTokenTransfer"
  <2>1. /\ t.terms.clawback = r /\ <<s, t>> \in Owned(S) /\ <<r, t>> \notin Open(S)
        /\ Owned(T) = (Owned(S) \ {<<s, t>>}) \cup {<<r, t>>}
        /\ Open(T) = Open(S) /\ Frozen(T) = Frozen(S)
    BY <1>i, TokenViews
  <2>2. id = r
    BY <1>i
  <2> HIDE DEF s, r, t, id
  <2>3. Abstract!Seize(r, s, t)
    BY <1>0, <1>1, <1>2, <2>1 DEF Abstract!Seize
  <2> QED
    BY <1>0, <2>2, <2>3
<1>j. CASE trx.type = "FreezeToken"
  <2>1. /\ t.terms.freeze = s /\ t \notin Frozen(S) /\ <<r, t>> \in Owned(S)
        /\ Frozen(T) = Frozen(S) \cup {t}
        /\ Owned(T) = Owned(S) /\ Open(T) = Open(S)
    <3>1. t.terms.freeze = s /\ t \notin Frozen(S) /\ <<r, t>> \in Owned(S)
      BY <1>j, TokenViews
    <3>2. Owned(T) = Owned(S)
      BY <1>j, TokenViews
    <3>3. Open(T) = Open(S)
      BY <1>j, TokenViews
    <3>4. Frozen(T) = Frozen(S) \cup {t}
      BY <1>j, TokenViews
    <3> QED
      BY <3>1, <3>2, <3>3, <3>4
  <2>2. id = s
    BY <1>j
  <2> HIDE DEF s, r, t, id
  <2>3. Abstract!Freeze(s, t)
    BY <1>0, <1>1, <1>2, <2>1 DEF Abstract!Freeze, Abstract!HeldByAnother
  <2> QED
    BY <1>0, <2>2, <2>3
<1>k. CASE trx.type = "UnfreezeToken"
  <2>1. /\ t.terms.freeze = s /\ t \in Frozen(S) /\ <<r, t>> \in Owned(S)
        /\ Frozen(T) = Frozen(S) \ {t}
        /\ Owned(T) = Owned(S) /\ Open(T) = Open(S)
    BY <1>k, TokenViews
  <2>2. id = s
    BY <1>k
  <2> HIDE DEF s, r, t, id
  <2>3. Abstract!Thaw(s, t)
    BY <1>0, <1>1, <1>2, <2>1 DEF Abstract!Thaw, Abstract!HeldByAnother
  <2> QED
    BY <1>0, <2>2, <2>3
<1> QED
  BY <1>e, <1>f, <1>g, <1>i, <1>j, <1>k DEF Both, TwoParty

\* Nothing is locked that is negative.
LEMMA LockedNat ==
  ASSUME NEW S \in [Ids -> AccountState], Good(S), NEW id \in Ids
  PROVE  S[id].mbr >= 0
<1>1. /\ IsFiniteSet(MintedIn(S, id)) /\ IsFiniteSet(SlotsIn(S, id)) /\ IsFiniteSet(FrozenIn(S, id))
      /\ S[id].mbr >= 10 * Cardinality(MintedIn(S, id)) + 5 * Cardinality(SlotsIn(S, id))
                      + 1 * Cardinality(FrozenIn(S, id))
  BY DEF Good, Covered, MBR_TOKEN_COST, MBR_SLOT_COST, MBR_FREEZE_COST
<1>2. /\ Cardinality(MintedIn(S, id)) \in Nat /\ Cardinality(SlotsIn(S, id)) \in Nat
      /\ Cardinality(FrozenIn(S, id)) \in Nat /\ S[id].mbr \in Int
  BY <1>1, FS_CardinalityType DEF AccountState
<1> QED
  BY <1>1, <1>2

\* Stores that did not change look the same.
LEMMA SameStores ==
  ASSUME NEW S, NEW T, \A x \in Ids : T[x].store = S[x].store
  PROVE  Owned(T) = Owned(S) /\ Open(T) = Open(S) /\ Frozen(T) = Frozen(S)
<1>1. Owned(T) = Owned(S)
  <2>1. Owned(T) \in SUBSET (Ids \X TokenIds) /\ Owned(S) \in SUBSET (Ids \X TokenIds)
    BY DEF Owned
  <2>2. ASSUME NEW x \in Ids, NEW u \in TokenIds
        PROVE  <<x, u>> \in Owned(T) <=> <<x, u>> \in Owned(S)
    <3>1. (<<x, u>> \in Owned(T) <=> Real(T[x].store[u])) /\ (<<x, u>> \in Owned(S) <=> Real(S[x].store[u]))
      BY InViews
    <3> QED
      BY <3>1
  <2> QED
    BY <2>1, <2>2, SamePairs
<1>2. Open(T) = Open(S)
  <2>1. Open(T) \in SUBSET (Ids \X TokenIds) /\ Open(S) \in SUBSET (Ids \X TokenIds)
    BY DEF Open
  <2>2. ASSUME NEW x \in Ids, NEW u \in TokenIds
        PROVE  <<x, u>> \in Open(T) <=> <<x, u>> \in Open(S)
    <3>1. (<<x, u>> \in Open(T) <=> Vacant(T[x].store[u])) /\ (<<x, u>> \in Open(S) <=> Vacant(S[x].store[u]))
      BY InViews
    <3> QED
      BY <3>1
  <2> QED
    BY <2>1, <2>2, SamePairs
<1>3. Frozen(T) = Frozen(S)
  BY DEF Frozen
<1> QED
  BY <1>1, <1>2, <1>3

\* A transfer of money, field by field.
LEMMA MoneyEffect ==
  ASSUME NEW S, NEW T, NEW trx, Both(S, T, trx), trx.type = "Transfer"
  PROVE  /\ trx.amount \in Amounts
         /\ S[trx.sender].balance - S[trx.sender].mbr >= trx.amount
         /\ \A x \in Ids :
              /\ T[x].store = S[x].store /\ T[x].mbr = S[x].mbr
              /\ T[x].balance = IF x = trx.sender THEN S[x].balance - trx.amount
                                ELSE IF x = trx.receiver THEN S[x].balance + trx.amount ELSE S[x].balance
              /\ T[x].nonce = IF x = trx.sender THEN S[x].nonce + 1 ELSE S[x].nonce
<1> DEFINE s == trx.sender
           r == trx.receiver
<1>1. /\ s \in Ids /\ r \in Ids /\ s # r /\ trx.amount \in Amounts
      /\ \A x \in Ids : x # s /\ x # r => T[x] = S[x]
  BY DEF Both, Asked
<1>2. /\ S[s].balance - S[s].mbr >= trx.amount
      /\ Fields(T[s], S[s].balance - trx.amount, S[s].mbr, S[s].nonce + 1, S[s].store, Append(S[s].chain, trx))
      /\ Fields(T[r], S[r].balance + trx.amount, S[r].mbr, S[r].nonce, S[r].store, Append(S[r].chain, trx))
  BY DEF Both, FirstHalf, SecondHalf
<1> HIDE DEF s, r
<1>3. ASSUME NEW x \in Ids
      PROVE  /\ T[x].store = S[x].store /\ T[x].mbr = S[x].mbr
             /\ T[x].balance = IF x = s THEN S[x].balance - trx.amount
                               ELSE IF x = r THEN S[x].balance + trx.amount ELSE S[x].balance
             /\ T[x].nonce = IF x = s THEN S[x].nonce + 1 ELSE S[x].nonce
  BY <1>1, <1>2 DEF Fields
<1> QED
  BY <1>1, <1>2, <1>3 DEF s, r

\* Both halves of an operation together keep the accounts good.
LEMMA GoodBoth ==
  ASSUME NEW S, NEW T, NEW trx, Both(S, T, trx), Good(S)
  PROVE  Good(T)
<1>1. CASE trx.type # "Transfer"
  BY <1>1, GoodToken
<1>2. CASE trx.type = "Transfer"
  <2>1. S \in [Ids -> AccountState] /\ T \in [Ids -> AccountState]
    BY DEF Both
  <2>2. \A x \in Ids : S[x].nonce \in Int
    BY <2>1 DEF AccountState
  <2>3. \A x \in Ids : /\ T[x].store = S[x].store /\ T[x].mbr = S[x].mbr
                       /\ T[x].nonce = IF x = trx.sender THEN S[x].nonce + 1 ELSE S[x].nonce
    BY <1>2, MoneyEffect
  <2>4. ASSUME NEW x \in Ids PROVE T[x].nonce >= S[x].nonce
    <3>1. S[x].nonce \in Int /\ T[x].nonce = IF x = trx.sender THEN S[x].nonce + 1 ELSE S[x].nonce
      BY <2>2, <2>3
    <3> QED
      BY <3>1
  <2> QED
    BY <2>1, <2>3, <2>4, GoodMoney
<1> QED
  BY <1>1, <1>2

\* A transfer of money is one of TokenLedger's.
LEMMA MoneyIsSigned ==
  ASSUME NEW S, NEW T, S = Settled, T = Settled', created' = created,
         NEW trx, Both(S, T, trx), trx.type = "Transfer", Good(S)
  PROVE  \E id \in Ids : Abstract!Signed(id)
<1> DEFINE s == trx.sender
           r == trx.receiver
           a == trx.amount
<1>0. /\ s \in Ids /\ r \in Ids /\ s # r /\ {s, r} \subseteq created
      /\ S \in [Ids -> AccountState] /\ T \in [Ids -> AccountState]
  BY DEF Both, Asked
<1>1. /\ Money(Settled) = Money(S) /\ Money(Settled)' = Money(T)
      /\ Owned(Settled) = Owned(S) /\ Owned(Settled)' = Owned(T)
      /\ Open(Settled) = Open(S) /\ Open(Settled)' = Open(T)
      /\ Frozen(Settled) = Frozen(S) /\ Frozen(Settled)' = Frozen(T)
      /\ Sent(Settled) = Sent(S) /\ Sent(Settled)' = Sent(T)
  BY SettledViews
<1>2. /\ a \in Amounts
      /\ S[s].balance - S[s].mbr >= a
      /\ \A x \in Ids :
           /\ T[x].store = S[x].store
           /\ T[x].balance = IF x = s THEN S[x].balance - a ELSE IF x = r THEN S[x].balance + a ELSE S[x].balance
           /\ T[x].nonce = IF x = s THEN S[x].nonce + 1 ELSE S[x].nonce
  BY MoneyEffect
<1> HIDE DEF s, r, a
<1>3. Owned(T) = Owned(S) /\ Open(T) = Open(S) /\ Frozen(T) = Frozen(S)
  BY <1>2, SameStores
<1>4. Sent(T) = [Sent(S) EXCEPT ![s] = @ + 1]
  BY <1>0, <1>2 DEF Sent
<1>5. Money(T) = [Money(S) EXCEPT ![s] = @ - a, ![r] = @ + a]
  BY <1>0, <1>2 DEF Money
<1>6. a <= Money(S)[s]
  <2>1. S[s].mbr >= 0
    BY <1>0, LockedNat
  <2>2. S[s].mbr \in Int /\ S[s].balance \in Int
    BY <1>0 DEF AccountState
  <2>3. a \in Int /\ S[s].balance - S[s].mbr >= a
    BY <1>2, AmountsAssumption
  <2>4. a <= S[s].balance
    BY <2>1, <2>2, <2>3
  <2> QED
    BY <1>0, <2>4 DEF Money
<1>7. Abstract!Pay(s, r, a)
  BY <1>0, <1>1, <1>3, <1>5, <1>6 DEF Abstract!Pay
<1> QED
  BY <1>0, <1>1, <1>2, <1>4, <1>7 DEF Abstract!Signed

-----------------------------------------------------------------------------
(***************************************************************************)
(* Operations on one account.                                              *)
(***************************************************************************)
\* Outside of an operation the settled accounts are the accounts.
LEMMA SettledIdle == (op.phase \in {"idle", "panicked"} => Settled = accounts) /\ (InFlight => Settled = before)
BY DEF Settled, InFlight

\* Account id spends a number, its slot for t becomes v and its mbr grows by d.
OneEffect(S, T, id, t, v, d) ==
    /\ Leaves(S, T, id, t, [x \in Ids |-> IF x = id THEN v ELSE S[x].store[t]])
    /\ \A x \in Ids : T[x].mbr = IF x = id THEN S[x].mbr + d ELSE S[x].mbr

\* An append to one account.
LEMMA OneAccount ==
  ASSUME NEW S \in [Ids -> AccountState], NEW id \in Ids, NEW t \in TokenIds, NEW v, NEW d, NEW r, NEW c,
         Fields(r, S[id].balance, S[id].mbr + d, S[id].nonce + 1, [S[id].store EXCEPT ![t] = v], c)
  PROVE  OneEffect(S, [S EXCEPT ![id] = r], id, t, v, d)
<1>1. PICK T : T = [S EXCEPT ![id] = r]
  OBVIOUS
<1>2. \A x \in Ids : T[x] = IF x = id THEN r ELSE S[x]
  BY <1>1
<1>3. /\ r.balance = S[id].balance /\ r.mbr = S[id].mbr + d /\ r.nonce = S[id].nonce + 1
      /\ r.store = [S[id].store EXCEPT ![t] = v] /\ S[id].store \in [TokenIds -> SlotStates]
  BY DEF Fields, AccountState
<1>4. \A u \in TokenIds : r.store[u] = IF u = t THEN v ELSE S[id].store[u]
  BY <1>3
<1>5. Leaves(S, T, id, t, [x \in Ids |-> IF x = id THEN v ELSE S[x].store[t]])
  <2>1. \A x \in Ids, u \in TokenIds : u # t => T[x].store[u] = S[x].store[u]
    BY <1>2, <1>4
  <2>2. \A x \in Ids : T[x].store[t] = IF x = id THEN v ELSE S[x].store[t]
    BY <1>2, <1>4
  <2>3. \A x \in Ids : T[x].nonce = IF x = id THEN S[x].nonce + 1 ELSE S[x].nonce
    BY <1>2, <1>3
  <2>4. \A x \in Ids : T[x].balance = S[x].balance
    BY <1>2, <1>3
  <2> QED
    BY <2>1, <2>2, <2>3, <2>4 DEF Leaves
<1>6. \A x \in Ids : T[x].mbr = IF x = id THEN S[x].mbr + d ELSE S[x].mbr
  BY <1>2, <1>3
<1> QED
  BY <1>1, <1>5, <1>6 DEF OneEffect

\* Minting a token.
LEMMA MintTokenEffect ==
  ASSUME accounts \in [Ids -> AccountState], NEW id \in Ids, NEW t \in TokenIds,
         ValidTx(newMintTokenTransaction(id, t)), Single(id, newMintTokenTransaction(id, t))
  PROVE  /\ OneEffect(accounts, accounts', id, t, "held", 10)
         /\ accounts[id].store[t] = "absent" /\ t.minter = id /\ t.nonce = accounts[id].nonce
         /\ accounts'[id].chain = Append(accounts[id].chain, newMintTokenTransaction(id, t))
<1> DEFINE acc == accounts[id]
           trx == newMintTokenTransaction(id, t)
           h   == txHandlers(id, acc, trx)
           r   == appendTransaction(id, acc, trx)
<1>0. trx.type = "MintToken" /\ trx.receiver = id /\ trx.token = t /\ trx.nonce = t.nonce
  BY DEF newMintTokenTransaction, TokenTx
<1>1. r.ok /\ accounts' = [accounts EXCEPT ![id] = r.acc] /\ acc \in AccountState
  BY DEF Single
<1> HIDE DEF trx, acc
<1>2. h.ok
  BY <1>1 DEF appendTransaction, Result
<1>3. /\ h.acc = AddNonce(AddMBR(SetSlot(acc, t, "held"), MBR_TOKEN_COST), 1)
      /\ t.nonce = acc.nonce /\ acc.store[t] = "absent" /\ t.minter = id
  BY <1>0, <1>2 DEF txHandlers, handleMintTokenTx, mintToken, Expecting, Result
<1>4. Fields(h.acc, acc.balance, acc.mbr + MBR_TOKEN_COST, acc.nonce + 1, [acc.store EXCEPT ![t] = "held"], acc.chain)
  <2>1. "held" \in SlotStates /\ MBR_TOKEN_COST \in Int /\ 1 \in Int
    BY DEF SlotStates, MBR_TOKEN_COST
  <2> QED
    BY <1>1, <1>3, <2>1, ComposedFields
<1>5. Fields(r.acc, acc.balance, acc.mbr + 10, acc.nonce + 1, [acc.store EXCEPT ![t] = "held"], Append(acc.chain, trx))
  <2>1. ValidTx(trx)
    BY DEF trx
  <2>2. Fields(r.acc, acc.balance, acc.mbr + MBR_TOKEN_COST, acc.nonce + 1,
               [acc.store EXCEPT ![t] = "held"], Append(acc.chain, trx))
    BY <1>1, <1>4, <2>1, AppendFields
  <2> QED
    BY <2>2 DEF MBR_TOKEN_COST
<1> HIDE DEF r
<1>6. OneEffect(accounts, [accounts EXCEPT ![id] = r.acc], id, t, "held", 10)
  BY <1>5, OneAccount DEF acc
<1>7. accounts'[id].chain = Append(acc.chain, trx)
  BY <1>1, <1>5 DEF Fields
<1> QED
  BY <1>1, <1>3, <1>6, <1>7 DEF acc, trx

\* Burning a token.
LEMMA BurnTokenEffect ==
  ASSUME accounts \in [Ids -> AccountState], NEW id \in Ids, NEW t \in TokenIds, NEW n,
         ValidTx(newBurnTokenTransaction(id, t, n)), Single(id, newBurnTokenTransaction(id, t, n))
  PROVE  /\ OneEffect(accounts, accounts', id, t, "absent", -10)
         /\ Real(accounts[id].store[t]) /\ t.minter = id
         /\ accounts'[id].chain = Append(accounts[id].chain, newBurnTokenTransaction(id, t, n))
<1> DEFINE acc == accounts[id]
           trx == newBurnTokenTransaction(id, t, n)
           h   == txHandlers(id, acc, trx)
           r   == appendTransaction(id, acc, trx)
<1>0. trx.type = "BurnToken" /\ trx.sender = id /\ trx.token = t
  BY DEF newBurnTokenTransaction, TokenTx
<1>1. r.ok /\ accounts' = [accounts EXCEPT ![id] = r.acc] /\ acc \in AccountState
  BY DEF Single
<1> HIDE DEF trx, acc
<1>2. h.ok
  BY <1>1 DEF appendTransaction, Result
<1>3. /\ h.acc = AddNonce(AddMBR(SetSlot(acc, t, "absent"), -MBR_TOKEN_COST), 1)
      /\ Real(acc.store[t]) /\ t.minter = id
  BY <1>0, <1>2 DEF txHandlers, handleBurnTokenTx, burnToken, Expecting, Result
<1>4. Fields(h.acc, acc.balance, acc.mbr + (-MBR_TOKEN_COST), acc.nonce + 1,
             [acc.store EXCEPT ![t] = "absent"], acc.chain)
  <2>1. "absent" \in SlotStates /\ -MBR_TOKEN_COST \in Int /\ 1 \in Int
    BY DEF SlotStates, MBR_TOKEN_COST
  <2> QED
    BY <1>1, <1>3, <2>1, ComposedFields
<1>5. Fields(r.acc, acc.balance, acc.mbr + (-10), acc.nonce + 1, [acc.store EXCEPT ![t] = "absent"],
             Append(acc.chain, trx))
  <2>1. ValidTx(trx)
    BY DEF trx
  <2>2. Fields(r.acc, acc.balance, acc.mbr + (-MBR_TOKEN_COST), acc.nonce + 1,
               [acc.store EXCEPT ![t] = "absent"], Append(acc.chain, trx))
    BY <1>1, <1>4, <2>1, AppendFields
  <2> QED
    BY <2>2 DEF MBR_TOKEN_COST
<1> HIDE DEF r
<1>6. OneEffect(accounts, [accounts EXCEPT ![id] = r.acc], id, t, "absent", -10)
  BY <1>5, OneAccount DEF acc
<1>7. accounts'[id].chain = Append(acc.chain, trx)
  BY <1>1, <1>5 DEF Fields
<1> QED
  BY <1>1, <1>3, <1>6, <1>7 DEF acc, trx

\* A token that is minted is new: its number was not used before.
LEMMA MintedIsNew ==
  ASSUME NEW S \in [Ids -> AccountState], Good(S), NEW t \in TokenIds, t.nonce = S[t.minter].nonce
  PROVE  ~Exists(S, t)
<1>1. t.nonce \in Int /\ ~(t.nonce < t.nonce)
  BY NonceAssumption DEF TokenIds
<1> QED
  BY <1>1 DEF Exists, Good, NumberSpent

\* Minting a token is one step of TokenLedger and keeps the accounts good.
LEMMA MintTokenStep ==
  ASSUME NEW S \in [Ids -> AccountState], NEW T \in [Ids -> AccountState], Good(S),
         NEW id \in Ids, NEW t \in TokenIds, OneEffect(S, T, id, t, "held", 10),
         S[id].store[t] = "absent", t.minter = id, t.nonce = S[id].nonce
  PROVE  /\ Good(T)
         /\ Money(T) = Money(S) /\ Spends(S, T, id)
         /\ Owned(T) = Owned(S) \cup {<<id, t>>} /\ Open(T) = Open(S) /\ Frozen(T) = Frozen(S)
<1> DEFINE st == [x \in Ids |-> IF x = id THEN "held" ELSE S[x].store[t]]
<1>1. /\ Leaves(S, T, id, t, st)
      /\ \A x \in Ids : T[x].mbr = IF x = id THEN S[x].mbr + 10 ELSE S[x].mbr
  BY DEF OneEffect
<1>2. \A x \in Ids : T[x].store[t] = st[x] /\ st[x] = IF x = id THEN "held" ELSE S[x].store[t]
  BY <1>1 DEF Leaves
<1> HIDE DEF st
<1>3. ~Exists(S, t) /\ \A x \in Ids : ~Real(S[x].store[t])
  BY MintedIsNew DEF Exists
<1>4. ~IsFrozen(S, t) /\ ~IsFrozen(T, t)
  BY <1>2, <1>3 DEF IsFrozen, Real
<1>5. \A x, y \in Ids : Real(st[x]) /\ Real(st[y]) => x = y
  BY <1>2, <1>3
<1>6. ASSUME NEW x \in Ids PROVE T[x].mbr - S[x].mbr >= Share(T, x, t) - Share(S, x, t)
  <2>1. Share(S, x, t) = 0 + (IF S[x].store[t] = "placeholder" THEN 5 ELSE 0) + 0
    BY <1>3, <1>4, ShareValue
  <2>2. Share(T, x, t) = (IF Exists(T, t) /\ id = x THEN 10 ELSE 0)
                         + (IF T[x].store[t] = "placeholder" THEN 5 ELSE 0) + 0
    BY <1>4, ShareValue
  <2>3. S[x].mbr \in Int /\ T[x].mbr = IF x = id THEN S[x].mbr + 10 ELSE S[x].mbr
    BY <1>1 DEF AccountState
  <2>4. T[x].store[t] = IF x = id THEN "held" ELSE S[x].store[t]
    BY <1>2
  <2>5. CASE x = id
    BY <2>1, <2>2, <2>3, <2>4, <2>5
  <2>6. CASE x # id
    BY <2>1, <2>2, <2>3, <2>4, <2>6
  <2> QED
    BY <2>5, <2>6
<1>7. Good(T)
  BY <1>1, <1>5, <1>6, GoodLeaves
<1>8. Touches(S, T, t) /\ Money(T) = Money(S) /\ Spends(S, T, id)
  BY <1>1, LeavesViews
<1>9. /\ \A x \in Ids, u \in TokenIds : <<x, u>> \in Owned(S) <=> Real(S[x].store[u])
      /\ \A x \in Ids, u \in TokenIds : <<x, u>> \in Open(S) <=> Vacant(S[x].store[u])
      /\ Owned(S) \in SUBSET (Ids \X TokenIds) /\ Open(S) \in SUBSET (Ids \X TokenIds)
      /\ Frozen(S) \in SUBSET TokenIds
  BY InViews DEF Owned, Open, Frozen
<1>10. \A x \in Ids : /\ Real(T[x].store[t]) <=> x = id
                      /\ Vacant(T[x].store[t]) <=> Vacant(S[x].store[t])
  BY <1>2, <1>3 DEF Real, Vacant
<1>11. Owned(T) = Owned(S) \cup {<<id, t>>}
  <2> DEFINE A == Owned(S) \cup {<<id, t>>}
  <2>1. A \in SUBSET (Ids \X TokenIds)
    BY <1>9
  <2>2. \A x \in Ids : <<x, t>> \in A <=> Real(T[x].store[t])
    BY <1>3, <1>9, <1>10
  <2>3. \A x \in Ids, u \in TokenIds : u # t => (<<x, u>> \in A <=> Real(S[x].store[u]))
    BY <1>9
  <2> HIDE DEF A
  <2>4. HeldIn(A, S, T, t)
    BY <2>2, <2>3 DEF HeldIn
  <2> QED
    BY <1>8, <2>1, <2>4, OwnedStep DEF A
<1>12. Open(T) = Open(S)
  <2>1. VacantIn(Open(S), S, T, t)
    BY <1>9, <1>10 DEF VacantIn
  <2> QED
    BY <1>8, <1>9, <2>1, OpenStep
<1>13. Frozen(T) = Frozen(S)
  <2>1. t \notin Frozen(S)
    BY <1>4 DEF Frozen, IsFrozen
  <2>2. ~\E x \in Ids : T[x].store[t] = "frozen"
    BY <1>4 DEF IsFrozen
  <2> QED
    BY <1>8, <1>9, <2>1, <2>2, FrozenStep
<1> QED
  BY <1>7, <1>8, <1>11, <1>12, <1>13

\* So is burning one.
LEMMA BurnTokenStep ==
  ASSUME NEW S \in [Ids -> AccountState], NEW T \in [Ids -> AccountState], Good(S),
         NEW id \in Ids, NEW t \in TokenIds, OneEffect(S, T, id, t, "absent", -10),
         Real(S[id].store[t]), t.minter = id
  PROVE  /\ Good(T)
         /\ Money(T) = Money(S) /\ Spends(S, T, id)
         /\ <<id, t>> \in Owned(S)
         /\ Owned(T) = Owned(S) \ {<<id, t>>} /\ Open(T) = Open(S) /\ Frozen(T) = Frozen(S) \ {t}
<1> DEFINE st == [x \in Ids |-> IF x = id THEN "absent" ELSE S[x].store[t]]
<1>1. /\ Leaves(S, T, id, t, st)
      /\ \A x \in Ids : T[x].mbr = IF x = id THEN S[x].mbr + (-10) ELSE S[x].mbr
  BY DEF OneEffect
<1>2. \A x \in Ids : T[x].store[t] = st[x] /\ st[x] = IF x = id THEN "absent" ELSE S[x].store[t]
  BY <1>1 DEF Leaves
<1> HIDE DEF st
<1>3. \A x \in Ids : x # id => ~Real(S[x].store[t])
  BY DEF Good, OneHolder
<1>4. /\ ~Exists(T, t) /\ ~IsFrozen(T, t) /\ Exists(S, t)
      /\ \A x \in Ids : ~Real(T[x].store[t])
  BY <1>2, <1>3 DEF Exists, IsFrozen, Real
<1>5. \A x, y \in Ids : Real(st[x]) /\ Real(st[y]) => x = y
  BY <1>2, <1>4
<1>6. ASSUME NEW x \in Ids PROVE T[x].mbr - S[x].mbr >= Share(T, x, t) - Share(S, x, t)
  <2> DEFINE f == IF IsFrozen(S, t) /\ FreezeAddress(t) = x THEN 1 ELSE 0
  <2>1. Share(S, x, t) = (IF id = x THEN 10 ELSE 0) + (IF S[x].store[t] = "placeholder" THEN 5 ELSE 0) + f
    BY <1>4, ShareValue
  <2>2. Share(T, x, t) = 0 + (IF T[x].store[t] = "placeholder" THEN 5 ELSE 0) + 0
    BY <1>4, ShareValue
  <2>3. S[x].mbr \in Int /\ T[x].mbr = IF x = id THEN S[x].mbr + (-10) ELSE S[x].mbr
    BY <1>1 DEF AccountState
  <2>4. T[x].store[t] = IF x = id THEN "absent" ELSE S[x].store[t]
    BY <1>2
  <2>5. f \in Int /\ f >= 0
    OBVIOUS
  <2>6. id = x => S[x].store[t] # "placeholder"
    BY DEF Real
  <2> HIDE DEF f
  <2>7. CASE x = id
    BY <2>1, <2>2, <2>3, <2>4, <2>5, <2>6, <2>7
  <2>8. CASE x # id
    BY <2>1, <2>2, <2>3, <2>4, <2>5, <2>8
  <2> QED
    BY <2>7, <2>8
<1>7. Good(T)
  BY <1>1, <1>4, <1>5, <1>6, GoodLeaves
<1>8. Touches(S, T, t) /\ Money(T) = Money(S) /\ Spends(S, T, id)
  BY <1>1, LeavesViews
<1>9. /\ \A x \in Ids, u \in TokenIds : <<x, u>> \in Owned(S) <=> Real(S[x].store[u])
      /\ \A x \in Ids, u \in TokenIds : <<x, u>> \in Open(S) <=> Vacant(S[x].store[u])
      /\ Owned(S) \in SUBSET (Ids \X TokenIds) /\ Open(S) \in SUBSET (Ids \X TokenIds)
      /\ Frozen(S) \in SUBSET TokenIds
  BY InViews DEF Owned, Open, Frozen
<1>10. \A x \in Ids : Vacant(T[x].store[t]) <=> Vacant(S[x].store[t])
  BY <1>2 DEF Real, Vacant
<1>11. Owned(T) = Owned(S) \ {<<id, t>>}
  <2> DEFINE A == Owned(S) \ {<<id, t>>}
  <2>1. A \in SUBSET (Ids \X TokenIds)
    BY <1>9
  <2>2. \A x \in Ids : <<x, t>> \in A <=> Real(T[x].store[t])
    BY <1>3, <1>4, <1>9
  <2>3. \A x \in Ids, u \in TokenIds : u # t => (<<x, u>> \in A <=> Real(S[x].store[u]))
    BY <1>9
  <2> HIDE DEF A
  <2>4. HeldIn(A, S, T, t)
    BY <2>2, <2>3 DEF HeldIn
  <2> QED
    BY <1>8, <2>1, <2>4, OwnedStep DEF A
<1>12. Open(T) = Open(S)
  <2>1. VacantIn(Open(S), S, T, t)
    BY <1>9, <1>10 DEF VacantIn
  <2> QED
    BY <1>8, <1>9, <2>1, OpenStep
<1>13. Frozen(T) = Frozen(S) \ {t}
  <2> DEFINE F == Frozen(S) \ {t}
  <2>1. t \notin F /\ F \in SUBSET TokenIds /\ \A u \in TokenIds : u # t => (u \in F <=> u \in Frozen(S))
    BY <1>9
  <2>2. ~\E x \in Ids : T[x].store[t] = "frozen"
    BY <1>4 DEF IsFrozen
  <2> HIDE DEF F
  <2>3. t \in F <=> \E x \in Ids : T[x].store[t] = "frozen"
    BY <2>1, <2>2
  <2>4. Frozen(T) = F
    BY <1>8, <2>1, <2>3, FrozenStep
  <2> QED
    BY <2>4 DEF F
<1>14. <<id, t>> \in Owned(S)
  BY <1>9
<1> QED
  BY <1>7, <1>8, <1>11, <1>12, <1>13, <1>14

\* The two as steps of TokenLedger.
LEMMA OneIsSigned ==
  ASSUME NEW S, NEW T, S = Settled, T = Settled', created' = created, NEW id \in Ids, id \in created,
         NEW t \in TokenIds, t.minter = id, S \in [Ids -> AccountState],
         Money(T) = Money(S), Spends(S, T, id), Open(T) = Open(S),
         \/ Owned(T) = Owned(S) \cup {<<id, t>>} /\ t.nonce = S[id].nonce /\ Frozen(T) = Frozen(S)
         \/ /\ Owned(T) = Owned(S) \ {<<id, t>>} /\ <<id, t>> \in Owned(S) /\ Frozen(T) = Frozen(S) \ {t}
  PROVE  Abstract!Signed(id)
<1>1. /\ Money(Settled) = Money(S) /\ Money(Settled)' = Money(T)
      /\ Owned(Settled) = Owned(S) /\ Owned(Settled)' = Owned(T)
      /\ Open(Settled) = Open(S) /\ Open(Settled)' = Open(T)
      /\ Frozen(Settled) = Frozen(S) /\ Frozen(Settled)' = Frozen(T)
      /\ Sent(Settled) = Sent(S) /\ Sent(Settled)' = Sent(T)
  BY SettledViews
<1>2. Sent(Settled)' = [Sent(Settled) EXCEPT ![id] = @ + 1] /\ Sent(Settled)[id] = S[id].nonce
  BY <1>1 DEF Spends, Sent
<1>3. Abstract!Issue(id, t) \/ Abstract!Destroy(id, t)
  <2>1. CASE Owned(T) = Owned(S) \cup {<<id, t>>} /\ t.nonce = S[id].nonce /\ Frozen(T) = Frozen(S)
    <3>1. Abstract!Issue(id, t)
      BY <1>1, <1>2, <2>1 DEF Abstract!Issue
    <3> QED
      BY <3>1
  <2>2. CASE Owned(T) = Owned(S) \ {<<id, t>>} /\ <<id, t>> \in Owned(S) /\ Frozen(T) = Frozen(S) \ {t}
    <3>1. Abstract!Destroy(id, t)
      BY <1>1, <2>2 DEF Abstract!Destroy
    <3> QED
      BY <3>1
  <2> QED
    BY <2>1, <2>2
<1> QED
  BY <1>2, <1>3 DEF Abstract!Signed

\* Money that comes in.
LEMMA MintFields ==
  ASSUME NEW S \in [Ids -> AccountState], NEW id \in Ids, NEW x \in Int
  PROVE  LET trx == newMintTransaction(id, x)
             r   == appendTransaction(id, S[id], trx).acc
         IN  Fields(r, S[id].balance + x, S[id].mbr, S[id].nonce, S[id].store, Append(S[id].chain, trx))
<1> DEFINE trx == newMintTransaction(id, x)
<1>1. ValidTx(trx) /\ trx.type = "Mint" /\ trx.amount = x
  BY NewMoneyTx DEF newMintTransaction, MoneyTx
<1>2. S[id] \in AccountState
  OBVIOUS
<1> HIDE DEF trx
<1>3. txHandlers(id, S[id], trx).acc = AddBalance(S[id], x)
  BY <1>1 DEF txHandlers, handleMintTx, Result
<1>4. Fields(AddBalance(S[id], x), S[id].balance + x, S[id].mbr, S[id].nonce, S[id].store, S[id].chain)
  BY <1>2, AssignmentFields
<1>5. Fields(appendTransaction(id, S[id], trx).acc,
             S[id].balance + x, S[id].mbr, S[id].nonce, S[id].store, Append(S[id].chain, trx))
  BY <1>1, <1>2, <1>3, <1>4, AppendFields
<1> QED
  BY <1>5 DEF trx

\* What TokenLedger sees of it.
MintView(S, T, id, x) ==
    /\ Money(T) = [Money(S) EXCEPT ![id] = @ + x] /\ Sent(T) = Sent(S)
    /\ Owned(T) = Owned(S) /\ Open(T) = Open(S) /\ Frozen(T) = Frozen(S)

\* It changes one balance.
LEMMA MintStep ==
  ASSUME NEW S \in [Ids -> AccountState], Good(S), NEW id \in Ids, NEW x \in Int, NEW r, NEW c,
         Fields(r, S[id].balance + x, S[id].mbr, S[id].nonce, S[id].store, c),
         NEW T, T = [S EXCEPT ![id] = r]
  PROVE  Good(T) /\ MintView(S, T, id, x)
<1>1. T = [S EXCEPT ![id] = r]
  OBVIOUS
<1>2. /\ r \in AccountState /\ r.balance = S[id].balance + x
      /\ r.mbr = S[id].mbr /\ r.nonce = S[id].nonce /\ r.store = S[id].store
  BY DEF Fields
<1>3. T \in [Ids -> AccountState]
  BY <1>1, <1>2
<1>4. \A y \in Ids : T[y] = IF y = id THEN r ELSE S[y]
  BY <1>1
<1>5. \A y \in Ids : T[y].store = S[y].store /\ T[y].mbr = S[y].mbr /\ T[y].nonce = S[y].nonce
  BY <1>2, <1>4
<1>6. ASSUME NEW y \in Ids PROVE T[y].nonce >= S[y].nonce
  <2>1. S[y].nonce \in Int /\ T[y].nonce = S[y].nonce
    BY <1>5 DEF AccountState
  <2> QED
    BY <2>1
<1>7. Good(T)
  BY <1>3, <1>5, <1>6, GoodMoney
<1>8. Money(T) = [Money(S) EXCEPT ![id] = @ + x]
  BY <1>2, <1>4 DEF Money
<1>9. Sent(T) = Sent(S)
  BY <1>5 DEF Sent
<1>10. Owned(T) = Owned(S) /\ Open(T) = Open(S) /\ Frozen(T) = Frozen(S)
  BY <1>5, SameStores
<1> QED
  BY <1>7, <1>8, <1>9, <1>10 DEF MintView

\* What TokenLedger sees of it.
LapseView(S, T, id, t) ==
    /\ Money(T) = Money(S) /\ Sent(T) = Sent(S) /\ <<id, t>> \in Open(S)
    /\ Owned(T) = Owned(S) /\ Open(T) = Open(S) \ {<<id, t>>} /\ Frozen(T) = Frozen(S)

\* Undoing a repeated authorization closes the slot.
LEMMA LapseStep ==
  ASSUME NEW S \in [Ids -> AccountState], Good(S), NEW id \in Ids, NEW t \in TokenIds, NEW q,
         S[id].store[t] = "placeholder", Lapsed(S[id], t, q),
         NEW T, T = [S EXCEPT ![id] = q]
  PROVE  Good(T) /\ LapseView(S, T, id, t)
<1>1. T = [S EXCEPT ![id] = q]
  OBVIOUS
<1>2. /\ q \in AccountState /\ q.balance = S[id].balance /\ q.mbr = S[id].mbr - 5 /\ q.nonce = S[id].nonce
      /\ q.store = [S[id].store EXCEPT ![t] = "absent"] /\ S[id].store \in [TokenIds -> SlotStates]
  BY DEF Lapsed, Fields, MBR_SLOT_COST, AccountState
<1>3. T \in [Ids -> AccountState]
  BY <1>1, <1>2
<1>4. \A y \in Ids : T[y] = IF y = id THEN q ELSE S[y]
  BY <1>1
<1>5. \A y \in Ids : T[y].balance = S[y].balance /\ T[y].nonce = S[y].nonce
  BY <1>2, <1>4
<1>6. \A u \in TokenIds : q.store[u] = IF u = t THEN "absent" ELSE S[id].store[u]
  BY <1>2
<1>7. /\ \A y \in Ids : T[y].store[t] = IF y = id THEN "absent" ELSE S[y].store[t]
      /\ \A y \in Ids, u \in TokenIds : u # t => T[y].store[u] = S[y].store[u]
  BY <1>4, <1>6
<1>8. Touches(S, T, t)
  <2>1. \A y \in Ids : S[y].nonce \in Int
    BY DEF AccountState
  <2> QED
    BY <1>5, <1>7, <2>1 DEF Touches
<1>9. \A y \in Ids : /\ Real(T[y].store[t]) <=> Real(S[y].store[t])
                     /\ Vacant(T[y].store[t]) <=> y # id /\ Vacant(S[y].store[t])
  BY <1>7 DEF Real, Vacant
<1>10. (Exists(T, t) => Exists(S, t)) /\ (IsFrozen(T, t) <=> IsFrozen(S, t))
  <2>1. Exists(T, t) => Exists(S, t)
    BY <1>9 DEF Exists
  <2>2. \A y \in Ids : T[y].store[t] = "frozen" <=> S[y].store[t] = "frozen"
    BY <1>7
  <2>3. IsFrozen(T, t) <=> IsFrozen(S, t)
    BY <2>2 DEF IsFrozen
  <2> QED
    BY <2>1, <2>3
<1>11. ASSUME NEW y \in Ids PROVE T[y].mbr - S[y].mbr >= Share(T, y, t) - Share(S, y, t)
  <2>1. S[y].mbr \in Int /\ T[y].mbr \in Int
    BY <1>3 DEF AccountState
  <2>2. T[y].mbr = IF y = id THEN S[y].mbr - 5 ELSE S[y].mbr
    BY <1>2, <1>4
  <2>3. T[y].store[t] = IF y = id THEN "absent" ELSE S[y].store[t]
    BY <1>7
  <2>4. T[y].mbr - S[y].mbr >=
          (IF T[y].store[t] = "placeholder" THEN 5 ELSE 0)
            + (IF IsFrozen(T, t) /\ FreezeAddress(t) = y THEN 1 ELSE 0)
            - (IF S[y].store[t] = "placeholder" THEN 5 ELSE 0)
            - (IF IsFrozen(S, t) /\ FreezeAddress(t) = y THEN 1 ELSE 0)
    BY <1>10, <2>1, <2>2, <2>3
  <2> QED
    BY <1>10, <2>1, <2>4, ShareStep
<1>12. Good(T)
  <2>1. \A x, y \in Ids : Real(T[x].store[t]) /\ Real(T[y].store[t]) => x = y
    BY <1>9 DEF Good, OneHolder
  <2>2. \A x \in Ids : Real(T[x].store[t]) => t.nonce < T[t.minter].nonce
    <3>1. t.minter \in Ids
      BY MinterAssumption DEF TokenIds
    <3> QED
      BY <1>5, <1>9, <3>1 DEF Good, NumberSpent
  <2> QED
    BY <1>3, <1>8, <1>11, <2>1, <2>2, GoodStep
<1>13. Money(T) = Money(S) /\ Sent(T) = Sent(S)
  BY <1>5 DEF Money, Sent
<1>14. /\ \A x \in Ids, u \in TokenIds : <<x, u>> \in Owned(S) <=> Real(S[x].store[u])
       /\ \A x \in Ids, u \in TokenIds : <<x, u>> \in Open(S) <=> Vacant(S[x].store[u])
       /\ Owned(S) \in SUBSET (Ids \X TokenIds) /\ Open(S) \in SUBSET (Ids \X TokenIds)
       /\ Frozen(S) \in SUBSET TokenIds
  BY InViews DEF Owned, Open, Frozen
<1>15. Owned(T) = Owned(S)
  <2>1. HeldIn(Owned(S), S, T, t)
    BY <1>9, <1>14 DEF HeldIn
  <2> QED
    BY <1>3, <1>8, <1>14, <2>1, OwnedStep
<1>16. Open(T) = Open(S) \ {<<id, t>>} /\ <<id, t>> \in Open(S)
  <2> DEFINE A == Open(S) \ {<<id, t>>}
  <2>1. A \in SUBSET (Ids \X TokenIds)
    BY <1>14
  <2>2. \A x \in Ids : <<x, t>> \in A <=> Vacant(T[x].store[t])
    BY <1>9, <1>14
  <2>3. \A x \in Ids, u \in TokenIds : u # t => (<<x, u>> \in A <=> Vacant(S[x].store[u]))
    BY <1>14
  <2>4. <<id, t>> \in Open(S)
    BY <1>14 DEF Vacant
  <2> HIDE DEF A
  <2>5. VacantIn(A, S, T, t)
    BY <2>2, <2>3 DEF VacantIn
  <2>6. Open(T) = A
    BY <1>3, <1>8, <2>1, <2>5, OpenStep
  <2> QED
    BY <2>4, <2>6 DEF A
<1>17. Frozen(T) = Frozen(S)
  <2>1. \A y \in Ids, u \in TokenIds : T[y].store[u] = "frozen" <=> S[y].store[u] = "frozen"
    BY <1>7
  <2> QED
    BY <2>1 DEF Frozen
<1> QED
  BY <1>12, <1>13, <1>15, <1>16, <1>17 DEF LapseView
=============================================================================
