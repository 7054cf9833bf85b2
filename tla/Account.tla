------------------------------- MODULE Account -------------------------------
(***************************************************************************)
(* One account of the ledger: internal/scalegraph/account.go with the      *)
(* token, transaction and chain types it is built from.                    *)
(*                                                                         *)
(* Everything here is a pure operator.  A transaction handler takes the    *)
(* account's own id, the account and a transaction, and returns            *)
(*     [ok |-> did it return nil, acc |-> the account it leaves behind];   *)
(* acc is meaningful only when ok.  Every handler in the code checks       *)
(* before it writes, so a handler that fails leaves the account alone.     *)
(*                                                                         *)
(* Money is counted in tenths: the cost constants 0.5, 1.0 and 0.1 become  *)
(* 5, 10 and 1.                                                            *)
(***************************************************************************)
EXTENDS Integers, Sequences

CONSTANTS
    Ids,        \* the ScalegraphIds accounts may have
    Minters,    \* bound: the accounts that mint tokens
    None,       \* Go's nil: no account, no address, no token
    Terms,      \* the clawback and freeze addresses a token may be minted with
    MaxNonce    \* bound: no account sends more than MaxNonce transactions

ASSUME NoneAssumption   == None \notin Ids
ASSUME MinterAssumption == Minters \subseteq Ids
ASSUME TermsAssumption  == Terms \subseteq [clawback : Ids \cup {None}, freeze : Ids \cup {None}]
ASSUME NonceAssumption  == MaxNonce \in Nat

MBR_SLOT_COST     == 5
MBR_TOKEN_COST    == 10
MBR_FREEZE_COST   == 1
MBR_UNFREEZE_COST == 1

Nonces == 0 .. MaxNonce

(***************************************************************************)
(* A token's id is the hex of the minter's Ed25519 signature over the mint *)
(* payload.  The signature is deterministic, so the id stands for exactly  *)
(* what was signed: who minted it, with which nonce, on which terms.  The  *)
(* only part of a Token that ever changes is its frozen flag.              *)
(***************************************************************************)
TokenIds == [minter : Minters, nonce : 0 .. (MaxNonce - 1), terms : Terms]

ClawbackAddress(t) == t.terms.clawback
FreezeAddress(t)   == t.terms.freeze

\* tokenStore[id]: no entry, the &Token{} placeholder, a token, a frozen token.
SlotStates == {"absent", "placeholder", "held", "frozen"}

\* A slot that holds a real token rather than nothing or a placeholder.
Real(slot) == slot \in {"held", "frozen"}

TransactionType ==
    {"Mint", "Transfer", "Burn", "MintToken", "TransferToken",
     "AuthorizeTokenTransfer", "UnauthorizeTokenTransfer", "BurnToken",
     "ClawbackTokenTransfer", "FreezeToken", "UnfreezeToken"}

(***************************************************************************)
(* One record shape for the eleven transaction structs.  `slot' is the     *)
(* token object a transfer or a clawback carries, with its frozen flag.    *)
(* Mint, Transfer and Burn carry no nonce in the code (0 here).  Nothing   *)
(* on the way from REST or MCP looks at the sign of an amount.             *)
(***************************************************************************)
Transaction ==
    [type : TransactionType, sender : Ids \cup {None}, receiver : Ids \cup {None},
     token : TokenIds \cup {None}, slot : SlotStates, amount : Int, nonce : Nonces]

MoneyTx(type, sender, receiver, amount) ==
    [type |-> type, sender |-> sender, receiver |-> receiver, token |-> None,
     slot |-> "absent", amount |-> amount, nonce |-> 0]

TokenTx(type, sender, receiver, t, slot, nonce) ==
    [type |-> type, sender |-> sender, receiver |-> receiver, token |-> t,
     slot |-> slot, amount |-> 0, nonce |-> nonce]

newMintTransaction(to, amount)           == MoneyTx("Mint", None, to, amount)
newTransferTransaction(from, to, amount) == MoneyTx("Transfer", from, to, amount)
newBurnTransaction(from, amount)         == MoneyTx("Burn", None, from, amount)
newMintTokenTransaction(to, t)           == TokenTx("MintToken", None, to, t, "held", t.nonce)
newBurnTokenTransaction(from, t, n)      == TokenTx("BurnToken", from, None, t, "absent", n)
newTransferTokenTransaction(from, to, t, slot, n) ==
    TokenTx("TransferToken", from, to, t, slot, n)
newAuthorizeTokenTransferTransaction(authorizer, owner, t, n) ==
    TokenTx("AuthorizeTokenTransfer", authorizer, owner, t, "absent", n)
newUnauthorizeTokenTransferTransaction(authorizer, owner, t, n) ==
    TokenTx("UnauthorizeTokenTransfer", authorizer, owner, t, "absent", n)
newClawbackTokenTransaction(from, to, t, slot, n) ==
    TokenTx("ClawbackTokenTransfer", from, to, t, slot, n)
newFreezeTokenTransaction(authority, holder, t, n) ==
    TokenTx("FreezeToken", authority, holder, t, "absent", n)
newUnfreezeTokenTransaction(authority, holder, t, n) ==
    TokenTx("UnfreezeToken", authority, holder, t, "absent", n)

(***************************************************************************)
(* The account.  `nonce' is outgoingTxCount; `chain' is the blockchain     *)
(* after its genesis block, one transaction per block.                     *)
(***************************************************************************)
AccountState ==
    [balance : Int, mbr : Int, nonce : Int,
     store : [TokenIds -> SlotStates], chain : Seq(Transaction)]

newAccountWithPublicKey ==
    [balance |-> 0, mbr |-> 0, nonce |-> 0,
     store |-> [t \in TokenIds |-> "absent"], chain |-> << >>]

GetNonce(acc)    == acc.nonce
GetToken(acc, t) == Real(acc.store[t])
Available(acc)   == acc.balance - acc.mbr

Result(ok, acc) == [ok |-> ok, acc |-> acc]

\* The assignments handlers are made of.
SetSlot(acc, t, slot) == [acc EXCEPT !.store[t] = slot]
AddBalance(acc, x)    == [acc EXCEPT !.balance = @ + x]
AddMBR(acc, x)        == [acc EXCEPT !.mbr = @ + x]
AddNonce(acc, x)      == [acc EXCEPT !.nonce = @ + x]

\* Blockchain.append and removeLatestBlock.
AddBlock(acc, trx)     == [acc EXCEPT !.chain = Append(@, trx)]
removeLatestBlock(acc) == [acc EXCEPT !.chain = SubSeq(@, 1, Len(@) - 1)]

-----------------------------------------------------------------------------
(***************************************************************************)
(* The token store's primitives.                                           *)
(***************************************************************************)
\* Mutant of mintToken: the funds are not looked at.
MintOnCredit(self, acc, t) ==
    Result(acc.store[t] = "absent" /\ t.minter = self,
           AddMBR(SetSlot(acc, t, "held"), MBR_TOKEN_COST))

mintToken(self, acc, t) ==
    Result(/\ acc.store[t] = "absent"
           /\ t.minter = self
           /\ Available(acc) >= MBR_TOKEN_COST,
           AddMBR(SetSlot(acc, t, "held"), MBR_TOKEN_COST))

\* Mutant of addTokenFromTransfer: releases a token's cost, not the slot's.
ReleasingTokenCost(acc, t, slot) ==
    Result(acc.store[t] = "placeholder",
           AddMBR(SetSlot(acc, t, slot), -MBR_TOKEN_COST))

addTokenFromTransfer(acc, t, slot) ==
    Result(acc.store[t] = "placeholder",
           AddMBR(SetSlot(acc, t, slot), -MBR_SLOT_COST))

removeToken(acc, t) ==
    Result(acc.store[t] # "absent", SetSlot(acc, t, "absent"))

addToken(acc, t, slot) ==
    Result(acc.store[t] = "absent", SetSlot(acc, t, slot))

burnToken(self, acc, t) ==
    Result(/\ Real(acc.store[t])
           /\ t.minter = self,
           AddMBR(SetSlot(acc, t, "absent"), -MBR_TOKEN_COST))

\* A handler that goes on to succeed only if its nonce is the expected one.
Expecting(trx, acc, res) == Result(trx.nonce = acc.nonce /\ res.ok, AddNonce(res.acc, 1))

-----------------------------------------------------------------------------
(***************************************************************************)
(* Transaction handlers.  In every two-party handler the sender's branch   *)
(* is tested first: an account that is both parties always takes it.       *)
(***************************************************************************)
handleMintTx(self, acc, trx) == Result(TRUE, AddBalance(acc, trx.amount))

\* Mutant of handleTransferTx: the sender is not debited.
TransferWithoutDebit(self, acc, trx) ==
    IF trx.sender = self
    THEN Result(Available(acc) >= trx.amount, AddNonce(acc, 1))
    ELSE Result(TRUE, AddBalance(acc, trx.amount))

\* The two IFs of the code; App never lets sender and receiver be the same.
handleTransferTx(self, acc, trx) ==
    LET paid == IF trx.sender = self
                THEN Result(Available(acc) >= trx.amount,
                            AddNonce(AddBalance(acc, -trx.amount), 1))
                ELSE Result(TRUE, acc)
    IN  IF trx.receiver = self
        THEN Result(paid.ok, AddBalance(paid.acc, trx.amount))
        ELSE paid

handleBurnTx(self, acc, trx) ==
    IF trx.receiver = self
    THEN Result(Available(acc) >= trx.amount, AddBalance(acc, -trx.amount))
    ELSE Result(TRUE, acc)

handleMintTokenTx(self, acc, trx) ==
    IF trx.receiver = self
    THEN Expecting(trx, acc, mintToken(self, acc, trx.token))
    ELSE Result(trx.sender # self, acc)

\* Mutant of handleTransferTokenTx: the frozen flag is not looked at.
TransferFrozenToo(self, acc, trx) ==
    IF trx.sender = self
    THEN Expecting(trx, acc, removeToken(acc, trx.token))
    ELSE LET added == addTokenFromTransfer(acc, trx.token, trx.slot)
         IN  Result(trx.receiver = self /\ added.ok, added.acc)

handleTransferTokenTx(self, acc, trx) ==
    IF trx.sender = self
    THEN LET removed == removeToken(acc, trx.token)
         IN  Expecting(trx, acc,
                       Result(acc.store[trx.token] # "frozen" /\ removed.ok, removed.acc))
    ELSE LET added == addTokenFromTransfer(acc, trx.token, trx.slot)
         IN  Result(trx.receiver = self /\ added.ok, added.acc)

\* The authorizer reserves a slot, at a cost unless it already has it.
handleAuthorizeTokenTransferTx(self, acc, trx) ==
    LET slot == acc.store[trx.token]
    IN  IF trx.sender = self
        THEN Expecting(trx, acc,
                 IF slot = "absent"
                 THEN Result(Available(acc) >= MBR_SLOT_COST,
                             AddMBR(SetSlot(acc, trx.token, "placeholder"), MBR_SLOT_COST))
                 ELSE Result(slot = "placeholder", acc))
        ELSE Result(trx.receiver = self /\ Real(slot), acc)

handleUnauthorizeTokenTransferTx(self, acc, trx) ==
    LET slot == acc.store[trx.token]
    IN  IF trx.sender = self
        THEN Expecting(trx, acc,
                 Result(slot = "placeholder",
                        AddMBR(SetSlot(acc, trx.token, "absent"), -MBR_SLOT_COST)))
        ELSE Result(trx.receiver = self /\ Real(slot), acc)

handleBurnTokenTx(self, acc, trx) ==
    LET burnt == burnToken(self, acc, trx.token)
    IN  Expecting(trx, acc, Result(trx.sender = self /\ burnt.ok, burnt.acc))

\* Mutant of handleClawbackTokenTx: the holder keeps its token.
ClawbackByCopy(self, acc, trx) ==
    IF trx.sender = self
    THEN Result(acc.store[trx.token] # "absent", acc)
    ELSE LET added == addToken(acc, trx.token, trx.slot)
         IN  Expecting(trx, acc, Result(trx.receiver = self /\ added.ok, added.acc))

\* The receiver is the clawback authority, and the one whose nonce counts.
handleClawbackTokenTx(self, acc, trx) ==
    IF trx.sender = self
    THEN removeToken(acc, trx.token)
    ELSE LET added == addToken(acc, trx.token, trx.slot)
         IN  Expecting(trx, acc, Result(trx.receiver = self /\ added.ok, added.acc))

\* Mutant of handleFreezeTokenTx: MBR is locked that the authority does not have.
FreezeOnCredit(self, acc, trx) ==
    IF trx.sender = self
    THEN Expecting(trx, acc, Result(TRUE, AddMBR(acc, MBR_FREEZE_COST)))
    ELSE Result(/\ trx.receiver = self
                /\ acc.store[trx.token] = "held"
                /\ FreezeAddress(trx.token) = trx.sender,
                SetSlot(acc, trx.token, "frozen"))

handleFreezeTokenTx(self, acc, trx) ==
    IF trx.sender = self
    THEN Expecting(trx, acc,
             Result(Available(acc) >= MBR_FREEZE_COST,
                    AddMBR(acc, MBR_FREEZE_COST)))
    ELSE Result(/\ trx.receiver = self
                /\ acc.store[trx.token] = "held"
                /\ FreezeAddress(trx.token) = trx.sender,
                SetSlot(acc, trx.token, "frozen"))

handleUnfreezeTokenTx(self, acc, trx) ==
    IF trx.sender = self
    THEN Expecting(trx, acc,
             Result(TRUE, AddMBR(acc, -MBR_UNFREEZE_COST)))
    ELSE Result(trx.receiver = self /\ acc.store[trx.token] = "frozen",
                SetSlot(acc, trx.token, "held"))

\* registerTxHandlers: the handler each transaction type is dispatched to.
txHandlers(self, acc, trx) ==
    CASE trx.type = "Mint"                     -> handleMintTx(self, acc, trx)
      [] trx.type = "Transfer"                 -> handleTransferTx(self, acc, trx)
      [] trx.type = "Burn"                     -> handleBurnTx(self, acc, trx)
      [] trx.type = "MintToken"                -> handleMintTokenTx(self, acc, trx)
      [] trx.type = "TransferToken"            -> handleTransferTokenTx(self, acc, trx)
      [] trx.type = "AuthorizeTokenTransfer"   -> handleAuthorizeTokenTransferTx(self, acc, trx)
      [] trx.type = "UnauthorizeTokenTransfer" -> handleUnauthorizeTokenTransferTx(self, acc, trx)
      [] trx.type = "BurnToken"                -> handleBurnTokenTx(self, acc, trx)
      [] trx.type = "ClawbackTokenTransfer"    -> handleClawbackTokenTx(self, acc, trx)
      [] trx.type = "FreezeToken"              -> handleFreezeTokenTx(self, acc, trx)
      [] trx.type = "UnfreezeToken"            -> handleUnfreezeTokenTx(self, acc, trx)

\* Run the handler under the account's lock and, if it succeeds, add a block.
appendTransaction(self, acc, trx) ==
    LET handled == txHandlers(self, acc, trx)
    IN  Result(handled.ok, AddBlock(handled.acc, trx))

-----------------------------------------------------------------------------
(***************************************************************************)
(* Rollback handlers.                                                      *)
(***************************************************************************)
rollbackMintTx(self, acc, trx) == AddBalance(acc, -trx.amount)

rollbackTransferTx(self, acc, trx) ==
    LET repaid == IF trx.sender = self
                  THEN AddNonce(AddBalance(acc, trx.amount), -1)
                  ELSE acc
    IN  IF trx.receiver = self THEN AddBalance(repaid, -trx.amount) ELSE repaid

rollbackBurnTx(self, acc, trx) ==
    IF trx.receiver = self THEN AddBalance(acc, trx.amount) ELSE acc

\* The error return leaves the account alone.
rollbackMintTokenTx(self, acc, trx) ==
    IF trx.receiver = self /\ acc.store[trx.token] # "absent"
    THEN AddNonce(AddMBR(SetSlot(acc, trx.token, "absent"), -MBR_TOKEN_COST), -1)
    ELSE acc

\* Mutant of rollbackTransferTokenTx: the sender does not get its token back.
RollbackWithoutToken(self, acc, trx) ==
    IF trx.sender = self
    THEN AddNonce(acc, -1)
    ELSE AddMBR(SetSlot(acc, trx.token, "placeholder"), -MBR_TOKEN_COST)

rollbackTransferTokenTx(self, acc, trx) ==
    IF trx.sender = self
    THEN AddNonce(SetSlot(acc, trx.token, trx.slot), -1)
    ELSE AddMBR(SetSlot(acc, trx.token, "placeholder"), -MBR_TOKEN_COST)

\* Mutant of rollbackAuthorizeTokenTransferTx: the nonce stays used.
RollbackKeepingNonce(self, acc, trx) ==
    IF trx.sender = self
    THEN AddMBR(SetSlot(acc, trx.token, "absent"), -MBR_SLOT_COST)
    ELSE acc

rollbackAuthorizeTokenTransferTx(self, acc, trx) ==
    IF trx.sender = self
    THEN AddNonce(AddMBR(SetSlot(acc, trx.token, "absent"), -MBR_SLOT_COST), -1)
    ELSE acc

\* Mutants of rollbackUnauthorizeTokenTransferTx: the nonce is given back twice;
\* the slot's MBR stays released.
RollbackTwice(self, acc, trx) ==
    IF trx.sender = self
    THEN AddNonce(AddMBR(SetSlot(acc, trx.token, "placeholder"), MBR_SLOT_COST), -2)
    ELSE acc

RollbackKeepingRelease(self, acc, trx) ==
    IF trx.sender = self
    THEN AddNonce(SetSlot(acc, trx.token, "placeholder"), -1)
    ELSE acc

rollbackUnauthorizeTokenTransferTx(self, acc, trx) ==
    IF trx.sender = self
    THEN AddNonce(AddMBR(SetSlot(acc, trx.token, "placeholder"), MBR_SLOT_COST), -1)
    ELSE acc

\* The burned token is not put back.
rollbackBurnTokenTx(self, acc, trx) ==
    IF trx.sender = self THEN AddNonce(AddMBR(acc, MBR_TOKEN_COST), -1) ELSE acc

\* Both error returns leave the account alone.
rollbackClawbackTokenTx(self, acc, trx) ==
    LET added   == addToken(acc, trx.token, trx.slot)
        removed == removeToken(acc, trx.token)
    IN  IF trx.sender = self
        THEN IF added.ok THEN added.acc ELSE acc
        ELSE IF removed.ok THEN AddNonce(removed.acc, -1) ELSE acc

\* Mutant of rollbackFreezeTokenTx: the authority's MBR stays locked.
RollbackKeepingLock(self, acc, trx) ==
    IF trx.sender = self
    THEN AddNonce(acc, -1)
    ELSE IF acc.store[trx.token] = "frozen" THEN SetSlot(acc, trx.token, "held") ELSE acc

rollbackFreezeTokenTx(self, acc, trx) ==
    IF trx.sender = self
    THEN AddNonce(AddMBR(acc, -MBR_FREEZE_COST), -1)
    ELSE IF acc.store[trx.token] = "frozen" THEN SetSlot(acc, trx.token, "held") ELSE acc

rollbackUnfreezeTokenTx(self, acc, trx) ==
    IF trx.sender = self
    THEN AddNonce(AddMBR(acc, MBR_UNFREEZE_COST), -1)
    ELSE IF acc.store[trx.token] = "held" THEN SetSlot(acc, trx.token, "frozen") ELSE acc

\* registerTxRollbackHandlers.
txRollbackHandlers(self, acc, trx) ==
    CASE trx.type = "Mint"                     -> rollbackMintTx(self, acc, trx)
      [] trx.type = "Transfer"                 -> rollbackTransferTx(self, acc, trx)
      [] trx.type = "Burn"                     -> rollbackBurnTx(self, acc, trx)
      [] trx.type = "MintToken"                -> rollbackMintTokenTx(self, acc, trx)
      [] trx.type = "TransferToken"            -> rollbackTransferTokenTx(self, acc, trx)
      [] trx.type = "AuthorizeTokenTransfer"   -> rollbackAuthorizeTokenTransferTx(self, acc, trx)
      [] trx.type = "UnauthorizeTokenTransfer" -> rollbackUnauthorizeTokenTransferTx(self, acc, trx)
      [] trx.type = "BurnToken"                -> rollbackBurnTokenTx(self, acc, trx)
      [] trx.type = "ClawbackTokenTransfer"    -> rollbackClawbackTokenTx(self, acc, trx)
      [] trx.type = "FreezeToken"              -> rollbackFreezeTokenTx(self, acc, trx)
      [] trx.type = "UnfreezeToken"            -> rollbackUnfreezeTokenTx(self, acc, trx)

\* The genesis block carries no transaction, so it never matches.
IsLatest(acc, trx) == acc.chain # << >> /\ acc.chain[Len(acc.chain)] = trx

\* Undo trx if it is still the latest block; otherwise change nothing.
rollbacklatestTransaction(self, acc, trx) ==
    IF IsLatest(acc, trx)
    THEN txRollbackHandlers(self, removeLatestBlock(acc), trx)
    ELSE acc
=============================================================================
