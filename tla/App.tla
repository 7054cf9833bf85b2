--------------------------------- MODULE App ---------------------------------
(***************************************************************************)
(* The ledger: internal/scalegraph/app.go on top of Account.               *)
(*                                                                         *)
(* One goroutine, Server.run, calls every operation that writes, one at a  *)
(* time.  An operation on two accounts appends its transaction to the      *)
(* first, then to the second, each under that account's own lock, and      *)
(* undoes the first when the second refuses.  Transport goroutines read    *)
(* accounts at any moment, so the states between those steps are visible   *)
(* and are states here: `op' is the operation in flight.                   *)
(*                                                                         *)
(* A request that is refused before anything is written (unknown account,  *)
(* wrong nonce, missing token, first account refuses) changes nothing and  *)
(* is a stuttering step; Refuse is the one that is always possible.        *)
(***************************************************************************)
EXTENDS Account, FiniteSets

CONSTANTS
    InitialBalances,  \* initial balances accounts are created with
    Amounts,          \* amounts minted and transferred, of either sign
    MaxMints          \* bound: no account is given money more than MaxMints times

ASSUME AmountsAssumption == InitialBalances \subseteq Int /\ Amounts \subseteq Int
ASSUME MintsAssumption   == MaxMints \in Nat

VARIABLES
    created,   \* the keys of App.accounts
    accounts,  \* App.accounts; ids not in `created' map to a fresh account
    op,        \* the operation in flight: its phase and its transaction
    before     \* history: App.accounts when the operation in flight began

vars == <<created, accounts, op, before>>

Idle     == [phase |-> "idle", trx |-> newMintTransaction(None, 0)]
Fresh    == [id \in Ids |-> newAccountWithPublicKey]
InFlight == op.phase \in {"second", "rollback"}

\* NewApp
Init ==
    /\ created = {}
    /\ accounts = Fresh
    /\ op = Idle
    /\ before = Fresh

-----------------------------------------------------------------------------
\* Append trx to one account; the operation is complete.
Single(id, trx) ==
    LET r == appendTransaction(id, accounts[id], trx)
    IN  /\ r.ok
        /\ accounts' = [accounts EXCEPT ![id] = r.acc]
        /\ UNCHANGED <<created, op, before>>

\* Append trx to its sender; its receiver is next.
First(trx) ==
    LET r == appendTransaction(trx.sender, accounts[trx.sender], trx)
    IN  /\ r.ok
        /\ accounts' = [accounts EXCEPT ![trx.sender] = r.acc]
        /\ op' = [phase |-> "second", trx |-> trx]
        /\ before' = accounts
        /\ UNCHANGED created

\* What every operation looks up first.  A nonce at the bound is not used.
Ready(parties, signer, n) ==
    /\ op.phase = "idle"
    /\ parties \subseteq created
    /\ n = GetNonce(accounts[signer])
    /\ n < MaxNonce

\* The account is in the map before Mint looks it up; Mint cannot fail then.
CreateAccountWithKeys(id, initial) ==
    /\ op.phase = "idle"
    /\ id \notin created
    /\ created' = created \cup {id}
    /\ accounts' = IF initial > 0
                   THEN [accounts EXCEPT ![id] =
                           appendTransaction(id, @, newMintTransaction(id, initial)).acc]
                   ELSE accounts
    /\ UNCHANGED <<op, before>>

Mint(to, amount) ==
    /\ op.phase = "idle"
    /\ to \in created
    /\ Cardinality({i \in DOMAIN accounts[to].chain : accounts[to].chain[i].type = "Mint"}) < MaxMints
    /\ Single(to, newMintTransaction(to, amount))

\* The signer is the minter; its nonce and terms make the token.
MintToken(signer, terms, n) ==
    /\ Ready({signer}, signer, n)
    /\ Single(signer,
              newMintTokenTransaction(signer, [minter |-> signer, nonce |-> n, terms |-> terms]))

BurnToken(id, t, n) ==
    /\ Ready({id}, id, n)
    /\ Single(id, newBurnTokenTransaction(id, t, n))

\* Mutant of Transfer: it returns after the debit.
TransferDebitOnly(from, to, amount, n) ==
    /\ Ready({from, to}, from, n)
    /\ from # to
    /\ Single(from, newTransferTransaction(from, to, amount))

Transfer(from, to, amount, n) ==
    /\ Ready({from, to}, from, n)
    /\ from # to
    /\ First(newTransferTransaction(from, to, amount))

TransferToken(from, to, t, n) ==
    /\ Ready({from, to}, from, n)
    /\ GetToken(accounts[from], t)
    /\ First(newTransferTokenTransaction(from, to, t, accounts[from].store[t], n))

AuthorizeTokenTransfer(authorizer, owner, t, n) ==
    /\ Ready({authorizer, owner}, authorizer, n)
    /\ First(newAuthorizeTokenTransferTransaction(authorizer, owner, t, n))

UnauthorizeTokenTransfer(authorizer, owner, t, n) ==
    /\ Ready({authorizer, owner}, authorizer, n)
    /\ First(newUnauthorizeTokenTransferTransaction(authorizer, owner, t, n))

\* The authority `to' signs, and its nonce is the one that counts.
ClawbackToken(from, to, t, n) ==
    /\ Ready({from, to}, to, n)
    /\ GetToken(accounts[from], t)
    /\ ClawbackAddress(t) = to
    /\ First(newClawbackTokenTransaction(from, to, t, accounts[from].store[t], n))

\* ClawbackAddress() is dereferenced before the nonce is looked at.  A token
\* without a clawback address makes that a nil dereference, nothing recovers
\* it, and the process ends.
ClawbackPanics(from, to, t) ==
    /\ op.phase = "idle"
    /\ {from, to} \subseteq created
    /\ GetToken(accounts[from], t)
    /\ ClawbackAddress(t) = None
    /\ op' = [op EXCEPT !.phase = "panicked"]
    /\ UNCHANGED <<created, accounts, before>>

FreezeToken(authority, holder, t, n) ==
    /\ Ready({authority, holder}, authority, n)
    /\ GetToken(accounts[holder], t)
    /\ FreezeAddress(t) = authority
    /\ First(newFreezeTokenTransaction(authority, holder, t, n))

UnfreezeToken(authority, holder, t, n) ==
    /\ Ready({authority, holder}, authority, n)
    /\ GetToken(accounts[holder], t)
    /\ FreezeAddress(t) = authority
    /\ First(newUnfreezeTokenTransaction(authority, holder, t, n))

\* Mutant of SecondLeg: a refusal is returned without undoing the first step.
SecondLegWithoutRollback ==
    LET trx == op.trx
        r   == appendTransaction(trx.receiver, accounts[trx.receiver], trx)
    IN  /\ op.phase = "second"
        /\ accounts' = IF r.ok THEN [accounts EXCEPT ![trx.receiver] = r.acc] ELSE accounts
        /\ op' = Idle
        /\ before' = Fresh
        /\ UNCHANGED created

\* The receiver's append.  Transfer is the one operation that does not undo
\* its first step when the second one fails.
SecondLeg ==
    LET trx == op.trx
        r   == appendTransaction(trx.receiver, accounts[trx.receiver], trx)
    IN  /\ op.phase = "second"
        /\ accounts' = IF r.ok THEN [accounts EXCEPT ![trx.receiver] = r.acc] ELSE accounts
        /\ IF r.ok \/ trx.type = "Transfer"
           THEN op' = Idle /\ before' = Fresh
           ELSE op' = [op EXCEPT !.phase = "rollback"] /\ UNCHANGED before
        /\ UNCHANGED created

Rollback ==
    /\ op.phase = "rollback"
    /\ accounts' = [accounts EXCEPT ![op.trx.sender] =
                      rollbacklatestTransaction(op.trx.sender, @, op.trx)]
    /\ op' = Idle
    /\ before' = Fresh
    /\ UNCHANGED created

\* A request with a nonce that is not the expected one is answered with an error.
Refuse(id, n) ==
    /\ op.phase = "idle"
    /\ id \in created => n # GetNonce(accounts[id])
    /\ UNCHANGED vars

\* Nothing of the ledger is stored: a new process starts from NewApp.
Restart ==
    /\ op.phase = "panicked"
    /\ created' = {}
    /\ accounts' = Fresh
    /\ op' = Idle
    /\ before' = Fresh

\* One goroutine serves one request at a time.
ServeRequest ==
    /\ op.phase = "idle"
    /\ \/ \E id \in Ids, x \in InitialBalances : CreateAccountWithKeys(id, x)
       \/ \E id \in Ids, x \in Amounts : Mint(id, x)
       \/ \E id \in Ids, n \in Nonces :
             \/ Refuse(id, n)
             \/ id \in Minters /\ \E terms \in Terms : MintToken(id, terms, n)
             \/ \E t \in TokenIds : BurnToken(id, t, n)
       \/ \E from, to \in Ids, n \in Nonces :
             \/ \E x \in Amounts : Transfer(from, to, x, n)
             \/ \E t \in TokenIds :
                   \/ TransferToken(from, to, t, n)
                   \/ AuthorizeTokenTransfer(from, to, t, n)
                   \/ UnauthorizeTokenTransfer(from, to, t, n)
                   \/ ClawbackToken(from, to, t, n)
                   \/ FreezeToken(from, to, t, n)
                   \/ UnfreezeToken(from, to, t, n)
       \/ \E from, to \in Ids, t \in TokenIds : ClawbackPanics(from, to, t)

Next ==
    \/ ServeRequest
    \/ SecondLeg
    \/ Rollback
    \/ Restart

Spec == Init /\ [][Next]_vars
=============================================================================
