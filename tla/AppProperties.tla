---------------------------- MODULE AppProperties ----------------------------
(***************************************************************************)
(* What the ledger of App promises.  Properties of the current state come  *)
(* first, then properties of steps, then what an auditor can recompute     *)
(* from the accounts' chains, then what comments and tests of the          *)
(* repository say and the code does not do.                                *)
(***************************************************************************)
EXTENDS App, SequencesExt

Phases == {"idle", "second", "rollback", "panicked"}

Typed ==
    /\ created \in SUBSET Ids
    /\ accounts \in [Ids -> AccountState]
    /\ op \in [phase : Phases, trx : Transaction]
    /\ before \in [Ids -> AccountState]

\* Every variable keeps its type: accounts are account records, the operation
\* in flight carries a transaction, and no rollback takes outgoingTxCount, which
\* is unsigned, below zero.
TypeOK == Typed /\ \A id \in Ids : accounts[id].nonce \in Nat

Holds(id, t) == GetToken(accounts[id], t)

\* A token between the two appends of a transfer or clawback is in no store.
Moving(t) ==
    /\ InFlight
    /\ op.trx.type \in {"TransferToken", "ClawbackTokenTransfer"}
    /\ op.trx.token = t

Live == {t \in TokenIds : Moving(t) \/ \E id \in Ids : Holds(id, t)}

LastBlock(acc) == IF acc.chain = << >> THEN Idle.trx ELSE Last(acc.chain)

-----------------------------------------------------------------------------
\* The sum of the numbers v.
Total(v) ==
    LET total[n \in 0 .. Len(v)] == IF n = 0 THEN 0 ELSE total[n - 1] + v[n]
    IN  total[Len(v)]

\* What a block takes from id without being asked whether it can afford it: a
\* negative amount that id receives.
Taken(id, trx) ==
    IF trx.type \in {"Mint", "Transfer"} /\ trx.receiver = id /\ trx.amount < 0
    THEN 0 - trx.amount ELSE 0

Takings(id, chain) == [i \in 1 .. Len(chain) |-> Taken(id, chain[i])]

\* What id could spend if nothing had been taken from it.
Means(id) == Available(accounts[id]) + Total(Takings(id, accounts[id].chain))

\* Nothing an account signs for, and no rollback, takes its balance below its
\* minimum balance requirement (the guards on balance - mbr in account.go): what
\* it is short of it was debited by negative amounts.  So in every state a reader
\* can see, also between the two steps of an operation and while one is undone.
Solvent == \A id \in Ids : Means(id) >= 0

\* The transactions that are appended to two accounts.
TwoParty == {"Transfer", "TransferToken", "AuthorizeTokenTransfer",
             "UnauthorizeTokenTransfer", "ClawbackTokenTransfer",
             "FreezeToken", "UnfreezeToken"}

\* The operation in flight is one on two accounts, both known; a transfer of
\* money is never undone.
InFlightOK ==
    InFlight => /\ op.trx.type \in TwoParty
                /\ op.trx.sender \in Ids
                /\ op.trx.receiver \in Ids
                /\ op.trx.type # "Transfer" => op.trx.token \in TokenIds
                /\ op.phase = "rollback" => op.trx.type # "Transfer"

\* MBR that an unfinished operation has released can be taken back: until the
\* second account agrees, the sender of an unauthorize or unfreeze still has
\* the balance its rollback will lock again.
ReleaseCovered ==
    InFlight =>
        /\ op.trx.type = "UnauthorizeTokenTransfer" => Means(op.trx.sender) >= MBR_SLOT_COST
        /\ op.trx.type = "UnfreezeToken" => Means(op.trx.sender) >= MBR_UNFREEZE_COST

\* A token is never in two accounts' stores, and in none while it is moved:
\* removeToken precedes addToken/addTokenFromTransfer, and undoing a move only
\* puts back a token the receiver has refused.
SingleHolder ==
    \A t \in TokenIds : \A x, y \in Ids :
        Holds(x, t) => ~Moving(t) /\ (Holds(y, t) => x = y)

\* The tokens, slots and freezes that lock part of an account's balance.
Minted(id)   == {t \in Live : t.minter = id}
Slots(id)    == {t \in TokenIds : accounts[id].store[t] = "placeholder"}
FrozenBy(id) == {t \in TokenIds : /\ FreezeAddress(t) = id
                                  /\ \E x \in Ids : accounts[x].store[t] = "frozen"}

Locked(id) ==
    MBR_TOKEN_COST * Cardinality(Minted(id)) + MBR_SLOT_COST * Cardinality(Slots(id))
      + MBR_FREEZE_COST * Cardinality(FrozenBy(id))

\* Between operations an account's mbr covers everything it has locked balance
\* for: the tokens it minted that still exist, its authorized slots, the tokens
\* it holds frozen.  No sequence of transfers, clawbacks and rollbacks releases
\* MBR that is still owed.  (It may be more: burning a frozen token leaves the
\* freeze authority's MBR locked.)
MBRCovers == op.phase = "idle" => \A id \in Ids : accounts[id].mbr >= Locked(id)

-----------------------------------------------------------------------------
\* An authorization repeated for a slot the account already had.
Reauthorization ==
    /\ op.trx.type = "AuthorizeTokenTransfer"
    /\ before[op.trx.sender].store[op.trx.token] = "placeholder"

\* An operation whose second account refused leaves every account exactly as it
\* was, chain and nonce included (rollbacklatestTransaction and the rollback
\* handlers).  The exception is a repeated authorization: undoing it also closes
\* the slot that the first one opened.
RollbackRestores ==
    [][op.phase = "rollback" /\ ~Reauthorization => accounts' = before]_vars

\* The set of existing tokens changes in two ways only: the minter burns a
\* token it holds, or mints one with a nonce it never used.  No transfer,
\* clawback or rollback loses a token or brings a burned one back.
NoTokenLost ==
    [][\/ op.phase = "panicked"
       \/ /\ \A t \in Live \ Live' :
                /\ Holds(t.minter, t)
                /\ LastBlock(accounts'[t.minter]).type = "BurnToken"
          /\ \A t \in Live' \ Live :
                /\ t.nonce = accounts[t.minter].nonce
                /\ t.nonce < accounts'[t.minter].nonce]_vars

\* A frozen token leaves its holder only by clawback or by being burned, and
\* stops being frozen only by an unfreeze its freeze authority sent.
FrozenStays ==
    [][\A id \in Ids, t \in TokenIds :
          accounts[id].store[t] = "frozen" /\ accounts'[id].store[t] # "frozen"
          => LET last == LastBlock(accounts'[id])
             IN  \/ op.phase = "panicked"
                 \/ last.type \in {"ClawbackTokenTransfer", "BurnToken"} /\ last.token = t
                 \/ /\ last.type = "UnfreezeToken" /\ last.token = t
                    /\ last.sender = FreezeAddress(t)]_vars

-----------------------------------------------------------------------------
(***************************************************************************)
(* Audit: what the accounts' chains say about their state.                 *)
(***************************************************************************)
\* The transactions account.go counts in id's outgoingTxCount.  A clawback from
\* oneself is handled as its sender's half, which counts nothing.
Outgoing(id, trx) ==
    IF trx.type \in {"MintToken", "ClawbackTokenTransfer"}
    THEN trx.receiver = id /\ trx.sender # id
    ELSE trx.sender = id

Blocks(id)         == DOMAIN accounts[id].chain
Block(id, i)       == accounts[id].chain[i]
Count(id, P(_))    == Cardinality({i \in Blocks(id) : P(Block(id, i))})

\* The nonce is the number of outgoing transactions in the account's own chain,
\* and each of them carries the number of those before it: a signed request
\* takes effect at most once and none is skipped.
NonceCountsChain ==
    \A id \in Ids :
        /\ accounts[id].nonce = Count(id, LAMBDA b : Outgoing(id, b))
        /\ \A i \in Blocks(id) :
              Outgoing(id, Block(id, i)) /\ Block(id, i).type # "Transfer" =>
                 Block(id, i).nonce =
                    Cardinality({j \in 1 .. (i - 1) : Outgoing(id, Block(id, j))})

\* What one block adds to its account's balance.
Credit(id, trx) ==
    IF trx.type \notin {"Mint", "Transfer"} THEN 0
    ELSE IF trx.receiver = id THEN trx.amount ELSE 0 - trx.amount

Movements(id, chain) == [i \in 1 .. Len(chain) |-> Credit(id, chain[i])]

\* An account's balance is the sum of the money movements in its chain.
BalanceAudit == \A id \in Ids : accounts[id].balance = Total(Movements(id, accounts[id].chain))

\* What one block of id's chain reserves of id's balance, slots apart.
Reserve(id, trx) ==
    CASE trx.type = "MintToken" -> MBR_TOKEN_COST
      [] trx.type = "BurnToken" -> 0 - MBR_TOKEN_COST
      [] trx.type = "FreezeToken" /\ trx.sender = id   -> MBR_FREEZE_COST
      [] trx.type = "UnfreezeToken" /\ trx.sender = id -> 0 - MBR_FREEZE_COST
      [] OTHER -> 0

Reservations(id, chain) == [i \in 1 .. Len(chain) |-> Reserve(id, chain[i])]

\* An account's MBR is, also during an operation, exactly what its chain says
\* it reserved for tokens and freezes plus the cost of its open slots.
MBRAudit ==
    \A id \in Ids :
        accounts[id].mbr = Total(Reservations(id, accounts[id].chain))
                           + MBR_SLOT_COST * Cardinality(Slots(id))

\* The blocks of a chain that are about x and y, and which of them block i is.
Shared(x, y, chain)  == {i \in 1 .. Len(chain) : {chain[i].sender, chain[i].receiver} = {x, y}}
Rank(x, y, chain, i) == Cardinality({j \in Shared(x, y, chain) : j <= i})

\* Two chains tell the same about x and y, in the same order.
SameStory(x, y, c, d) ==
    /\ Cardinality(Shared(x, y, c)) = Cardinality(Shared(x, y, d))
    /\ \A i \in Shared(x, y, c), j \in Shared(x, y, d) :
          Rank(x, y, c, i) = Rank(x, y, d, j) => c[i] = d[j]

\* Between operations the chains of two accounts record the same transactions
\* between them in the same order; no half of an operation is left behind.
ChainsAgree ==
    op.phase = "idle" =>
        \A x, y \in Ids : x # y => SameStory(x, y, accounts[x].chain, accounts[y].chain)

-----------------------------------------------------------------------------
(***************************************************************************)
(* What the repository says and the code does not do.                      *)
(***************************************************************************)
\* A clawback by someone who is not the clawback authority is rejected with an
\* error, whatever the token's terms; the server goes on.
NeverPanics == op.phase # "panicked"

\* The balance that an account's tokens, slots and freezes lock is there: "at least
\* MBR_SLOT_COST balance as MBR, which will be unfrozen when the burn token
\* transaction is executed or the unauthorize token transfer transaction is
\* executed" (account.go).
KeepsMinimum == \A id \in Ids : accounts[id].mbr <= accounts[id].balance

\* While a token is frozen its authority can unfreeze it, wherever it is held:
\* both appends of UnfreezeToken would succeed.
Unfreezable ==
    op.phase = "idle" =>
        \A holder \in Ids, t \in TokenIds :
            accounts[holder].store[t] = "frozen" =>
                LET authority == FreezeAddress(t)
                    trx  == newUnfreezeTokenTransaction(authority, holder, t,
                                                        accounts[authority].nonce)
                    one  == appendTransaction(authority, accounts[authority], trx)
                    then == [accounts EXCEPT ![authority] = one.acc]
                IN  one.ok /\ appendTransaction(holder, then[holder], trx).ok
=============================================================================
