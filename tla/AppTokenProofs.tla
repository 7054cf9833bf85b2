--------------------------- MODULE AppTokenProofs ----------------------------
(***************************************************************************)
(* Theorems about tokens and about chains, for any accounts, terms,        *)
(* amounts and bounds.                                                     *)
(*                                                                         *)
(* Operations are atomic (App implements TokenLedger), a token has one     *)
(* holder, MBR covers what it is locked for, a rollback restores, tokens   *)
(* are not lost and frozen ones stay.  A step either leaves Settled alone  *)
(* or is one whole operation on it, and the invariants need to be looked   *)
(* at for whole operations only.                                           *)
(*                                                                         *)
(* An account's chain accounts for its nonce, its balance and its mbr, and *)
(* two chains say the same of each other.  With what negative amounts took *)
(* from it, it also accounts for whatever the balance is short of the mbr. *)
(***************************************************************************)
EXTENDS AppProofs, WellFoundedInduction

(***************************************************************************)
(* The steps of App.                                                       *)
(***************************************************************************)
\* The shape of an operation in flight.
LEMMA HalfwayShape ==
  ASSUME TypesInv, Halfway, InFlight
  PROVE  LET trx == op.trx
             s   == op.trx.sender
         IN  /\ ValidTx(trx) /\ trx.type \in TwoParty /\ s \in Ids /\ trx.receiver \in Ids
             /\ before \in [Ids -> AccountState] /\ accounts \in [Ids -> AccountState]
             /\ Asked(before, trx)
             /\ FirstHalf(before[s], trx, accounts[s])
             /\ \A x \in Ids \ {s} : accounts[x] = before[x]
             /\ \A q : [accounts EXCEPT ![s] = q] = [before EXCEPT ![s] = q]
<1> DEFINE trx == op.trx
           s == trx.sender
           r == appendTransaction(s, before[s], trx)
<1>1. ValidTx(trx) /\ trx.type \in TwoParty /\ s \in Ids /\ trx.receiver \in Ids
  BY InFlightValid
<1>2. before \in [Ids -> AccountState] /\ accounts \in [Ids -> AccountState]
  BY DEF TypesInv, Typed
<1>3. Asked(before, trx) /\ r.ok /\ accounts = [before EXCEPT ![s] = r.acc]
  BY DEF Halfway
<1>4. trx.type = "Transfer" => trx.receiver # s
  BY <1>3 DEF Asked
<1> HIDE DEF trx, s
<1>5. FirstHalf(before[s], trx, r.acc)
  <2>1. before[s] \in AccountState /\ trx.sender = s
    BY <1>1, <1>2 DEF s
  <2> QED
    BY <1>1, <1>3, <1>4, <2>1, FirstHalfEffect
<1> HIDE DEF r
<1>6. accounts[s] = r.acc /\ \A x \in Ids \ {s} : accounts[x] = before[x]
  BY <1>1, <1>2, <1>3
<1>7. \A q : [accounts EXCEPT ![s] = q] = [before EXCEPT ![s] = q]
  BY <1>1, <1>2, <1>3
<1> QED
  BY <1>1, <1>2, <1>3, <1>5, <1>6, <1>7 DEF trx, s

\* An operation that begins is not seen, and is halfway.
LEMMA BeginsHalfway ==
  ASSUME NEW trx, op.phase = "idle", First(trx), Asked(accounts, trx)
  PROVE  Halfway' /\ Settled' = Settled /\ created' = created
<1>1. /\ op' = [phase |-> "second", trx |-> trx] /\ before' = accounts /\ created' = created
      /\ appendTransaction(trx.sender, accounts[trx.sender], trx).ok
      /\ accounts' = [accounts EXCEPT ![trx.sender] = appendTransaction(trx.sender, accounts[trx.sender], trx).acc]
  BY DEF First
<1>2. op'.trx = trx /\ op'.phase = "second"
  BY <1>1
<1>3. Settled = accounts /\ Settled' = before'
  BY <1>2 DEF Settled, InFlight
<1>4. Asked(before, op.trx)'
  BY <1>1, <1>2 DEF Asked
<1>5. Halfway'
  BY <1>1, <1>2, <1>4 DEF Halfway
<1> QED
  BY <1>1, <1>3, <1>5

\* The second account of a transfer of money does not refuse.
LEMMA TransferAccepted ==
  ASSUME NEW self, NEW acc, NEW trx, trx.type = "Transfer", trx.sender # self
  PROVE  appendTransaction(self, acc, trx).ok
BY DEF appendTransaction, txHandlers, handleTransferTx, Result

\* The second append: the operation is complete, or is going to be undone.
LEMMA SecondSettles ==
  ASSUME TypesInv, TypesInv', Halfway, SecondLeg
  PROVE  /\ Halfway' /\ created' = created
         /\ \/ Settled' = Settled
            \/ Both(Settled, Settled', op.trx)
<1> DEFINE trx == op.trx
           s == trx.sender
           d == trx.receiver
           r == appendTransaction(d, accounts[d], trx)
<1>0. InFlight /\ op.phase = "second"
  BY DEF SecondLeg, InFlight
<1>1. /\ ValidTx(trx) /\ trx.type \in TwoParty /\ s \in Ids /\ d \in Ids
      /\ before \in [Ids -> AccountState] /\ accounts \in [Ids -> AccountState]
      /\ Asked(before, trx)
      /\ FirstHalf(before[s], trx, accounts[s])
      /\ \A x \in Ids \ {s} : accounts[x] = before[x]
  BY <1>0, HalfwayShape
<1>2. /\ accounts' = IF r.ok THEN [accounts EXCEPT ![d] = r.acc] ELSE accounts
      /\ IF r.ok \/ trx.type = "Transfer"
         THEN op' = Idle /\ before' = Fresh
         ELSE op' = [op EXCEPT !.phase = "rollback"] /\ before' = before
      /\ created' = created
  BY DEF SecondLeg
<1>3. Settled = before
  BY <1>0 DEF Settled
<1>4. accounts' \in [Ids -> AccountState] /\ op \in [phase : Phases, trx : Transaction]
  BY DEF TypesInv, Typed
<1> HIDE DEF s, d, trx
<1>5. CASE r.ok
  <2>1. op' = Idle /\ accounts' = [accounts EXCEPT ![d] = r.acc]
    BY <1>2, <1>5
  <2>2. ~InFlight'
    BY <2>1 DEF InFlight, Idle
  <2>3. Settled' = accounts' /\ Halfway'
    BY <2>2 DEF Settled, Halfway
  <2>4. s # d
    <3>1. CASE trx.type = "Transfer"
      BY <1>1, <3>1 DEF Asked, s, d
    <3>2. CASE trx.type # "Transfer" /\ s = d
      <4>1. before[s] \in AccountState /\ trx.sender = s
        BY <1>1 DEF s
      <4>2. ~appendTransaction(s, accounts[s], trx).ok
        BY <1>1, <3>2, <4>1, SelfRefused
      <4> QED
        BY <1>5, <3>2, <4>2
    <3> QED
      BY <3>1, <3>2
  <2>5. accounts'[s] = accounts[s] /\ accounts'[d] = r.acc /\ accounts[d] = before[d]
    BY <1>1, <2>1, <2>4
  <2>6. SecondHalf(before[d], trx, r.acc)
    <3>1. before[d] \in AccountState /\ trx.receiver = d /\ trx.sender # d
      BY <1>1, <2>4 DEF s, d
    <3>2. r = appendTransaction(d, before[d], trx)
      BY <2>5
    <3> QED
      BY <1>1, <1>5, <3>1, <3>2, SecondHalfEffect
  <2>7. \A x \in Ids \ {s, d} : accounts'[x] = before[x]
    BY <1>1, <2>1
  <2> HIDE DEF r
  <2>8. Both(before, accounts', trx)
    BY <1>1, <1>4, <2>4, <2>5, <2>6, <2>7 DEF Both, s, d
  <2> QED
    BY <1>2, <1>3, <2>3, <2>8 DEF trx
<1>6. CASE ~r.ok
  <2>1. trx.type # "Transfer"
    <3>1. ASSUME trx.type = "Transfer" PROVE FALSE
      <4>1. trx.sender # d
        BY <1>1, <3>1 DEF Asked, d
      <4> QED
        BY <1>6, <3>1, <4>1, TransferAccepted
    <3> QED
      BY <3>1
  <2>2. accounts' = accounts /\ before' = before /\ op' = [op EXCEPT !.phase = "rollback"] /\ created' = created
    BY <1>2, <1>6, <2>1
  <2>3. op'.trx = op.trx /\ op'.phase = "rollback"
    BY <1>4, <2>2
  <2>4. Settled' = Settled
    BY <1>3, <2>2, <2>3 DEF Settled, InFlight
  <2>5. Asked(before, op.trx)'
    BY <1>1, <2>2, <2>3 DEF Asked, trx
  <2>6. Halfway'
    BY <1>0, <2>2, <2>3, <2>5 DEF Halfway
  <2> QED
    BY <2>2, <2>4, <2>6
<1> QED
  BY <1>5, <1>6

\* A rollback gives the accounts back, or closes a slot.
LEMMA RollbackSettles ==
  ASSUME TypesInv, Halfway, Rollback
  PROVE  /\ Halfway' /\ created' = created /\ Settled = before /\ Settled' = accounts'
         /\ before \in [Ids -> AccountState] /\ op.trx.sender \in Ids /\ op.trx.token \in TokenIds
         /\ ~Reauthorization => accounts' = before
         /\ Reauthorization =>
              LET s == op.trx.sender
                  t == op.trx.token
              IN  /\ before[s].store[t] = "placeholder"
                  /\ \E q : /\ accounts' = [before EXCEPT ![s] = q]
                            /\ Lapsed(before[s], t, q)
<1> DEFINE trx == op.trx
           s == trx.sender
           t == trx.token
           q == rollbacklatestTransaction(s, accounts[s], trx)
<1>0. InFlight /\ op.phase = "rollback"
  BY DEF Rollback, InFlight
<1>1. /\ ValidTx(trx) /\ trx.type \in TwoParty /\ s \in Ids
      /\ before \in [Ids -> AccountState]
      /\ Asked(before, trx)
      /\ FirstHalf(before[s], trx, accounts[s])
      /\ \A p : [accounts EXCEPT ![s] = p] = [before EXCEPT ![s] = p]
  BY <1>0, HalfwayShape
<1>2. trx.type # "Transfer" /\ t \in TokenIds
  BY <1>0 DEF TypesInv, InFlightOK
<1>3. accounts' = [accounts EXCEPT ![s] = q] /\ op' = Idle /\ created' = created
  BY DEF Rollback
<1>4. ~InFlight'
  BY <1>3 DEF InFlight, Idle
<1>5. Settled = before /\ Settled' = accounts' /\ Halfway'
  BY <1>0, <1>4 DEF Settled, Halfway
<1>6. Reauthorization <=> trx.type = "AuthorizeTokenTransfer" /\ before[s].store[t] = "placeholder"
  BY DEF Reauthorization
<1>7. trx.type \in {"TransferToken", "ClawbackTokenTransfer"} => trx.slot = before[s].store[t]
  BY <1>1 DEF Asked
<1> HIDE DEF trx, s
<1>8. IF trx.type = "AuthorizeTokenTransfer" /\ before[s].store[t] = "placeholder"
      THEN Lapsed(before[s], t, q)
      ELSE q = before[s]
  <2>1. before[s] \in AccountState /\ trx.sender = s
    BY <1>1 DEF s
  <2>2. trx.type \in TwoParty \ {"Transfer"}
    BY <1>1, <1>2
  <2>3. PICK r : r = accounts[s]
    OBVIOUS
  <2>4. PICK acc : acc = before[s]
    OBVIOUS
  <2>5. /\ acc \in AccountState /\ FirstHalf(acc, trx, r) /\ ValidTx(trx)
        /\ trx.type \in {"TransferToken", "ClawbackTokenTransfer"} => trx.slot = acc.store[trx.token]
    BY <1>1, <1>7, <2>1, <2>3, <2>4
  <2>6. LET p == rollbacklatestTransaction(s, r, trx)
        IN  IF trx.type = "AuthorizeTokenTransfer" /\ acc.store[trx.token] = "placeholder"
            THEN Lapsed(acc, trx.token, p)
            ELSE p = acc
    BY <2>1, <2>2, <2>5, Undone
  <2> QED
    BY <2>3, <2>4, <2>6
<1> HIDE DEF q, t
<1>9. accounts' = [before EXCEPT ![s] = q]
  BY <1>1, <1>3
<1>10. ~Reauthorization => accounts' = before
  BY <1>1, <1>6, <1>8, <1>9
<1>11. Reauthorization => before[s].store[t] = "placeholder"
  BY <1>6
<1>12. Reauthorization => Lapsed(before[s], t, q)
  BY <1>6, <1>8
<1> QED
  BY <1>1, <1>2, <1>3, <1>5, <1>9, <1>10, <1>11, <1>12 DEF trx, s, t

\* A step that leaves the settled accounts alone is not seen.
LEMMA NotSeen ==
  ASSUME Settled' = Settled, created' = created
  PROVE  UNCHANGED Abstract!vars
<1>1. PICK S : S = Settled
  OBVIOUS
<1>2. S = Settled'
  BY <1>1
<1>3. /\ Money(Settled) = Money(S) /\ Money(Settled)' = Money(S)
      /\ Owned(Settled) = Owned(S) /\ Owned(Settled)' = Owned(S)
      /\ Open(Settled) = Open(S) /\ Open(Settled)' = Open(S)
      /\ Frozen(Settled) = Frozen(S) /\ Frozen(Settled)' = Frozen(S)
      /\ Sent(Settled) = Sent(S) /\ Sent(Settled)' = Sent(S)
  BY <1>1, <1>2, SettledViews
<1> QED
  BY <1>3 DEF Abstract!vars

\* What every step does to the settled accounts.
Settles == Good(Settled)' /\ Halfway' /\ [Abstract!Next]_(Abstract!vars)

\* A step that leaves them alone.
LEMMA UnseenSettles ==
  ASSUME Good(Settled), Halfway', Settled' = Settled, created' = created
  PROVE  Settles
<1>1. Good(Settled)'
  <2>1. PICK S : S = Settled
    OBVIOUS
  <2>2. Good(S) /\ S = Settled'
    BY <2>1
  <2> QED
    BY <2>2 DEF Good, OneHolder, NumberSpent, Covered, MintedIn, SlotsIn, FrozenIn
<1> QED
  BY <1>1, NotSeen DEF Settles

\* Good(S) after the step, for S the settled accounts then.
LEMMA GoodPrime ==
  ASSUME NEW T, T = Settled', Good(T)
  PROVE  Good(Settled)'
BY DEF Good, OneHolder, NumberSpent, Covered, MintedIn, SlotsIn, FrozenIn

\* The second append.
LEMMA SecondLegSettles ==
  ASSUME TypesInv, TypesInv', Halfway, Good(Settled), SecondLeg
  PROVE  Settles
<1>1. /\ Halfway' /\ created' = created
      /\ Settled' = Settled \/ Both(Settled, Settled', op.trx)
  BY SecondSettles
<1>2. CASE Settled' = Settled
  BY <1>1, <1>2, UnseenSettles
<1>3. CASE Both(Settled, Settled', op.trx)
  <2>1. PICK S : S = Settled
    OBVIOUS
  <2>2. PICK T : T = Settled'
    OBVIOUS
  <2>3. PICK trx : trx = op.trx
    OBVIOUS
  <2>4. Both(S, T, trx) /\ Good(S)
    BY <1>3, <2>1, <2>2, <2>3
  <2>5. Good(T)
    BY <2>4, GoodBoth
  <2>6. \E id \in Ids : Abstract!Signed(id)
    BY <1>1, <2>1, <2>2, <2>4, TokenIsSigned, MoneyIsSigned
  <2>7. Abstract!Next
    BY <2>6 DEF Abstract!Next
  <2> QED
    BY <1>1, <2>2, <2>5, <2>7, GoodPrime DEF Settles
<1> QED
  BY <1>1, <1>2, <1>3

\* The rollback.
LEMMA RollbackIsSettled ==
  ASSUME TypesInv, Halfway, Good(Settled), Rollback
  PROVE  Settles
<1> DEFINE s == op.trx.sender
           t == op.trx.token
<1>1. /\ Halfway' /\ created' = created /\ Settled = before /\ Settled' = accounts'
      /\ before \in [Ids -> AccountState] /\ s \in Ids /\ t \in TokenIds
      /\ ~Reauthorization => accounts' = before
      /\ Reauthorization =>
           /\ before[s].store[t] = "placeholder"
           /\ \E q : /\ accounts' = [before EXCEPT ![s] = q]
                     /\ Lapsed(before[s], t, q)
  BY RollbackSettles
<1> HIDE DEF s, t
<1>2. CASE ~Reauthorization
  BY <1>1, <1>2, UnseenSettles
<1>3. CASE Reauthorization
  <2>1. PICK q : accounts' = [before EXCEPT ![s] = q] /\ Lapsed(before[s], t, q)
    BY <1>1, <1>3
  <2>2. PICK S : S = before
    OBVIOUS
  <2>3. PICK T : T = accounts'
    OBVIOUS
  <2>4. PICK id : id = s
    OBVIOUS
  <2>5. PICK u : u = t
    OBVIOUS
  <2>6. /\ S \in [Ids -> AccountState] /\ id \in Ids /\ u \in TokenIds /\ Good(S)
        /\ S[id].store[u] = "placeholder" /\ T = [S EXCEPT ![id] = q] /\ Lapsed(S[id], u, q)
    BY <1>1, <1>3, <2>1, <2>2, <2>3, <2>4, <2>5
  <2>7. /\ Good(T) /\ Money(T) = Money(S) /\ Sent(T) = Sent(S) /\ <<id, u>> \in Open(S)
        /\ Owned(T) = Owned(S) /\ Open(T) = Open(S) \ {<<id, u>>} /\ Frozen(T) = Frozen(S)
    <3>1. Good(T) /\ LapseView(S, T, id, u)
      BY <2>6, LapseStep
    <3> QED
      BY <3>1 DEF LapseView
  <2>8. S = Settled /\ T = Settled'
    BY <1>1, <2>2, <2>3
  <2>9. /\ Money(Settled) = Money(S) /\ Money(Settled)' = Money(T)
        /\ Owned(Settled) = Owned(S) /\ Owned(Settled)' = Owned(T)
        /\ Open(Settled) = Open(S) /\ Open(Settled)' = Open(T)
        /\ Frozen(Settled) = Frozen(S) /\ Frozen(Settled)' = Frozen(T)
        /\ Sent(Settled) = Sent(S) /\ Sent(Settled)' = Sent(T)
    BY <2>8, SettledViews
  <2>10. \E slot \in Open(Settled) : Abstract!Lapse(slot)
    BY <1>1, <2>7, <2>9 DEF Abstract!Lapse
  <2>11. Abstract!Next
    BY <2>10 DEF Abstract!Next
  <2> QED
    BY <1>1, <2>7, <2>8, <2>11, GoodPrime DEF Settles
<1> QED
  BY <1>2, <1>3

\* Money that comes in, seen by TokenLedger.
LEMMA MintIsSettled ==
  ASSUME TypesInv, Good(Settled), NEW id \in Ids, NEW x \in InitialBalances \cup Amounts,
         op.phase = "idle", op' = op,
         \/ id \in created /\ created' = created
         \/ id \notin created /\ created' = created \cup {id} /\ x > 0,
         accounts' = [accounts EXCEPT ![id] = appendTransaction(id, @, newMintTransaction(id, x)).acc]
  PROVE  Settles
<1>1. PICK S : S = accounts
  OBVIOUS
<1>2. PICK T : T = accounts'
  OBVIOUS
<1>3. S = Settled /\ T = Settled' /\ Halfway'
  BY <1>1, <1>2 DEF Settled, InFlight, Halfway
<1>4. S \in [Ids -> AccountState] /\ Good(S) /\ x \in Int
  BY <1>1, <1>3, AmountsAssumption DEF TypesInv, Typed
<1>5. PICK r : r = appendTransaction(id, S[id], newMintTransaction(id, x)).acc
  OBVIOUS
<1>6. T = [S EXCEPT ![id] = r]
  BY <1>1, <1>2, <1>5
<1>7. Fields(r, S[id].balance + x, S[id].mbr, S[id].nonce, S[id].store,
             Append(S[id].chain, newMintTransaction(id, x)))
  BY <1>4, <1>5, MintFields
<1>8. Good(T) /\ MintView(S, T, id, x)
  BY <1>4, <1>6, <1>7, MintStep
<1>9. /\ Money(Settled) = Money(S) /\ Money(Settled)' = Money(T)
      /\ Owned(Settled) = Owned(S) /\ Owned(Settled)' = Owned(T)
      /\ Open(Settled) = Open(S) /\ Open(Settled)' = Open(T)
      /\ Frozen(Settled) = Frozen(S) /\ Frozen(Settled)' = Frozen(T)
      /\ Sent(Settled) = Sent(S) /\ Sent(Settled)' = Sent(T)
  BY <1>3, SettledViews
<1>10. Abstract!Create(id, x) \/ Abstract!Deposit(id, x)
  <2>1. CASE id \in created /\ created' = created
    BY <1>8, <1>9, <2>1 DEF MintView, Abstract!Deposit
  <2>2. CASE id \notin created /\ created' = created \cup {id} /\ x > 0
    BY <1>8, <1>9, <2>2 DEF MintView, Abstract!Create
  <2> QED
    BY <2>1, <2>2
<1>11. Abstract!Next
  BY <1>10 DEF Abstract!Next
<1> QED
  BY <1>3, <1>8, <1>11, GoodPrime DEF Settles

\* An account that is created with nothing, or with less.
LEMMA CreateIsSettled ==
  ASSUME TypesInv, Good(Settled), NEW id \in Ids, NEW x \in InitialBalances, ~(x > 0),
         op.phase = "idle", op' = op, id \notin created, created' = created \cup {id}, accounts' = accounts
  PROVE  Settles
<1>1. PICK S : S = accounts
  OBVIOUS
<1>2. S = Settled /\ S = Settled' /\ Halfway'
  BY <1>1 DEF Settled, InFlight, Halfway
<1>3. S \in [Ids -> AccountState] /\ Good(S)
  BY <1>1, <1>2 DEF TypesInv, Typed
<1>4. /\ Money(Settled) = Money(S) /\ Money(Settled)' = Money(S)
      /\ Owned(Settled) = Owned(S) /\ Owned(Settled)' = Owned(S)
      /\ Open(Settled) = Open(S) /\ Open(Settled)' = Open(S)
      /\ Frozen(Settled) = Frozen(S) /\ Frozen(Settled)' = Frozen(S)
      /\ Sent(Settled) = Sent(S) /\ Sent(Settled)' = Sent(S)
  BY <1>2, SettledViews
<1>6. Abstract!Create(id, x)
  BY <1>4 DEF Abstract!Create
<1>7. Abstract!Next
  BY <1>6 DEF Abstract!Next
<1> QED
  BY <1>2, <1>3, <1>7, GoodPrime DEF Settles

\* A token that is minted.
LEMMA MintTokenIsSettled ==
  ASSUME TypesInv, TypesInv', Good(Settled), NEW id \in Ids, id \in created, op.phase = "idle",
         NEW t \in TokenIds, ValidTx(newMintTokenTransaction(id, t)), Single(id, newMintTokenTransaction(id, t))
  PROVE  Settles
<1>1. PICK S : S = accounts
  OBVIOUS
<1>2. PICK T : T = accounts'
  OBVIOUS
<1>3. op' = op /\ created' = created
  BY DEF Single
<1>4. S = Settled /\ T = Settled' /\ Halfway'
  BY <1>1, <1>2, <1>3 DEF Settled, InFlight, Halfway
<1>5. S \in [Ids -> AccountState] /\ T \in [Ids -> AccountState] /\ Good(S)
  BY <1>1, <1>2, <1>4 DEF TypesInv, Typed
<1>6. OneEffect(S, T, id, t, "held", 10) /\ S[id].store[t] = "absent" /\ t.minter = id /\ t.nonce = S[id].nonce
  BY <1>1, <1>2, <1>5, MintTokenEffect
<1>7. /\ Good(T)
      /\ Money(T) = Money(S) /\ Spends(S, T, id)
      /\ Owned(T) = Owned(S) \cup {<<id, t>>} /\ Open(T) = Open(S) /\ Frozen(T) = Frozen(S)
  BY <1>5, <1>6, MintTokenStep
<1>8. Abstract!Signed(id)
  BY <1>3, <1>4, <1>5, <1>6, <1>7, OneIsSigned
<1>9. Abstract!Next
  BY <1>8 DEF Abstract!Next
<1> QED
  BY <1>4, <1>7, <1>9, GoodPrime DEF Settles

\* A token that is burned.
LEMMA BurnTokenIsSettled ==
  ASSUME TypesInv, TypesInv', Good(Settled), NEW id \in Ids, id \in created, op.phase = "idle",
         NEW t \in TokenIds, NEW n, ValidTx(newBurnTokenTransaction(id, t, n)),
         Single(id, newBurnTokenTransaction(id, t, n))
  PROVE  Settles
<1>1. PICK S : S = accounts
  OBVIOUS
<1>2. PICK T : T = accounts'
  OBVIOUS
<1>3. op' = op /\ created' = created
  BY DEF Single
<1>4. S = Settled /\ T = Settled' /\ Halfway'
  BY <1>1, <1>2, <1>3 DEF Settled, InFlight, Halfway
<1>5. S \in [Ids -> AccountState] /\ T \in [Ids -> AccountState] /\ Good(S)
  BY <1>1, <1>2, <1>4 DEF TypesInv, Typed
<1>6. OneEffect(S, T, id, t, "absent", -10) /\ Real(S[id].store[t]) /\ t.minter = id
  BY <1>1, <1>2, <1>5, BurnTokenEffect
<1>7. /\ Good(T)
      /\ Money(T) = Money(S) /\ Spends(S, T, id) /\ <<id, t>> \in Owned(S)
      /\ Owned(T) = Owned(S) \ {<<id, t>>} /\ Open(T) = Open(S) /\ Frozen(T) = Frozen(S) \ {t}
  BY <1>5, <1>6, BurnTokenStep
<1>8. Abstract!Signed(id)
  BY <1>3, <1>4, <1>5, <1>6, <1>7, OneIsSigned
<1>9. Abstract!Next
  BY <1>8 DEF Abstract!Next
<1> QED
  BY <1>4, <1>7, <1>9, GoodPrime DEF Settles

\* What an operation on a token looks at before its first append.
LEMMA TokenAsked ==
  ASSUME NEW x, NEW y, NEW t, NEW n,
         \/ TransferToken(x, y, t, n)
         \/ AuthorizeTokenTransfer(x, y, t, n)
         \/ UnauthorizeTokenTransfer(x, y, t, n)
         \/ ClawbackToken(x, y, t, n)
         \/ FreezeToken(x, y, t, n)
         \/ UnfreezeToken(x, y, t, n)
  PROVE  \E trx : op.phase = "idle" /\ First(trx) /\ Asked(accounts, trx)
<1>1. CASE TransferToken(x, y, t, n)
  <2> DEFINE trx == newTransferTokenTransaction(x, y, t, accounts[x].store[t], n)
  <2>1. First(trx) /\ op.phase = "idle" /\ {x, y} \subseteq created /\ Real(accounts[x].store[t])
    BY <1>1 DEF TransferToken, Ready, GetToken
  <2>2. /\ trx.type = "TransferToken" /\ trx.sender = x /\ trx.receiver = y /\ trx.token = t
        /\ trx.slot = accounts[x].store[t]
    BY DEF newTransferTokenTransaction, TokenTx
  <2> HIDE DEF trx
  <2> QED
    BY <2>1, <2>2 DEF Asked
<1>2. CASE AuthorizeTokenTransfer(x, y, t, n)
  <2> DEFINE trx == newAuthorizeTokenTransferTransaction(x, y, t, n)
  <2>1. First(trx) /\ op.phase = "idle" /\ {x, y} \subseteq created
    BY <1>2 DEF AuthorizeTokenTransfer, Ready
  <2>2. trx.type = "AuthorizeTokenTransfer" /\ trx.sender = x /\ trx.receiver = y
    BY DEF newAuthorizeTokenTransferTransaction, TokenTx
  <2> HIDE DEF trx
  <2> QED
    BY <2>1, <2>2 DEF Asked
<1>3. CASE UnauthorizeTokenTransfer(x, y, t, n)
  <2> DEFINE trx == newUnauthorizeTokenTransferTransaction(x, y, t, n)
  <2>1. First(trx) /\ op.phase = "idle" /\ {x, y} \subseteq created
    BY <1>3 DEF UnauthorizeTokenTransfer, Ready
  <2>2. trx.type = "UnauthorizeTokenTransfer" /\ trx.sender = x /\ trx.receiver = y
    BY DEF newUnauthorizeTokenTransferTransaction, TokenTx
  <2> HIDE DEF trx
  <2> QED
    BY <2>1, <2>2 DEF Asked
<1>4. CASE ClawbackToken(x, y, t, n)
  <2> DEFINE trx == newClawbackTokenTransaction(x, y, t, accounts[x].store[t], n)
  <2>1. /\ First(trx) /\ op.phase = "idle" /\ {x, y} \subseteq created
        /\ Real(accounts[x].store[t]) /\ ClawbackAddress(t) = y
    BY <1>4 DEF ClawbackToken, Ready, GetToken
  <2>2. /\ trx.type = "ClawbackTokenTransfer" /\ trx.sender = x /\ trx.receiver = y /\ trx.token = t
        /\ trx.slot = accounts[x].store[t]
    BY DEF newClawbackTokenTransaction, TokenTx
  <2> HIDE DEF trx
  <2> QED
    BY <2>1, <2>2 DEF Asked
<1>5. CASE FreezeToken(x, y, t, n)
  <2> DEFINE trx == newFreezeTokenTransaction(x, y, t, n)
  <2>1. First(trx) /\ op.phase = "idle" /\ {x, y} \subseteq created /\ FreezeAddress(t) = x
    BY <1>5 DEF FreezeToken, Ready
  <2>2. trx.type = "FreezeToken" /\ trx.sender = x /\ trx.receiver = y /\ trx.token = t
    BY DEF newFreezeTokenTransaction, TokenTx
  <2> HIDE DEF trx
  <2> QED
    BY <2>1, <2>2 DEF Asked
<1>6. CASE UnfreezeToken(x, y, t, n)
  <2> DEFINE trx == newUnfreezeTokenTransaction(x, y, t, n)
  <2>1. First(trx) /\ op.phase = "idle" /\ {x, y} \subseteq created /\ FreezeAddress(t) = x
    BY <1>6 DEF UnfreezeToken, Ready
  <2>2. trx.type = "UnfreezeToken" /\ trx.sender = x /\ trx.receiver = y /\ trx.token = t
    BY DEF newUnfreezeTokenTransaction, TokenTx
  <2> HIDE DEF trx
  <2> QED
    BY <2>1, <2>2 DEF Asked
<1> QED
  BY <1>1, <1>2, <1>3, <1>4, <1>5, <1>6

\* What a transfer of money looks at.
LEMMA MoneyAsked ==
  ASSUME NEW x, NEW y, NEW amount \in Amounts, NEW n, Transfer(x, y, amount, n)
  PROVE  \E trx : op.phase = "idle" /\ First(trx) /\ Asked(accounts, trx)
<1> DEFINE trx == newTransferTransaction(x, y, amount)
<1>1. First(trx) /\ op.phase = "idle" /\ {x, y} \subseteq created /\ x # y
  BY DEF Transfer, Ready
<1>2. trx.type = "Transfer" /\ trx.sender = x /\ trx.receiver = y /\ trx.amount = amount
  BY DEF newTransferTransaction, MoneyTx
<1> HIDE DEF trx
<1> QED
  BY <1>1, <1>2 DEF Asked

\* A ledger without accounts.
LEMMA FreshGood ==
  /\ Good(Fresh) /\ Money(Fresh) = [id \in Ids |-> 0] /\ Sent(Fresh) = [id \in Ids |-> 0]
  /\ Owned(Fresh) = {} /\ Open(Fresh) = {} /\ Frozen(Fresh) = {}
<1>1. \A x \in Ids : /\ Fresh[x].balance = 0 /\ Fresh[x].mbr = 0 /\ Fresh[x].nonce = 0
                     /\ \A t \in TokenIds : Fresh[x].store[t] = "absent"
  BY DEF Fresh, newAccountWithPublicKey
<1>2. OneHolder(Fresh) /\ NumberSpent(Fresh)
  BY <1>1 DEF OneHolder, NumberSpent, Real
<1>3. \A id \in Ids : MintedIn(Fresh, id) = {} /\ SlotsIn(Fresh, id) = {} /\ FrozenIn(Fresh, id) = {}
  BY <1>1 DEF MintedIn, SlotsIn, FrozenIn, Real
<1>4. IsFiniteSet({}) /\ Cardinality({}) = 0
  BY FS_EmptySet
<1>5. Covered(Fresh)
  <2> SUFFICES ASSUME NEW id \in Ids
               PROVE  /\ IsFiniteSet(MintedIn(Fresh, id)) /\ IsFiniteSet(SlotsIn(Fresh, id))
                      /\ IsFiniteSet(FrozenIn(Fresh, id))
                      /\ Fresh[id].mbr >= MBR_TOKEN_COST * Cardinality(MintedIn(Fresh, id))
                                          + MBR_SLOT_COST * Cardinality(SlotsIn(Fresh, id))
                                          + MBR_FREEZE_COST * Cardinality(FrozenIn(Fresh, id))
    BY DEF Covered
  <2>1. MintedIn(Fresh, id) = {} /\ SlotsIn(Fresh, id) = {} /\ FrozenIn(Fresh, id) = {} /\ Fresh[id].mbr = 0
    BY <1>1, <1>3
  <2> QED
    BY <1>4, <2>1 DEF MBR_TOKEN_COST, MBR_SLOT_COST, MBR_FREEZE_COST
<1>6. Money(Fresh) = [id \in Ids |-> 0] /\ Sent(Fresh) = [id \in Ids |-> 0]
  BY <1>1 DEF Money, Sent
<1>7. Owned(Fresh) = {}
  BY <1>1 DEF Owned, Real
<1>8. Open(Fresh) = {}
  BY <1>1 DEF Open
<1>9. Frozen(Fresh) = {}
  BY <1>1 DEF Frozen
<1> QED
  BY <1>2, <1>5, <1>6, <1>7, <1>8, <1>9 DEF Good

\* The process ends and another one starts.
LEMMA RestartIsSettled ==
  ASSUME Restart
  PROVE  Settles
<1>1. PICK T : T = Fresh
  OBVIOUS
<1>2. T = accounts' /\ op' = Idle /\ created' = {}
  BY <1>1 DEF Restart
<1>3. ~InFlight'
  BY <1>2 DEF InFlight, Idle
<1>4. T = Settled' /\ Halfway'
  BY <1>2, <1>3 DEF Settled, Halfway
<1>5. /\ Good(T) /\ Money(T) = [id \in Ids |-> 0] /\ Sent(T) = [id \in Ids |-> 0]
      /\ Owned(T) = {} /\ Open(T) = {} /\ Frozen(T) = {}
  BY <1>1, FreshGood
<1>6. /\ Money(Settled)' = Money(T) /\ Owned(Settled)' = Owned(T) /\ Open(Settled)' = Open(T)
      /\ Frozen(Settled)' = Frozen(T) /\ Sent(Settled)' = Sent(T)
  BY <1>4, SettledViews
<1>7. Abstract!Fail
  BY <1>2, <1>5, <1>6 DEF Abstract!Fail
<1>8. Abstract!Next
  BY <1>7 DEF Abstract!Next
<1> QED
  BY <1>4, <1>5, <1>8, GoodPrime DEF Settles

\* Every step is one of TokenLedger's or is not seen.
LEMMA EveryStepSettles ==
  ASSUME TypesInv, TypesInv', Halfway, Good(Settled), [Next]_vars
  PROVE  Settles
<1> USE MinterAssumption
<1>1. ASSUME NEW id \in Ids, NEW x \in InitialBalances, CreateAccountWithKeys(id, x)
      PROVE  Settles
  <2>1. /\ op.phase = "idle" /\ op' = op /\ id \notin created /\ created' = created \cup {id}
        /\ accounts' = IF x > 0
                       THEN [accounts EXCEPT ![id] = appendTransaction(id, @, newMintTransaction(id, x)).acc]
                       ELSE accounts
    BY <1>1 DEF CreateAccountWithKeys
  <2>2. CASE x > 0
    <3>1. accounts' = [accounts EXCEPT ![id] = appendTransaction(id, @, newMintTransaction(id, x)).acc]
      BY <2>1, <2>2
    <3> QED
      BY <2>1, <2>2, <3>1, MintIsSettled
  <2>3. CASE ~(x > 0)
    <3>1. accounts' = accounts
      BY <2>1, <2>3
    <3> QED
      BY <2>1, <2>3, <3>1, CreateIsSettled
  <2> QED
    BY <2>2, <2>3
<1>2. ASSUME NEW id \in Ids, NEW x \in Amounts, Mint(id, x)
      PROVE  Settles
  <2>1. /\ op.phase = "idle" /\ op' = op /\ id \in created /\ created' = created
        /\ accounts' = [accounts EXCEPT ![id] = appendTransaction(id, @, newMintTransaction(id, x)).acc]
    BY <1>2 DEF Mint, Single, TypesInv, Typed
  <2> QED
    BY <2>1, MintIsSettled
<1>3. ASSUME NEW id \in Minters, NEW terms \in Terms, NEW n \in Nonces, MintToken(id, terms, n)
      PROVE  Settles
  <2> DEFINE t == [minter |-> id, nonce |-> n, terms |-> terms]
  <2>1. t \in TokenIds
    BY <1>3, MintedTokenId DEF MintToken, Ready
  <2>2. ValidTx(newMintTokenTransaction(id, t))
    BY <2>1, NewTokenTx DEF newMintTokenTransaction, TransactionType, SlotStates
  <2>3. Single(id, newMintTokenTransaction(id, t)) /\ id \in created /\ op.phase = "idle" /\ id \in Ids
    BY <1>3 DEF MintToken, Ready
  <2> HIDE DEF t
  <2> QED
    BY <2>1, <2>2, <2>3, MintTokenIsSettled
<1>4. ASSUME NEW id \in Ids, NEW t \in TokenIds, NEW n \in Nonces, BurnToken(id, t, n)
      PROVE  Settles
  <2>1. ValidTx(newBurnTokenTransaction(id, t, n))
    BY NewTokenTx DEF newBurnTokenTransaction, TransactionType, SlotStates
  <2>2. Single(id, newBurnTokenTransaction(id, t, n)) /\ id \in created /\ op.phase = "idle"
    BY <1>4 DEF BurnToken, Ready
  <2> QED
    BY <2>1, <2>2, BurnTokenIsSettled
<1>5. ASSUME NEW trx, op.phase = "idle", First(trx), Asked(accounts, trx)
      PROVE  Settles
  BY <1>5, BeginsHalfway, UnseenSettles
<1>6. ASSUME NEW x, NEW y, NEW amount \in Amounts, NEW n, Transfer(x, y, amount, n)
      PROVE  Settles
  BY <1>5, <1>6, MoneyAsked
<1>7. ASSUME NEW x, NEW y, NEW t, NEW n,
             \/ TransferToken(x, y, t, n)
             \/ AuthorizeTokenTransfer(x, y, t, n)
             \/ UnauthorizeTokenTransfer(x, y, t, n)
             \/ ClawbackToken(x, y, t, n)
             \/ FreezeToken(x, y, t, n)
             \/ UnfreezeToken(x, y, t, n)
      PROVE  Settles
  BY <1>5, <1>7, TokenAsked
<1>8. ASSUME NEW x, NEW y, NEW t, ClawbackPanics(x, y, t)
      PROVE  Settles
  <2>1. /\ op.phase = "idle" /\ op' = [op EXCEPT !.phase = "panicked"] /\ accounts' = accounts
        /\ created' = created
    BY <1>8 DEF ClawbackPanics
  <2>2. op'.phase = "panicked"
    BY <2>1 DEF TypesInv, Typed
  <2>3. Settled' = Settled /\ Halfway'
    BY <2>1, <2>2 DEF Settled, InFlight, Halfway
  <2> QED
    BY <2>1, <2>3, UnseenSettles
<1>9. CASE UNCHANGED vars
  <2>1. created' = created /\ accounts' = accounts /\ op' = op /\ before' = before
    BY <1>9 DEF vars
  <2>2. Settled' = Settled
    BY <2>1 DEF Settled, InFlight
  <2>3. Halfway'
    BY <2>1 DEF Halfway, InFlight, Asked
  <2> QED
    BY <2>1, <2>2, <2>3, UnseenSettles
<1>10. CASE ServeRequest
  BY <1>10, <1>1, <1>2, <1>3, <1>4, <1>6, <1>7, <1>8, <1>9 DEF ServeRequest, Refuse
<1>11. CASE SecondLeg
  BY <1>11, SecondLegSettles
<1>12. CASE Rollback
  BY <1>12, RollbackIsSettled
<1>13. CASE Restart
  BY <1>13, RestartIsSettled
<1> QED
  BY <1>9, <1>10, <1>11, <1>12, <1>13 DEF Next

-----------------------------------------------------------------------------
(***************************************************************************)
(* The theorems.                                                           *)
(***************************************************************************)
\* TokenInv, with its parts about the settled accounts as one.
LEMMA TokenInvParts == TokenInv <=> TypesInv /\ Halfway /\ Good(Settled)
BY DEF TokenInv, Good

\* The invariant holds when the ledger is created.
LEMMA TokenInit == Init => TokenInv /\ Abstract!Init
<1> SUFFICES ASSUME Init PROVE TokenInv /\ Abstract!Init
  OBVIOUS
<1>1. TypesInv
  BY TypesInit
<1>2. ~InFlight
  BY DEF Init, InFlight, Idle
<1>3. Settled = Fresh
  BY <1>2 DEF Settled, Init
<1>4. Halfway
  BY <1>2 DEF Halfway
<1>5. Abstract!Init
  BY <1>3, FreshGood DEF Abstract!Init, Init
<1> QED
  BY <1>1, <1>3, <1>4, <1>5, FreshGood, TokenInvParts

\* Every step keeps it, and is a step of TokenLedger or is not seen.
LEMMA TokenNext == TokenInv /\ [Next]_vars => TokenInv' /\ [Abstract!Next]_(Abstract!vars)
<1> SUFFICES ASSUME TokenInv, [Next]_vars PROVE TokenInv' /\ [Abstract!Next]_(Abstract!vars)
  OBVIOUS
<1>1. TypesInv /\ Halfway /\ Good(Settled)
  BY TokenInvParts
<1>2. TypesInv'
  BY <1>1, TypesNext
<1>3. Settles
  BY <1>1, <1>2, EveryStepSettles
<1>4. TokenInv'
  BY <1>2, <1>3 DEF TokenInv, Settles, Good
<1> QED
  BY <1>3, <1>4 DEF Settles

\* The invariant of the ledger with its tokens.
THEOREM TokenInvariant == Spec => []TokenInv
BY TokenInit, TokenNext, PTL DEF Spec

\* Operations are atomic to whoever looks at the ledger from outside: App
\* implements TokenLedger (ImplementsTokenLedger), whatever the order of appends,
\* refusals and rollbacks.
THEOREM Atomic == Spec => ImplementsTokenLedger
<1>1. Spec => Abstract!Spec
  BY TokenInit, TokenNext, PTL DEF Spec, Abstract!Spec
<1> QED
  BY <1>1 DEF ImplementsTokenLedger

\* A rollback leaves every account as it was before the operation
\* (RollbackRestores), chain and number included.
THEOREM RollbacksRestore == Spec => RollbackRestores
<1>1. ASSUME TokenInv, [Next]_vars, op.phase = "rollback", ~Reauthorization
      PROVE  accounts' = before \/ UNCHANGED vars
  <2>1. Rollback \/ UNCHANGED vars
    BY <1>1 DEF Next, ServeRequest, SecondLeg, Restart
  <2>2. CASE Rollback
    BY <1>1, <2>2, RollbackSettles, TokenInvParts
  <2> QED
    BY <2>1, <2>2
<1>2. TokenInv /\ [Next]_vars => [op.phase = "rollback" /\ ~Reauthorization => accounts' = before]_vars
  BY <1>1
<1> QED
  BY <1>2, TokenInvariant, PTL DEF Spec, RollbackRestores

\* Half an operation takes the token it moves out of its sender's store, and no
\* other one out of or into a store.
LEMMA HalfwayStores ==
  ASSUME TokenInv, InFlight, NEW x \in Ids, NEW t \in TokenIds
  PROVE  /\ Real(accounts[x].store[t]) <=> Real(before[x].store[t]) /\ ~(Moving(t) /\ x = op.trx.sender)
         /\ Moving(t) => Real(before[op.trx.sender].store[t])
         /\ accounts[x].store[t] = "frozen" => before[x].store[t] = "frozen"
<1> DEFINE trx == op.trx
           s == trx.sender
           u == trx.token
<1>1. /\ ValidTx(trx) /\ trx.type \in TwoParty /\ s \in Ids
      /\ before \in [Ids -> AccountState]
      /\ Asked(before, trx)
      /\ FirstHalf(before[s], trx, accounts[s])
      /\ \A y \in Ids \ {s} : accounts[y] = before[y]
  BY HalfwayShape, TokenInvParts
<1>2. Moving(t) <=> trx.type \in {"TransferToken", "ClawbackTokenTransfer"} /\ u = t
  BY DEF Moving
<1>3. Moving(t) => Real(before[s].store[t])
  BY <1>1, <1>2 DEF Asked
<1>4. before[s].store \in [TokenIds -> SlotStates] /\ (trx.type # "Transfer" => u \in TokenIds)
  BY <1>1, ValidTxFields DEF AccountState, TwoParty
<1>5. \/ accounts[s].store = before[s].store /\ trx.type \notin {"TransferToken", "ClawbackTokenTransfer"}
      \/ /\ accounts[s].store = [before[s].store EXCEPT ![u] = "absent"]
         /\ trx.type \in {"TransferToken", "ClawbackTokenTransfer"} \/ before[s].store[u] = "placeholder"
      \/ /\ accounts[s].store = [before[s].store EXCEPT ![u] = "placeholder"] /\ before[s].store[u] = "absent"
         /\ trx.type \notin {"TransferToken", "ClawbackTokenTransfer"}
  <2>1. CASE trx.type = "AuthorizeTokenTransfer"
    BY <1>1, <2>1 DEF FirstHalf, Fields
  <2>2. CASE trx.type # "AuthorizeTokenTransfer"
    BY <1>1, <2>2 DEF FirstHalf, Fields, TwoParty
  <2> QED
    BY <2>1, <2>2
<1> HIDE DEF trx, s, u
<1>6. CASE x # s
  BY <1>1, <1>3, <1>6 DEF s, trx
<1>7. CASE x = s
  <2>1. CASE accounts[s].store = before[s].store /\ trx.type \notin {"TransferToken", "ClawbackTokenTransfer"}
    BY <1>2, <1>3, <1>7, <2>1 DEF s, trx
  <2>2. CASE /\ accounts[s].store = [before[s].store EXCEPT ![u] = "absent"]
             /\ trx.type \in {"TransferToken", "ClawbackTokenTransfer"} \/ before[s].store[u] = "placeholder"
    <3>1. accounts[s].store[t] = IF t = u THEN "absent" ELSE before[s].store[t]
      BY <1>4, <2>2
    <3>2. CASE t = u
      <4>1. accounts[s].store[t] = "absent"
        BY <3>1, <3>2
      <4>2. Moving(t) \/ before[s].store[t] = "placeholder"
        BY <1>2, <2>2, <3>2
      <4> QED
        BY <1>3, <1>7, <4>1, <4>2 DEF Real, s, trx
    <3>3. CASE t # u
      BY <1>2, <1>3, <1>7, <3>1, <3>3 DEF s, trx
    <3> QED
      BY <3>2, <3>3
  <2>3. CASE /\ accounts[s].store = [before[s].store EXCEPT ![u] = "placeholder"] /\ before[s].store[u] = "absent"
             /\ trx.type \notin {"TransferToken", "ClawbackTokenTransfer"}
    <3>1. accounts[s].store[t] = IF t = u THEN "placeholder" ELSE before[s].store[t]
      BY <1>4, <2>3
    <3> QED
      BY <1>2, <1>3, <1>7, <2>3, <3>1 DEF Real, s, trx
  <2> QED
    BY <1>5, <2>1, <2>2, <2>3
<1> QED
  BY <1>6, <1>7

\* A token is in one account's store at most, and in none while it is moved
\* (SingleHolder), also between the two appends of an operation.
THEOREM TokensHaveOneHolder == Spec => []SingleHolder
<1>1. ASSUME TokenInv, NEW t \in TokenIds, NEW x \in Ids, NEW y \in Ids, Holds(x, t)
      PROVE  ~Moving(t) /\ (Holds(y, t) => x = y)
  <2>1. \A a, b \in Ids : Real(Settled[a].store[t]) /\ Real(Settled[b].store[t]) => a = b
    BY <1>1, TokenInvParts DEF Good, OneHolder
  <2>2. CASE ~InFlight
    BY <1>1, <2>1, <2>2 DEF Settled, Moving, Holds, GetToken
  <2>3. CASE InFlight
    <3>1. op.trx.sender \in Ids /\ Settled = before
      BY <1>1, <2>3, TokenInvParts DEF Settled, TypesInv, InFlightOK
    <3>2. \A z \in Ids : /\ Real(accounts[z].store[t]) <=>
                              Real(before[z].store[t]) /\ ~(Moving(t) /\ z = op.trx.sender)
                         /\ Moving(t) => Real(before[op.trx.sender].store[t])
      BY <1>1, <2>3, HalfwayStores
    <3> QED
      BY <1>1, <2>1, <3>1, <3>2 DEF Holds, GetToken
  <2> QED
    BY <2>2, <2>3
<1>2. TokenInv => SingleHolder
  BY <1>1 DEF SingleHolder
<1> QED
  BY <1>2, TokenInvariant, PTL

\* Between operations an account's mbr covers all it is locked for (MBRCovers).
THEOREM LockedIsCovered == Spec => []MBRCovers
<1>1. ASSUME TokenInv, op.phase = "idle", NEW id \in Ids
      PROVE  accounts[id].mbr >= Locked(id)
  <2>1. Settled = accounts /\ ~InFlight
    BY <1>1 DEF Settled, InFlight
  <2>2. accounts[id].mbr >= MBR_TOKEN_COST * Cardinality(MintedIn(accounts, id))
                            + MBR_SLOT_COST * Cardinality(SlotsIn(accounts, id))
                            + MBR_FREEZE_COST * Cardinality(FrozenIn(accounts, id))
    BY <1>1, <2>1, TokenInvParts DEF Good, Covered
  <2>3. Minted(id) = MintedIn(accounts, id)
    BY <2>1 DEF Minted, Live, Moving, Holds, GetToken, MintedIn
  <2>4. Slots(id) = SlotsIn(accounts, id) /\ FrozenBy(id) = FrozenIn(accounts, id)
    BY DEF Slots, SlotsIn, FrozenBy, FrozenIn
  <2> QED
    BY <2>2, <2>3, <2>4 DEF Locked
<1>2. TokenInv => MBRCovers
  BY <1>1 DEF MBRCovers
<1> QED
  BY <1>2, TokenInvariant, PTL

\* A token is live if it is held in the settled accounts.
LiveIsSettled == Live = {t \in TokenIds : Exists(Settled, t)}

\* It is, also while it is moved.
LEMMA LiveSettled == TokenInv => LiveIsSettled
<1> SUFFICES ASSUME TokenInv, NEW t \in TokenIds
             PROVE  Moving(t) \/ (\E x \in Ids : Holds(x, t)) <=> Exists(Settled, t)
  BY DEF Live, LiveIsSettled
<1>1. CASE ~InFlight
  BY <1>1 DEF Settled, Moving, Holds, GetToken, Exists
<1>2. CASE InFlight
  <2>1. op.trx.sender \in Ids /\ Settled = before
    BY <1>2, TokenInvParts DEF Settled, TypesInv, InFlightOK
  <2>2. \A z \in Ids : /\ Real(accounts[z].store[t]) <=>
                            Real(before[z].store[t]) /\ ~(Moving(t) /\ z = op.trx.sender)
                       /\ Moving(t) => Real(before[op.trx.sender].store[t])
    BY <1>2, HalfwayStores
  <2> QED
    BY <2>1, <2>2 DEF Holds, GetToken, Exists
<1> QED
  BY <1>1, <1>2

\* Which tokens exist is what TokenLedger sees as owned.
LEMMA ExistsOwned ==
  ASSUME NEW S, NEW t \in TokenIds
  PROVE  Exists(S, t) <=> \E x \in Ids : <<x, t>> \in Owned(S)
<1>1. \A x \in Ids : <<x, t>> \in Owned(S) <=> Real(S[x].store[t])
  BY InViews
<1> QED
  BY <1>1 DEF Exists

\* An operation on two accounts neither makes nor loses a token.
LEMMA BothExists ==
  ASSUME NEW S, NEW T, NEW trx, Both(S, T, trx), Good(S), NEW u \in TokenIds
  PROVE  Exists(T, u) <=> Exists(S, u)
<1> DEFINE s == trx.sender
           r == trx.receiver
           t == trx.token
<1>1. (Exists(S, u) <=> \E x \in Ids : <<x, u>> \in Owned(S)) /\ (Exists(T, u) <=> \E x \in Ids : <<x, u>> \in Owned(T))
  BY ExistsOwned
<1>2. s \in Ids /\ r \in Ids /\ trx.type \in TwoParty
  BY DEF Both
<1>3. CASE trx.type = "Transfer"
  <2>1. \A x \in Ids : T[x].store = S[x].store
    BY <1>3, MoneyEffect
  <2> QED
    BY <2>1 DEF Exists
<1>4. CASE trx.type \in {"TransferToken", "ClawbackTokenTransfer"}
  <2>1. <<s, t>> \in Owned(S) /\ Owned(T) = (Owned(S) \ {<<s, t>>}) \cup {<<r, t>>}
    BY <1>4, TokenViews
  <2> HIDE DEF s, r, t
  <2>2. CASE u = t
    BY <1>1, <1>2, <2>1, <2>2
  <2>3. CASE u # t
    <3>1. \A x \in Ids : <<x, u>> \in Owned(T) <=> <<x, u>> \in Owned(S)
      BY <2>1, <2>3
    <3> QED
      BY <1>1, <3>1
  <2> QED
    BY <2>2, <2>3
<1>5. CASE trx.type \notin {"Transfer", "TransferToken", "ClawbackTokenTransfer"}
  <2>1. Owned(T) = Owned(S)
    <3>1. CASE trx.type \in {"AuthorizeTokenTransfer", "UnauthorizeTokenTransfer"}
      BY <3>1, TokenViews
    <3>2. CASE trx.type \in {"FreezeToken", "UnfreezeToken"}
      BY <3>2, TokenViews
    <3> QED
      BY <1>2, <1>5, <3>1, <3>2 DEF TwoParty
  <2> QED
    BY <1>1, <2>1
<1> QED
  BY <1>3, <1>4, <1>5

\* The block that was added last.
LEMMA LastAppended ==
  ASSUME NEW acc, NEW c \in Seq(Transaction), NEW trx, acc.chain = Append(c, trx)
  PROVE  LastBlock(acc) = trx
<1>1. Append(c, trx) # << >> /\ Last(Append(c, trx)) = trx
  <2>1. PICK V : c \in Seq(V) /\ trx \in V
    <3>1. c \in Seq(Transaction \cup {trx}) /\ trx \in Transaction \cup {trx}
      OBVIOUS
    <3> QED
      BY <3>1
  <2>2. Len(Append(c, trx)) = Len(c) + 1 /\ Append(c, trx)[Len(c) + 1] = trx /\ Len(c) \in Nat
    BY <2>1
  <2>3. Append(c, trx) # << >>
    BY <2>2
  <2> QED
    BY <2>2, <2>3 DEF Last
<1> QED
  BY <1>1 DEF LastBlock

\* What may happen to the tokens there are.
TokenStep ==
    /\ \A t \in Live \ Live' :
          /\ Holds(t.minter, t)
          /\ LastBlock(accounts'[t.minter]).type = "BurnToken"
    /\ \A t \in Live' \ Live :
          /\ t.nonce = accounts[t.minter].nonce
          /\ t.nonce < accounts'[t.minter].nonce

\* The live tokens before and after a step.
LEMMA LiveAround ==
  ASSUME TokenInv, TokenInv', NEW S, NEW T, S = Settled, T = Settled'
  PROVE  Live = {t \in TokenIds : Exists(S, t)} /\ Live' = {t \in TokenIds : Exists(T, t)}
<1>1. LiveIsSettled
  BY LiveSettled
<1>2. LiveIsSettled'
  BY LiveSettled, PTL
<1>3. Live = {t \in TokenIds : Exists(S, t)}
  BY <1>1 DEF LiveIsSettled
<1>4. Live' = {t \in TokenIds : Exists(T, t)}
  BY <1>2 DEF LiveIsSettled, Exists
<1> QED
  BY <1>3, <1>4

\* A step after which the same tokens exist.
LEMMA SameTokens ==
  ASSUME TokenInv, TokenInv', NEW S, NEW T, S = Settled, T = Settled',
         \A u \in TokenIds : Exists(T, u) <=> Exists(S, u)
  PROVE  TokenStep
<1>1. Live' = Live
  BY LiveAround
<1> QED
  BY <1>1 DEF TokenStep

\* The settled accounts keep their stores.
LEMMA StoresKept ==
  ASSUME TokenInv, TokenInv', NEW S, NEW T, S = Settled, T = Settled',
         \A x \in Ids : T[x].store = S[x].store
  PROVE  TokenStep
<1>1. \A u \in TokenIds : Exists(T, u) <=> Exists(S, u)
  BY DEF Exists
<1> QED
  BY <1>1, SameTokens

\* Minting a token makes that one exist, burning it ends that.
LEMMA OneExists ==
  ASSUME NEW S, NEW T, NEW id \in Ids, NEW t \in TokenIds, NEW v, NEW d,
         OneEffect(S, T, id, t, v, d), NEW u \in TokenIds, u # t
  PROVE  Exists(T, u) <=> Exists(S, u)
BY DEF OneEffect, Leaves, Exists

\* A step that mints a token.
LEMMA MintTokenLive ==
  ASSUME TokenInv, TokenInv', NEW id \in Ids, op.phase = "idle", NEW t \in TokenIds,
         ValidTx(newMintTokenTransaction(id, t)), Single(id, newMintTokenTransaction(id, t))
  PROVE  TokenStep
<1>1. PICK S : S = accounts
  OBVIOUS
<1>2. PICK T : T = accounts'
  OBVIOUS
<1>3. S = Settled /\ T = Settled'
  BY <1>1, <1>2 DEF Single, Settled, InFlight
<1>4. S \in [Ids -> AccountState] /\ Good(S)
  BY <1>1, <1>3, TokenInvParts DEF TypesInv, Typed
<1>5. OneEffect(S, T, id, t, "held", 10) /\ t.minter = id /\ t.nonce = S[id].nonce
  BY <1>1, <1>2, <1>4, MintTokenEffect
<1>6. T[id].nonce = S[id].nonce + 1 /\ S[id].nonce \in Int
  BY <1>4, <1>5 DEF OneEffect, Leaves, AccountState
<1>7. ~Exists(S, t)
  BY <1>4, <1>5, MintedIsNew
<1>8. Live = {u \in TokenIds : Exists(S, u)} /\ Live' = {u \in TokenIds : Exists(T, u)}
  BY <1>3, LiveAround
<1>9. \A u \in TokenIds : u # t => (Exists(T, u) <=> Exists(S, u))
  BY <1>5, OneExists
<1>10. Live \ Live' = {} /\ Live' \ Live \subseteq {t}
  BY <1>7, <1>8, <1>9
<1>11. t.nonce = accounts[t.minter].nonce /\ t.nonce < accounts'[t.minter].nonce
  BY <1>1, <1>2, <1>5, <1>6
<1> QED
  BY <1>10, <1>11 DEF TokenStep

\* A step that burns a token.
LEMMA BurnTokenLive ==
  ASSUME TokenInv, TokenInv', NEW id \in Ids, op.phase = "idle", NEW t \in TokenIds, NEW n,
         ValidTx(newBurnTokenTransaction(id, t, n)), Single(id, newBurnTokenTransaction(id, t, n))
  PROVE  TokenStep
<1>1. PICK S : S = accounts
  OBVIOUS
<1>2. PICK T : T = accounts'
  OBVIOUS
<1>3. S = Settled /\ T = Settled'
  BY <1>1, <1>2 DEF Single, Settled, InFlight
<1>4. S \in [Ids -> AccountState]
  BY <1>1, <1>3, TokenInvParts DEF TypesInv, Typed
<1>5. /\ OneEffect(S, T, id, t, "absent", -10) /\ Real(S[id].store[t]) /\ t.minter = id
      /\ T[id].chain = Append(S[id].chain, newBurnTokenTransaction(id, t, n))
  BY <1>1, <1>2, <1>4, BurnTokenEffect
<1>6. Live = {u \in TokenIds : Exists(S, u)} /\ Live' = {u \in TokenIds : Exists(T, u)}
  BY <1>3, LiveAround
<1>7. \A u \in TokenIds : u # t => (Exists(T, u) <=> Exists(S, u))
  BY <1>5, OneExists
<1>8. Exists(S, t)
  BY <1>5 DEF Exists
<1>9. Live \ Live' \subseteq {t} /\ Live' \ Live = {}
  BY <1>6, <1>7, <1>8
<1>10. LastBlock(T[id]) = newBurnTokenTransaction(id, t, n)
  BY <1>4, <1>5, LastAppended DEF AccountState
<1>11. Holds(t.minter, t) /\ LastBlock(accounts'[t.minter]).type = "BurnToken"
  BY <1>1, <1>2, <1>5, <1>10 DEF Holds, GetToken, newBurnTokenTransaction, TokenTx
<1> QED
  BY <1>9, <1>11 DEF TokenStep

\* The set of tokens that exist changes only by minting and burning.
LEMMA TokensStep ==
  ASSUME TokenInv, TokenInv', [Next]_vars, op.phase # "panicked"
  PROVE  TokenStep
<1> USE MinterAssumption
<1>k. TypesInv /\ TypesInv' /\ Halfway /\ Good(Settled)
  BY TokenInvParts DEF TokenInv
<1>u. ASSUME Settled' = Settled PROVE TokenStep
  <2>1. PICK S : S = Settled
    OBVIOUS
  <2>2. S = Settled'
    BY <1>u, <2>1
  <2> QED
    BY <2>1, <2>2, StoresKept
<1>m. ASSUME NEW id \in Ids, NEW x \in Int, op.phase = "idle", op' = op,
             accounts' = [accounts EXCEPT ![id] = appendTransaction(id, @, newMintTransaction(id, x)).acc]
      PROVE  TokenStep
  <2>1. PICK S : S = accounts
    OBVIOUS
  <2>2. PICK T : T = accounts'
    OBVIOUS
  <2>3. S = Settled /\ T = Settled' /\ S \in [Ids -> AccountState]
    BY <1>k, <1>m, <2>1, <2>2 DEF Settled, InFlight, TypesInv, Typed
  <2>4. PICK r : r = appendTransaction(id, S[id], newMintTransaction(id, x)).acc
    OBVIOUS
  <2>5. T = [S EXCEPT ![id] = r]
    BY <1>m, <2>1, <2>2, <2>4
  <2>6. Fields(r, S[id].balance + x, S[id].mbr, S[id].nonce, S[id].store,
               Append(S[id].chain, newMintTransaction(id, x)))
    BY <2>3, <2>4, MintFields
  <2>7. \A y \in Ids : T[y].store = S[y].store
    BY <2>3, <2>5, <2>6 DEF Fields
  <2> QED
    BY <2>3, <2>7, StoresKept
<1>1. ASSUME NEW id \in Ids, NEW x \in InitialBalances, CreateAccountWithKeys(id, x)
      PROVE  TokenStep
  <2>1. /\ op.phase = "idle" /\ op' = op
        /\ accounts' = IF x > 0
                       THEN [accounts EXCEPT ![id] = appendTransaction(id, @, newMintTransaction(id, x)).acc]
                       ELSE accounts
    BY <1>1 DEF CreateAccountWithKeys
  <2>2. CASE x > 0
    <3>1. accounts' = [accounts EXCEPT ![id] = appendTransaction(id, @, newMintTransaction(id, x)).acc]
      BY <2>1, <2>2
    <3> QED
      BY <2>1, <3>1, <1>m, AmountsAssumption
  <2>3. CASE ~(x > 0)
    <3>1. Settled' = Settled
      BY <2>1, <2>3 DEF Settled, InFlight
    <3> QED
      BY <3>1, <1>u
  <2> QED
    BY <2>2, <2>3
<1>2. ASSUME NEW id \in Ids, NEW x \in Amounts, Mint(id, x)
      PROVE  TokenStep
  <2>1. /\ op.phase = "idle" /\ op' = op
        /\ accounts' = [accounts EXCEPT ![id] = appendTransaction(id, @, newMintTransaction(id, x)).acc]
    BY <1>k, <1>2 DEF Mint, Single, TypesInv, Typed
  <2> QED
    BY <2>1, <1>m, AmountsAssumption
<1>3. ASSUME NEW id \in Minters, NEW terms \in Terms, NEW n \in Nonces, MintToken(id, terms, n)
      PROVE  TokenStep
  <2> DEFINE t == [minter |-> id, nonce |-> n, terms |-> terms]
  <2>1. t \in TokenIds
    BY <1>3, MintedTokenId DEF MintToken, Ready
  <2>2. ValidTx(newMintTokenTransaction(id, t))
    BY <2>1, NewTokenTx DEF newMintTokenTransaction, TransactionType, SlotStates
  <2>3. Single(id, newMintTokenTransaction(id, t)) /\ op.phase = "idle" /\ id \in Ids
    BY <1>3 DEF MintToken, Ready
  <2> HIDE DEF t
  <2> QED
    BY <2>1, <2>2, <2>3, MintTokenLive
<1>4. ASSUME NEW id \in Ids, NEW t \in TokenIds, NEW n \in Nonces, BurnToken(id, t, n)
      PROVE  TokenStep
  <2>1. ValidTx(newBurnTokenTransaction(id, t, n))
    BY NewTokenTx DEF newBurnTokenTransaction, TransactionType, SlotStates
  <2>2. Single(id, newBurnTokenTransaction(id, t, n)) /\ op.phase = "idle"
    BY <1>4 DEF BurnToken, Ready
  <2> QED
    BY <2>1, <2>2, BurnTokenLive
<1>5. ASSUME NEW trx, op.phase = "idle", First(trx), Asked(accounts, trx)
      PROVE  TokenStep
  BY <1>5, <1>u, BeginsHalfway
<1>6. ASSUME NEW x, NEW y, NEW amount \in Amounts, NEW n, Transfer(x, y, amount, n)
      PROVE  TokenStep
  BY <1>5, <1>6, MoneyAsked
<1>7. ASSUME NEW x, NEW y, NEW t, NEW n,
             \/ TransferToken(x, y, t, n)
             \/ AuthorizeTokenTransfer(x, y, t, n)
             \/ UnauthorizeTokenTransfer(x, y, t, n)
             \/ ClawbackToken(x, y, t, n)
             \/ FreezeToken(x, y, t, n)
             \/ UnfreezeToken(x, y, t, n)
      PROVE  TokenStep
  BY <1>5, <1>7, TokenAsked
<1>8. ASSUME NEW x, NEW y, NEW t, ClawbackPanics(x, y, t)
      PROVE  TokenStep
  <2>1. op.phase = "idle" /\ op'.phase = "panicked" /\ accounts' = accounts
    BY <1>k, <1>8 DEF ClawbackPanics, TypesInv, Typed
  <2>2. Settled' = Settled
    BY <2>1 DEF Settled, InFlight
  <2> QED
    BY <2>2, <1>u
<1>9. CASE UNCHANGED vars
  <2>1. Settled' = Settled
    BY <1>9 DEF Settled, InFlight, vars
  <2> QED
    BY <2>1, <1>u
<1>10. CASE ServeRequest
  BY <1>10, <1>1, <1>2, <1>3, <1>4, <1>6, <1>7, <1>8, <1>9 DEF ServeRequest, Refuse
<1>11. CASE SecondLeg
  <2>1. Settled' = Settled \/ Both(Settled, Settled', op.trx)
    BY <1>k, <1>11, SecondSettles
  <2>2. CASE Both(Settled, Settled', op.trx)
    <3>1. PICK S : S = Settled
      OBVIOUS
    <3>2. PICK T : T = Settled'
      OBVIOUS
    <3>3. PICK trx : trx = op.trx
      OBVIOUS
    <3>4. Both(S, T, trx) /\ Good(S)
      BY <1>k, <2>2, <3>1, <3>2, <3>3
    <3>5. \A u \in TokenIds : Exists(T, u) <=> Exists(S, u)
      BY <3>4, BothExists
    <3> QED
      BY <3>1, <3>2, <3>5, SameTokens
  <2> QED
    BY <1>u, <2>1, <2>2
<1>12. CASE Rollback
  <2> DEFINE s == op.trx.sender
             t == op.trx.token
  <2>1. /\ Settled = before /\ Settled' = accounts'
        /\ before \in [Ids -> AccountState] /\ s \in Ids /\ t \in TokenIds
        /\ ~Reauthorization => accounts' = before
        /\ Reauthorization =>
             /\ before[s].store[t] = "placeholder"
             /\ \E q : /\ accounts' = [before EXCEPT ![s] = q]
                       /\ Lapsed(before[s], t, q)
    BY <1>k, <1>12, RollbackSettles
  <2> HIDE DEF s, t
  <2>2. CASE ~Reauthorization
    BY <1>u, <2>1, <2>2
  <2>3. CASE Reauthorization
    <3>1. PICK q : accounts' = [before EXCEPT ![s] = q] /\ Lapsed(before[s], t, q)
      BY <2>1, <2>3
    <3>2. PICK S : S = before
      OBVIOUS
    <3>3. PICK T : T = accounts'
      OBVIOUS
    <3>4. /\ S = Settled /\ T = Settled' /\ S \in [Ids -> AccountState]
          /\ S[s].store[t] = "placeholder" /\ T = [S EXCEPT ![s] = q]
      BY <2>1, <2>3, <3>1, <3>2, <3>3
    <3>5. q.store = [S[s].store EXCEPT ![t] = "absent"] /\ S[s].store \in [TokenIds -> SlotStates]
      BY <2>1, <3>1, <3>2 DEF Lapsed, Fields, AccountState
    <3>6. \A u \in TokenIds : Real(q.store[u]) <=> Real(S[s].store[u])
      BY <3>4, <3>5 DEF Real
    <3>7. \A x \in Ids, u \in TokenIds : Real(T[x].store[u]) <=> Real(S[x].store[u])
      BY <2>1, <3>4, <3>6
    <3>8. \A u \in TokenIds : Exists(T, u) <=> Exists(S, u)
      BY <3>7 DEF Exists
    <3> QED
      BY <3>4, <3>8, SameTokens
  <2> QED
    BY <2>2, <2>3
<1> QED
  BY <1>9, <1>10, <1>11, <1>12 DEF Next, Restart

\* The set of tokens that exist changes only when a minter burns a token it
\* holds or mints one with a number it never used (NoTokenLost): no transfer,
\* clawback, refusal or rollback loses a token or brings one back.
THEOREM TokensAreKept == Spec => NoTokenLost
<1>1. TokenInv /\ TokenInv' /\ [Next]_vars => op.phase = "panicked" \/ TokenStep
  BY TokensStep
<1>2. TokenInv /\ TokenInv' /\ [Next]_vars =>
        [\/ op.phase = "panicked"
         \/ /\ \A t \in Live \ Live' :
                  /\ Holds(t.minter, t)
                  /\ LastBlock(accounts'[t.minter]).type = "BurnToken"
            /\ \A t \in Live' \ Live :
                  /\ t.nonce = accounts[t.minter].nonce
                  /\ t.nonce < accounts'[t.minter].nonce]_vars
  BY <1>1 DEF TokenStep
<1> QED
  BY <1>2, TokenInvariant, PTL DEF Spec, NoTokenLost

-----------------------------------------------------------------------------
(***************************************************************************)
(* Frozen tokens.                                                          *)
(***************************************************************************)
\* The last block of an account allows its slot for t to be frozen no more.
Excused(acc, t) ==
    LET last == LastBlock(acc)
    IN  \/ last.type \in {"ClawbackTokenTransfer", "BurnToken"} /\ last.token = t
        \/ last.type = "UnfreezeToken" /\ last.token = t /\ last.sender = FreezeAddress(t)

\* From accounts S to T a slot stops being frozen only if it is excused.
Thaws(S, T) ==
    \A x \in Ids, t \in TokenIds :
        S[x].store[t] = "frozen" /\ T[x].store[t] # "frozen" => Excused(T[x], t)

\* A change of one account.
LEMMA ThawsOne ==
  ASSUME NEW S \in [Ids -> AccountState], NEW T, NEW s \in Ids, NEW r, T = [S EXCEPT ![s] = r],
         \A t \in TokenIds : S[s].store[t] = "frozen" /\ r.store[t] # "frozen" => Excused(r, t)
  PROVE  Thaws(S, T)
<1>1. \A x \in Ids : T[x] = IF x = s THEN r ELSE S[x]
  OBVIOUS
<1> QED
  BY <1>1 DEF Thaws

\* The first half of an operation.
LEMMA ThawsFirst ==
  ASSUME NEW acc \in AccountState, NEW trx, ValidTx(trx), trx.type \in TwoParty,
         NEW r, FirstHalf(acc, trx, r), NEW t \in TokenIds,
         acc.store[t] = "frozen", r.store[t] # "frozen"
  PROVE  Excused(r, t)
<1> DEFINE u == trx.token
<1>1. acc.store \in [TokenIds -> SlotStates] /\ acc.chain \in Seq(Transaction)
  BY DEF AccountState
<1>2. \/ r.store = acc.store
      \/ \E v : r.store = [acc.store EXCEPT ![u] = v] /\ acc.store[u] # "frozen"
      \/ /\ trx.type = "ClawbackTokenTransfer" /\ r.store = [acc.store EXCEPT ![u] = "absent"]
         /\ r.chain = Append(acc.chain, trx)
  <2>1. CASE trx.type = "AuthorizeTokenTransfer"
    BY <2>1 DEF FirstHalf, Fields
  <2>2. CASE trx.type = "UnauthorizeTokenTransfer"
    BY <2>2 DEF FirstHalf, Fields
  <2>3. CASE trx.type = "TransferToken"
    BY <2>3 DEF FirstHalf, Fields
  <2>4. CASE trx.type = "ClawbackTokenTransfer"
    BY <2>4 DEF FirstHalf, Fields
  <2>5. CASE trx.type \in {"Transfer", "FreezeToken", "UnfreezeToken"}
    BY <2>5 DEF FirstHalf, Fields
  <2> QED
    BY <2>1, <2>2, <2>3, <2>4, <2>5 DEF TwoParty
<1> HIDE DEF u
<1>3. CASE r.store = acc.store
  BY <1>3
<1>4. CASE \E v : r.store = [acc.store EXCEPT ![u] = v] /\ acc.store[u] # "frozen"
  BY <1>1, <1>4
<1>5. CASE /\ trx.type = "ClawbackTokenTransfer" /\ r.store = [acc.store EXCEPT ![u] = "absent"]
           /\ r.chain = Append(acc.chain, trx)
  <2>1. t = u
    BY <1>1, <1>5
  <2>2. LastBlock(r) = trx
    BY <1>1, <1>5, LastAppended
  <2> QED
    BY <1>5, <2>1, <2>2 DEF Excused, u
<1> QED
  BY <1>2, <1>3, <1>4, <1>5

\* The second half.
LEMMA ThawsSecond ==
  ASSUME NEW acc \in AccountState, NEW trx, ValidTx(trx), trx.type \in TwoParty,
         trx.type = "UnfreezeToken" => trx.sender = FreezeAddress(trx.token),
         NEW r, SecondHalf(acc, trx, r), NEW t \in TokenIds,
         acc.store[t] = "frozen", r.store[t] # "frozen"
  PROVE  Excused(r, t)
<1> DEFINE u == trx.token
<1>1. acc.store \in [TokenIds -> SlotStates] /\ acc.chain \in Seq(Transaction)
  BY DEF AccountState
<1>2. \/ r.store = acc.store
      \/ \E v : r.store = [acc.store EXCEPT ![u] = v] /\ acc.store[u] # "frozen"
      \/ /\ trx.type = "UnfreezeToken" /\ r.store = [acc.store EXCEPT ![u] = "held"]
         /\ r.chain = Append(acc.chain, trx)
  <2>1. CASE trx.type = "ClawbackTokenTransfer"
    BY <2>1 DEF SecondHalf, Fields
  <2>2. CASE trx.type = "FreezeToken"
    BY <2>2 DEF SecondHalf, Fields
  <2>3. CASE trx.type = "TransferToken"
    BY <2>3 DEF SecondHalf, Fields
  <2>4. CASE trx.type = "UnfreezeToken"
    BY <2>4 DEF SecondHalf, Fields
  <2>5. CASE trx.type \in {"Transfer", "AuthorizeTokenTransfer", "UnauthorizeTokenTransfer"}
    BY <2>5 DEF SecondHalf, Fields
  <2> QED
    BY <2>1, <2>2, <2>3, <2>4, <2>5 DEF TwoParty
<1> HIDE DEF u
<1>3. CASE r.store = acc.store
  BY <1>3
<1>4. CASE \E v : r.store = [acc.store EXCEPT ![u] = v] /\ acc.store[u] # "frozen"
  BY <1>1, <1>4
<1>5. CASE /\ trx.type = "UnfreezeToken" /\ r.store = [acc.store EXCEPT ![u] = "held"]
           /\ r.chain = Append(acc.chain, trx)
  <2>1. t = u
    BY <1>1, <1>5
  <2>2. LastBlock(r) = trx
    BY <1>1, <1>5, LastAppended
  <2> QED
    BY <1>5, <2>1, <2>2 DEF Excused, u
<1> QED
  BY <1>2, <1>3, <1>4, <1>5

\* The first append of an operation.
LEMMA BeginEffect ==
  ASSUME TokenInv, TokenInv', NEW trx, First(trx), Asked(accounts, trx)
  PROVE  /\ ValidTx(trx) /\ trx.type \in TwoParty /\ trx.sender \in Ids
         /\ \E q : /\ accounts' = [accounts EXCEPT ![trx.sender] = q]
                   /\ FirstHalf(accounts[trx.sender], trx, q)
<1>1. PICK S : S = accounts
  OBVIOUS
<1>2. PICK s : s = trx.sender
  OBVIOUS
<1>3. PICK r : r = appendTransaction(s, S[s], trx)
  OBVIOUS
<1>4. r.ok /\ accounts' = [S EXCEPT ![s] = r.acc] /\ op'.phase = "second" /\ op'.trx = trx
  BY <1>1, <1>2, <1>3 DEF First
<1>5. S \in [Ids -> AccountState] /\ ValidTx(trx) /\ trx.type \in TwoParty /\ s \in Ids
  BY <1>1, <1>2, <1>4 DEF TokenInv, TypesInv, Typed, InFlightOK, InFlight, ValidTx, TwoParty
<1>6. trx.type = "Transfer" => trx.receiver # s
  BY <1>2 DEF Asked
<1>7. FirstHalf(S[s], trx, r.acc)
  <2>1. S[s] \in AccountState
    BY <1>5
  <2> QED
    BY <1>2, <1>3, <1>4, <1>5, <1>6, <2>1, FirstHalfEffect
<1> QED
  BY <1>1, <1>2, <1>4, <1>5, <1>7

\* The second append, if it is not refused.
LEMMA SecondEffect ==
  ASSUME TokenInv, SecondLeg, accounts' # accounts
  PROVE  /\ ValidTx(op.trx) /\ op.trx.type \in TwoParty /\ op.trx.receiver \in Ids
         /\ op.trx.sender # op.trx.receiver
         /\ op.trx.type = "UnfreezeToken" => op.trx.sender = FreezeAddress(op.trx.token)
         /\ \E q : /\ accounts' = [accounts EXCEPT ![op.trx.receiver] = q]
                   /\ SecondHalf(accounts[op.trx.receiver], op.trx, q)
<1>1. PICK S : S = accounts
  OBVIOUS
<1>2. PICK trx : trx = op.trx
  OBVIOUS
<1>3. PICK d : d = trx.receiver
  OBVIOUS
<1>4. PICK r : r = appendTransaction(d, S[d], trx)
  OBVIOUS
<1>5. InFlight /\ r.ok /\ accounts' = [S EXCEPT ![d] = r.acc]
  BY <1>1, <1>2, <1>3, <1>4 DEF SecondLeg, InFlight
<1>6. /\ ValidTx(trx) /\ trx.type \in TwoParty /\ trx.sender \in Ids /\ d \in Ids
      /\ before \in [Ids -> AccountState] /\ S \in [Ids -> AccountState]
      /\ Asked(before, trx)
      /\ FirstHalf(before[trx.sender], trx, S[trx.sender])
  BY <1>1, <1>2, <1>3, <1>5, HalfwayShape, TokenInvParts
<1>7. trx.type = "UnfreezeToken" => trx.sender = FreezeAddress(trx.token)
  BY <1>6 DEF Asked
<1>8. trx.sender # d
  <2>1. CASE trx.type = "Transfer"
    BY <1>3, <1>6, <2>1 DEF Asked
  <2>2. CASE trx.type # "Transfer" /\ trx.sender = d
    <3>1. before[d] \in AccountState /\ FirstHalf(before[d], trx, S[d])
      BY <1>6, <2>2
    <3>2. ~appendTransaction(d, S[d], trx).ok
      BY <1>6, <2>2, <3>1, SelfRefused
    <3> QED
      BY <1>4, <1>5, <3>2
  <2> QED
    BY <2>1, <2>2
<1>9. SecondHalf(S[d], trx, r.acc)
  <2>1. S[d] \in AccountState
    BY <1>6
  <2> QED
    BY <1>3, <1>4, <1>5, <1>6, <1>8, <2>1, SecondHalfEffect
<1> QED
  BY <1>1, <1>2, <1>3, <1>5, <1>6, <1>7, <1>8, <1>9

\* The first append thaws only the slot a clawback empties.
LEMMA ThawsBegin ==
  ASSUME TokenInv, TokenInv', NEW trx, First(trx), Asked(accounts, trx)
  PROVE  Thaws(accounts, accounts')
<1>1. PICK S : S = accounts
  OBVIOUS
<1>2. PICK s : s = trx.sender
  OBVIOUS
<1>3. /\ ValidTx(trx) /\ trx.type \in TwoParty /\ s \in Ids
      /\ \E q : accounts' = [S EXCEPT ![s] = q] /\ FirstHalf(S[s], trx, q)
  BY <1>1, <1>2, BeginEffect
<1>4. PICK q : accounts' = [S EXCEPT ![s] = q] /\ FirstHalf(S[s], trx, q)
  BY <1>3
<1>5. S \in [Ids -> AccountState] /\ S[s] \in AccountState
  BY <1>1, <1>3 DEF TokenInv, TypesInv, Typed
<1>6. \A t \in TokenIds : S[s].store[t] = "frozen" /\ q.store[t] # "frozen" => Excused(q, t)
  BY <1>3, <1>4, <1>5, ThawsFirst
<1>7. PICK T : T = accounts'
  OBVIOUS
<1>8. Thaws(S, T)
  BY <1>3, <1>4, <1>5, <1>6, <1>7, ThawsOne
<1> QED
  BY <1>1, <1>7, <1>8

\* The second append thaws only the slot an unfreeze names.
LEMMA ThawsSecondLeg ==
  ASSUME TokenInv, SecondLeg
  PROVE  Thaws(accounts, accounts')
<1>1. CASE accounts' = accounts
  BY <1>1 DEF Thaws
<1>2. CASE accounts' # accounts
  <2>1. PICK S : S = accounts
    OBVIOUS
  <2>2. PICK trx : trx = op.trx
    OBVIOUS
  <2>3. PICK d : d = trx.receiver
    OBVIOUS
  <2>4. /\ ValidTx(trx) /\ trx.type \in TwoParty /\ d \in Ids
        /\ trx.type = "UnfreezeToken" => trx.sender = FreezeAddress(trx.token)
        /\ \E q : accounts' = [S EXCEPT ![d] = q] /\ SecondHalf(S[d], trx, q)
    BY <1>2, <2>1, <2>2, <2>3, SecondEffect
  <2>5. PICK q : accounts' = [S EXCEPT ![d] = q] /\ SecondHalf(S[d], trx, q)
    BY <2>4
  <2>6. S \in [Ids -> AccountState] /\ S[d] \in AccountState
    BY <2>1, <2>4 DEF TokenInv, TypesInv, Typed
  <2>7. \A t \in TokenIds : S[d].store[t] = "frozen" /\ q.store[t] # "frozen" => Excused(q, t)
    BY <2>4, <2>5, <2>6, ThawsSecond
  <2>8. PICK T : T = accounts'
    OBVIOUS
  <2>9. Thaws(S, T)
    BY <2>4, <2>5, <2>6, <2>7, <2>8, ThawsOne
  <2> QED
    BY <2>1, <2>8, <2>9
<1> QED
  BY <1>1, <1>2

\* Undoing the first append freezes no slot and thaws none.
LEMMA ThawsRollback ==
  ASSUME TokenInv, Rollback
  PROVE  Thaws(accounts, accounts')
<1> DEFINE s == op.trx.sender
           u == op.trx.token
<1>1. /\ before \in [Ids -> AccountState] /\ s \in Ids /\ u \in TokenIds
      /\ ~Reauthorization => accounts' = before
      /\ Reauthorization =>
           /\ before[s].store[u] = "placeholder"
           /\ \E q : /\ accounts' = [before EXCEPT ![s] = q]
                     /\ Lapsed(before[s], u, q)
  BY RollbackSettles, TokenInvParts
<1> HIDE DEF s, u
<1>2. \A x \in Ids, t \in TokenIds : accounts[x].store[t] = "frozen" => before[x].store[t] = "frozen"
  BY HalfwayStores DEF Rollback, InFlight
<1>3. \A x \in Ids, t \in TokenIds : before[x].store[t] = "frozen" => accounts'[x].store[t] = "frozen"
  <2>1. CASE ~Reauthorization
    BY <1>1, <2>1
  <2>2. CASE Reauthorization
    <3>1. PICK q : accounts' = [before EXCEPT ![s] = q] /\ Lapsed(before[s], u, q)
      BY <1>1, <2>2
    <3>2. /\ q.store = [before[s].store EXCEPT ![u] = "absent"] /\ before[s].store \in [TokenIds -> SlotStates]
          /\ before[s].store[u] = "placeholder"
      BY <1>1, <2>2, <3>1 DEF Lapsed, Fields, AccountState
    <3>3. \A t \in TokenIds : before[s].store[t] = "frozen" => q.store[t] = "frozen"
      BY <3>2
    <3> QED
      BY <1>1, <3>1, <3>3
  <2> QED
    BY <2>1, <2>2
<1> QED
  BY <1>2, <1>3 DEF Thaws

\* Every step.
LEMMA ThawsStep ==
  ASSUME TokenInv, TokenInv', [Next]_vars, op.phase # "panicked"
  PROVE  Thaws(accounts, accounts')
<1> USE MinterAssumption
<1>k. accounts \in [Ids -> AccountState] /\ op \in [phase : Phases, trx : Transaction]
  BY DEF TokenInv, TypesInv, Typed
<1>u. ASSUME accounts' = accounts PROVE Thaws(accounts, accounts')
  BY <1>u DEF Thaws
<1>m. ASSUME NEW id \in Ids, NEW x \in Int,
             accounts' = [accounts EXCEPT ![id] = appendTransaction(id, @, newMintTransaction(id, x)).acc]
      PROVE  Thaws(accounts, accounts')
  <2>1. PICK S : S = accounts
    OBVIOUS
  <2>2. PICK r : r = appendTransaction(id, S[id], newMintTransaction(id, x)).acc
    OBVIOUS
  <2>3. accounts' = [S EXCEPT ![id] = r] /\ S \in [Ids -> AccountState]
    BY <1>k, <1>m, <2>1, <2>2
  <2>4. Fields(r, S[id].balance + x, S[id].mbr, S[id].nonce, S[id].store,
               Append(S[id].chain, newMintTransaction(id, x)))
    BY <2>2, <2>3, MintFields
  <2>5. \A y \in Ids : accounts'[y].store = accounts[y].store
    BY <2>1, <2>3, <2>4 DEF Fields
  <2> QED
    BY <2>5 DEF Thaws
<1>1. ASSUME NEW id \in Ids, NEW x \in InitialBalances, CreateAccountWithKeys(id, x)
      PROVE  Thaws(accounts, accounts')
  <2>1. accounts' = IF x > 0
                    THEN [accounts EXCEPT ![id] = appendTransaction(id, @, newMintTransaction(id, x)).acc]
                    ELSE accounts
    BY <1>1 DEF CreateAccountWithKeys
  <2>2. CASE x > 0
    <3>1. accounts' = [accounts EXCEPT ![id] = appendTransaction(id, @, newMintTransaction(id, x)).acc]
      BY <2>1, <2>2
    <3> QED
      BY <3>1, <1>m, AmountsAssumption
  <2>3. CASE ~(x > 0)
    BY <2>1, <2>3, <1>u
  <2> QED
    BY <2>2, <2>3
<1>2. ASSUME NEW id \in Ids, NEW x \in Amounts, Mint(id, x)
      PROVE  Thaws(accounts, accounts')
  <2>1. accounts' = [accounts EXCEPT ![id] = appendTransaction(id, @, newMintTransaction(id, x)).acc]
    BY <1>k, <1>2 DEF Mint, Single
  <2> QED
    BY <2>1, <1>m, AmountsAssumption
<1>3. ASSUME NEW id \in Minters, NEW terms \in Terms, NEW n \in Nonces, MintToken(id, terms, n)
      PROVE  Thaws(accounts, accounts')
  <2> DEFINE t == [minter |-> id, nonce |-> n, terms |-> terms]
  <2>1. t \in TokenIds
    BY <1>3, MintedTokenId DEF MintToken, Ready
  <2>2. ValidTx(newMintTokenTransaction(id, t))
    BY <2>1, NewTokenTx DEF newMintTokenTransaction, TransactionType, SlotStates
  <2>3. Single(id, newMintTokenTransaction(id, t)) /\ id \in Ids
    BY <1>3 DEF MintToken
  <2> HIDE DEF t
  <2>4. OneEffect(accounts, accounts', id, t, "held", 10) /\ accounts[id].store[t] = "absent"
    BY <1>k, <2>1, <2>2, <2>3, MintTokenEffect
  <2>5. \A x \in Ids, u \in TokenIds : accounts[x].store[u] = "frozen" => accounts'[x].store[u] = "frozen"
    BY <2>4 DEF OneEffect, Leaves
  <2> QED
    BY <2>5 DEF Thaws
<1>4. ASSUME NEW id \in Ids, NEW t \in TokenIds, NEW n \in Nonces, BurnToken(id, t, n)
      PROVE  Thaws(accounts, accounts')
  <2>1. ValidTx(newBurnTokenTransaction(id, t, n))
    BY NewTokenTx DEF newBurnTokenTransaction, TransactionType, SlotStates
  <2>2. Single(id, newBurnTokenTransaction(id, t, n))
    BY <1>4 DEF BurnToken
  <2>3. /\ OneEffect(accounts, accounts', id, t, "absent", -10)
        /\ accounts'[id].chain = Append(accounts[id].chain, newBurnTokenTransaction(id, t, n))
    BY <1>k, <2>1, <2>2, BurnTokenEffect
  <2>4. \A x \in Ids, u \in TokenIds : (u # t \/ x # id) => accounts'[x].store[u] = accounts[x].store[u]
    BY <2>3 DEF OneEffect, Leaves
  <2>5. LastBlock(accounts'[id]) = newBurnTokenTransaction(id, t, n)
    BY <1>k, <2>3, LastAppended DEF AccountState
  <2>6. Excused(accounts'[id], t)
    BY <2>5 DEF Excused, newBurnTokenTransaction, TokenTx
  <2> QED
    BY <2>4, <2>6 DEF Thaws
<1>5. ASSUME NEW trx, First(trx), Asked(accounts, trx)
      PROVE  Thaws(accounts, accounts')
  BY <1>5, ThawsBegin
<1>6. ASSUME NEW x, NEW y, NEW amount \in Amounts, NEW n, Transfer(x, y, amount, n)
      PROVE  Thaws(accounts, accounts')
  BY <1>5, <1>6, MoneyAsked
<1>7. ASSUME NEW x, NEW y, NEW t, NEW n,
             \/ TransferToken(x, y, t, n)
             \/ AuthorizeTokenTransfer(x, y, t, n)
             \/ UnauthorizeTokenTransfer(x, y, t, n)
             \/ ClawbackToken(x, y, t, n)
             \/ FreezeToken(x, y, t, n)
             \/ UnfreezeToken(x, y, t, n)
      PROVE  Thaws(accounts, accounts')
  BY <1>5, <1>7, TokenAsked
<1>8. ASSUME NEW x, NEW y, NEW t, ClawbackPanics(x, y, t)
      PROVE  Thaws(accounts, accounts')
  BY <1>8, <1>u DEF ClawbackPanics
<1>9. CASE UNCHANGED vars
  BY <1>9, <1>u DEF vars
<1>10. CASE ServeRequest
  BY <1>10, <1>1, <1>2, <1>3, <1>4, <1>6, <1>7, <1>8, <1>9 DEF ServeRequest, Refuse
<1>11. CASE SecondLeg
  BY <1>11, ThawsSecondLeg
<1>12. CASE Rollback
  BY <1>12, ThawsRollback
<1> QED
  BY <1>9, <1>10, <1>11, <1>12 DEF Next, Restart

\* A frozen token leaves its holder only by clawback or by being burned, and
\* stops being frozen only by an unfreeze its freeze authority sent
\* (FrozenStays), whichever half of which operation, or rollback, is done.
THEOREM FrozenTokensStay == Spec => FrozenStays
<1>1. TokenInv /\ TokenInv' /\ [Next]_vars => op.phase = "panicked" \/ Thaws(accounts, accounts')
  BY ThawsStep
<1>2. TokenInv /\ TokenInv' /\ [Next]_vars =>
        [\A id \in Ids, t \in TokenIds :
            accounts[id].store[t] = "frozen" /\ accounts'[id].store[t] # "frozen"
            => LET last == LastBlock(accounts'[id])
               IN  \/ op.phase = "panicked"
                   \/ last.type \in {"ClawbackTokenTransfer", "BurnToken"} /\ last.token = t
                   \/ /\ last.type = "UnfreezeToken" /\ last.token = t
                      /\ last.sender = FreezeAddress(t)]_vars
  BY <1>1 DEF Thaws, Excused
<1> QED
  BY <1>2, TokenInvariant, PTL DEF Spec, FrozenStays

-----------------------------------------------------------------------------
(***************************************************************************)
(* Sums.  Induction is over sets of numbers, {n : P(n)}, because the       *)
(* library states it over predicates, which the provers do not             *)
(* instantiate.                                                            *)
(***************************************************************************)
\* A non-empty set of natural numbers has a least one.
LEMMA Least ==
  ASSUME NEW T, T \subseteq Nat, T # {}
  PROVE  \E n \in T : \A i \in T : n <= i
<1>1. PICK n \in T : \A i \in T : ~(<<i, n>> \in OpToRel(<, Nat))
  BY NatLessThanWellFounded, WFMin
<1>2. \A i \in T : ~(i < n)
  BY <1>1 DEF OpToRel
<1> QED
  BY <1>2

\* Induction up to high.
LEMMA Induction ==
  ASSUME NEW T, NEW high \in Nat, 0 \in T,
         \A n \in 0 .. high - 1 : n \in T => n + 1 \in T
  PROVE  \A n \in 0 .. high : n \in T
<1> SUFFICES ASSUME NEW k \in 0 .. high, k \notin T PROVE FALSE
  OBVIOUS
<1> DEFINE U == (0 .. high) \ T
<1>1. PICK n \in U : \A i \in U : n <= i
  <2>1. U \subseteq Nat /\ U # {}
    OBVIOUS
  <2> QED
    BY <2>1, Least
<1>2. n # 0 /\ n \in 0 .. high
  OBVIOUS
<1>3. n - 1 \in 0 .. high - 1 /\ n - 1 \notin U
  BY <1>1, <1>2
<1>4. n - 1 \in T /\ (n - 1) + 1 = n
  BY <1>2, <1>3
<1> QED
  BY <1>3, <1>4

\* g[n] is the sum of the first n numbers of v, for n up to k.
Adds(v, k, g) == g[0] = 0 /\ \A n \in 1 .. k : g[n] = g[n - 1] + v[n]

SumsTo(v, k, g) ==
    /\ g \in [0 .. k -> Int]
    /\ Adds(v, k, g)

Sums(v, g) == SumsTo(v, Len(v), g)

\* Every sequence of numbers has such sums.
LEMMA CanSum ==
  ASSUME NEW v \in Seq(Int)
  PROVE  \E g : Sums(v, g)
<1> DEFINE T == {k \in Nat : \E g : SumsTo(v, k, g)}
<1>0. Len(v) \in Nat
  OBVIOUS
<1>1. 0 \in T
  <2> DEFINE e == [n \in 0 .. 0 |-> 0]
  <2>1. SumsTo(v, 0, e)
    BY DEF SumsTo, Adds
  <2> QED
    BY <2>1
<1>2. ASSUME NEW k \in 0 .. Len(v) - 1, k \in T PROVE k + 1 \in T
  <2>1. PICK g : SumsTo(v, k, g)
    BY <1>2
  <2>2. k \in Nat /\ k + 1 \in 1 .. Len(v) /\ v[k + 1] \in Int
    BY <1>0
  <2>3. PICK r : r = [n \in 0 .. k + 1 |-> IF n = k + 1 THEN g[k] + v[k + 1] ELSE g[n]]
    OBVIOUS
  <2>4. r[k + 1] = g[k] + v[k + 1]
    BY <2>2, <2>3
  <2>5. \A n \in 0 .. k : r[n] = g[n] /\ g[n] \in Int
    BY <2>1, <2>2, <2>3 DEF SumsTo, Adds
  <2>6. \A n \in 0 .. k + 1 : n = k + 1 \/ n \in 0 .. k
    BY <2>2
  <2>7. r \in [0 .. k + 1 -> Int]
    <3>1. \A n \in 0 .. k + 1 : r[n] \in Int
      BY <2>2, <2>4, <2>5, <2>6
    <3> QED
      BY <2>3, <3>1
  <2>8. r[0] = 0
    BY <2>1, <2>2, <2>5 DEF SumsTo, Adds
  <2>9. ASSUME NEW n \in 1 .. k + 1 PROVE r[n] = r[n - 1] + v[n]
    <3>1. n - 1 \in 0 .. k
      BY <2>2
    <3>2. CASE n = k + 1
      BY <2>2, <2>4, <2>5, <3>1, <3>2
    <3>3. CASE n \in 1 .. k
      <4>1. g[n] = g[n - 1] + v[n]
        BY <2>1, <3>3 DEF SumsTo, Adds
      <4>2. r[n] = g[n] /\ r[n - 1] = g[n - 1]
        BY <2>2, <2>5, <3>1, <3>3
      <4> QED
        BY <4>1, <4>2
    <3> QED
      BY <2>2, <3>2, <3>3
  <2>10. SumsTo(v, k + 1, r)
    BY <2>7, <2>8, <2>9 DEF SumsTo, Adds
  <2> QED
    BY <2>2, <2>10
<1>3. Len(v) \in T
  <2> HIDE DEF T
  <2>1. \A n \in 0 .. Len(v) : n \in T
    BY <1>0, <1>1, <1>2, Induction
  <2> QED
    BY <1>0, <2>1
<1> QED
  BY <1>3 DEF Sums

SameStart(v, w, k) == \A n \in 1 .. k : v[n] = w[n]

\* There is one way to sum.
LEMMA OneSum ==
  ASSUME NEW v, NEW w, NEW k \in Nat, NEW g, NEW h, SumsTo(v, k, g),
         Adds(w, k, h), SameStart(v, w, k)
  PROVE  \A n \in 0 .. k : g[n] = h[n]
<1> DEFINE T == {n \in Nat : g[n] = h[n]}
<1>1. 0 \in T
  BY DEF SumsTo, Adds
<1>2. ASSUME NEW n \in 0 .. k - 1, n \in T PROVE n + 1 \in T
  <2>1. n + 1 \in 1 .. k /\ (n + 1) - 1 = n
    OBVIOUS
  <2>2. g[n + 1] = g[n] + v[n + 1] /\ h[n + 1] = h[n] + w[n + 1] /\ v[n + 1] = w[n + 1]
    BY <2>1 DEF SumsTo, Adds, SameStart
  <2> QED
    BY <1>2, <2>1, <2>2
<1>3. \A n \in 0 .. k : n \in T
  <2> HIDE DEF T
  <2> QED
    BY <1>1, <1>2, Induction
<1> QED
  BY <1>3

\* Total is the last of the sums.
LEMMA TotalSums ==
  ASSUME NEW v \in Seq(Int), NEW g, Sums(v, g)
  PROVE  Total(v) = g[Len(v)] /\ Total(v) \in Int
<1> DEFINE Step(f) == [n \in 0 .. Len(v) |-> IF n = 0 THEN 0 ELSE f[n - 1] + v[n]]
           h == CHOOSE f : f = Step(f)
<1>0. PICK k \in Nat : k = Len(v)
  OBVIOUS
<1>1. Total(v) = h[Len(v)]
  BY DEF Total
<1>2. g = Step(g)
  <2>1. \A n \in 0 .. k : g[n] = IF n = 0 THEN 0 ELSE g[n - 1] + v[n]
    BY <1>0 DEF Sums, SumsTo, Adds
  <2>2. g = [n \in 0 .. k |-> g[n]]
    BY <1>0 DEF Sums, SumsTo, Adds
  <2> QED
    BY <1>0, <2>1, <2>2
<1>3. h = Step(h)
  BY <1>2
<1>4. Adds(v, k, h)
  <2> HIDE DEF h
  <2>1. h = [n \in 0 .. k |-> IF n = 0 THEN 0 ELSE h[n - 1] + v[n]]
    BY <1>0, <1>3
  <2> QED
    BY <2>1 DEF Adds
<1>5. g[k] = h[k]
  <2> HIDE DEF h
  <2>1. \A n \in 0 .. k : g[n] = h[n]
    <3>1. SumsTo(v, k, g) /\ SameStart(v, v, k)
      BY <1>0 DEF Sums, SameStart
    <3> QED
      BY <1>4, <3>1, OneSum
  <2> QED
    BY <2>1
<1>6. g[k] \in Int
  BY <1>0 DEF Sums, SumsTo, Adds
<1> QED
  BY <1>0, <1>1, <1>5, <1>6

\* One more number adds to the total.
LEMMA TotalAppend ==
  ASSUME NEW v \in Seq(Int), NEW x \in Int
  PROVE  Total(v) \in Int /\ Total(Append(v, x)) = Total(v) + x
<1>1. PICK k \in Nat : k = Len(v)
  OBVIOUS
<1>2. PICK w : w = Append(v, x)
  OBVIOUS
<1>3. w \in Seq(Int) /\ Len(w) = k + 1 /\ w[k + 1] = x /\ \A n \in 1 .. k : w[n] = v[n]
  BY <1>1, <1>2
<1>4. PICK g : Sums(v, g)
  BY CanSum
<1>5. PICK h : Sums(w, h)
  BY <1>3, CanSum
<1>6. Total(v) = g[k] /\ Total(v) \in Int
  BY <1>1, <1>4, TotalSums
<1>7. Total(w) = h[k + 1]
  BY <1>3, <1>5, TotalSums
<1>8. SumsTo(v, k, g) /\ SumsTo(w, k + 1, h)
  BY <1>1, <1>3, <1>4, <1>5 DEF Sums
<1>9. Adds(w, k + 1, h)
  BY <1>8 DEF SumsTo
<1>10. Adds(w, k, h) /\ SameStart(v, w, k)
  BY <1>3, <1>9 DEF Adds, SameStart
<1>11. \A n \in 0 .. k : g[n] = h[n]
  BY <1>8, <1>10, OneSum
<1>12. h[k + 1] = h[k] + x
  <2>1. k + 1 \in 1 .. k + 1 /\ (k + 1) - 1 = k
    OBVIOUS
  <2> QED
    BY <1>3, <1>9, <2>1 DEF Adds
<1>13. g[k] = h[k]
  BY <1>11
<1> QED
  BY <1>2, <1>6, <1>7, <1>12, <1>13

\* Nothing adds up to 0.
LEMMA TotalEmpty == Total(<< >>) = 0
<1>1. << >> \in Seq(Int) /\ Len(<< >>) = 0
  OBVIOUS
<1>2. PICK g : Sums(<< >>, g)
  BY <1>1, CanSum
<1> QED
  BY <1>1, <1>2, TotalSums DEF Sums, SumsTo, Adds

-----------------------------------------------------------------------------

\* The outgoing transactions among the first n blocks of chain c of account id.
OutgoingIn(id, c, n) == {i \in 1 .. n : Outgoing(id, c[i])}

\* Block i, if it is outgoing and carries a number, carries the number of those
\* before it.
Numbered(id, c, i) ==
    Outgoing(id, c[i]) /\ c[i].type # "Transfer" => c[i].nonce = Cardinality(OutgoingIn(id, c, i - 1))

CountsAt(id, acc) ==
    /\ acc.nonce = Cardinality(OutgoingIn(id, acc.chain, Len(acc.chain)))
    /\ \A i \in 1 .. Len(acc.chain) : Numbered(id, acc.chain, i)

\* The slots of an account that wait for a token.
Vacancies(acc) == {t \in TokenIds : acc.store[t] = "placeholder"}

\* Balance and mbr are what the chain adds up to.
BooksAt(id, acc) ==
    /\ acc.balance = Total(Movements(id, acc.chain))
    /\ IsFiniteSet(Vacancies(acc))
    /\ acc.mbr = Total(Reservations(id, acc.chain)) + MBR_SLOT_COST * Cardinality(Vacancies(acc))

\* What the account is short of was taken from it.
FundedAt(id, acc) ==
    /\ Total(Takings(id, acc.chain)) \in Nat
    /\ acc.mbr <= acc.balance + Total(Takings(id, acc.chain))

Audited(S) == \A id \in Ids : CountsAt(id, S[id]) /\ BooksAt(id, S[id]) /\ FundedAt(id, S[id])

\* So are those of the accounts an operation may go back to.
AuditInv == TokenInv /\ Audited(accounts) /\ Audited(before)

-----------------------------------------------------------------------------
\* The mbr of acc grows by x, and by a slot's cost for a slot that is opened.
Reserved(acc, x, r) ==
    \/ r.store = acc.store /\ r.mbr = acc.mbr + x
    \/ \E t \in TokenIds :
          /\ \A u \in TokenIds \ {t} : r.store[u] = acc.store[u]
          /\ r.mbr = acc.mbr + x + MBR_SLOT_COST * (Bit(Vacant(r.store[t])) - Bit(Vacant(acc.store[t])))

\* The number of an append.
Numbers(id, acc, trx, r) ==
    /\ r \in AccountState
    /\ r.chain = Append(acc.chain, trx)
    /\ r.nonce = IF Outgoing(id, trx) THEN acc.nonce + 1 ELSE acc.nonce
    /\ Outgoing(id, trx) /\ trx.type # "Transfer" => trx.nonce = acc.nonce

\* An append leaves the mbr covered, or nothing but what is taken makes it worse.
Afforded(id, acc, trx, r) ==
    \/ r.mbr <= r.balance
    \/ acc.balance - acc.mbr <= r.balance - r.mbr + Taken(id, trx)

\* Account record acc of id with transaction trx appended to it.
Appended(id, acc, trx, r) ==
    /\ trx \in Transaction
    /\ Afforded(id, acc, trx, r)
    /\ r.balance = acc.balance + Credit(id, trx)
    /\ Reserved(acc, Reserve(id, trx), r)
    /\ Numbers(id, acc, trx, r)

\* The blocks before the last one are counted as before.
LEMMA Prefix ==
  ASSUME NEW id, NEW c, NEW d, NEW n \in Nat, \A i \in 1 .. n : d[i] = c[i]
  PROVE  /\ OutgoingIn(id, d, n) = OutgoingIn(id, c, n)
         /\ IsFiniteSet(OutgoingIn(id, c, n)) /\ Cardinality(OutgoingIn(id, c, n)) \in Nat
<1>1. OutgoingIn(id, d, n) = OutgoingIn(id, c, n)
  BY DEF OutgoingIn, Outgoing
<1>2. IsFiniteSet(1 .. n) /\ OutgoingIn(id, c, n) \subseteq 1 .. n
  BY FS_Interval DEF OutgoingIn
<1>3. IsFiniteSet(OutgoingIn(id, c, n))
  BY <1>2, FS_Subset
<1> QED
  BY <1>1, <1>3, FS_CardinalityType

\* An append keeps the count.
LEMMA AppendCounts ==
  ASSUME NEW id \in Ids, NEW acc \in AccountState, CountsAt(id, acc), NEW trx, NEW r,
         Appended(id, acc, trx, r)
  PROVE  CountsAt(id, r)
<1> DEFINE c == acc.chain
           d == r.chain
           n == Len(acc.chain)
<1>1. c \in Seq(Transaction) /\ n \in Nat /\ d = Append(c, trx)
  BY DEF AccountState, Appended, Numbers
<1>2. Len(d) = n + 1 /\ d[n + 1] = trx /\ \A i \in 1 .. n : d[i] = c[i]
  BY <1>1
<1>3. /\ acc.nonce = Cardinality(OutgoingIn(id, c, n))
      /\ \A i \in 1 .. n : Numbered(id, c, i)
  BY DEF CountsAt
<1>4. /\ r.nonce = IF Outgoing(id, trx) THEN acc.nonce + 1 ELSE acc.nonce
      /\ Outgoing(id, trx) /\ trx.type # "Transfer" => trx.nonce = acc.nonce
  BY DEF Appended, Numbers
<1> HIDE DEF c, d, n
<1>5. /\ OutgoingIn(id, d, n) = OutgoingIn(id, c, n)
      /\ IsFiniteSet(OutgoingIn(id, c, n)) /\ Cardinality(OutgoingIn(id, c, n)) \in Nat
  BY <1>1, <1>2, Prefix
<1>6. OutgoingIn(id, d, n + 1) = IF Outgoing(id, trx)
                                 THEN OutgoingIn(id, c, n) \cup {n + 1}
                                 ELSE OutgoingIn(id, c, n)
  <2>1. \A i : i \in 1 .. (n + 1) <=> i \in 1 .. n \/ i = n + 1
    BY <1>1
  <2>2. \A i : i \in OutgoingIn(id, d, n + 1) <=> i \in OutgoingIn(id, d, n) \/ (i = n + 1 /\ Outgoing(id, trx))
    BY <1>2, <2>1 DEF OutgoingIn
  <2> QED
    BY <1>5, <2>2
<1>7. n + 1 \notin OutgoingIn(id, c, n)
  BY <1>1 DEF OutgoingIn
<1>8. r.nonce = Cardinality(OutgoingIn(id, d, n + 1))
  <2>1. CASE Outgoing(id, trx)
    <3>1. Cardinality(OutgoingIn(id, c, n) \cup {n + 1}) = Cardinality(OutgoingIn(id, c, n)) + 1
      BY <1>5, <1>7, FS_AddElement
    <3> QED
      BY <1>3, <1>4, <1>6, <2>1, <3>1
  <2>2. CASE ~Outgoing(id, trx)
    BY <1>3, <1>4, <1>6, <2>2
  <2> QED
    BY <2>1, <2>2
<1>9. ASSUME NEW i \in 1 .. (n + 1) PROVE Numbered(id, d, i)
  <2>1. CASE i = n + 1
    <3>1. d[i] = trx /\ i - 1 = n
      BY <1>1, <1>2, <2>1
    <3>2. Cardinality(OutgoingIn(id, d, i - 1)) = acc.nonce
      BY <1>3, <1>5, <3>1
    <3> QED
      BY <1>4, <3>1, <3>2 DEF Numbered
  <2>2. CASE i # n + 1
    <3>1. i \in 1 .. n /\ i - 1 \in Nat /\ \A j \in 1 .. (i - 1) : j \in 1 .. n
      BY <1>1, <1>9, <2>2
    <3>2. d[i] = c[i] /\ \A j \in 1 .. (i - 1) : d[j] = c[j]
      BY <1>2, <3>1
    <3>3. OutgoingIn(id, d, i - 1) = OutgoingIn(id, c, i - 1)
      BY <3>1, <3>2, Prefix
    <3>4. Numbered(id, c, i)
      BY <1>3, <3>1
    <3> QED
      BY <3>2, <3>3, <3>4 DEF Numbered
  <2> QED
    BY <2>1, <2>2
<1> QED
  BY <1>2, <1>8, <1>9 DEF CountsAt, d

\* What a block adds, reserves and takes is a number.
LEMMA BlockNumbers ==
  ASSUME NEW id, NEW trx \in Transaction
  PROVE  Credit(id, trx) \in Int /\ Reserve(id, trx) \in Int /\ Taken(id, trx) \in Nat
<1>1. trx.amount \in Int
  BY DEF Transaction
<1>2. Credit(id, trx) \in Int
  BY <1>1 DEF Credit
<1>3. Reserve(id, trx) \in Int
  BY DEF Reserve, MBR_TOKEN_COST, MBR_FREEZE_COST
<1>4. Taken(id, trx) \in Nat
  BY <1>1 DEF Taken
<1> QED
  BY <1>2, <1>3, <1>4

\* A list of numbers with one more number is that number appended to it.
LEMMA OneMore ==
  ASSUME NEW n \in Nat, NEW f \in [1 .. n -> Int], NEW x \in Int,
         NEW g \in [1 .. n + 1 -> Int], \A i \in 1 .. n : g[i] = f[i], g[n + 1] = x
  PROVE  f \in Seq(Int) /\ g = Append(f, x)
<1>1. f \in Seq(Int) /\ Len(f) = n
  OBVIOUS
<1>2. PICK a : a = Append(f, x)
  OBVIOUS
<1>3. a \in Seq(Int) /\ Len(a) = n + 1 /\ a[n + 1] = x /\ \A i \in 1 .. n : a[i] = f[i]
  BY <1>1, <1>2
<1>4. \A i \in 1 .. n + 1 : i = n + 1 \/ i \in 1 .. n
  OBVIOUS
<1>5. \A i \in 1 .. n + 1 : a[i] = g[i]
  BY <1>3, <1>4
<1>6. a = [i \in 1 .. n + 1 |-> a[i]] /\ g = [i \in 1 .. n + 1 |-> g[i]]
  BY <1>3
<1> QED
  BY <1>1, <1>2, <1>5, <1>6

\* One more block is one more number.
LEMMA NumbersAppend ==
  ASSUME NEW id, NEW c \in Seq(Transaction), NEW trx \in Transaction
  PROVE  /\ Movements(id, c) \in Seq(Int) /\ Reservations(id, c) \in Seq(Int) /\ Takings(id, c) \in Seq(Int)
         /\ Movements(id, Append(c, trx)) = Append(Movements(id, c), Credit(id, trx))
         /\ Reservations(id, Append(c, trx)) = Append(Reservations(id, c), Reserve(id, trx))
         /\ Takings(id, Append(c, trx)) = Append(Takings(id, c), Taken(id, trx))
<1>1. PICK n \in Nat : n = Len(c)
  OBVIOUS
<1>2. PICK d : d = Append(c, trx)
  OBVIOUS
<1>3. /\ Len(d) = n + 1 /\ d[n + 1] = trx
      /\ \A i \in 1 .. n : d[i] = c[i] /\ c[i] \in Transaction /\ i \in 1 .. n + 1
      /\ \A i \in 1 .. n + 1 : d[i] \in Transaction
  BY <1>1, <1>2
<1>4. n + 1 \in 1 .. n + 1
  OBVIOUS
<1>5. PICK f, g : f = [i \in 1 .. n |-> Credit(id, c[i])] /\ g = [i \in 1 .. n + 1 |-> Credit(id, d[i])]
  OBVIOUS
<1>6. f \in Seq(Int) /\ g = Append(f, Credit(id, trx))
  <2>1. f \in [1 .. n -> Int] /\ g \in [1 .. n + 1 -> Int] /\ Credit(id, trx) \in Int
    BY <1>3, <1>5, BlockNumbers
  <2>2. (\A i \in 1 .. n : g[i] = f[i]) /\ g[n + 1] = Credit(id, trx)
    BY <1>3, <1>4, <1>5
  <2> QED
    BY <2>1, <2>2, OneMore
<1>7. PICK u, v : u = [i \in 1 .. n |-> Reserve(id, c[i])] /\ v = [i \in 1 .. n + 1 |-> Reserve(id, d[i])]
  OBVIOUS
<1>8. u \in Seq(Int) /\ v = Append(u, Reserve(id, trx))
  <2>1. u \in [1 .. n -> Int] /\ v \in [1 .. n + 1 -> Int] /\ Reserve(id, trx) \in Int
    BY <1>3, <1>7, BlockNumbers
  <2>2. (\A i \in 1 .. n : v[i] = u[i]) /\ v[n + 1] = Reserve(id, trx)
    BY <1>3, <1>4, <1>7
  <2> QED
    BY <2>1, <2>2, OneMore
<1>9. PICK p, q : p = [i \in 1 .. n |-> Taken(id, c[i])] /\ q = [i \in 1 .. n + 1 |-> Taken(id, d[i])]
  OBVIOUS
<1>10. p \in Seq(Int) /\ q = Append(p, Taken(id, trx))
  <2>1. p \in [1 .. n -> Int] /\ q \in [1 .. n + 1 -> Int] /\ Taken(id, trx) \in Int
    BY <1>3, <1>9, BlockNumbers
  <2>2. (\A i \in 1 .. n : q[i] = p[i]) /\ q[n + 1] = Taken(id, trx)
    BY <1>3, <1>4, <1>9
  <2> QED
    BY <2>1, <2>2, OneMore
<1>11. Movements(id, c) = f /\ Movements(id, d) = g
  BY <1>1, <1>3, <1>5 DEF Movements
<1>12. Reservations(id, c) = u /\ Reservations(id, d) = v
  BY <1>1, <1>3, <1>7 DEF Reservations
<1>13. Takings(id, c) = p /\ Takings(id, d) = q
  BY <1>1, <1>3, <1>9 DEF Takings
<1> QED
  BY <1>2, <1>6, <1>8, <1>10, <1>11, <1>12, <1>13

\* The mbr less the slots' cost grows by what is reserved otherwise.
LEMMA ReservedSlots ==
  ASSUME NEW acc \in AccountState, NEW r \in AccountState, NEW x \in Int, Reserved(acc, x, r),
         IsFiniteSet(Vacancies(acc))
  PROVE  /\ IsFiniteSet(Vacancies(r))
         /\ Cardinality(Vacancies(acc)) \in Nat /\ Cardinality(Vacancies(r)) \in Nat
         /\ r.mbr - MBR_SLOT_COST * Cardinality(Vacancies(r))
              = acc.mbr - MBR_SLOT_COST * Cardinality(Vacancies(acc)) + x
<1>0. acc.mbr \in Int /\ r.mbr \in Int
  BY DEF AccountState
<1>1. Cardinality(Vacancies(acc)) \in Nat
  BY FS_CardinalityType
<1>2. CASE r.store = acc.store /\ r.mbr = acc.mbr + x
  <2>1. Vacancies(r) = Vacancies(acc)
    BY <1>2 DEF Vacancies
  <2> QED
    BY <1>0, <1>1, <1>2, <2>1 DEF MBR_SLOT_COST
<1>3. ASSUME NEW t \in TokenIds,
             \A u \in TokenIds \ {t} : r.store[u] = acc.store[u],
             r.mbr = acc.mbr + x + MBR_SLOT_COST * (Bit(Vacant(r.store[t])) - Bit(Vacant(acc.store[t])))
      PROVE  /\ IsFiniteSet(Vacancies(r)) /\ Cardinality(Vacancies(r)) \in Nat
             /\ r.mbr - MBR_SLOT_COST * Cardinality(Vacancies(r))
                  = acc.mbr - MBR_SLOT_COST * Cardinality(Vacancies(acc)) + x
  <2>1. PICK A : A = Vacancies(acc)
    OBVIOUS
  <2>2. PICK B : B = Vacancies(r)
    OBVIOUS
  <2>3. A \ {t} = B \ {t}
    BY <1>3, <2>1, <2>2 DEF Vacancies
  <2>4. /\ IsFiniteSet(B) /\ Cardinality(A) \in Nat /\ Cardinality(B) \in Nat
        /\ Cardinality(B) = Cardinality(A) + Bit(t \in B) - Bit(t \in A)
    BY <2>1, <2>3, CountOne
  <2>5. Bit(t \in B) = Bit(Vacant(r.store[t])) /\ Bit(t \in A) = Bit(Vacant(acc.store[t]))
    BY <2>1, <2>2 DEF Bit, Vacancies, Vacant
  <2>6. Bit(t \in B) \in Int /\ Bit(t \in A) \in Int
    BY DEF Bit
  <2>7. r.mbr = acc.mbr + x + 5 * (Bit(t \in B) - Bit(t \in A))
    BY <1>3, <2>5 DEF MBR_SLOT_COST
  <2>8. r.mbr - 5 * Cardinality(B) = acc.mbr - 5 * Cardinality(A) + x
    BY <1>0, <2>4, <2>6, <2>7
  <2> QED
    BY <2>1, <2>2, <2>4, <2>8 DEF MBR_SLOT_COST
<1> QED
  BY <1>1, <1>2, <1>3 DEF Reserved

\* An append keeps the books.
LEMMA AppendBooks ==
  ASSUME NEW id \in Ids, NEW acc \in AccountState, BooksAt(id, acc), NEW trx, NEW r,
         Appended(id, acc, trx, r)
  PROVE  BooksAt(id, r)
<1>1. PICK c : c = acc.chain
  OBVIOUS
<1>2. c \in Seq(Transaction) /\ trx \in Transaction /\ r.chain = Append(c, trx) /\ r \in AccountState
  BY <1>1 DEF Appended, Numbers, AccountState
<1>3. PICK v : v = Movements(id, c)
  OBVIOUS
<1>4. PICK w : w = Reservations(id, c)
  OBVIOUS
<1>5. PICK x \in Int : x = Credit(id, trx)
  BY <1>2, BlockNumbers
<1>6. PICK y \in Int : y = Reserve(id, trx)
  BY <1>2, BlockNumbers
<1>7. /\ v \in Seq(Int) /\ Movements(id, r.chain) = Append(v, x)
      /\ w \in Seq(Int) /\ Reservations(id, r.chain) = Append(w, y)
  BY <1>2, <1>3, <1>4, <1>5, <1>6, NumbersAppend
<1>8. Total(Append(v, x)) = Total(v) + x
  BY <1>5, <1>7, TotalAppend
<1>9. Total(Append(w, y)) = Total(w) + y /\ Total(w) \in Int
  BY <1>6, <1>7, TotalAppend
<1>10. r.balance = Total(Movements(id, r.chain))
  BY <1>1, <1>3, <1>5, <1>7, <1>8 DEF BooksAt, Appended
<1>11. IsFiniteSet(Vacancies(acc)) /\ Reserved(acc, y, r)
  BY <1>6 DEF BooksAt, Appended
<1>12. /\ IsFiniteSet(Vacancies(r))
       /\ Cardinality(Vacancies(acc)) \in Nat /\ Cardinality(Vacancies(r)) \in Nat
       /\ r.mbr - MBR_SLOT_COST * Cardinality(Vacancies(r))
            = acc.mbr - MBR_SLOT_COST * Cardinality(Vacancies(acc)) + y
  BY <1>2, <1>11, ReservedSlots
<1>13. acc.mbr = Total(w) + MBR_SLOT_COST * Cardinality(Vacancies(acc)) /\ r.mbr \in Int
  BY <1>1, <1>2, <1>4 DEF BooksAt, AccountState
<1>14. r.mbr = Total(w) + y + MBR_SLOT_COST * Cardinality(Vacancies(r))
  BY <1>9, <1>12, <1>13 DEF MBR_SLOT_COST
<1> QED
  BY <1>7, <1>9, <1>10, <1>12, <1>14 DEF BooksAt

\* An append keeps the account funded.
LEMMA AppendFunded ==
  ASSUME NEW id \in Ids, NEW acc \in AccountState, FundedAt(id, acc), NEW trx, NEW r,
         Appended(id, acc, trx, r)
  PROVE  FundedAt(id, r)
<1>1. /\ acc.chain \in Seq(Transaction) /\ trx \in Transaction /\ r.chain = Append(acc.chain, trx)
      /\ acc.balance \in Int /\ acc.mbr \in Int /\ r.balance \in Int /\ r.mbr \in Int
  BY DEF Appended, Numbers, AccountState
<1>2. PICK v : v = Takings(id, acc.chain)
  OBVIOUS
<1>3. PICK x \in Nat : x = Taken(id, trx)
  BY <1>1, BlockNumbers
<1>4. v \in Seq(Int) /\ Takings(id, r.chain) = Append(v, x)
  BY <1>1, <1>2, <1>3, NumbersAppend
<1>5. Total(Append(v, x)) = Total(v) + x
  BY <1>3, <1>4, TotalAppend
<1>6. Total(v) \in Nat /\ acc.mbr <= acc.balance + Total(v)
  BY <1>2 DEF FundedAt
<1>7. r.mbr <= r.balance \/ acc.balance - acc.mbr <= r.balance - r.mbr + x
  BY <1>3 DEF Appended, Afforded
<1>8. Total(v) + x \in Nat /\ r.mbr <= r.balance + (Total(v) + x)
  <2>1. PICK k \in Nat : k = Total(v)
    BY <1>6
  <2>2. PICK b \in Int, m \in Int, p \in Int, q \in Int :
               b = acc.balance /\ m = acc.mbr /\ p = r.balance /\ q = r.mbr
    BY <1>1
  <2>3. m <= b + k /\ (q <= p \/ b - m <= p - q + x)
    BY <1>6, <1>7, <2>1, <2>2
  <2>4. k + x \in Nat /\ q <= p + (k + x)
    BY <2>3
  <2> QED
    BY <2>1, <2>2, <2>4
<1> QED
  BY <1>4, <1>5, <1>8 DEF FundedAt

\* An append to one of the accounts does.
LEMMA AppendAudited ==
  ASSUME NEW S \in [Ids -> AccountState], Audited(S), NEW id \in Ids, NEW trx, NEW r,
         Appended(id, S[id], trx, r), NEW T, T = [S EXCEPT ![id] = r]
  PROVE  Audited(T)
<1>1. S[id] \in AccountState /\ CountsAt(id, S[id]) /\ BooksAt(id, S[id]) /\ FundedAt(id, S[id])
  BY DEF Audited
<1>2. CountsAt(id, r) /\ BooksAt(id, r) /\ FundedAt(id, r)
  BY <1>1, AppendCounts, AppendBooks, AppendFunded
<1>3. \A x \in Ids : T[x] = IF x = id THEN r ELSE S[x]
  OBVIOUS
<1> QED
  BY <1>2, <1>3 DEF Audited

-----------------------------------------------------------------------------
\* A slot that changes.
LEMMA SlotReserved ==
  ASSUME NEW acc \in AccountState, NEW r, NEW t \in TokenIds, NEW v, NEW x,
         r.store = [acc.store EXCEPT ![t] = v],
         r.mbr = acc.mbr + x + MBR_SLOT_COST * (Bit(Vacant(v)) - Bit(Vacant(acc.store[t])))
  PROVE  Reserved(acc, x, r)
<1>1. acc.store \in [TokenIds -> SlotStates]
  BY DEF AccountState
<1>2. r.store[t] = v /\ \A u \in TokenIds \ {t} : r.store[u] = acc.store[u]
  BY <1>1
<1> QED
  BY <1>2 DEF Reserved

\* A slot's cost is locked when the slot is opened and released when it is closed.
LEMMA SlotMoves ==
  ASSUME NEW acc \in AccountState, NEW r, NEW t \in TokenIds, NEW v,
         r.store = [acc.store EXCEPT ![t] = v]
  PROVE  /\ ~Vacant(v) /\ ~Vacant(acc.store[t]) /\ r.mbr = acc.mbr => Reserved(acc, 0, r)
         /\ Vacant(v) /\ ~Vacant(acc.store[t]) /\ r.mbr = acc.mbr + MBR_SLOT_COST => Reserved(acc, 0, r)
         /\ ~Vacant(v) /\ Vacant(acc.store[t]) /\ r.mbr = acc.mbr - MBR_SLOT_COST => Reserved(acc, 0, r)
<1>0. acc.mbr \in Int
  BY DEF AccountState
<1>1. Bit(TRUE) = 1 /\ Bit(FALSE) = 0
  BY DEF Bit
<1>2. PICK p : p = Bit(Vacant(v))
  OBVIOUS
<1>3. PICK q : q = Bit(Vacant(acc.store[t]))
  OBVIOUS
<1>4. (Vacant(v) => p = 1) /\ (~Vacant(v) => p = 0)
  BY <1>2 DEF Bit
<1>5. (Vacant(acc.store[t]) => q = 1) /\ (~Vacant(acc.store[t]) => q = 0)
  BY <1>3 DEF Bit
<1>6. r.mbr = acc.mbr + 0 + MBR_SLOT_COST * (p - q) => Reserved(acc, 0, r)
  BY <1>2, <1>3, SlotReserved
<1> QED
  BY <1>0, <1>4, <1>5, <1>6 DEF MBR_SLOT_COST

\* What a transaction is about.
Due(id, trx, credit, reserve) == Credit(id, trx) = credit /\ Reserve(id, trx) = reserve

\* The sender's half pays and reserves what its block says.
LEMMA FirstBooks ==
  ASSUME NEW acc \in AccountState, NEW trx, ValidTx(trx), trx.type \in TwoParty, NEW r, FirstHalf(acc, trx, r),
         trx.type = "Transfer" => trx.sender # trx.receiver,
         trx.type \in {"TransferToken", "ClawbackTokenTransfer"} => Real(acc.store[trx.token])
  PROVE  r.balance = acc.balance + Credit(trx.sender, trx) /\ Reserved(acc, Reserve(trx.sender, trx), r)
<1>0. acc.balance \in Int /\ acc.mbr \in Int /\ trx.amount \in Int
  BY ValidTxFields DEF AccountState
<1>t. trx.type # "Transfer" => trx.token \in TokenIds
  BY ValidTxFields DEF TwoParty
<1>1. CASE trx.type = "Transfer"
  <2>1. Due(trx.sender, trx, 0 - trx.amount, 0)
    BY <1>1 DEF Due, Credit, Reserve
  <2>2. r.balance = acc.balance - trx.amount /\ r.mbr = acc.mbr /\ r.store = acc.store
    BY <1>1 DEF FirstHalf, Fields
  <2> QED
    BY <1>0, <2>1, <2>2 DEF Due, Reserved
<1>2. CASE trx.type = "TransferToken"
  <2>1. Due(trx.sender, trx, 0, 0)
    BY <1>2 DEF Due, Credit, Reserve
  <2>2. r.balance = acc.balance /\ r.mbr = acc.mbr /\ r.store = [acc.store EXCEPT ![trx.token] = "absent"]
    BY <1>2 DEF FirstHalf, Fields
  <2>3. ~Vacant("absent") /\ ~Vacant(acc.store[trx.token])
    BY <1>2 DEF Vacant, Real
  <2>4. Reserved(acc, 0, r)
    BY <1>t, <1>2, <2>2, <2>3, SlotMoves
  <2> QED
    BY <1>0, <2>1, <2>2, <2>4 DEF Due
<1>3. CASE trx.type = "AuthorizeTokenTransfer"
  <2>1. Due(trx.sender, trx, 0, 0)
    BY <1>3 DEF Due, Credit, Reserve
  <2>2. r.balance = acc.balance
    BY <1>3 DEF FirstHalf, Fields
  <2>3. \/ /\ acc.store[trx.token] = "absent"
           /\ r.mbr = acc.mbr + MBR_SLOT_COST /\ r.store = [acc.store EXCEPT ![trx.token] = "placeholder"]
        \/ r.mbr = acc.mbr /\ r.store = acc.store
    BY <1>3 DEF FirstHalf, Fields
  <2>4. Vacant("placeholder") /\ ~Vacant("absent")
    BY DEF Vacant
  <2>5. Reserved(acc, 0, r)
    <3>1. CASE r.mbr = acc.mbr /\ r.store = acc.store
      BY <1>0, <3>1 DEF Reserved
    <3>2. CASE /\ acc.store[trx.token] = "absent"
               /\ r.mbr = acc.mbr + MBR_SLOT_COST /\ r.store = [acc.store EXCEPT ![trx.token] = "placeholder"]
      BY <1>t, <1>3, <2>4, <3>2, SlotMoves
    <3> QED
      BY <2>3, <3>1, <3>2
  <2> QED
    BY <1>0, <2>1, <2>2, <2>5 DEF Due
<1>4. CASE trx.type = "UnauthorizeTokenTransfer"
  <2>1. Due(trx.sender, trx, 0, 0)
    BY <1>4 DEF Due, Credit, Reserve
  <2>2. /\ r.balance = acc.balance /\ r.mbr = acc.mbr - MBR_SLOT_COST
        /\ r.store = [acc.store EXCEPT ![trx.token] = "absent"] /\ acc.store[trx.token] = "placeholder"
    BY <1>4 DEF FirstHalf, Fields
  <2>3. ~Vacant("absent") /\ Vacant("placeholder")
    BY DEF Vacant
  <2>4. Reserved(acc, 0, r)
    BY <1>t, <1>4, <2>2, <2>3, SlotMoves
  <2> QED
    BY <1>0, <2>1, <2>2, <2>4 DEF Due
<1>5. CASE trx.type = "ClawbackTokenTransfer"
  <2>1. Due(trx.sender, trx, 0, 0)
    BY <1>5 DEF Due, Credit, Reserve
  <2>2. r.balance = acc.balance /\ r.mbr = acc.mbr /\ r.store = [acc.store EXCEPT ![trx.token] = "absent"]
    BY <1>5 DEF FirstHalf, Fields
  <2>3. ~Vacant("absent") /\ ~Vacant(acc.store[trx.token])
    BY <1>5 DEF Vacant, Real
  <2>4. Reserved(acc, 0, r)
    BY <1>t, <1>5, <2>2, <2>3, SlotMoves
  <2> QED
    BY <1>0, <2>1, <2>2, <2>4 DEF Due
<1>6. CASE trx.type = "FreezeToken"
  <2>1. Due(trx.sender, trx, 0, MBR_FREEZE_COST)
    BY <1>6 DEF Due, Credit, Reserve
  <2>2. r.balance = acc.balance /\ r.mbr = acc.mbr + MBR_FREEZE_COST /\ r.store = acc.store
    BY <1>6 DEF FirstHalf, Fields
  <2> QED
    BY <1>0, <2>1, <2>2 DEF Due, Reserved
<1>7. CASE trx.type = "UnfreezeToken"
  <2>1. Due(trx.sender, trx, 0, 0 - MBR_FREEZE_COST)
    BY <1>7 DEF Due, Credit, Reserve
  <2>2. r.balance = acc.balance /\ r.mbr = acc.mbr - MBR_UNFREEZE_COST /\ r.store = acc.store
    BY <1>7 DEF FirstHalf, Fields
  <2> QED
    BY <1>0, <2>1, <2>2 DEF Due, Reserved, MBR_FREEZE_COST, MBR_UNFREEZE_COST
<1> QED
  BY <1>1, <1>2, <1>3, <1>4, <1>5, <1>6, <1>7 DEF TwoParty

\* So does the receiver's.
LEMMA SecondBooks ==
  ASSUME NEW acc \in AccountState, NEW trx, ValidTx(trx), trx.type \in TwoParty, NEW r, SecondHalf(acc, trx, r),
         trx.sender # trx.receiver,
         trx.type \in {"TransferToken", "ClawbackTokenTransfer"} => Real(trx.slot)
  PROVE  r.balance = acc.balance + Credit(trx.receiver, trx) /\ Reserved(acc, Reserve(trx.receiver, trx), r)
<1>0. acc.balance \in Int /\ acc.mbr \in Int /\ trx.amount \in Int
  BY ValidTxFields DEF AccountState
<1>t. trx.type # "Transfer" => trx.token \in TokenIds
  BY ValidTxFields DEF TwoParty
<1>n. trx.type # "Transfer" => Due(trx.receiver, trx, 0, 0)
  BY DEF Due, Credit, Reserve, TwoParty
<1>1. CASE trx.type = "Transfer"
  <2>1. Due(trx.receiver, trx, trx.amount, 0)
    BY <1>1 DEF Due, Credit, Reserve
  <2>2. r.balance = acc.balance + trx.amount /\ r.mbr = acc.mbr /\ r.store = acc.store
    BY <1>1 DEF SecondHalf, Fields
  <2> QED
    BY <1>0, <2>1, <2>2 DEF Due, Reserved
<1>2. CASE trx.type = "TransferToken"
  <2>1. /\ r.balance = acc.balance /\ r.mbr = acc.mbr - MBR_SLOT_COST
        /\ r.store = [acc.store EXCEPT ![trx.token] = trx.slot] /\ acc.store[trx.token] = "placeholder"
    BY <1>2 DEF SecondHalf, Fields
  <2>2. ~Vacant(trx.slot) /\ Vacant("placeholder")
    BY <1>2 DEF Vacant, Real
  <2>3. Reserved(acc, 0, r)
    BY <1>t, <1>2, <2>1, <2>2, SlotMoves
  <2> QED
    BY <1>0, <1>n, <1>2, <2>1, <2>3 DEF Due
<1>3. CASE trx.type \in {"AuthorizeTokenTransfer", "UnauthorizeTokenTransfer"}
  <2>1. r.balance = acc.balance /\ r.mbr = acc.mbr /\ r.store = acc.store
    BY <1>3 DEF SecondHalf, Fields
  <2> QED
    BY <1>0, <1>n, <1>3, <2>1 DEF Due, Reserved
<1>4. CASE trx.type \in {"ClawbackTokenTransfer", "FreezeToken", "UnfreezeToken"}
  <2>1. PICK v : /\ r.balance = acc.balance /\ r.mbr = acc.mbr
                 /\ r.store = [acc.store EXCEPT ![trx.token] = v]
                 /\ acc.store[trx.token] # "placeholder" /\ v # "placeholder"
    <3>1. CASE trx.type = "ClawbackTokenTransfer"
      <4>1. /\ r.balance = acc.balance /\ r.mbr = acc.mbr
            /\ r.store = [acc.store EXCEPT ![trx.token] = trx.slot]
            /\ acc.store[trx.token] = "absent" /\ trx.slot # "placeholder"
        BY <3>1 DEF SecondHalf, Fields, Real
      <4> QED
        BY <4>1
    <3>2. CASE trx.type = "FreezeToken"
      <4>1. /\ r.balance = acc.balance /\ r.mbr = acc.mbr
            /\ r.store = [acc.store EXCEPT ![trx.token] = "frozen"] /\ acc.store[trx.token] = "held"
        BY <3>2 DEF SecondHalf, Fields
      <4> QED
        BY <4>1
    <3>3. CASE trx.type = "UnfreezeToken"
      <4>1. /\ r.balance = acc.balance /\ r.mbr = acc.mbr
            /\ r.store = [acc.store EXCEPT ![trx.token] = "held"] /\ acc.store[trx.token] = "frozen"
        BY <3>3 DEF SecondHalf, Fields
      <4> QED
        BY <4>1
    <3> QED
      BY <1>4, <3>1, <3>2, <3>3
  <2>2. ~Vacant(v) /\ ~Vacant(acc.store[trx.token])
    BY <2>1 DEF Vacant
  <2>3. Reserved(acc, 0, r)
    BY <1>t, <1>4, <2>1, <2>2, SlotMoves
  <2> QED
    BY <1>0, <1>n, <1>4, <2>1, <2>3 DEF Due
<1> QED
  BY <1>1, <1>2, <1>3, <1>4 DEF TwoParty

\* The handlers that lock balance look whether it is there.
LEMMA SenderGuards ==
  ASSUME NEW self, NEW acc \in AccountState, NEW trx, trx.sender = self, appendTransaction(self, acc, trx).ok
  PROVE  /\ trx.type = "AuthorizeTokenTransfer" /\ acc.store[trx.token] = "absent" =>
               acc.balance - acc.mbr >= MBR_SLOT_COST
         /\ trx.type = "FreezeToken" => acc.balance - acc.mbr >= MBR_FREEZE_COST
<1>1. txHandlers(self, acc, trx).ok
  BY DEF appendTransaction, Result
<1>2. trx.type = "AuthorizeTokenTransfer" /\ acc.store[trx.token] = "absent" =>
        acc.balance - acc.mbr >= MBR_SLOT_COST
  BY <1>1 DEF txHandlers, handleAuthorizeTokenTransferTx, Expecting, Result, Available
<1>3. trx.type = "FreezeToken" => acc.balance - acc.mbr >= MBR_FREEZE_COST
  BY <1>1 DEF txHandlers, handleFreezeTokenTx, Expecting, Result, Available
<1> QED
  BY <1>2, <1>3

\* So the sender's half spends and locks what the account has.
LEMMA FirstAfforded ==
  ASSUME NEW acc \in AccountState, NEW trx, ValidTx(trx), trx.type \in TwoParty, NEW r, FirstHalf(acc, trx, r),
         appendTransaction(trx.sender, acc, trx).ok
  PROVE  Afforded(trx.sender, acc, trx, r)
<1>0. acc.balance \in Int /\ acc.mbr \in Int /\ trx.amount \in Int /\ Taken(trx.sender, trx) \in Nat
  BY ValidTxFields, BlockNumbers DEF AccountState, ValidTx
<1>1. CASE trx.type = "Transfer"
  <2>1. r.balance = acc.balance - trx.amount /\ r.mbr = acc.mbr /\ acc.balance - acc.mbr >= trx.amount
    BY <1>1 DEF FirstHalf, Fields
  <2> QED
    BY <1>0, <2>1 DEF Afforded
<1>2. CASE trx.type = "AuthorizeTokenTransfer"
  <2>1. CASE acc.store[trx.token] = "absent"
    <3>1. r.balance = acc.balance /\ r.mbr = acc.mbr + MBR_SLOT_COST
      BY <1>2, <2>1 DEF FirstHalf, Fields
    <3>2. acc.balance - acc.mbr >= MBR_SLOT_COST
      BY <1>2, <2>1, SenderGuards
    <3> QED
      BY <1>0, <3>1, <3>2 DEF Afforded, MBR_SLOT_COST
  <2>2. CASE acc.store[trx.token] # "absent"
    <3>1. r.balance = acc.balance /\ r.mbr = acc.mbr
      BY <1>2, <2>2 DEF FirstHalf, Fields
    <3> QED
      BY <1>0, <3>1 DEF Afforded
  <2> QED
    BY <2>1, <2>2
<1>3. CASE trx.type = "FreezeToken"
  <2>1. r.balance = acc.balance /\ r.mbr = acc.mbr + MBR_FREEZE_COST
    BY <1>3 DEF FirstHalf, Fields
  <2>2. acc.balance - acc.mbr >= MBR_FREEZE_COST
    BY <1>3, SenderGuards
  <2> QED
    BY <1>0, <2>1, <2>2 DEF Afforded, MBR_FREEZE_COST
<1>4. CASE trx.type \in {"UnauthorizeTokenTransfer", "UnfreezeToken", "TransferToken", "ClawbackTokenTransfer"}
  <2>1. /\ r.balance = acc.balance
        /\ \/ r.mbr = acc.mbr
           \/ r.mbr = acc.mbr - MBR_SLOT_COST
           \/ r.mbr = acc.mbr - MBR_UNFREEZE_COST
    BY <1>4 DEF FirstHalf, Fields
  <2> QED
    BY <1>0, <2>1 DEF Afforded, MBR_SLOT_COST, MBR_UNFREEZE_COST
<1> QED
  BY <1>1, <1>2, <1>3, <1>4 DEF TwoParty

\* The receiver's half locks nothing; what a negative amount debits is taken.
LEMMA SecondAfforded ==
  ASSUME NEW acc \in AccountState, NEW trx, ValidTx(trx), trx.type \in TwoParty, NEW r, SecondHalf(acc, trx, r)
  PROVE  Afforded(trx.receiver, acc, trx, r)
<1>0. acc.balance \in Int /\ acc.mbr \in Int /\ trx.amount \in Int /\ Taken(trx.receiver, trx) \in Nat
  BY ValidTxFields, BlockNumbers DEF AccountState, ValidTx
<1>1. CASE trx.type = "Transfer"
  <2>1. r.balance = acc.balance + trx.amount /\ r.mbr = acc.mbr
    BY <1>1 DEF SecondHalf, Fields
  <2>2. Taken(trx.receiver, trx) = IF trx.amount < 0 THEN 0 - trx.amount ELSE 0
    BY <1>1 DEF Taken
  <2> QED
    BY <1>0, <2>1, <2>2 DEF Afforded
<1>2. CASE trx.type # "Transfer"
  <2>1. r.balance = acc.balance /\ (r.mbr = acc.mbr \/ r.mbr = acc.mbr - MBR_SLOT_COST)
    BY <1>2 DEF SecondHalf, Fields, TwoParty
  <2> QED
    BY <1>0, <2>1 DEF Afforded, MBR_SLOT_COST
<1> QED
  BY <1>1, <1>2

\* The sender's half uses up a number if it is outgoing.
LEMMA FirstNumbers ==
  ASSUME NEW acc \in AccountState, NEW trx, trx.type \in TwoParty, NEW r, FirstHalf(acc, trx, r)
  PROVE  Numbers(trx.sender, acc, trx, r)
<1>1. CASE trx.type = "AuthorizeTokenTransfer"
  <2>1. r \in AccountState /\ r.chain = Append(acc.chain, trx) /\ r.nonce = acc.nonce + 1 /\ trx.nonce = acc.nonce
    BY <1>1 DEF FirstHalf, Fields
  <2> QED
    BY <1>1, <2>1 DEF Numbers, Outgoing
<1>2. CASE trx.type = "ClawbackTokenTransfer"
  <2>1. r \in AccountState /\ r.chain = Append(acc.chain, trx) /\ r.nonce = acc.nonce
    BY <1>2 DEF FirstHalf, Fields
  <2> QED
    BY <1>2, <2>1 DEF Numbers, Outgoing
<1>3. CASE trx.type = "Transfer"
  <2>1. r \in AccountState /\ r.chain = Append(acc.chain, trx) /\ r.nonce = acc.nonce + 1
    BY <1>3 DEF FirstHalf, Fields
  <2> QED
    BY <1>3, <2>1 DEF Numbers, Outgoing
<1>4. CASE trx.type \in {"TransferToken", "UnauthorizeTokenTransfer", "FreezeToken", "UnfreezeToken"}
  <2>1. r \in AccountState /\ r.chain = Append(acc.chain, trx) /\ r.nonce = acc.nonce + 1 /\ trx.nonce = acc.nonce
    BY <1>4 DEF FirstHalf, Fields
  <2> QED
    BY <1>4, <2>1 DEF Numbers, Outgoing
<1> QED
  BY <1>1, <1>2, <1>3, <1>4 DEF TwoParty

\* So does the receiver's.
LEMMA SecondNumbers ==
  ASSUME NEW acc \in AccountState, NEW trx, trx.type \in TwoParty, trx.sender # trx.receiver,
         NEW r, SecondHalf(acc, trx, r)
  PROVE  Numbers(trx.receiver, acc, trx, r)
<1>1. CASE trx.type = "ClawbackTokenTransfer"
  <2>1. r \in AccountState /\ r.chain = Append(acc.chain, trx) /\ r.nonce = acc.nonce + 1 /\ trx.nonce = acc.nonce
    BY <1>1 DEF SecondHalf, Fields
  <2> QED
    BY <1>1, <2>1 DEF Numbers, Outgoing
<1>2. CASE trx.type # "ClawbackTokenTransfer"
  <2>1. r \in AccountState /\ r.chain = Append(acc.chain, trx) /\ r.nonce = acc.nonce
    BY <1>2 DEF SecondHalf, Fields, TwoParty
  <2>2. ~Outgoing(trx.receiver, trx)
    BY <1>2 DEF Outgoing, TwoParty
  <2> QED
    BY <2>1, <2>2 DEF Numbers
<1> QED
  BY <1>1, <1>2

\* Audited(S), for S the accounts after a step.
LEMMA AuditedPrime ==
  ASSUME NEW T, T = accounts', Audited(T)
  PROVE  Audited(accounts)'
BY DEF Audited

\* Undoing an operation goes back to accounts that count.
LEMMA RollbackAudited ==
  ASSUME AuditInv, Rollback
  PROVE  Audited(accounts)'
<1> DEFINE s == op.trx.sender
           u == op.trx.token
<1>1. /\ before \in [Ids -> AccountState] /\ s \in Ids /\ Audited(before)
      /\ ~Reauthorization => accounts' = before
      /\ Reauthorization => /\ before[s].store[u] = "placeholder" /\ u \in TokenIds
                            /\ \E q : accounts' = [before EXCEPT ![s] = q] /\ Lapsed(before[s], u, q)
  BY RollbackSettles, TokenInvParts DEF AuditInv
<1> HIDE DEF s, u
<1>2. CASE ~Reauthorization
  BY <1>1, <1>2, AuditedPrime
<1>3. CASE Reauthorization
  <2>1. PICK q : accounts' = [before EXCEPT ![s] = q] /\ Lapsed(before[s], u, q)
    BY <1>1, <1>3
  <2>2. PICK acc : acc = before[s]
    OBVIOUS
  <2>3. /\ acc \in AccountState /\ CountsAt(s, acc) /\ BooksAt(s, acc) /\ FundedAt(s, acc)
        /\ Vacant(acc.store[u]) /\ u \in TokenIds
    BY <1>1, <1>3, <2>2 DEF Audited, Vacant
  <2>4. /\ q \in AccountState /\ q.nonce = acc.nonce /\ q.chain = acc.chain /\ q.balance = acc.balance
        /\ q.mbr = acc.mbr - MBR_SLOT_COST /\ q.store = [acc.store EXCEPT ![u] = "absent"]
    BY <2>1, <2>2 DEF Lapsed, Fields
  <2>5. CountsAt(s, q)
    BY <2>3, <2>4 DEF CountsAt
  <2>6. Reserved(acc, 0, q)
    <3>1. ~Vacant("absent")
      BY DEF Vacant
    <3> QED
      BY <2>3, <2>4, <3>1, SlotMoves
  <2>7. BooksAt(s, q)
    <3>1. IsFiniteSet(Vacancies(acc)) /\ 0 \in Int
      BY <2>3 DEF BooksAt
    <3>2. /\ IsFiniteSet(Vacancies(q))
          /\ Cardinality(Vacancies(acc)) \in Nat /\ Cardinality(Vacancies(q)) \in Nat
          /\ q.mbr - MBR_SLOT_COST * Cardinality(Vacancies(q))
               = acc.mbr - MBR_SLOT_COST * Cardinality(Vacancies(acc)) + 0
      BY <2>3, <2>4, <2>6, <3>1, ReservedSlots
    <3>3. PICK sum : sum = Total(Reservations(s, acc.chain))
      OBVIOUS
    <3>4. sum \in Int /\ q.mbr \in Int
      <4>1. acc.chain \in Seq(Transaction) /\ Idle.trx \in Transaction
        BY <2>3, FreshTypes DEF AccountState
      <4>2. Reservations(s, acc.chain) \in Seq(Int)
        BY <4>1, NumbersAppend
      <4>3. sum \in Int
        BY <3>1, <3>3, <4>2, TotalAppend
      <4> QED
        BY <2>4, <4>3 DEF AccountState
    <3>5. acc.mbr = sum + MBR_SLOT_COST * Cardinality(Vacancies(acc))
      BY <2>3, <3>3 DEF BooksAt
    <3>6. q.mbr = sum + MBR_SLOT_COST * Cardinality(Vacancies(q))
      BY <3>2, <3>4, <3>5 DEF MBR_SLOT_COST
    <3> QED
      BY <2>3, <2>4, <3>2, <3>3, <3>6 DEF BooksAt
  <2>f. FundedAt(s, q)
    <3>1. acc.balance \in Int /\ acc.mbr \in Int
      BY <2>3 DEF AccountState
    <3> QED
      BY <2>3, <2>4, <3>1 DEF FundedAt, MBR_SLOT_COST
  <2>8. PICK T : T = accounts'
    OBVIOUS
  <2>9. \A x \in Ids : T[x] = IF x = s THEN q ELSE before[x]
    BY <1>1, <2>1, <2>8
  <2>10. Audited(T)
    BY <1>1, <2>5, <2>7, <2>f, <2>9 DEF Audited
  <2> QED
    BY <2>8, <2>10, AuditedPrime
<1> QED
  BY <1>2, <1>3

\* Every other step keeps the accounts or appends to one of them.
Appends ==
    \/ accounts' = accounts
    \/ \E id \in Ids : \E trx, r :
          accounts' = [accounts EXCEPT ![id] = r] /\ Appended(id, accounts[id], trx, r)

\* Money that comes in is an append that is not outgoing.
LEMMA MintAppends ==
  ASSUME accounts \in [Ids -> AccountState], NEW id \in Ids, NEW x \in Int,
         accounts' = [accounts EXCEPT ![id] = appendTransaction(id, @, newMintTransaction(id, x)).acc]
  PROVE  Appends
<1>1. PICK S : S = accounts
  OBVIOUS
<1>2. PICK trx : trx = newMintTransaction(id, x)
  OBVIOUS
<1>3. PICK r : r = appendTransaction(id, S[id], trx).acc
  OBVIOUS
<1>4. accounts' = [S EXCEPT ![id] = r]
  BY <1>1, <1>2, <1>3
<1>5. Fields(r, S[id].balance + x, S[id].mbr, S[id].nonce, S[id].store, Append(S[id].chain, trx))
  BY <1>1, <1>2, <1>3, MintFields
<1>6. ~Outgoing(id, trx)
  BY <1>2, NoneAssumption DEF Outgoing, newMintTransaction, MoneyTx
<1>7. Due(id, trx, x, 0) /\ trx \in Transaction
  BY <1>2, NewMoneyTx DEF Due, Credit, Reserve, newMintTransaction, MoneyTx, ValidTx
<1>8. S[id].mbr \in Int
  BY <1>1 DEF AccountState
<1>9. r.balance = S[id].balance + Credit(id, trx) /\ Reserved(S[id], Reserve(id, trx), r)
  BY <1>5, <1>7, <1>8 DEF Fields, Due, Reserved
<1>10. Numbers(id, S[id], trx, r)
  BY <1>5, <1>6 DEF Numbers, Fields
<1>11. Afforded(id, S[id], trx, r)
  <2>1. Taken(id, trx) = IF x < 0 THEN 0 - x ELSE 0
    BY <1>2 DEF Taken, newMintTransaction, MoneyTx
  <2>2. r.balance = S[id].balance + x /\ r.mbr = S[id].mbr /\ S[id].balance \in Int
    BY <1>1, <1>5 DEF Fields, AccountState
  <2> QED
    BY <1>8, <2>1, <2>2 DEF Afforded
<1>12. Appended(id, S[id], trx, r)
  BY <1>7, <1>9, <1>10, <1>11 DEF Appended
<1> QED
  BY <1>1, <1>4, <1>12 DEF Appends

\* Minting a token is outgoing.
LEMMA MintTokenAppends ==
  ASSUME TokenInv, TokenInv', NEW id \in Ids, NEW t \in TokenIds,
         ValidTx(newMintTokenTransaction(id, t)), Single(id, newMintTokenTransaction(id, t))
  PROVE  Appends
<1>1. PICK trx : trx = newMintTokenTransaction(id, t)
  OBVIOUS
<1>2. accounts \in [Ids -> AccountState] /\ accounts' \in [Ids -> AccountState]
  BY DEF TokenInv, TypesInv, Typed
<1>3. PICK r : r = accounts'[id]
  OBVIOUS
<1>4. accounts' = [accounts EXCEPT ![id] = r]
  BY <1>2, <1>3 DEF Single
<1>5. /\ OneEffect(accounts, accounts', id, t, "held", 10) /\ t.nonce = accounts[id].nonce
      /\ accounts[id].store[t] = "absent"
      /\ r.chain = Append(accounts[id].chain, trx)
  BY <1>1, <1>2, <1>3, MintTokenEffect
<1>6. r.nonce = accounts[id].nonce + 1 /\ r \in AccountState
  BY <1>2, <1>3, <1>5 DEF OneEffect, Leaves
<1>7. Outgoing(id, trx) /\ trx.nonce = accounts[id].nonce
  BY <1>1, <1>5, NoneAssumption DEF Outgoing, newMintTokenTransaction, TokenTx
<1>8. Numbers(id, accounts[id], trx, r)
  BY <1>5, <1>6, <1>7 DEF Numbers
<1>9. Due(id, trx, 0, MBR_TOKEN_COST) /\ trx \in Transaction
  BY <1>1 DEF Due, Credit, Reserve, newMintTokenTransaction, TokenTx, ValidTx
<1>10. PICK acc : acc = accounts[id]
  OBVIOUS
<1>11. acc \in AccountState /\ acc.balance \in Int /\ acc.mbr \in Int
  BY <1>2, <1>10 DEF AccountState
<1>12. /\ r.balance = acc.balance /\ r.mbr = acc.mbr + (10)
       /\ r.store[t] = "held" /\ \A u \in TokenIds \ {t} : r.store[u] = acc.store[u]
       /\ acc.store[t] = "absent"
  BY <1>2, <1>3, <1>5, <1>10 DEF OneEffect, Leaves
<1>13. ~Vacant(r.store[t]) /\ ~Vacant(acc.store[t])
  BY <1>12 DEF Vacant, Real
<1>14. Bit(Vacant(r.store[t])) = 0 /\ Bit(Vacant(acc.store[t])) = 0
  BY <1>13 DEF Bit
<1>15. r.mbr = acc.mbr + (MBR_TOKEN_COST) + MBR_SLOT_COST * (Bit(Vacant(r.store[t])) - Bit(Vacant(acc.store[t])))
  BY <1>11, <1>12, <1>14 DEF MBR_SLOT_COST, MBR_TOKEN_COST
<1>16. Reserved(acc, MBR_TOKEN_COST, r)
  BY <1>12, <1>15 DEF Reserved
<1>17. Afforded(id, acc, trx, r)
  <2>1. appendTransaction(id, acc, trx).ok /\ trx.type = "MintToken" /\ trx.receiver = id
    BY <1>1, <1>10 DEF Single, newMintTokenTransaction, TokenTx
  <2>2. acc.balance - acc.mbr >= MBR_TOKEN_COST
    BY <2>1 DEF appendTransaction, txHandlers, handleMintTokenTx, mintToken, Expecting, Result, Available
  <2> QED
    BY <1>11, <1>12, <2>2 DEF Afforded, MBR_TOKEN_COST
<1>18. Appended(id, accounts[id], trx, r)
  BY <1>8, <1>9, <1>10, <1>11, <1>12, <1>16, <1>17 DEF Appended, Due
<1> QED
  BY <1>4, <1>18 DEF Appends

\* So is burning one.
LEMMA BurnTokenAppends ==
  ASSUME TokenInv, TokenInv', NEW id \in Ids, NEW t \in TokenIds, NEW n, n = accounts[id].nonce,
         ValidTx(newBurnTokenTransaction(id, t, n)), Single(id, newBurnTokenTransaction(id, t, n))
  PROVE  Appends
<1>1. PICK trx : trx = newBurnTokenTransaction(id, t, n)
  OBVIOUS
<1>2. accounts \in [Ids -> AccountState] /\ accounts' \in [Ids -> AccountState]
  BY DEF TokenInv, TypesInv, Typed
<1>3. PICK r : r = accounts'[id]
  OBVIOUS
<1>4. accounts' = [accounts EXCEPT ![id] = r]
  BY <1>2, <1>3 DEF Single
<1>5. /\ OneEffect(accounts, accounts', id, t, "absent", -10) /\ Real(accounts[id].store[t])
      /\ r.chain = Append(accounts[id].chain, trx)
  BY <1>1, <1>2, <1>3, BurnTokenEffect
<1>6. r.nonce = accounts[id].nonce + 1 /\ r \in AccountState
  BY <1>2, <1>3, <1>5 DEF OneEffect, Leaves
<1>7. Outgoing(id, trx) /\ trx.nonce = accounts[id].nonce
  BY <1>1 DEF Outgoing, newBurnTokenTransaction, TokenTx
<1>8. Numbers(id, accounts[id], trx, r)
  BY <1>5, <1>6, <1>7 DEF Numbers
<1>9. Due(id, trx, 0, 0 - MBR_TOKEN_COST) /\ trx \in Transaction
  BY <1>1 DEF Due, Credit, Reserve, newBurnTokenTransaction, TokenTx, ValidTx
<1>10. PICK acc : acc = accounts[id]
  OBVIOUS
<1>11. acc \in AccountState /\ acc.balance \in Int /\ acc.mbr \in Int
  BY <1>2, <1>10 DEF AccountState
<1>12. /\ r.balance = acc.balance /\ r.mbr = acc.mbr + (-10)
       /\ r.store[t] = "absent" /\ \A u \in TokenIds \ {t} : r.store[u] = acc.store[u]
       /\ Real(acc.store[t])
  BY <1>2, <1>3, <1>5, <1>10 DEF OneEffect, Leaves
<1>13. ~Vacant(r.store[t]) /\ ~Vacant(acc.store[t])
  BY <1>12 DEF Vacant, Real
<1>14. Bit(Vacant(r.store[t])) = 0 /\ Bit(Vacant(acc.store[t])) = 0
  BY <1>13 DEF Bit
<1>15. r.mbr = acc.mbr + (0 - MBR_TOKEN_COST) + MBR_SLOT_COST * (Bit(Vacant(r.store[t])) - Bit(Vacant(acc.store[t])))
  BY <1>11, <1>12, <1>14 DEF MBR_SLOT_COST, MBR_TOKEN_COST
<1>16. Reserved(acc, 0 - MBR_TOKEN_COST, r)
  BY <1>12, <1>15 DEF Reserved
<1>17. Afforded(id, acc, trx, r)
  <2>1. Taken(id, trx) \in Nat
    BY <1>9, BlockNumbers
  <2> QED
    BY <1>11, <1>12, <2>1 DEF Afforded
<1>18. Appended(id, accounts[id], trx, r)
  BY <1>8, <1>9, <1>10, <1>11, <1>12, <1>16, <1>17 DEF Appended, Due
<1> QED
  BY <1>4, <1>18 DEF Appends

\* The first append of an operation.
LEMMA BeginAppends ==
  ASSUME TokenInv, TokenInv', NEW trx, First(trx), Asked(accounts, trx)
  PROVE  Appends
<1>1. PICK s : s = trx.sender
  OBVIOUS
<1>2. /\ trx.type \in TwoParty /\ s \in Ids /\ ValidTx(trx)
      /\ \E q : accounts' = [accounts EXCEPT ![s] = q] /\ FirstHalf(accounts[s], trx, q)
  BY <1>1, BeginEffect
<1>3. PICK q : accounts' = [accounts EXCEPT ![s] = q] /\ FirstHalf(accounts[s], trx, q)
  BY <1>2
<1>4. accounts[s] \in AccountState
  BY <1>2 DEF TokenInv, TypesInv, Typed
<1>5. PICK acc : acc = accounts[s]
  OBVIOUS
<1>6. /\ acc \in AccountState /\ FirstHalf(acc, trx, q)
      /\ trx.type = "Transfer" => trx.sender # trx.receiver
      /\ trx.type \in {"TransferToken", "ClawbackTokenTransfer"} => Real(acc.store[trx.token])
  BY <1>1, <1>3, <1>4, <1>5 DEF Asked
<1>7. Numbers(s, acc, trx, q)
  BY <1>1, <1>2, <1>6, FirstNumbers
<1>8. q.balance = acc.balance + Credit(s, trx) /\ Reserved(acc, Reserve(s, trx), q)
  BY <1>1, <1>2, <1>6, FirstBooks
<1>9. Afforded(s, acc, trx, q)
  <2>1. appendTransaction(trx.sender, acc, trx).ok
    BY <1>1, <1>5 DEF First
  <2> QED
    BY <1>1, <1>2, <1>6, <2>1, FirstAfforded
<1>10. Appended(s, acc, trx, q)
  BY <1>2, <1>7, <1>8, <1>9 DEF Appended, ValidTx
<1> QED
  BY <1>2, <1>3, <1>5, <1>10 DEF Appends

\* The second one.
LEMMA SecondLegAppends ==
  ASSUME TokenInv, SecondLeg
  PROVE  Appends
<1>1. CASE accounts' = accounts
  BY <1>1 DEF Appends
<1>2. CASE accounts' # accounts
  <2>1. PICK trx : trx = op.trx
    OBVIOUS
  <2>2. PICK d : d = trx.receiver
    OBVIOUS
  <2>3. /\ trx.type \in TwoParty /\ d \in Ids /\ trx.sender # trx.receiver /\ ValidTx(trx)
        /\ \E q : accounts' = [accounts EXCEPT ![d] = q] /\ SecondHalf(accounts[d], trx, q)
    BY <1>2, <2>1, <2>2, SecondEffect
  <2>4. PICK q : accounts' = [accounts EXCEPT ![d] = q] /\ SecondHalf(accounts[d], trx, q)
    BY <2>3
  <2>5. accounts[d] \in AccountState
    BY <2>3 DEF TokenInv, TypesInv, Typed
  <2>6. trx.type \in {"TransferToken", "ClawbackTokenTransfer"} => Real(trx.slot)
    <3>1. InFlight /\ TypesInv /\ Halfway
      BY TokenInvParts DEF SecondLeg, InFlight
    <3>2. Asked(before, trx)
      BY <2>1, <3>1, HalfwayShape
    <3> QED
      BY <3>2 DEF Asked
  <2>7. PICK acc : acc = accounts[d]
    OBVIOUS
  <2>8. acc \in AccountState /\ SecondHalf(acc, trx, q)
    BY <2>4, <2>5, <2>7
  <2>9. Numbers(d, acc, trx, q)
    BY <2>2, <2>3, <2>8, SecondNumbers
  <2>10. q.balance = acc.balance + Credit(d, trx) /\ Reserved(acc, Reserve(d, trx), q)
    BY <2>2, <2>3, <2>6, <2>8, SecondBooks
  <2>11. Afforded(d, acc, trx, q)
    BY <2>2, <2>3, <2>8, SecondAfforded
  <2>12. Appended(d, acc, trx, q)
    BY <2>3, <2>9, <2>10, <2>11 DEF Appended, ValidTx
  <2> QED
    BY <2>3, <2>4, <2>7, <2>12 DEF Appends
<1> QED
  BY <1>1, <1>2

\* Requests.
LEMMA ServeAppends ==
  ASSUME TokenInv, TokenInv', ServeRequest
  PROVE  Appends
<1> USE MinterAssumption
<1>k. accounts \in [Ids -> AccountState]
  BY DEF TokenInv, TypesInv, Typed
<1>1. ASSUME NEW id \in Ids, NEW x \in InitialBalances, CreateAccountWithKeys(id, x)
      PROVE  Appends
  <2>1. accounts' = IF x > 0
                    THEN [accounts EXCEPT ![id] = appendTransaction(id, @, newMintTransaction(id, x)).acc]
                    ELSE accounts
    BY <1>1 DEF CreateAccountWithKeys
  <2>2. CASE x > 0
    <3>1. accounts' = [accounts EXCEPT ![id] = appendTransaction(id, @, newMintTransaction(id, x)).acc]
      BY <2>1, <2>2
    <3> QED
      BY <1>k, <3>1, MintAppends, AmountsAssumption
  <2>3. CASE ~(x > 0)
    BY <2>1, <2>3 DEF Appends
  <2> QED
    BY <2>2, <2>3
<1>2. ASSUME NEW id \in Ids, NEW x \in Amounts, Mint(id, x)
      PROVE  Appends
  <2>1. accounts' = [accounts EXCEPT ![id] = appendTransaction(id, @, newMintTransaction(id, x)).acc]
    BY <1>k, <1>2 DEF Mint, Single
  <2> QED
    BY <1>k, <2>1, MintAppends, AmountsAssumption
<1>3. ASSUME NEW id \in Minters, NEW terms \in Terms, NEW n \in Nonces, MintToken(id, terms, n)
      PROVE  Appends
  <2> DEFINE t == [minter |-> id, nonce |-> n, terms |-> terms]
  <2>1. t \in TokenIds
    BY <1>3, MintedTokenId DEF MintToken, Ready
  <2>2. ValidTx(newMintTokenTransaction(id, t))
    BY <2>1, NewTokenTx DEF newMintTokenTransaction, TransactionType, SlotStates
  <2>3. Single(id, newMintTokenTransaction(id, t)) /\ id \in Ids
    BY <1>3 DEF MintToken
  <2> HIDE DEF t
  <2> QED
    BY <2>1, <2>2, <2>3, MintTokenAppends
<1>4. ASSUME NEW id \in Ids, NEW t \in TokenIds, NEW n \in Nonces, BurnToken(id, t, n)
      PROVE  Appends
  <2>1. ValidTx(newBurnTokenTransaction(id, t, n))
    BY NewTokenTx DEF newBurnTokenTransaction, TransactionType, SlotStates
  <2>2. Single(id, newBurnTokenTransaction(id, t, n)) /\ n = accounts[id].nonce
    BY <1>4 DEF BurnToken, Ready, GetNonce
  <2> QED
    BY <2>1, <2>2, BurnTokenAppends
<1>5. ASSUME NEW x, NEW y, NEW amount \in Amounts, NEW n, Transfer(x, y, amount, n)
      PROVE  Appends
  BY <1>5, BeginAppends, MoneyAsked
<1>6. ASSUME NEW x, NEW y, NEW t, NEW n,
             \/ TransferToken(x, y, t, n)
             \/ AuthorizeTokenTransfer(x, y, t, n)
             \/ UnauthorizeTokenTransfer(x, y, t, n)
             \/ ClawbackToken(x, y, t, n)
             \/ FreezeToken(x, y, t, n)
             \/ UnfreezeToken(x, y, t, n)
      PROVE  Appends
  BY <1>6, BeginAppends, TokenAsked
<1>7. ASSUME NEW x, NEW y, NEW t, ClawbackPanics(x, y, t)
      PROVE  Appends
  BY <1>7 DEF ClawbackPanics, Appends
<1>8. CASE UNCHANGED vars
  BY <1>8 DEF vars, Appends
<1> QED
  BY <1>1, <1>2, <1>3, <1>4, <1>5, <1>6, <1>7, <1>8 DEF ServeRequest, Refuse

-----------------------------------------------------------------------------
\* A ledger without accounts.
LEMMA FreshAudited == Audited(Fresh)
<1>1. ASSUME NEW id \in Ids PROVE CountsAt(id, Fresh[id])
  <2>1. Fresh[id].nonce = 0 /\ Fresh[id].chain = << >>
    BY DEF Fresh, newAccountWithPublicKey
  <2>2. Len(<< >>) = 0 /\ OutgoingIn(id, << >>, 0) = {}
    BY DEF OutgoingIn
  <2>3. Fresh[id].nonce = Cardinality(OutgoingIn(id, Fresh[id].chain, Len(Fresh[id].chain)))
    BY <2>1, <2>2, FS_EmptySet
  <2>4. 1 .. Len(Fresh[id].chain) = {}
    BY <2>1, <2>2
  <2> QED
    BY <2>3, <2>4 DEF CountsAt
<1>2. ASSUME NEW id \in Ids PROVE BooksAt(id, Fresh[id])
  <2>1. PICK acc : acc = Fresh[id]
    OBVIOUS
  <2>2. acc.balance = 0 /\ acc.mbr = 0 /\ acc.chain = << >> /\ acc.store = [t \in TokenIds |-> "absent"]
    BY <2>1 DEF Fresh, newAccountWithPublicKey
  <2>3. Movements(id, << >>) = << >> /\ Reservations(id, << >>) = << >>
    BY DEF Movements, Reservations
  <2>4. Vacancies(acc) = {}
    BY <2>2 DEF Vacancies
  <2>5. IsFiniteSet({}) /\ Cardinality({}) = 0
    BY FS_EmptySet
  <2> QED
    BY <2>1, <2>2, <2>3, <2>4, <2>5, TotalEmpty DEF BooksAt, MBR_SLOT_COST
<1>3. ASSUME NEW id \in Ids PROVE FundedAt(id, Fresh[id])
  <2>1. PICK acc : acc = Fresh[id]
    OBVIOUS
  <2>2. acc.balance = 0 /\ acc.mbr = 0 /\ acc.chain = << >>
    BY <2>1 DEF Fresh, newAccountWithPublicKey
  <2>3. Takings(id, << >>) = << >>
    BY DEF Takings
  <2> QED
    BY <2>1, <2>2, <2>3, TotalEmpty DEF FundedAt
<1> QED
  BY <1>1, <1>2, <1>3 DEF Audited

\* The accounts an operation may go back to are the ones it began with.
LEMMA BeforeKept == [Next]_vars => before' \in {before, accounts, Fresh}
<1>1. ASSUME NEW trx, First(trx) PROVE before' = accounts
  BY <1>1 DEF First
<1>2. ASSUME NEW id, NEW trx, Single(id, trx) PROVE before' = before
  BY <1>2 DEF Single
<1>3. ServeRequest => before' \in {before, accounts}
  <2>1. ASSUME NEW id, NEW x, CreateAccountWithKeys(id, x) \/ Mint(id, x) PROVE before' = before
    BY <1>2, <2>1 DEF CreateAccountWithKeys, Mint
  <2>2. ASSUME NEW id, NEW n, Refuse(id, n) PROVE before' = before
    BY <2>2 DEF Refuse, vars
  <2>3. ASSUME NEW id, NEW x, NEW n, MintToken(id, x, n) \/ BurnToken(id, x, n) PROVE before' = before
    BY <1>2, <2>3 DEF MintToken, BurnToken
  <2>4. ASSUME NEW from, NEW to, NEW t, NEW n,
               \/ Transfer(from, to, t, n)
               \/ TransferToken(from, to, t, n)
               \/ AuthorizeTokenTransfer(from, to, t, n)
               \/ UnauthorizeTokenTransfer(from, to, t, n)
               \/ ClawbackToken(from, to, t, n)
               \/ FreezeToken(from, to, t, n)
               \/ UnfreezeToken(from, to, t, n)
        PROVE  before' = accounts
    BY <1>1, <2>4 DEF Transfer, TransferToken, AuthorizeTokenTransfer, UnauthorizeTokenTransfer,
         ClawbackToken, FreezeToken, UnfreezeToken
  <2>5. ASSUME NEW from, NEW to, NEW t, ClawbackPanics(from, to, t) PROVE before' = before
    BY <2>5 DEF ClawbackPanics
  <2> QED
    BY <2>1, <2>2, <2>3, <2>4, <2>5 DEF ServeRequest
<1>4. SecondLeg \/ Rollback \/ Restart => before' \in {before, Fresh}
  BY DEF SecondLeg, Rollback, Restart
<1> QED
  BY <1>3, <1>4 DEF Next, vars

\* Every step keeps the invariant.
LEMMA AuditNext == AuditInv /\ [Next]_vars => AuditInv'
<1> SUFFICES ASSUME AuditInv, [Next]_vars PROVE AuditInv'
  OBVIOUS
<1>1. TokenInv /\ TokenInv' /\ Audited(accounts) /\ Audited(before)
  BY TokenNext DEF AuditInv
<1>2. Audited(before)'
  <2>1. PICK T : T = before'
    OBVIOUS
  <2>2. Audited(T)
    BY <1>1, <2>1, BeforeKept, FreshAudited
  <2> QED
    BY <2>1, <2>2
<1>3. ASSUME Appends PROVE Audited(accounts)'
  <2>1. PICK S : S = accounts
    OBVIOUS
  <2>2. PICK T : T = accounts'
    OBVIOUS
  <2>3. S \in [Ids -> AccountState] /\ Audited(S)
    BY <1>1, <2>1 DEF TokenInv, TypesInv, Typed
  <2>4. CASE T = S
    BY <2>2, <2>3, <2>4, AuditedPrime
  <2>5. CASE \E id \in Ids : \E trx, r : T = [S EXCEPT ![id] = r] /\ Appended(id, S[id], trx, r)
    <3>1. Audited(T)
      BY <2>3, <2>5, AppendAudited
    <3> QED
      BY <2>2, <3>1, AuditedPrime
  <2> QED
    BY <1>3, <2>1, <2>2, <2>4, <2>5 DEF Appends
<1>4. CASE ServeRequest
  BY <1>1, <1>2, <1>3, <1>4, ServeAppends DEF AuditInv
<1>5. CASE SecondLeg
  BY <1>1, <1>2, <1>3, <1>5, SecondLegAppends DEF AuditInv
<1>6. CASE Rollback
  BY <1>1, <1>2, <1>6, RollbackAudited DEF AuditInv
<1>7. CASE Restart
  <2>1. accounts' = Fresh
    BY <1>7 DEF Restart
  <2>2. Audited(accounts)'
    BY <2>1, FreshAudited, AuditedPrime
  <2> QED
    BY <1>1, <1>2, <2>2 DEF AuditInv
<1>8. CASE UNCHANGED vars
  <2>1. Appends
    BY <1>8 DEF vars, Appends
  <2> QED
    BY <1>1, <1>2, <1>3, <2>1 DEF AuditInv
<1> QED
  BY <1>4, <1>5, <1>6, <1>7, <1>8 DEF Next

\* The accounts count their outgoing transactions, and so do those that an
\* operation in flight may go back to.
THEOREM AuditInvariant == Spec => []AuditInv
<1>1. Init => AuditInv
  <2>1. Init => accounts = Fresh /\ before = Fresh
    BY DEF Init
  <2> QED
    BY <2>1, TokenInit, FreshAudited DEF AuditInv
<1> QED
  BY <1>1, AuditNext, PTL DEF Spec

\* The nonce of an account is the number of outgoing transactions in its chain,
\* and each of those carries the number of those before it (NonceCountsChain):
\* a signed request takes effect at most once and none is skipped, also when an
\* operation is refused by its second account and undone.
THEOREM NonceIsTheCount == Spec => []NonceCountsChain
<1>1. ASSUME AuditInv, NEW id \in Ids
      PROVE  /\ accounts[id].nonce = Count(id, LAMBDA b : Outgoing(id, b))
             /\ \A i \in Blocks(id) :
                   Outgoing(id, Block(id, i)) /\ Block(id, i).type # "Transfer" =>
                      Block(id, i).nonce =
                         Cardinality({j \in 1 .. (i - 1) : Outgoing(id, Block(id, j))})
  <2>1. CountsAt(id, accounts[id]) /\ accounts[id].chain \in Seq(Transaction)
    BY <1>1 DEF AuditInv, Audited, TokenInv, TypesInv, Typed, AccountState
  <2>2. Blocks(id) = 1 .. Len(accounts[id].chain)
    BY <2>1 DEF Blocks
  <2> QED
    BY <2>1, <2>2 DEF CountsAt, Numbered, OutgoingIn, Count, Block
<1>2. AuditInv => NonceCountsChain
  BY <1>1 DEF NonceCountsChain
<1> QED
  BY <1>2, AuditInvariant, PTL

\* An account's balance is what the money movements in its chain add up to
\* (BalanceAudit), in every state a reader can see.
THEOREM BalanceIsTheSum == Spec => []BalanceAudit
<1>1. AuditInv => BalanceAudit
  BY DEF AuditInv, Audited, BooksAt, BalanceAudit
<1> QED
  BY <1>1, AuditInvariant, PTL

\* An account's mbr is what its chain reserved for tokens and freezes plus the
\* cost of its open slots (MBRAudit), also during an operation and after it was
\* undone, the repeated authorization included.
THEOREM MBRIsTheSum == Spec => []MBRAudit
<1>1. ASSUME NEW id \in Ids PROVE Slots(id) = Vacancies(accounts[id])
  BY DEF Slots, Vacancies
<1>2. AuditInv => MBRAudit
  BY <1>1 DEF AuditInv, Audited, BooksAt, MBRAudit
<1> QED
  BY <1>2, AuditInvariant, PTL

\* The ledger's variables keep their types, and no account's nonce is ever
\* taken below zero (TypeOK), whatever is requested.
THEOREM TypeCorrect == Spec => []TypeOK
<1>1. ASSUME AuditInv, NEW id \in Ids PROVE accounts[id].nonce \in Nat
  <2>1. PICK c : c = accounts[id].chain
    OBVIOUS
  <2>2. accounts[id].nonce = Cardinality(OutgoingIn(id, c, Len(c))) /\ Len(c) \in Nat
    BY <1>1, <2>1 DEF AuditInv, Audited, CountsAt, TokenInv, TypesInv, Typed, AccountState
  <2> QED
    BY <2>2, Prefix
<1>2. AuditInv => TypeOK
  BY <1>1 DEF AuditInv, TokenInv, TypesInv, TypeOK
<1> QED
  BY <1>2, AuditInvariant, PTL

\* What an account is short of its MBR was taken from it by negative amounts
\* (Solvent), in every state a reader can see: no signed operation spends or
\* locks what is not there, between its two appends and while it is undone.
THEOREM AlwaysSolvent == Spec => []Solvent
<1>1. ASSUME AuditInv, NEW id \in Ids PROVE Means(id) >= 0
  <2>1. FundedAt(id, accounts[id]) /\ accounts[id].balance \in Int /\ accounts[id].mbr \in Int
    BY <1>1 DEF AuditInv, Audited, TokenInv, TypesInv, Typed, AccountState
  <2> QED
    BY <2>1 DEF FundedAt, Means, Available
<1>2. AuditInv => Solvent
  BY <1>1 DEF Solvent
<1> QED
  BY <1>2, AuditInvariant, PTL

\* A rollback that locks MBR again finds the balance for it (ReleaseCovered), but
\* for what negative amounts took.
THEOREM RollbackAffordable == Spec => []ReleaseCovered
<1>1. ASSUME AuditInv, InFlight,
             NEW cost \in Nat, accounts[op.trx.sender].mbr = before[op.trx.sender].mbr - cost,
             accounts[op.trx.sender].balance = before[op.trx.sender].balance,
             op.trx.type \in TwoParty \ {"Transfer"}
      PROVE  Means(op.trx.sender) >= cost
  <2>1. PICK s : s = op.trx.sender
    OBVIOUS
  <2>2. /\ s \in Ids /\ before[s] \in AccountState /\ op.trx \in Transaction
        /\ FirstHalf(before[s], op.trx, accounts[s])
    BY <1>1, <2>1, HalfwayShape, TokenInvParts, InFlightValid DEF AuditInv, TypesInv, Typed
  <2>3. accounts[s].chain = Append(before[s].chain, op.trx)
    BY <1>1, <2>2 DEF FirstHalf, Fields, TwoParty
  <2>4. PICK v : v = Takings(s, before[s].chain)
    OBVIOUS
  <2>5. v \in Seq(Int) /\ Takings(s, accounts[s].chain) = Append(v, 0)
    <3>1. Taken(s, op.trx) = 0
      BY <1>1 DEF Taken, TwoParty
    <3>2. before[s].chain \in Seq(Transaction)
      BY <2>2 DEF AccountState
    <3> QED
      BY <2>2, <2>3, <2>4, <3>1, <3>2, NumbersAppend
  <2>6. Total(Append(v, 0)) = Total(v) + 0
    BY <2>5, TotalAppend
  <2>7. Total(v) \in Nat /\ before[s].mbr <= before[s].balance + Total(v)
    BY <1>1, <2>2, <2>4 DEF AuditInv, Audited, FundedAt
  <2>8. before[s].mbr \in Int /\ before[s].balance \in Int
    BY <2>2 DEF AccountState
  <2>9. Means(s) = before[s].balance - (before[s].mbr - cost) + (Total(v) + 0)
    BY <1>1, <2>1, <2>5, <2>6 DEF Means, Available
  <2> QED
    BY <2>1, <2>7, <2>8, <2>9
<1>2. ASSUME AuditInv, InFlight
      PROVE  FirstHalf(before[op.trx.sender], op.trx, accounts[op.trx.sender])
  BY <1>2, HalfwayShape, TokenInvParts DEF AuditInv
<1>3. AuditInv /\ InFlight /\ op.trx.type = "UnauthorizeTokenTransfer" => Means(op.trx.sender) >= MBR_SLOT_COST
  BY <1>1, <1>2 DEF FirstHalf, Fields, MBR_SLOT_COST, TwoParty
<1>4. AuditInv /\ InFlight /\ op.trx.type = "UnfreezeToken" => Means(op.trx.sender) >= MBR_UNFREEZE_COST
  BY <1>1, <1>2 DEF FirstHalf, Fields, MBR_UNFREEZE_COST, TwoParty
<1>5. AuditInv => ReleaseCovered
  BY <1>3, <1>4 DEF ReleaseCovered
<1> QED
  BY <1>5, AuditInvariant, PTL

-----------------------------------------------------------------------------
(***************************************************************************)
(* The chains of two accounts.                                             *)
(***************************************************************************)
\* Chain e has the blocks of c that are about x and y, and no other such.
Retold(x, y, c, e) ==
    Shared(x, y, e) = Shared(x, y, c) /\ \A i \in Shared(x, y, c) : e[i] = c[i]

\* Block k of e, about x and y, comes after those of c.
Continued(x, y, c, e, k, trx) ==
    /\ Shared(x, y, e) = Shared(x, y, c) \cup {k}
    /\ e[k] = trx
    /\ \A i \in Shared(x, y, c) : i \in Nat /\ i < k /\ e[i] = c[i]

\* The blocks are finitely many.
LEMMA SharedFinite ==
  ASSUME NEW x, NEW y, NEW c \in Seq(Transaction)
  PROVE  IsFiniteSet(Shared(x, y, c)) /\ Shared(x, y, c) \subseteq 1 .. Len(c)
<1>1. Len(c) \in Nat /\ Shared(x, y, c) \subseteq 1 .. Len(c)
  BY DEF Shared
<1>2. IsFiniteSet(1 .. Len(c))
  BY <1>1, FS_Interval
<1> QED
  BY <1>1, <1>2, FS_Subset

\* An append is one or the other.
LEMMA AppendShared ==
  ASSUME NEW x, NEW y, NEW c \in Seq(Transaction), NEW trx
  PROVE  /\ {trx.sender, trx.receiver} # {x, y} => Retold(x, y, c, Append(c, trx))
         /\ {trx.sender, trx.receiver} = {x, y} => Continued(x, y, c, Append(c, trx), Len(c) + 1, trx)
<1>1. PICK n \in Nat : n = Len(c)
  OBVIOUS
<1>2. PICK e : e = Append(c, trx)
  OBVIOUS
<1>3. Len(e) = n + 1 /\ e[n + 1] = trx /\ \A i \in 1 .. n : e[i] = c[i]
  BY <1>1, <1>2
<1>4. \A i : i \in 1 .. n + 1 <=> i \in 1 .. n \/ i = n + 1
  OBVIOUS
<1>5. \A i : i \in Shared(x, y, e) <=> i \in Shared(x, y, c) \/ (i = n + 1 /\ {trx.sender, trx.receiver} = {x, y})
  BY <1>1, <1>3, <1>4 DEF Shared
<1>6. \A i \in Shared(x, y, c) : i \in Nat /\ i < n + 1 /\ e[i] = c[i]
  BY <1>1, <1>3 DEF Shared
<1>7. CASE {trx.sender, trx.receiver} # {x, y}
  <2>1. Shared(x, y, e) = Shared(x, y, c)
    BY <1>5, <1>7
  <2> QED
    BY <1>2, <1>6, <1>7, <2>1 DEF Retold
<1>8. CASE {trx.sender, trx.receiver} = {x, y}
  <2>1. Shared(x, y, e) = Shared(x, y, c) \cup {n + 1}
    BY <1>5, <1>8
  <2> QED
    BY <1>1, <1>2, <1>3, <1>6, <1>8, <2>1 DEF Continued
<1> QED
  BY <1>7, <1>8

\* Chains that tell the same go on doing so when nothing is added.
LEMMA RetoldSame ==
  ASSUME NEW x, NEW y, NEW c, NEW d, NEW e, NEW f, SameStory(x, y, c, d),
         Retold(x, y, c, e), Retold(x, y, d, f)
  PROVE  SameStory(x, y, e, f)
BY DEF SameStory, Retold, Rank

\* The ranks of the blocks before the new one stay, and it has the next one.
LEMMA RankAppend ==
  ASSUME NEW x, NEW y, NEW c \in Seq(Transaction), NEW e, NEW k \in Nat, NEW trx,
         Continued(x, y, c, e, k, trx)
  PROVE  /\ Cardinality(Shared(x, y, c)) \in Nat
         /\ Cardinality(Shared(x, y, e)) = Cardinality(Shared(x, y, c)) + 1
         /\ Rank(x, y, e, k) = Cardinality(Shared(x, y, c)) + 1
         /\ \A i \in Shared(x, y, c) : /\ Rank(x, y, e, i) = Rank(x, y, c, i)
                                       /\ Rank(x, y, c, i) \in Nat
                                       /\ Rank(x, y, c, i) <= Cardinality(Shared(x, y, c))
<1>1. PICK A : A = Shared(x, y, c)
  OBVIOUS
<1>2. PICK B : B = Shared(x, y, e)
  OBVIOUS
<1>3. B = A \cup {k} /\ (\A i \in A : i \in Nat /\ i < k) /\ k \notin A
  BY <1>1, <1>2 DEF Continued
<1>4. IsFiniteSet(A) /\ Cardinality(A) \in Nat
  BY <1>1, SharedFinite, FS_CardinalityType
<1>5. Cardinality(B) = Cardinality(A) + 1
  BY <1>3, <1>4, FS_AddElement
<1>6. {j \in B : j <= k} = B
  BY <1>3
<1>7. ASSUME NEW i \in A
      PROVE  /\ {j \in B : j <= i} = {j \in A : j <= i}
             /\ Cardinality({j \in A : j <= i}) \in Nat
             /\ Cardinality({j \in A : j <= i}) <= Cardinality(A)
  <2>1. i \in Nat /\ ~(k <= i)
    BY <1>3
  <2>2. {j \in B : j <= i} = {j \in A : j <= i}
    BY <1>3, <2>1
  <2>3. {j \in A : j <= i} \in SUBSET A
    OBVIOUS
  <2> QED
    BY <1>4, <2>2, <2>3, FS_Subset, FS_CardinalityType
<1> QED
  BY <1>1, <1>2, <1>4, <1>5, <1>6, <1>7 DEF Rank

\* Nor when the same block is added to both.
LEMMA ContinuedSame ==
  ASSUME NEW x, NEW y, NEW c \in Seq(Transaction), NEW d \in Seq(Transaction), NEW e, NEW f,
         SameStory(x, y, c, d), NEW k \in Nat, NEW l \in Nat, NEW trx,
         Continued(x, y, c, e, k, trx), Continued(x, y, d, f, l, trx)
  PROVE  SameStory(x, y, e, f)
<1>1. PICK n : n = Cardinality(Shared(x, y, c))
  OBVIOUS
<1>2. n = Cardinality(Shared(x, y, d))
  BY <1>1 DEF SameStory
<1>3. /\ n \in Nat /\ Cardinality(Shared(x, y, e)) = n + 1 /\ Rank(x, y, e, k) = n + 1
      /\ \A i \in Shared(x, y, c) : /\ Rank(x, y, e, i) = Rank(x, y, c, i)
                                    /\ Rank(x, y, c, i) \in Nat /\ Rank(x, y, c, i) <= n
  BY <1>1, RankAppend
<1>4. /\ Cardinality(Shared(x, y, f)) = n + 1 /\ Rank(x, y, f, l) = n + 1
      /\ \A i \in Shared(x, y, d) : /\ Rank(x, y, f, i) = Rank(x, y, d, i)
                                    /\ Rank(x, y, d, i) \in Nat /\ Rank(x, y, d, i) <= n
  BY <1>2, RankAppend
<1>5. ASSUME NEW i \in Shared(x, y, e), NEW j \in Shared(x, y, f), Rank(x, y, e, i) = Rank(x, y, f, j)
      PROVE  e[i] = f[j]
  <2>1. (i = k \/ i \in Shared(x, y, c)) /\ (j = l \/ j \in Shared(x, y, d))
    BY DEF Continued
  <2>2. CASE i = k /\ j = l
    BY <2>2 DEF Continued
  <2>3. CASE i \in Shared(x, y, c) /\ j \in Shared(x, y, d)
    <3>1. c[i] = d[j]
      BY <1>3, <1>4, <1>5, <2>3 DEF SameStory
    <3> QED
      BY <2>3, <3>1 DEF Continued
  <2>4. CASE i = k /\ j \in Shared(x, y, d)
    <3>1. Rank(x, y, f, j) = n + 1 /\ Rank(x, y, f, j) \in Nat /\ Rank(x, y, f, j) <= n
      BY <1>3, <1>4, <1>5, <2>4
    <3> QED
      BY <1>3, <3>1
  <2>5. CASE i \in Shared(x, y, c) /\ j = l
    <3>1. Rank(x, y, e, i) = n + 1 /\ Rank(x, y, e, i) \in Nat /\ Rank(x, y, e, i) <= n
      BY <1>3, <1>4, <1>5, <2>5
    <3> QED
      BY <1>3, <3>1
  <2> QED
    BY <2>1, <2>2, <2>3, <2>4, <2>5
<1> QED
  BY <1>3, <1>4, <1>5 DEF SameStory

\* The chains of accounts S agree.
Agreeing(S) == \A x, y \in Ids : x # y => SameStory(x, y, S[x].chain, S[y].chain)

\* A whole operation on two accounts adds its block to both.
LEMMA BothAgree ==
  ASSUME NEW S, NEW T, NEW trx, Both(S, T, trx), Agreeing(S)
  PROVE  Agreeing(T)
<1>1. PICK s \in Ids : s = trx.sender
  BY DEF Both
<1>2. PICK d \in Ids : d = trx.receiver
  BY DEF Both
<1>3. S \in [Ids -> AccountState] /\ s # d /\ \A x \in Ids \ {s, d} : T[x] = S[x]
  BY <1>1, <1>2 DEF Both
<1>4. T[s].chain = Append(S[s].chain, trx)
  BY <1>1 DEF Both, FirstHalf, Fields, TwoParty
<1>5. T[d].chain = Append(S[d].chain, trx)
  BY <1>2 DEF Both, SecondHalf, Fields, TwoParty
<1>6. \A x \in Ids : S[x].chain \in Seq(Transaction) /\ Len(S[x].chain) + 1 \in Nat
  <2>1. \A x \in Ids : S[x].chain \in Seq(Transaction)
    BY <1>3 DEF AccountState
  <2>2. \A c \in Seq(Transaction) : Len(c) + 1 \in Nat
    OBVIOUS
  <2> QED
    BY <2>1, <2>2
<1>7. ASSUME NEW x \in Ids, NEW y \in Ids, x # y
      PROVE  SameStory(x, y, T[x].chain, T[y].chain)
  <2>0. SameStory(x, y, S[x].chain, S[y].chain)
    BY <1>7 DEF Agreeing
  <2>1. CASE {s, d} = {x, y}
    <3>1. T[x].chain = Append(S[x].chain, trx) /\ T[y].chain = Append(S[y].chain, trx)
      BY <1>4, <1>5, <1>7, <2>1
    <3>2. {trx.sender, trx.receiver} = {x, y}
      BY <1>1, <1>2, <2>1
    <3>3. /\ Continued(x, y, S[x].chain, T[x].chain, Len(S[x].chain) + 1, trx)
          /\ Continued(x, y, S[y].chain, T[y].chain, Len(S[y].chain) + 1, trx)
      BY <1>6, <3>1, <3>2, AppendShared
    <3> QED
      BY <1>6, <2>0, <3>3, ContinuedSame
  <2>2. CASE {s, d} # {x, y}
    <3>1. {trx.sender, trx.receiver} # {x, y}
      BY <1>1, <1>2, <2>2
    <3>2. ASSUME NEW z \in Ids PROVE Retold(x, y, S[z].chain, T[z].chain)
      <4>1. CASE z \in {s, d}
        <5>1. T[z].chain = Append(S[z].chain, trx)
          BY <1>4, <1>5, <4>1
        <5> QED
          BY <1>6, <3>1, <5>1, AppendShared
      <4>2. CASE z \notin {s, d}
        <5>1. T[z] = S[z]
          BY <1>3, <4>2
        <5> QED
          BY <5>1 DEF Retold
      <4> QED
        BY <4>1, <4>2
    <3> QED
      BY <2>0, <3>2, RetoldSame
  <2> QED
    BY <2>1, <2>2
<1> QED
  BY <1>7 DEF Agreeing

\* A block that is about one account only is in nobody else's story.
LEMMA OneAgrees ==
  ASSUME NEW S \in [Ids -> AccountState], NEW id \in Ids, NEW trx, NEW r, Agreeing(S),
         None \in {trx.sender, trx.receiver}, r.chain = Append(S[id].chain, trx)
  PROVE  Agreeing([S EXCEPT ![id] = r])
<1>1. PICK T : T = [S EXCEPT ![id] = r]
  OBVIOUS
<1>2. \A x \in Ids : T[x] = IF x = id THEN r ELSE S[x]
  BY <1>1
<1>3. S[id].chain \in Seq(Transaction)
  BY DEF AccountState
<1>4. ASSUME NEW x \in Ids, NEW y \in Ids, NEW z \in Ids
      PROVE  Retold(x, y, S[z].chain, T[z].chain)
  <2>1. {trx.sender, trx.receiver} # {x, y}
    BY NoneAssumption
  <2>2. CASE z = id
    BY <1>2, <1>3, <2>1, <2>2, AppendShared
  <2>3. CASE z # id
    BY <1>2, <2>3 DEF Retold
  <2> QED
    BY <2>2, <2>3
<1>5. ASSUME NEW x \in Ids, NEW y \in Ids, x # y PROVE SameStory(x, y, T[x].chain, T[y].chain)
  <2>1. SameStory(x, y, S[x].chain, S[y].chain)
    BY <1>5 DEF Agreeing
  <2> QED
    BY <1>4, <2>1, RetoldSame
<1> QED
  BY <1>1, <1>5 DEF Agreeing

\* Agreeing(S), for S the settled accounts after a step.
LEMMA AgreeingPrime ==
  ASSUME NEW T, T = Settled', Agreeing(T)
  PROVE  Agreeing(Settled)'
BY DEF Agreeing

\* A step that leaves the settled accounts alone.
LEMMA KeptAgrees ==
  ASSUME Settled' = Settled, Agreeing(Settled)
  PROVE  Agreeing(Settled)'
BY AgreeingPrime

\* Money that comes in.
LEMMA MintAgrees ==
  ASSUME accounts \in [Ids -> AccountState], op.phase = "idle", op' = op, Agreeing(Settled),
         NEW id \in Ids, NEW x \in Int,
         accounts' = [accounts EXCEPT ![id] = appendTransaction(id, @, newMintTransaction(id, x)).acc]
  PROVE  Agreeing(Settled)'
<1>1. PICK trx : trx = newMintTransaction(id, x)
  OBVIOUS
<1>2. PICK r : r = appendTransaction(id, accounts[id], trx).acc
  OBVIOUS
<1>3. r.chain = Append(accounts[id].chain, trx)
  BY <1>1, <1>2, MintFields DEF Fields
<1>4. None \in {trx.sender, trx.receiver}
  BY <1>1 DEF newMintTransaction, MoneyTx
<1>5. accounts' = [accounts EXCEPT ![id] = r]
  BY <1>1, <1>2
<1>6. Settled = accounts /\ Settled' = accounts'
  BY DEF Settled, InFlight
<1>7. PICK S \in [Ids -> AccountState] : S = accounts
  OBVIOUS
<1>8. Agreeing(S) /\ r.chain = Append(S[id].chain, trx)
  BY <1>3, <1>6, <1>7
<1>9. Agreeing([S EXCEPT ![id] = r])
  BY <1>4, <1>8, OneAgrees
<1> QED
  BY <1>5, <1>6, <1>7, <1>9, AgreeingPrime

\* A token that is minted or burned.
LEMMA OneTokenAgrees ==
  ASSUME accounts \in [Ids -> AccountState], accounts' \in [Ids -> AccountState], op.phase = "idle",
         Agreeing(Settled), NEW id \in Ids, NEW trx, Single(id, trx),
         accounts'[id].chain = Append(accounts[id].chain, trx), None \in {trx.sender, trx.receiver}
  PROVE  Agreeing(Settled)'
<1>1. PICK r : r = accounts'[id]
  OBVIOUS
<1>2. accounts' = [accounts EXCEPT ![id] = r] /\ op' = op
  BY <1>1 DEF Single
<1>3. Settled = accounts /\ Settled' = accounts'
  BY <1>2 DEF Settled, InFlight
<1>4. PICK S \in [Ids -> AccountState] : S = accounts
  OBVIOUS
<1>5. Agreeing(S) /\ r.chain = Append(S[id].chain, trx)
  BY <1>1, <1>3, <1>4
<1>6. Agreeing([S EXCEPT ![id] = r])
  BY <1>5, OneAgrees
<1> QED
  BY <1>2, <1>3, <1>4, <1>6, AgreeingPrime

\* Requests.
LEMMA ServeAgrees ==
  ASSUME TokenInv, TokenInv', ServeRequest, Agreeing(Settled)
  PROVE  Agreeing(Settled)'
<1> USE MinterAssumption
<1>k. accounts \in [Ids -> AccountState] /\ accounts' \in [Ids -> AccountState] /\ op.phase = "idle"
  BY DEF TokenInv, TypesInv, Typed, ServeRequest
<1>1. ASSUME NEW id \in Ids, NEW x \in InitialBalances, CreateAccountWithKeys(id, x)
      PROVE  Agreeing(Settled)'
  <2>1. /\ op' = op /\ before' = before
        /\ accounts' = IF x > 0
                       THEN [accounts EXCEPT ![id] = appendTransaction(id, @, newMintTransaction(id, x)).acc]
                       ELSE accounts
    BY <1>1 DEF CreateAccountWithKeys
  <2>2. CASE x > 0
    <3>1. accounts' = [accounts EXCEPT ![id] = appendTransaction(id, @, newMintTransaction(id, x)).acc]
      BY <2>1, <2>2
    <3> QED
      BY <1>k, <2>1, <3>1, MintAgrees, AmountsAssumption
  <2>3. CASE ~(x > 0)
    <3>1. Settled' = Settled
      BY <2>1, <2>3 DEF Settled, InFlight
    <3> QED
      BY <3>1, KeptAgrees
  <2> QED
    BY <2>2, <2>3
<1>2. ASSUME NEW id \in Ids, NEW x \in Amounts, Mint(id, x)
      PROVE  Agreeing(Settled)'
  <2>1. /\ accounts' = [accounts EXCEPT ![id] = appendTransaction(id, @, newMintTransaction(id, x)).acc]
        /\ op' = op
    BY <1>k, <1>2 DEF Mint, Single
  <2> QED
    BY <1>k, <2>1, MintAgrees, AmountsAssumption
<1>3. ASSUME NEW id \in Minters, NEW terms \in Terms, NEW n \in Nonces, MintToken(id, terms, n)
      PROVE  Agreeing(Settled)'
  <2> DEFINE t == [minter |-> id, nonce |-> n, terms |-> terms]
  <2>1. t \in TokenIds
    BY <1>3, MintedTokenId DEF MintToken, Ready
  <2>2. ValidTx(newMintTokenTransaction(id, t))
    BY <2>1, NewTokenTx DEF newMintTokenTransaction, TransactionType, SlotStates
  <2>3. Single(id, newMintTokenTransaction(id, t)) /\ id \in Ids
    BY <1>3 DEF MintToken
  <2> HIDE DEF t
  <2>4. accounts'[id].chain = Append(accounts[id].chain, newMintTokenTransaction(id, t))
    BY <1>k, <2>1, <2>2, <2>3, MintTokenEffect
  <2>5. PICK trx : trx = newMintTokenTransaction(id, t)
    OBVIOUS
  <2>6. None \in {trx.sender, trx.receiver}
    BY <2>5 DEF newMintTokenTransaction, TokenTx
  <2> QED
    BY <1>k, <2>3, <2>4, <2>5, <2>6, OneTokenAgrees
<1>4. ASSUME NEW id \in Ids, NEW t \in TokenIds, NEW n \in Nonces, BurnToken(id, t, n)
      PROVE  Agreeing(Settled)'
  <2>1. ValidTx(newBurnTokenTransaction(id, t, n))
    BY NewTokenTx DEF newBurnTokenTransaction, TransactionType, SlotStates
  <2>2. Single(id, newBurnTokenTransaction(id, t, n))
    BY <1>4 DEF BurnToken
  <2>3. accounts'[id].chain = Append(accounts[id].chain, newBurnTokenTransaction(id, t, n))
    BY <1>k, <2>1, <2>2, BurnTokenEffect
  <2>4. PICK trx : trx = newBurnTokenTransaction(id, t, n)
    OBVIOUS
  <2>5. None \in {trx.sender, trx.receiver}
    BY <2>4 DEF newBurnTokenTransaction, TokenTx
  <2> QED
    BY <1>k, <2>2, <2>3, <2>4, <2>5, OneTokenAgrees
<1>5. ASSUME NEW x, NEW y, NEW amount \in Amounts, NEW n, Transfer(x, y, amount, n)
      PROVE  Agreeing(Settled)'
  BY <1>k, <1>5, BeginsHalfway, KeptAgrees, MoneyAsked
<1>6. ASSUME NEW x, NEW y, NEW t, NEW n,
             \/ TransferToken(x, y, t, n)
             \/ AuthorizeTokenTransfer(x, y, t, n)
             \/ UnauthorizeTokenTransfer(x, y, t, n)
             \/ ClawbackToken(x, y, t, n)
             \/ FreezeToken(x, y, t, n)
             \/ UnfreezeToken(x, y, t, n)
      PROVE  Agreeing(Settled)'
  BY <1>k, <1>6, BeginsHalfway, KeptAgrees, TokenAsked
<1>7. ASSUME NEW x, NEW y, NEW t, ClawbackPanics(x, y, t)
      PROVE  Agreeing(Settled)'
  <2>1. accounts' = accounts /\ op' = [op EXCEPT !.phase = "panicked"] /\ op \in [phase : Phases, trx : Transaction]
    BY <1>7 DEF ClawbackPanics, TokenInv, TypesInv, Typed
  <2>2. op'.phase = "panicked"
    BY <2>1
  <2>3. Settled' = Settled
    BY <1>k, <2>1, <2>2 DEF Settled, InFlight
  <2> QED
    BY <2>3, KeptAgrees
<1>8. CASE UNCHANGED vars
  <2>1. Settled' = Settled
    BY <1>8 DEF vars, Settled, InFlight
  <2> QED
    BY <2>1, KeptAgrees
<1> QED
  BY <1>1, <1>2, <1>3, <1>4, <1>5, <1>6, <1>7, <1>8 DEF ServeRequest, Refuse

\* Empty chains agree.
LEMMA FreshAgrees == Agreeing(Fresh)
<1>1. ASSUME NEW x \in Ids, NEW y \in Ids PROVE SameStory(x, y, Fresh[x].chain, Fresh[y].chain)
  <2>1. Fresh[x].chain = << >> /\ Fresh[y].chain = << >>
    BY DEF Fresh, newAccountWithPublicKey
  <2>2. Shared(x, y, << >>) = {}
    BY DEF Shared
  <2> QED
    BY <2>1, <2>2 DEF SameStory
<1> QED
  BY <1>1 DEF Agreeing

\* The settled accounts' chains agree, whatever is in flight.
AgreeInv == TokenInv /\ Agreeing(Settled)

\* Every step keeps that.
LEMMA AgreeNext == AgreeInv /\ [Next]_vars => AgreeInv'
<1> SUFFICES ASSUME AgreeInv, [Next]_vars PROVE Agreeing(Settled)'
  BY TokenNext DEF AgreeInv
<1>1. TokenInv /\ TokenInv' /\ Agreeing(Settled)
  BY TokenNext DEF AgreeInv
<1>2. TypesInv /\ TypesInv' /\ Halfway
  BY <1>1 DEF TokenInv
<1>3. CASE ServeRequest
  BY <1>1, <1>3, ServeAgrees
<1>4. CASE SecondLeg
  <2>1. PICK T : T = Settled'
    OBVIOUS
  <2>2. Settled' = Settled \/ Both(Settled, T, op.trx)
    BY <1>2, <1>4, <2>1, SecondSettles
  <2> QED
    BY <1>1, <2>1, <2>2, BothAgree, KeptAgrees, AgreeingPrime
<1>5. CASE Rollback
  <2>1. /\ Settled = before /\ Settled' = accounts'
        /\ before \in [Ids -> AccountState]
        /\ accounts' = before \/ \E s \in Ids : \E t, q : accounts' = [before EXCEPT ![s] = q] /\ Lapsed(before[s], t, q)
    BY <1>2, <1>5, RollbackSettles
  <2>2. PICK S : S = before
    OBVIOUS
  <2>3. PICK T : T = accounts'
    OBVIOUS
  <2>4. \A x \in Ids : T[x].chain = S[x].chain
    BY <2>1, <2>2, <2>3 DEF Lapsed, Fields
  <2>5. Agreeing(T)
    BY <1>1, <2>1, <2>2, <2>4 DEF Agreeing
  <2> QED
    BY <2>1, <2>3, <2>5, AgreeingPrime
<1>6. CASE Restart
  <2>1. Settled' = Fresh
    BY <1>6 DEF Restart, Settled, InFlight, Idle
  <2> QED
    BY <2>1, FreshAgrees, AgreeingPrime
<1>7. CASE UNCHANGED vars
  <2>1. Settled' = Settled
    BY <1>7 DEF vars, Settled, InFlight
  <2> QED
    BY <1>1, <2>1, KeptAgrees
<1> QED
  BY <1>3, <1>4, <1>5, <1>6, <1>7 DEF Next

\* Between operations the chains of any two accounts record the same transactions
\* between them in the same order (ChainsAgree): an operation leaves its block on
\* both chains or on none.
THEOREM ChainsTellTheSame == Spec => []ChainsAgree
<1>1. Init => AgreeInv
  <2>1. Init => Settled = Fresh
    BY DEF Init, Settled, InFlight, Idle
  <2> QED
    BY <2>1, TokenInit, FreshAgrees DEF AgreeInv
<1>2. AgreeInv => ChainsAgree
  BY SettledIdle DEF AgreeInv, Agreeing, ChainsAgree
<1> QED
  BY <1>1, <1>2, AgreeNext, PTL DEF Spec
=============================================================================
