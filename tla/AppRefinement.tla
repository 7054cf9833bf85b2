---------------------------- MODULE AppRefinement ----------------------------
(***************************************************************************)
(* App implements TokenLedger: an operation made of two appends, or of an  *)
(* append, a refusal and a rollback, is one step of the abstract ledger or *)
(* none.                                                                   *)
(***************************************************************************)
EXTENDS AppProperties

\* The accounts an operation in flight has not touched yet: it takes effect, as
\* seen from outside, when the second account has agreed.
Settled == IF InFlight THEN before ELSE accounts

\* What TokenLedger sees of accounts S.
Money(S)  == [id \in Ids |-> S[id].balance]
Owned(S)  == {p \in Ids \X TokenIds : Real(S[p[1]].store[p[2]])}
Open(S)   == {p \in Ids \X TokenIds : S[p[1]].store[p[2]] = "placeholder"}
Frozen(S) == {t \in TokenIds : \E id \in Ids : S[id].store[t] = "frozen"}
Sent(S)   == [id \in Ids |-> S[id].nonce]

Abstract == INSTANCE TokenLedger
              WITH known   <- created,
                   money   <- Money(Settled),
                   owned   <- Owned(Settled),
                   slots   <- Open(Settled),
                   frozen  <- Frozen(Settled),
                   sent    <- Sent(Settled),
                   Credits <- InitialBalances \cup Amounts

\* Every operation of app.go is atomic to its users: whatever the order of
\* appends, refusals and rollbacks, accounts change as by one abstract operation
\* or not at all; each effect uses up exactly one number of the account that
\* signs for it.
ImplementsTokenLedger == Abstract!Spec
=============================================================================
